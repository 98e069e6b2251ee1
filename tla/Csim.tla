-------------------------------- MODULE Csim --------------------------------
(***************************************************************************)
(* The cache simulator of cachelab/csim.c.  Each record of a trace is one  *)
(* step; Trans has the traces.  The lines come from malloc and are never    *)
(* initialised: Fresh is what a line may hold at first.  The counters need *)
(* its valid field to be 0, and nothing of the other two.                  *)
(***************************************************************************)
EXTENDS Integers, SequencesExt

CONSTANTS
  Options,     \* the values of the options -s, -E and -b, as records
  Addrs,       \* addresses of the trace
  Fresh,       \* contents of memory that malloc returns, as lines
  MAXOPS       \* records in a trace

(* That powers of 2 are positive is for the provers, which know no more of *)
(* them than that they are integers.                                       *)
ASSUME CsimAssumption ==
  /\ \A o \in Options : {o.s, o.b} \subseteq Nat /\ o.E \in Nat \ {0}
  /\ \A o \in Options : \A n \in {o.s, o.b, o.b + o.s} : 2^n > 0
  /\ MAXOPS \in Nat /\ Addrs \subseteq Nat
  /\ Fresh \subseteq [valid : BOOLEAN, lru_counter : Int, tag : Nat]
  /\ \A f \in Fresh : ~f.valid

VARIABLES opt, cache, hits, misses, evictions, ops

csimVars == <<opt, cache, hits, misses, evictions, ops>>

SetIds == 0 .. (2^opt.s - 1)
Lines  == 1 .. opt.E

set(addr) == (addr \div 2^opt.b) % 2^opt.s
tag(addr) == addr \div 2^(opt.b + opt.s)
-----------------------------------------------------------------------------
(* The loop over the lines of a set.  It stops at the first empty line     *)
(* unless it has found the tag before that line.                           *)

FirstOf(S) == CHOOSE i \in S : \A j \in S : i <= j

Matches(row, t) == {i \in Lines : row[i].valid /\ row[i].tag = t}
Empty(row)      == {i \in Lines : ~row[i].valid}
IsHit(row, t)   == \E i \in Matches(row, t) : \A j \in Empty(row) : j > i

Aged(line)  == [line EXCEPT !.lru_counter = @ + 1]
Filled(t)   == [valid |-> TRUE, lru_counter |-> 0, tag |-> t]

HitRow(row, t) ==
  [i \in Lines |-> IF i \in Matches(row, t) THEN [row[i] EXCEPT !.lru_counter = 0]
                   ELSE IF row[i].valid THEN Aged(row[i]) ELSE row[i]]

FillRow(row, t) ==
  LET empty_index == FirstOf(Empty(row))
  IN  [i \in Lines |-> IF i = empty_index THEN Filled(t)
                       ELSE IF i < empty_index THEN Aged(row[i]) ELSE row[i]]

\* Mutant: the victim is always the first line.
lru_index_First(row) == 1

(* The first line with the largest count, if that is above -1. *)
lru_index(row) ==
  LET oldest == {i \in Lines : /\ row[i].lru_counter + 1 > -1
                               /\ \A j \in Lines : row[j].lru_counter <= row[i].lru_counter}
  IN  IF oldest = {} THEN 1 ELSE FirstOf(oldest)

EvictRow(row, t) ==
  [i \in Lines |-> IF i = lru_index(row) THEN Filled(t) ELSE Aged(row[i])]
-----------------------------------------------------------------------------
CsimInit(options) ==
  /\ opt \in options
  /\ cache \in [SetIds -> [Lines -> Fresh]]
  /\ hits = 0 /\ misses = 0 /\ evictions = 0 /\ ops = 0

Record == ops' = ops + 1 /\ UNCHANGED opt

(* An M record counts one hit more. *)
Extra(id) == IF id = "M" THEN 1 ELSE 0

(* A record with id I is an instruction fetch. *)
Skip == Record /\ UNCHANGED <<cache, hits, misses, evictions>>

Hit(id, addr) ==
  LET row == cache[set(addr)]
      t   == tag(addr)
  IN  /\ Record
      /\ IsHit(row, t)
      /\ cache' = [cache EXCEPT ![set(addr)] = HitRow(row, t)]
      /\ hits' = hits + Cardinality(Matches(row, t)) * (1 + Extra(id))
      /\ UNCHANGED <<misses, evictions>>

Fill(id, addr) ==
  LET row == cache[set(addr)]
  IN  /\ Record
      /\ ~IsHit(row, tag(addr)) /\ Empty(row) # {}
      /\ cache' = [cache EXCEPT ![set(addr)] = FillRow(row, tag(addr))]
      /\ misses' = misses + 1
      /\ hits' = hits + Extra(id)
      /\ UNCHANGED evictions

\* Mutant: an eviction is not counted as a miss, nor a modify's store as a hit.
Evict_NoStore(id, addr) ==
  LET row == cache[set(addr)]
  IN  /\ Record
      /\ ~IsHit(row, tag(addr)) /\ Empty(row) = {}
      /\ cache' = [cache EXCEPT ![set(addr)] = EvictRow(row, tag(addr))]
      /\ evictions' = evictions + 1
      /\ UNCHANGED <<hits, misses>>

Evict(id, addr) ==
  LET row == cache[set(addr)]
  IN  /\ Record
      /\ ~IsHit(row, tag(addr)) /\ Empty(row) = {}
      /\ cache' = [cache EXCEPT ![set(addr)] = EvictRow(row, tag(addr))]
      /\ misses' = misses + 1
      /\ evictions' = evictions + 1
      /\ hits' = hits + Extra(id)

(* A record with id L, S or M. *)
Access(id, addr) == Hit(id, addr) \/ Fill(id, addr) \/ Evict(id, addr)

(* Any trace of MAXOPS records. *)
AnyRecord ==
  /\ ops < MAXOPS
  /\ Skip \/ \E id \in {"L", "S", "M"}, addr \in Addrs : Access(id, addr)
-----------------------------------------------------------------------------
(* Every valid line was filled by a miss and not evicted since: the lines  *)
(* in use and the counters that printSummary prints agree.                 *)
LinesAreAccountedFor ==
  misses - evictions = Cardinality({l \in SetIds \X Lines : cache[l[1]][l[2]].valid})

(* The simulator implements the LRU cache: its counters order the lines of *)
(* a set by last use, whatever mix of hits, fills and evictions there was. *)
Recency(row) ==
  LET inUse == {i \in Lines : row[i].valid}
      newer(i) == {j \in inUse : row[j].lru_counter < row[i].lru_counter}
  IN  [k \in 1 .. Cardinality(inUse) |->
         row[CHOOSE i \in inUse : Cardinality(newer(i)) = k - 1].tag]

Lru == INSTANCE LruCache WITH E <- opt.E, recent <- [k \in SetIds |-> Recency(cache[k])]

ImplementsLru == Lru!Spec
=============================================================================
