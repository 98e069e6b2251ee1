------------------------------ MODULE LruCache ------------------------------
(***************************************************************************)
(* What cachelab/csim.c promises: a set-associative cache with E lines per *)
(* set and least-recently-used replacement, as a sequence of tags per set, *)
(* the most recently used first.                                           *)
(***************************************************************************)
EXTENDS Integers, SequencesExt

VARIABLES
  E,           \* the number of lines, which never changes
  recent,      \* for each set, its tags from the last used to the first
  hits, misses, evictions

vars == <<E, recent, hits, misses, evictions>>

Init ==
  /\ E \in Nat \ {0}
  /\ \A k \in DOMAIN recent : recent[k] = <<>>
  /\ hits = 0 /\ misses = 0 /\ evictions = 0

(* A load or store (n = 1), or a modify, which is a load and a store.      *)
Access(k, tag, n) ==
  LET old == recent[k]
  IN  \/ /\ Contains(old, tag)
         /\ recent' = [recent EXCEPT ![k] = <<tag>> \o RemoveFirst(old, tag)]
         /\ hits' = hits + n
         /\ UNCHANGED <<misses, evictions>>
      \/ /\ ~Contains(old, tag)
         /\ recent' = [recent EXCEPT ![k] = <<tag>> \o
                         (IF Len(old) = E THEN Front(old) ELSE old)]
         /\ hits' = hits + (n - 1)
         /\ misses' = misses + 1
         /\ evictions' = evictions + (IF Len(old) = E THEN 1 ELSE 0)

(* Some tag is accessed; it is then the last used one of its set. *)
Next ==
  /\ E' = E
  /\ \E k \in DOMAIN recent, n \in {1, 2} :
       recent'[k] # <<>> /\ Access(k, Head(recent'[k]), n)

Spec == Init /\ [][Next]_vars
=============================================================================
