------------------------------- MODULE Proxy -------------------------------
(***************************************************************************)
(* The caching web proxy of proxylab/proxy.c.  Every connection has its    *)
(* own thread; all threads share, without a lock, one list of headers,     *)
(* which no thread ever empties, one list of cached responses and the      *)
(* count of the bytes in it.                                               *)
(*                                                                         *)
(* A walk along a list, and the few assignments that fill or unlink an     *)
(* item, are one step each; cache_volume += and -= are a read and a write. *)
(* clock() counts the CPU time and may return the same value again.        *)
(* What malloc returns to create_cache is all zeros.  Requests are         *)
(* well-formed GETs of an absolute http:// URI.                            *)
(***************************************************************************)
EXTENDS Integers, SequencesExt, FiniteSetsExt

CONSTANTS
  N,                \* connections, numbered in the order of Accept
  Requests,         \* [hostname, path, lines: the names of its header lines]
  Replies,          \* what a server may send: [size, text: it has no NUL byte]
  Overlap,          \* how many connections are open at a time
  MAX_CACHE_SIZE,
  MAX_OBJECT_SIZE,
  NULL

(* The strings: STRING has them all, but the provers do not know that the   *)
(* literals of this module are in it.                                      *)
Text == STRING \cup {"", "Host", "User-Agent", "Connection", "Proxy-Connection", "done"}

ASSUME ProxyAssumption ==
  /\ N \in Nat /\ Overlap \in Nat \ {0}
  /\ MAX_OBJECT_SIZE \in Nat /\ MAX_CACHE_SIZE \in Nat
  /\ MAX_OBJECT_SIZE <= MAX_CACHE_SIZE
  /\ \A r \in Replies : r.size \in Nat /\ r.text \in BOOLEAN
  /\ \A r \in Requests : /\ {r.hostname, r.path} \subseteq Text /\ r.path # ""
                         /\ r.lines \in Seq(Text)
  /\ NULL \notin Nat \cup [by : Nat, name : Text, data : Text, nth : Nat]

VARIABLES
  headers,          \* the headers linked from root_header
  cache,            \* the items linked from root_cache, each by its maker
  item,             \* the CachedItem each thread has made
  cache_volume,
  clock,
  thread            \* the locals of each thread

vars == <<headers, cache, item, cache_volume, clock, thread>>

Threads == 1 .. N

NoItem   == [hostname |-> "", path |-> "", size |-> 0, data |-> NULL, access_time |-> 0]
NoThread == [pc |-> "none", req |-> NULL, lines |-> <<>>, next |-> "", name |-> "", last |-> NULL,
             header_host |-> "", target |-> NULL, eviction |-> NULL, volume |-> 0, reply |-> NULL]

(* A segmentation fault of one thread ends the process. *)
At(t, where)   == /\ thread[t].pc = where
                  /\ \A u \in Threads : thread[u].pc # "segfault"
Goto(t, where) == thread' = [thread EXCEPT ![t].pc = where]
Busy(t) == thread[t].pc \notin {"none", "closed"}
-----------------------------------------------------------------------------
Init ==
  /\ headers = <<>> /\ cache = <<>>
  /\ item = [t \in Threads |-> NoItem]
  /\ cache_volume = 0 /\ clock = 0
  /\ thread = [t \in Threads |-> NoThread]

(* main accepts and starts a thread, which reads the request line. *)
Accept(t, r) ==
  /\ At(t, "none")
  /\ \A u \in 1 .. (t - 1) : thread[u].pc # "none"
  /\ Cardinality({u \in Threads : Busy(u)}) < Overlap
  /\ thread' = [thread EXCEPT ![t].pc = "read", ![t].req = r, ![t].lines = r.lines]
  /\ UNCHANGED <<headers, cache, item, cache_volume, clock>>

(* The loop of client_handler: parse_header makes a header, which          *)
(* insert_header appends, or drops a line that is not one.                 *)
ReadLine(t) ==
  LET lines == thread[t].lines
  IN  /\ At(t, "read")
      /\ \/ /\ lines = <<>>
            /\ thread' = [thread EXCEPT ![t].pc = "init", ![t].next = "Host"]
         \/ /\ lines # <<>> /\ Head(lines) = "bad"
            /\ thread' = [thread EXCEPT ![t].lines = Tail(lines)]
         \/ /\ lines # <<>> /\ Head(lines) # "bad"
            /\ thread' = [thread EXCEPT ![t].pc = "insert", ![t].lines = Tail(lines),
                                        ![t].name = Head(lines)]
      /\ UNCHANGED <<headers, cache, item, cache_volume, clock>>

(* The list once last->next = x; x is its root if last is NULL. *)
Appended(list, last, x) ==
  CASE last = NULL -> <<x>>
    [] last # NULL /\ Contains(list, last) ->
         SubSeq(list, 1, SelectInSeq(list, LAMBDA y : y = last)) \o <<x>>
    [] OTHER -> list

LastOf(list) == IF list = <<>> THEN NULL ELSE Last(list)

(* insert_header: get_last_header, or NULL while there is no header, and   *)
(* then the assignment that links the new one.  Whatever was linked after  *)
(* last in between is no longer on the list.                               *)
FindLast(t) ==
  /\ At(t, "insert")
  /\ thread' = [thread EXCEPT ![t].pc = "link",
                              ![t].last = LastOf(headers)]
  /\ UNCHANGED <<headers, cache, item, cache_volume, clock>>

NewHeader(t) ==
  [by |-> t, name |-> thread[t].name, data |-> thread[t].req.hostname,
   nth |-> IF thread[t].next = "" THEN Len(thread[t].lines) + 1 ELSE 0]

Link(t) ==
  /\ At(t, "link")
  /\ headers' = Appended(headers, thread[t].last, NewHeader(t))
  /\ Goto(t, IF thread[t].next = "" THEN "read" ELSE "init")
  /\ UNCHANGED <<cache, item, cache_volume, clock>>

(* init_header adds each of these that no thread has sent yet. *)
Defaults == <<"Host", "User-Agent", "Connection", "Proxy-Connection">>

After(name) == LET k == SelectInSeq(Defaults, LAMBDA x : x = name)
               IN  IF k = Len(Defaults) THEN "done" ELSE Defaults[k + 1]

(* The first header of that name, as a set of at most one. *)
get_header_by_key(name) ==
  LET k == SelectInSeq(headers, LAMBDA h : h.name = name)
  IN  IF k = 0 THEN {} ELSE {headers[k]}

InitHeader(t) ==
  LET name == thread[t].next
  IN  /\ At(t, "init")
      /\ \/ /\ name = "done" /\ Goto(t, "search")
         \/ /\ name # "done" /\ get_header_by_key(name) # {}
            /\ thread' = [thread EXCEPT ![t].next = After(name)]
         \/ /\ name # "done" /\ get_header_by_key(name) = {}
            /\ thread' = [thread EXCEPT ![t].pc = "insert", ![t].name = name,
                                        ![t].next = After(name)]
      /\ UNCHANGED <<headers, cache, item, cache_volume, clock>>
-----------------------------------------------------------------------------
\* Mutant: the path is not compared.
search_cache_AnyPath(path, hostname) ==
  LET k == SelectInSeq(cache, LAMBDA i : item[i].hostname = hostname)
  IN  IF k = 0 THEN {} ELSE {cache[k]}

\* Mutant: only the last item is compared.
search_cache_LastOnly(path, hostname) ==
  LET k == SelectInSeq(cache, LAMBDA i :
             i = Last(cache) /\ item[i].path = path /\ item[i].hostname = hostname)
  IN  IF k = 0 THEN {} ELSE {cache[k]}

(* The first item for that path and host, as a set of at most one. *)
search_cache(path, hostname) ==
  LET k == SelectInSeq(cache, LAMBDA i : item[i].path = path /\ item[i].hostname = hostname)
  IN  IF k = 0 THEN {} ELSE {cache[k]}

(* server_handler, up to the first write. *)
Search(t) ==
  LET hosts == get_header_by_key("Host")
      host  == IF hosts = {} THEN "" ELSE (CHOOSE h \in hosts : TRUE).data
      found == search_cache(thread[t].req.path, host)
  IN  /\ At(t, "search")
      /\ thread' = [thread EXCEPT
           ![t].pc = CASE hosts = {} -> "segfault"
                       [] hosts # {} /\ found # {} -> "hit"
                       [] OTHER -> "send",
           ![t].target = IF found = {} THEN NULL ELSE CHOOSE i \in found : TRUE,
           ![t].header_host = host]
      /\ UNCHANGED <<headers, cache, item, cache_volume, clock>>

\* Mutant: a hit does not call update_time.
Hit_NoUpdate(t) ==
  /\ At(t, "hit")
  /\ thread' = [thread EXCEPT ![t].pc = "closed", ![t].reply = item[thread[t].target].data]
  /\ UNCHANGED <<headers, cache, item, cache_volume, clock>>

(* The item is written to the client, its time is updated, and the         *)
(* connection closed.                                                      *)
Hit(t) ==
  LET i == thread[t].target
  IN  /\ At(t, "hit")
      /\ thread' = [thread EXCEPT ![t].pc = "closed", ![t].reply = item[i].data]
      /\ clock' \in {clock, clock + 1}
      /\ item' = [item EXCEPT ![i].access_time = clock']
      /\ UNCHANGED <<headers, cache, cache_volume>>

(* send_request, up to the loop that evicts: the server's reply goes to    *)
(* the client, and into cache_buf if it is small enough.                   *)
Send(t, r) ==
  /\ At(t, "send")
  /\ thread' = [thread EXCEPT
       ![t].pc = IF r.size <= MAX_OBJECT_SIZE THEN "store" ELSE "closed",
       ![t].reply = [host |-> thread[t].req.hostname, path |-> thread[t].req.path,
                     size |-> r.size, text |-> r.text, whole |-> TRUE]]
  /\ UNCHANGED <<headers, cache, item, cache_volume, clock>>

(* The first of the items with the least access_time. *)
LRU ==
  LET k == SelectInSeq(cache, LAMBDA i :
             \A j \in Range(cache) : item[i].access_time <= item[j].access_time)
  IN  cache[k]

(* The test of the loop that makes room, and the choice of the victim.     *)
(* LRU reads an item even when there is none.                              *)
ChooseVictim(t) ==
  /\ At(t, "store")
  /\ cache_volume + thread[t].reply.size > MAX_CACHE_SIZE
  /\ IF cache = <<>> THEN Goto(t, "segfault")
     ELSE thread' = [thread EXCEPT ![t].pc = "delete", ![t].eviction = LRU]
  /\ UNCHANGED <<headers, cache, item, cache_volume, clock>>

(* delete_cache walks past the end of the list for an item that is not on  *)
(* it.  It unlinks the one it finds and reads cache_volume.                *)
delete_cache(t) ==
  LET e == thread[t].eviction
  IN  /\ At(t, "delete")
      /\ IF Contains(cache, e)
         THEN thread' = [thread EXCEPT ![t].pc = "subtract", ![t].volume = cache_volume]
         ELSE Goto(t, "segfault")
      /\ cache' = RemoveFirst(cache, e)
      /\ UNCHANGED <<headers, item, cache_volume, clock>>

\* Mutant: cache_volume is not reduced.
Subtract_Nothing(t) ==
  /\ At(t, "subtract")
  /\ item' = [item EXCEPT ![thread[t].eviction] = NoItem]
  /\ Goto(t, "store")
  /\ UNCHANGED <<headers, cache, cache_volume, clock>>

(* The end of delete_cache: the write of cache_volume, and free. *)
Subtract(t) ==
  LET e == thread[t].eviction
  IN  /\ At(t, "subtract")
      /\ cache_volume' = thread[t].volume - item[e].size
      /\ item' = [item EXCEPT ![e] = NoItem]
      /\ Goto(t, "store")
      /\ UNCHANGED <<headers, cache, clock>>

(* create_cache: the walk to the last item, and the assignment that links  *)
(* the new one.                                                            *)
create_cache(t) ==
  /\ At(t, "store")
  /\ cache_volume + thread[t].reply.size <= MAX_CACHE_SIZE
  /\ thread' = [thread EXCEPT ![t].pc = "linkitem", ![t].last = LastOf(cache)]
  /\ UNCHANGED <<headers, cache, item, cache_volume, clock>>

LinkItem(t) ==
  /\ At(t, "linkitem")
  /\ cache' = Appended(cache, thread[t].last, t)
  /\ Goto(t, "fill")
  /\ UNCHANGED <<headers, item, cache_volume, clock>>

(* The new item is filled, and cache_volume read.  safe_strncpy copies a   *)
(* string: what follows the first NUL byte of the reply is not copied.     *)
Fill(t) ==
  LET r == thread[t].reply
  IN  /\ At(t, "fill")
      /\ item' = [item EXCEPT ![t] =
                   [hostname |-> thread[t].header_host, path |-> thread[t].req.path, size |-> r.size,
                    data |-> [r EXCEPT !.whole = r.text], access_time |-> 0]]
      /\ thread' = [thread EXCEPT ![t].pc = "add", ![t].volume = cache_volume]
      /\ UNCHANGED <<headers, cache, cache_volume, clock>>

\* Mutant: the new size is assigned to cache_volume, not added.
Add_Assigns(t) ==
  /\ At(t, "add")
  /\ cache_volume' = thread[t].reply.size
  /\ clock' \in {clock, clock + 1}
  /\ item' = [item EXCEPT ![t].access_time = clock']
  /\ Goto(t, "closed")
  /\ UNCHANGED <<headers, cache>>

(* The end of send_request: the write of cache_volume, update_time, and    *)
(* the connections closed.                                                 *)
Add(t) ==
  /\ At(t, "add")
  /\ cache_volume' = thread[t].volume + thread[t].reply.size
  /\ clock' \in {clock, clock + 1}
  /\ item' = [item EXCEPT ![t].access_time = clock']
  /\ Goto(t, "closed")
  /\ UNCHANGED <<headers, cache>>

Step(t) ==
  \/ ReadLine(t) \/ FindLast(t) \/ Link(t) \/ InitHeader(t) \/ Search(t) \/ Hit(t)
  \/ (\E r \in Replies : Send(t, r))
  \/ ChooseVictim(t) \/ delete_cache(t) \/ Subtract(t) \/ create_cache(t) \/ LinkItem(t)
  \/ Fill(t) \/ Add(t)

Next == \E t \in Threads : Step(t) \/ \E r \in Requests : Accept(t, r)

Spec == Init /\ [][Next]_vars

(* A thread runs on: servers answer and clients send what they announce.   *)
FairSpec == Spec /\ \A t \in Threads : WF_vars(Step(t))
-----------------------------------------------------------------------------
(* No connection is accepted before the one ahead of it is closed.         *)
OneAtATime == Cardinality({t \in Threads : Busy(t)}) <= 1

(* Between two connections cache_volume, which decides on evictions, is    *)
(* the number of bytes in the cache, and it never exceeds the limit.       *)
VolumeIsExact ==
  /\ cache_volume \in 0 .. MAX_CACHE_SIZE
  /\ (\A t \in Threads : ~Busy(t)) =>
       cache_volume = MapThenSumSet(LAMBDA i : item[i].size, Range(cache))

(* No response is cached twice: the key that search_cache looks for is the *)
(* one that send_request stores.                                           *)
KeysAreDistinct ==
  \A i, j \in Range(cache) :
    item[i].path = item[j].path /\ item[i].hostname = item[j].hostname => i = j

(* The item that delete_cache gets is the one whose last use, by the       *)
(* connection that made it or by one it answered, is the longest ago; only *)
(* among uses at the same clock() may it be another.                       *)
LastUse(i) == Max({i} \cup {t \in Threads : thread[t].target = i})
VictimIsLeastRecent ==
  \A t \in Threads : thread[t].pc = "delete" =>
    \A i \in Range(cache) :
      \/ LastUse(thread[t].eviction) <= LastUse(i)
      \/ item[thread[t].eviction].access_time = item[i].access_time

(* Every connection that is accepted is served and closed.                 *)
ConnectionsClose == \A t \in Threads : Busy(t) ~> thread[t].pc = "closed"

(* A client gets what the host of its request has sent, and all of it, or  *)
(* what an earlier connection got for the same path: all of it, unless a   *)
(* NUL byte kept safe_strncpy from caching the rest.                       *)
RepliesAreRelayed ==
  \A t \in Threads : thread[t].pc = "closed" =>
    LET reply == thread[t].reply
        maker == thread[t].target
    IN  /\ reply.path = thread[t].req.path
        /\ maker = NULL => reply.host = thread[t].req.hostname /\ reply.whole
        /\ maker # NULL => reply = [thread[maker].reply EXCEPT !.whole = reply.text]

(* What a thread is about to read through a pointer is there: the Host     *)
(* header after init_header, the item that it answers from, and the one it *)
(* evicts.                                                                 *)
PointersAreValid ==
  \A t \in Threads :
    /\ thread[t].pc = "search" => get_header_by_key("Host") # {}
    /\ thread[t].pc = "hit" => Contains(cache, thread[t].target)
    /\ thread[t].pc \in {"store", "delete"} /\ cache_volume + thread[t].reply.size > MAX_CACHE_SIZE
         => cache # <<>>
    /\ thread[t].pc = "delete" => Contains(cache, thread[t].eviction)
=============================================================================
