------------------------------- MODULE Relay -------------------------------
(***************************************************************************)
(* What one thread of proxylab/proxy.c does with its two sockets on a miss *)
(* of the cache: it reads the request from the client by lines, builds the *)
(* one for the server, connects, sends it, and passes the response on to   *)
(* the client and into cache_buf, all through the Rio package.  A Rio      *)
(* wrapper that fails ends the process.  strcat does not know the size of  *)
(* Request_buf: at "overrun" it has written past the end, and the model    *)
(* stops there.                                                            *)
(*                                                                         *)
(* A byte is a number, 0 the NUL; COLON stands for the two bytes that      *)
(* separate a header's name and data.  Headers of earlier requests, and    *)
(* other threads, are in Proxy.                                            *)
(***************************************************************************)
EXTENDS Rio, SequencesExt, FiniteSetsExt

CONSTANTS
  CR, COLON,
  Cases,            \* [client, server: what they send, fin: the client then
                    \* closes, addrs: how each address of the server turns
                    \* out, left: the string in the uninitialised Request_buf]
  REQUEST, DEFAULTS, \* the first line of a request, and what init_header adds
  JUNK,             \* what cache_buf holds at first
  MAXLINE,
  REQUEST_SIZE,     \* bytes of Request_buf (10000)
  MAX_OBJECT_SIZE

ASSUME RelayAssumption ==
  /\ Fds = {"client", "server"} /\ {NEWLINE, CR, COLON} \subseteq Bytes \ {0}
  /\ MAXLINE \in Nat \ {0} /\ {REQUEST_SIZE, MAX_OBJECT_SIZE} \subseteq Nat
  /\ REQUEST \in Seq(Bytes) /\ DEFAULTS \in Seq(Bytes)
  /\ \A c \in Cases : /\ {c.client, c.server, c.left} \subseteq Seq(Bytes) /\ c.fin \in BOOLEAN
                     /\ c.addrs \in Seq({"ok", "nosocket", "refused", "badclose"})

VARIABLES
  pc,
  headers,          \* the lines that parse_header has inserted
  addrs,            \* the addresses that open_clientfd has still to try
  open,             \* the open descriptors
  Request_buf,
  read_buf,
  cache_buf,        \* the array, and the byte behind it as the last cell
  cache_ptr, cachable,
  item              \* what send_request stores in the cache

local == <<pc, headers, addrs, open, Request_buf, read_buf, cache_buf, cache_ptr, cachable, item>>
vars  == <<rioVars, local>>

Empty == <<CR, NEWLINE>>

clientfd == 0       \* a socket for the server has a larger number

Init == \E c \in Cases :
  /\ RioInit({[fd \in Fds |-> IF fd = "client" THEN c.client ELSE c.server]},
             {[fd \in Fds |-> fd = "server" \/ c.fin]})
  /\ pc = "start"
  /\ headers = <<>>
  /\ addrs = c.addrs
  /\ open = {clientfd}
  /\ Request_buf = c.left
  /\ read_buf = <<>>
  /\ cache_buf = [i \in 0 .. MAX_OBJECT_SIZE |-> JUNK]
  /\ cache_ptr = 0 /\ cachable = TRUE /\ item = NULL
Ended == pc \in {"closed", "exit", "no server", "overrun"}
-----------------------------------------------------------------------------
(* At pc the thread calls a function of Rio, which then takes its steps;   *)
(* its wrapper ends the process on an error.                               *)
Ask(where, fn, fd, n, buf) ==
  pc = where /\ Call(fn, fd, n, buf) /\ UNCHANGED local

Answered(where) == pc = where /\ call.rc # NULL /\ call.rc # -1 /\ Return

unix_error ==
  /\ call.rc = -1 /\ Return
  /\ pc' = "exit"
  /\ UNCHANGED <<headers, addrs, open, Request_buf, read_buf, cache_buf, cache_ptr, cachable, item>>

(* The bytes of s before its first NUL. *)
Text(s) == SelectInSeq(s, LAMBDA x : x = 0)
String(s) == IF Text(s) = 0 THEN s ELSE SubSeq(s, 1, Text(s) - 1)

(* parse_header finds a name, and data that end with strstr's "\r\n".      *)
IsHeader(buf) ==
  /\ Contains(String(buf), COLON)
  /\ \E i \in 1 .. (Len(String(buf)) - 1) : SubSeq(String(buf), i, i + 1) = Empty

(* client_handler: the request line, and then the lines up to an empty one. *)
GotRequestLine ==
  /\ Answered("start")
  /\ pc' = "headers"
  /\ UNCHANGED <<headers, addrs, open, Request_buf, read_buf, cache_buf, cache_ptr, cachable, item>>

\* Mutant: the loop ends at any line that is not a header.
GotLine_AnyBad ==
  /\ Answered("headers")
  /\ pc' = IF ~IsHeader(call.usrbuf) THEN "build" ELSE "headers"
  /\ headers' = IF IsHeader(call.usrbuf) THEN Append(headers, call.usrbuf) ELSE headers
  /\ UNCHANGED <<addrs, open, Request_buf, read_buf, cache_buf, cache_ptr, cachable, item>>

(* At the end of the stream buf is empty, which is not the empty line. *)
GotLine ==
  /\ Answered("headers")
  /\ pc' = IF String(call.usrbuf) = Empty THEN "build" ELSE "headers"
  /\ headers' = IF String(call.usrbuf) # Empty /\ IsHeader(call.usrbuf)
                THEN Append(headers, call.usrbuf) ELSE headers
  /\ UNCHANGED <<addrs, open, Request_buf, read_buf, cache_buf, cache_ptr, cachable, item>>
-----------------------------------------------------------------------------
(* The strcat calls of send_request append to what is there, and the NUL   *)
(* comes last.                                                             *)
Built == Request_buf \o REQUEST \o FlattenSeq(headers) \o DEFAULTS \o Empty

BuildRequest ==
  /\ pc = "build"
  /\ \/ /\ Len(Built) < REQUEST_SIZE
        /\ Request_buf' = Built
        /\ pc' = "open"
     \/ /\ Len(Built) >= REQUEST_SIZE
        /\ pc' = "overrun"
        /\ UNCHANGED Request_buf
  /\ UNCHANGED <<rioVars, headers, addrs, open, read_buf, cache_buf, cache_ptr, cachable, item>>

\* Mutant: the socket of a refused connection stays open.
open_clientfd_NoClose ==
  /\ pc = "open" /\ addrs # <<>>
  /\ LET how == Head(addrs)
     IN  /\ open' = IF how = "nosocket" THEN open ELSE open \cup {Len(addrs)}
         /\ pc' = CASE how = "ok" -> "send" [] how = "badclose" -> "no server" [] OTHER -> "open"
  /\ addrs' = Tail(addrs)
  /\ UNCHANGED <<rioVars, headers, Request_buf, read_buf, cache_buf, cache_ptr, cachable, item>>

(* The loop of open_clientfd over the addresses: no socket, no connection, *)
(* one whose socket cannot be closed, which ends it, or success.           *)
open_clientfd ==
  /\ pc = "open" /\ addrs # <<>>
  /\ LET how == Head(addrs)
     IN  /\ open' = IF how \in {"ok", "badclose"} THEN open \cup {Len(addrs)} ELSE open
         /\ pc' = CASE how = "ok" -> "send" [] how = "badclose" -> "no server" [] OTHER -> "open"
  /\ addrs' = Tail(addrs)
  /\ UNCHANGED <<rioVars, headers, Request_buf, read_buf, cache_buf, cache_ptr, cachable, item>>

(* No address is left, or getaddrinfo has found none. *)
Open_clientfd_Fails ==
  /\ pc = "open" /\ addrs = <<>>
  /\ pc' = "no server"
  /\ UNCHANGED <<rioVars, headers, addrs, open, Request_buf, read_buf, cache_buf, cache_ptr,
                 cachable, item>>

Sent ==
  /\ Answered("send")
  /\ pc' = "receive"
  /\ UNCHANGED <<headers, addrs, open, Request_buf, read_buf, cache_buf, cache_ptr, cachable, item>>
-----------------------------------------------------------------------------
(* Memory at cell `at` after strncat of src, which ends it with a NUL. *)
safe_strncpy(mem, at, src) ==
  [i \in DOMAIN mem |->
     CASE i >= at /\ i < at + Len(String(src)) -> src[i - at + 1]
       [] i = at + Len(String(src))            -> 0
       [] OTHER                                -> mem[i]]

Received ==
  /\ Answered("receive")
  /\ read_buf' = call.usrbuf
  /\ pc' = IF call.rc > 0 THEN "forward" ELSE "store"
  /\ UNCHANGED <<headers, addrs, open, Request_buf, cache_buf, cache_ptr, cachable, item>>

\* Mutant: a response of exactly MAX_OBJECT_SIZE is not cached.
Forwarded_Less ==
  /\ Answered("forward")
  /\ pc' = "receive"
  /\ IF cachable /\ Len(read_buf) + cache_ptr < MAX_OBJECT_SIZE
     THEN /\ cache_buf' = safe_strncpy(cache_buf, cache_ptr, read_buf)
          /\ cache_ptr' = cache_ptr + Len(read_buf)
          /\ UNCHANGED cachable
     ELSE cachable' = FALSE /\ UNCHANGED <<cache_buf, cache_ptr>>
  /\ UNCHANGED <<headers, addrs, open, Request_buf, read_buf, item>>

(* The loop of send_request, after Rio_writen.  The size that it compares  *)
(* leaves no room for the NUL of the copy.                                 *)
Forwarded ==
  /\ Answered("forward")
  /\ pc' = "receive"
  /\ IF cachable /\ Len(read_buf) + cache_ptr <= MAX_OBJECT_SIZE
     THEN /\ cache_buf' = safe_strncpy(cache_buf, cache_ptr, read_buf)
          /\ cache_ptr' = cache_ptr + Len(read_buf)
          /\ UNCHANGED cachable
     ELSE cachable' = FALSE /\ UNCHANGED <<cache_buf, cache_ptr>>
  /\ UNCHANGED <<headers, addrs, open, Request_buf, read_buf, item>>

(* The end of send_request: the new item gets a copy of cache_buf as far   *)
(* as it is a string, and both connections are closed.  The item's data    *)
(* have cache_size bytes too: the NUL of a copy without one inside falls   *)
(* behind them.                                                            *)
Store ==
  /\ pc = "store"
  /\ item' = IF ~cachable THEN NULL
             ELSE [size |-> cache_ptr,
                   data |-> String([i \in 1 .. cache_ptr |-> cache_buf[i - 1]])]
  /\ open' = {}
  /\ pc' = "closed"
  /\ UNCHANGED <<rioVars, headers, addrs, Request_buf, read_buf, cache_buf, cache_ptr, cachable>>

Thread ==
  \/ Ask("start", "rio_readlineb", "client", MAXLINE, <<>>) \/ GotRequestLine
  \/ Ask("headers", "rio_readlineb", "client", MAXLINE, <<>>) \/ GotLine
  \/ BuildRequest \/ open_clientfd \/ Open_clientfd_Fails
  \/ Ask("send", "rio_writen", "server", Len(Request_buf), Request_buf) \/ Sent
  \/ Ask("receive", "rio_readnb", "server", MAXLINE, <<>>) \/ Received
  \/ Ask("forward", "rio_writen", "client", Len(read_buf), read_buf) \/ Forwarded
  \/ Store \/ unix_error
  \/ Progress /\ UNCHANGED local

Interrupt == (RefillInterrupted \/ WriteInterrupted) /\ UNCHANGED local

PeerLost == ~Ended /\ \E fd \in Fds : Reset(fd) /\ UNCHANGED local

Next == Thread \/ Interrupt \/ PeerLost

Spec == Init /\ [][Next]_vars

(* The thread runs on.  Nothing is assumed of the peers. *)
FairSpec == Spec /\ WF_vars(Thread)
-----------------------------------------------------------------------------
(* The client gets the server's response byte for byte and in order, and   *)
(* all of it if the connection is closed in the regular way, whatever the  *)
(* sizes in which the two sockets take and deliver it.  Once the server is *)
(* connected only a lost peer ends the process before: no signal, and no   *)
(* short count.                                                            *)
RelayIsExact ==
  /\ IsPrefix(written["client"], sent["server"])
  /\ pc = "exit" => \E fd \in Fds : reset[fd]
  /\ pc = "closed" => written["client"] = sent["server"]

(* The lines of a stream, by where they end, and those after the first.    *)
Ends(s)    == {i \in 1 .. Len(s) : s[i] = NEWLINE}
Line(s, i) == SubSeq(s, Max({0} \cup {j \in Ends(s) : j < i}) + 1, i)
Later(s)   == {i \in Ends(s) : \E j \in Ends(s) : j < i}
EmptyLines(s) == {i \in Later(s) : Line(s, i) = Empty}

(* All lines are shorter than the line buffer, and one of them is empty.   *)
Complete(s) == /\ \A i \in Ends(s) : Len(Line(s, i)) < MAXLINE
               /\ EmptyLines(s) # {}

(* The lines that end in S, in order. *)
Nth(S, n)     == Min({i \in S : Cardinality({j \in S : j <= i}) = n})
LinesAt(s, S) == [n \in 1 .. Cardinality(S) |-> Line(s, Nth(S, n))]

(* The server gets every header line that the client has sent before the   *)
(* empty line, in order and unchanged, after the request line and whatever *)
(* was in Request_buf; lines that are no headers are left out.  This takes *)
(* that all of it and a NUL fit into Request_buf: otherwise, and only      *)
(* then, Request_buf is overrun.                                           *)
HeadersIn(s, S) == {i \in Later(s) \cap S : IsHeader(Line(s, i))}
HeaderLines(s)  == LinesAt(s, HeadersIn(s, 1 .. (Min(EmptyLines(s)) - 1)))
RequestOf(c)    == c.left \o REQUEST \o FlattenSeq(HeaderLines(c.client)) \o DEFAULTS \o Empty
HeadersReachServer ==
  Complete(sent["client"]) =>
    \E c \in Cases :
      /\ c.client = sent["client"]
      /\ pc = "overrun" => Len(RequestOf(c)) >= REQUEST_SIZE
      /\ pc \in {"open", "send", "receive", "forward", "store", "closed"} =>
           Len(RequestOf(c)) < REQUEST_SIZE
      /\ pc \in {"receive", "forward", "store", "closed"} => written["server"] = RequestOf(c)

(* A response is stored if and only if it has at most MAX_OBJECT_SIZE      *)
(* bytes, with its size, and with its bytes up to the first NUL: the       *)
(* pieces in which it arrives make no difference.  They overrun cache_buf  *)
(* by no more than one NUL, and only if they fill all of it.               *)
CacheIsExact ==
  /\ cache_ptr \in 0 .. MAX_OBJECT_SIZE
  /\ \/ cache_buf[MAX_OBJECT_SIZE] = JUNK
     \/ cache_buf[MAX_OBJECT_SIZE] = 0 /\ cache_ptr = MAX_OBJECT_SIZE
  /\ pc = "closed" =>
       IF Len(sent["server"]) <= MAX_OBJECT_SIZE
       THEN item = [size |-> Len(sent["server"]), data |-> String(sent["server"])]
       ELSE item = NULL

(* While the server is connected, its socket and the client's are the only *)
(* open ones, however many addresses were tried; at the end none is.       *)
DescriptorsBalance ==
  /\ pc \in {"send", "receive", "forward", "store"} => Cardinality(open) = 2
  /\ pc = "closed" => open = {}

(* A client that sends a complete request to a server that answers and     *)
(* closes is served, or loses the process, or has overrun Request_buf.     *)
RelayEnds ==
  Complete(sent["client"]) /\ fin["server"] ~> Ended
=============================================================================
