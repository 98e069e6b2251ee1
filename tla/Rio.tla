-------------------------------- MODULE Rio --------------------------------
(***************************************************************************)
(* The Rio package of proxylab/csapp.c: the buffered reads rio_readlineb   *)
(* and rio_readnb, and rio_writen, each as the system calls it makes.  One *)
(* thread makes one call at a time.  read and write take any part of what  *)
(* they could take, may be interrupted, and fail once the peer has reset   *)
(* the connection.                                                         *)
(***************************************************************************)
EXTENDS Integers, Sequences

CONSTANTS
  Fds,           \* the open sockets
  Bytes,         \* what a peer sends; NEWLINE may be one
  NEWLINE,
  RIO_BUFSIZE,
  MAXEINTR,      \* bound on the signals that interrupt a system call
  NULL

ASSUME RioAssumption ==
  /\ RIO_BUFSIZE \in Nat \ {0} /\ MAXEINTR \in Nat
  /\ NULL \notin Int /\ 0 \in Bytes

VARIABLES
  sent,          \* for each socket, all that its peer sends
  fin,           \* and whether the peer then closes its side
  reset,         \* whether the connection is broken
  taken,         \* how many bytes read() has returned
  rio,           \* the rio_t of each socket
  call,          \* the locals of the call in progress; rc is its result
  given,         \* how many bytes all earlier calls have returned
  written,       \* for each socket, all that write() has accepted
  interrupts     \* signals so far

net     == <<sent, fin>>
rioVars == <<sent, fin, reset, taken, rio, call, given, written, interrupts>>

NoCall == [fn |-> "none", fd |-> NULL, n |-> 0, usrbuf |-> <<>>, done |-> 0, rc |-> NULL]

(* rio_readinitb. *)
rio_readinitb == [rio_cnt |-> 0, rio_bufptr |-> 0, rio_buf |-> [i \in 0 .. (RIO_BUFSIZE - 1) |-> 0]]

RioInit(Sent, Fin) ==
  /\ sent \in Sent /\ fin \in Fin
  /\ reset = [fd \in Fds |-> FALSE]
  /\ taken = [fd \in Fds |-> 0]
  /\ rio = [fd \in Fds |-> rio_readinitb]
  /\ call = NoCall
  /\ given = [fd \in Fds |-> 0]
  /\ written = [fd \in Fds |-> <<>>]
  /\ interrupts = 0
-----------------------------------------------------------------------------
Smaller(a, b) == IF a < b THEN a ELSE b

\* Mutant: the line also ends one byte later, without room for the NUL.
Over_NoRoom(c) ==
  \/ c.fn = "rio_readnb" /\ Len(c.usrbuf) = c.n
  \/ c.fn = "rio_readlineb" /\ Len(c.usrbuf) >= c.n
  \/ c.fn = "rio_readlineb" /\ c.usrbuf # <<>> /\ c.usrbuf[Len(c.usrbuf)] = NEWLINE
  \/ c.fn = "rio_writen" /\ c.done = c.n

(* The loop of the call is over: rio_readnb and rio_writen have their n    *)
(* bytes, rio_readlineb has its line, or maxlen - 1 bytes of it.           *)
Over(c) ==
  \/ c.fn = "rio_readnb" /\ Len(c.usrbuf) = c.n
  \/ c.fn = "rio_readlineb" /\ Len(c.usrbuf) >= c.n - 1
  \/ c.fn = "rio_readlineb" /\ c.usrbuf # <<>> /\ c.usrbuf[Len(c.usrbuf)] = NEWLINE
  \/ c.fn = "rio_writen" /\ c.done = c.n

(* What a call returns when its loop is over. *)
Result(c) == IF c.fn = "rio_writen" THEN c.n ELSE Len(c.usrbuf)
Settled(c) == IF Over(c) THEN [c EXCEPT !.rc = Result(c)] ELSE c

Call(fn, fd, n, buf) ==
  /\ call = NoCall
  /\ call' = Settled([fn |-> fn, fd |-> fd, n |-> n, usrbuf |-> buf, done |-> 0, rc |-> NULL])
  /\ UNCHANGED <<net, reset, taken, rio, given, written, interrupts>>

(* The caller has taken the result. *)
Return ==
  /\ call.rc # NULL
  /\ call' = NoCall
  /\ given' = IF call.fn = "rio_writen" THEN given
              ELSE [given EXCEPT ![call.fd] = @ + Len(call.usrbuf)]
  /\ UNCHANGED <<net, reset, taken, rio, written, interrupts>>
-----------------------------------------------------------------------------
Reading == call.fn \in {"rio_readlineb", "rio_readnb"} /\ call.rc = NULL
Writing == call.fn = "rio_writen" /\ call.rc = NULL

Unread(fd) == rio[fd].rio_cnt > 0
Left(fd)   == Len(sent[fd]) - taken[fd]

(* rio_read asks for one byte, or for all that is missing. *)
Wanted == IF call.fn = "rio_readlineb" THEN 1 ELSE call.n - Len(call.usrbuf)

\* Mutant: the buffer is filled when it has less than is wanted.
Refill_Early(k) ==
  LET fd == call.fd
  IN  /\ Reading /\ rio[fd].rio_cnt < Wanted /\ ~reset[fd]
      /\ k <= RIO_BUFSIZE /\ k <= Left(fd)
      /\ rio' = [rio EXCEPT ![fd] =
           [rio_cnt |-> k, rio_bufptr |-> 0,
            rio_buf |-> [i \in 0 .. (RIO_BUFSIZE - 1) |->
               IF i < k THEN sent[fd][taken[fd] + i + 1] ELSE rio[fd].rio_buf[i]]]]
      /\ taken' = [taken EXCEPT ![fd] = @ + k]
      /\ UNCHANGED <<net, reset, call, given, written, interrupts>>

(* The loop at the start of rio_read: read fills the buffer with k bytes, *)
(* is interrupted and called again, or ends the call: at the end of the   *)
(* stream with what there is, on an error with -1.                        *)
Refill(k) ==
  LET fd == call.fd
  IN  /\ Reading /\ ~Unread(fd) /\ ~reset[fd]
      /\ k <= RIO_BUFSIZE /\ k <= Left(fd)
      /\ rio' = [rio EXCEPT ![fd] =
           [rio_cnt |-> k, rio_bufptr |-> 0,
            rio_buf |-> [i \in 0 .. (RIO_BUFSIZE - 1) |->
               IF i < k THEN sent[fd][taken[fd] + i + 1] ELSE rio[fd].rio_buf[i]]]]
      /\ taken' = [taken EXCEPT ![fd] = @ + k]
      /\ UNCHANGED <<net, reset, call, given, written, interrupts>>

RefillInterrupted ==
  /\ Reading /\ ~Unread(call.fd)
  /\ interrupts < MAXEINTR /\ interrupts' = interrupts + 1
  /\ rio' = [rio EXCEPT ![call.fd].rio_cnt = -1]
  /\ UNCHANGED <<net, reset, taken, call, given, written>>

\* Mutant: a count of 0 makes rio_read call read again.
RefillAtEnd_Again ==
  /\ Reading /\ ~Unread(call.fd) /\ ~reset[call.fd]
  /\ fin[call.fd] /\ Left(call.fd) = 0
  /\ rio' = [rio EXCEPT ![call.fd].rio_cnt = 0]
  /\ UNCHANGED <<net, reset, taken, call, given, written, interrupts>>

RefillAtEnd ==
  /\ Reading /\ ~Unread(call.fd) /\ ~reset[call.fd]
  /\ fin[call.fd] /\ Left(call.fd) = 0
  /\ rio' = [rio EXCEPT ![call.fd].rio_cnt = 0]
  /\ call' = [call EXCEPT !.rc = Result(call)]
  /\ UNCHANGED <<net, reset, taken, given, written, interrupts>>

RefillFails ==
  /\ Reading /\ ~Unread(call.fd) /\ reset[call.fd]
  /\ rio' = [rio EXCEPT ![call.fd].rio_cnt = -1]
  /\ call' = [call EXCEPT !.rc = -1]
  /\ UNCHANGED <<net, reset, taken, given, written, interrupts>>

(* The end of rio_read: as much of the buffer as is wanted. *)
Chunk(r, cnt) == [i \in 1 .. cnt |-> r.rio_buf[r.rio_bufptr + i - 1]]

CopyOut(cnt) ==
  /\ Reading /\ Unread(call.fd)
  /\ cnt = Smaller(Wanted, rio[call.fd].rio_cnt)
  /\ call' = Settled([call EXCEPT !.usrbuf = @ \o Chunk(rio[call.fd], cnt)])
  /\ rio' = [rio EXCEPT ![call.fd] =
       [rio_cnt |-> @.rio_cnt - cnt, rio_bufptr |-> @.rio_bufptr + cnt, rio_buf |-> @.rio_buf]]
  /\ UNCHANGED <<net, reset, taken, given, written, interrupts>>

\* Mutant: bufp is not advanced after a short write.
WriteSome_NoAdvance(k) ==
  LET fd == call.fd
  IN  /\ Writing /\ ~reset[fd]
      /\ k <= call.n - call.done
      /\ written' = [written EXCEPT ![fd] = @ \o SubSeq(call.usrbuf, 1, k)]
      /\ call' = Settled([call EXCEPT !.done = @ + k])
      /\ UNCHANGED <<net, reset, taken, rio, given, interrupts>>

(* The loop of rio_writen. *)
WriteSome(k) ==
  LET fd == call.fd
  IN  /\ Writing /\ ~reset[fd]
      /\ k <= call.n - call.done
      /\ written' = [written EXCEPT ![fd] = @ \o SubSeq(call.usrbuf, call.done + 1, call.done + k)]
      /\ call' = Settled([call EXCEPT !.done = @ + k])
      /\ UNCHANGED <<net, reset, taken, rio, given, interrupts>>

WriteInterrupted ==
  /\ Writing
  /\ interrupts < MAXEINTR /\ interrupts' = interrupts + 1
  /\ UNCHANGED <<net, reset, taken, rio, call, given, written>>

WriteFails ==
  /\ Writing /\ reset[call.fd]
  /\ call' = [call EXCEPT !.rc = -1]
  /\ UNCHANGED <<net, reset, taken, rio, given, written, interrupts>>

(* A peer goes away. *)
Reset(fd) ==
  /\ ~reset[fd]
  /\ reset' = [reset EXCEPT ![fd] = TRUE]
  /\ UNCHANGED <<net, taken, rio, call, given, written, interrupts>>

(* The steps of a call. *)
Progress ==
  \/ \E k \in 1 .. RIO_BUFSIZE : Refill(k)
  \/ RefillAtEnd \/ RefillFails
  \/ \E cnt \in 1 .. RIO_BUFSIZE : CopyOut(cnt)
  \/ \E k \in 1 .. call.n : WriteSome(k)
  \/ WriteFails

RioNext ==
  \/ \E fd \in Fds, n \in Nat : Call("rio_readnb", fd, n, <<>>)
  \/ \E fd \in Fds, maxlen \in Nat \ {0} : Call("rio_readlineb", fd, maxlen, <<>>)
  \/ \E fd \in Fds : \E buf : Call("rio_writen", fd, Len(buf), buf)
  \/ Progress \/ RefillInterrupted \/ WriteInterrupted \/ Return
  \/ \E fd \in Fds : Reset(fd)

(* Any calls in any order, on sockets whose peers send anything.           *)
RioSpec == RioInit([Fds -> Seq(Bytes)], [Fds -> BOOLEAN]) /\ [][RioNext]_rioVars
-----------------------------------------------------------------------------
(* The bytes the call in progress has taken for its socket. *)
InCall(fd) == IF call.fn \in {"rio_readlineb", "rio_readnb"} /\ call.fd = fd THEN Len(call.usrbuf) ELSE 0
InBuf(fd)  == IF Unread(fd) THEN rio[fd].rio_cnt ELSE 0

(* Whatever the sizes in which read hands the stream out, and whoever      *)
(* interrupts it: the bytes returned, those of the call in progress and    *)
(* the unread ones in rio_buf are, one after the other, the stream up to   *)
(* where the socket has been read.  None is lost, repeated or moved.       *)
StreamIsIntact ==
  \A fd \in Fds :
    /\ given[fd] + InCall(fd) + InBuf(fd) = taken[fd]
    /\ \A i \in 1 .. InCall(fd) : call.usrbuf[i] = sent[fd][given[fd] + i]
    /\ \A i \in 1 .. InBuf(fd) :
         rio[fd].rio_buf[rio[fd].rio_bufptr + i - 1] = sent[fd][taken[fd] - InBuf(fd) + i]

(* A read that returns less than was asked for is at the end of the        *)
(* stream, and a line is a line of the stream, cut at maxlen - 1 bytes: no *)
(* newline is inside it, and there is room for the NUL.                    *)
AtEnd(fd) == fin[fd] /\ taken[fd] = Len(sent[fd]) /\ ~Unread(fd)
ShortCountMeansEnd ==
  call.rc \notin {NULL, -1} =>
    /\ call.fn = "rio_readnb" => Len(call.usrbuf) = call.n \/ AtEnd(call.fd)
    /\ call.fn = "rio_readlineb" =>
         /\ \A i \in 1 .. (Len(call.usrbuf) - 1) : call.usrbuf[i] # NEWLINE
         /\ Len(call.usrbuf) < call.n
         /\ \/ call.usrbuf # <<>> /\ call.usrbuf[Len(call.usrbuf)] = NEWLINE
            \/ Len(call.usrbuf) = call.n - 1 \/ AtEnd(call.fd)
=============================================================================
