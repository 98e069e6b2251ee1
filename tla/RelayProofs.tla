---------------------------- MODULE RelayProofs ----------------------------
(***************************************************************************)
(* First the Rio package: for every stream, every size of the buffer and   *)
(* every sequence of calls, the reads return the stream.                   *)
(*                                                                         *)
(* Then the thread of proxy.c.  It uses the package as the package means   *)
(* it to be used, so that what is proved of one holds of the other.        *)
(* With that, the headers reach the server, the response reaches the       *)
(* client and the cache unchanged, and no socket is left open: for all     *)
(* streams and sizes of buffers.                                           *)
(***************************************************************************)
EXTENDS Relay, FiniteSetTheorems, SequenceTheorems, WellFoundedInduction, TLAPS

Reads == {"rio_readlineb", "rio_readnb"}

RioT == [rio_cnt : Int, rio_bufptr : Nat, rio_buf : [0 .. (RIO_BUFSIZE - 1) -> Bytes]]

NetOK ==
  /\ sent \in [Fds -> Seq(Bytes)] /\ fin \in [Fds -> BOOLEAN] /\ reset \in [Fds -> BOOLEAN]
  /\ taken \in [Fds -> Nat] /\ given \in [Fds -> Nat]
  /\ \A fd \in Fds : taken[fd] <= Len(sent[fd])

BufOK ==
  /\ rio \in [Fds -> RioT]
  /\ \A fd \in Fds : rio[fd].rio_cnt > 0 => rio[fd].rio_bufptr + rio[fd].rio_cnt <= RIO_BUFSIZE

CallOK ==
  /\ call = [fn |-> call.fn, fd |-> call.fd, n |-> call.n, usrbuf |-> call.usrbuf,
             done |-> call.done, rc |-> call.rc]
  /\ call.fn \in Reads \cup {"none", "rio_writen"}
  /\ call.fn = "none" => call = NoCall
  /\ call.fn \in Reads =>
       /\ call.fd \in Fds /\ call.n \in Nat /\ call.usrbuf \in Seq(Bytes)
       /\ call.rc \in Int \cup {NULL}

(* How far a read has come: its loop is over exactly when it has a result, *)
(* and all but the last byte of a line are no newlines.                    *)
Pending ==
  call.fn \in Reads =>
    /\ call.rc = NULL => ~Over(call)
    /\ call.fn = "rio_readnb" => Len(call.usrbuf) <= call.n
    /\ call.fn = "rio_readlineb" =>
         /\ call.n > 0 /\ Len(call.usrbuf) < call.n
         /\ \A i \in 1 .. (Len(call.usrbuf) - 1) : call.usrbuf[i] # NEWLINE

RioInv == NetOK /\ BufOK /\ CallOK /\ Pending /\ StreamIsIntact /\ ShortCountMeansEnd
-----------------------------------------------------------------------------
LEMMA InitOK ==
  RioInit([Fds -> Seq(Bytes)], [Fds -> BOOLEAN]) => RioInv
<1> SUFFICES ASSUME RioInit([Fds -> Seq(Bytes)], [Fds -> BOOLEAN])
             PROVE  RioInv
  OBVIOUS
<1> USE RioAssumption DEF RioInit, NoCall, rio_readinitb
<1>1. NetOK
  BY DEF NetOK
<1>2. BufOK
  BY DEF BufOK, RioT
<1>3. CallOK /\ Pending /\ ShortCountMeansEnd
  BY DEF CallOK, Pending, ShortCountMeansEnd, Reads, Reading
<1>4. StreamIsIntact
  <2>1. \A fd \in Fds : InCall(fd) = 0 /\ InBuf(fd) = 0
    BY DEF InCall, InBuf, Unread
  <2>2. \A fd \in Fds : given[fd] = 0 /\ taken[fd] = 0
    OBVIOUS
  <2> HIDE DEF RioInit, NoCall, rio_readinitb
  <2>3. ASSUME NEW fd \in Fds
        PROVE  /\ given[fd] + InCall(fd) + InBuf(fd) = taken[fd]
               /\ 1 .. InCall(fd) = {} /\ 1 .. InBuf(fd) = {}
    BY <2>1, <2>2
  <2> QED
    BY <2>3, Zenon DEF StreamIsIntact
<1> QED
  BY <1>1, <1>2, <1>3, <1>4 DEF RioInv

(* Settled sets rc, and nothing else. *)
LEMMA SettledOK ==
  ASSUME NEW c,
         c = [fn |-> c.fn, fd |-> c.fd, n |-> c.n, usrbuf |-> c.usrbuf, done |-> c.done, rc |-> c.rc]
  PROVE  /\ Settled(c) = [fn |-> c.fn, fd |-> c.fd, n |-> c.n, usrbuf |-> c.usrbuf,
                          done |-> c.done, rc |-> Settled(c).rc]
         /\ Over(c) => Settled(c).rc = Result(c)
         /\ ~Over(c) => Settled(c).rc = c.rc
         /\ Over(Settled(c)) <=> Over(c)
  BY DEF Settled, Over

(* A call that is no read leaves the stream's part of the state alone. *)
LEMMA NotReading ==
  ASSUME RioInv, call'.fn \notin Reads, CallOK',
         call.fn \notin Reads,
         UNCHANGED <<sent, fin, reset, taken, rio, given>>
  PROVE  RioInv'
<1>1. NetOK' /\ BufOK'
  BY DEF RioInv, NetOK, BufOK
<1>2. Pending'
  BY DEF Pending
<1>3. ShortCountMeansEnd'
  <2>1. ~(call'.fn \in Reads)
    OBVIOUS
  <2>2. call'.fn \in {"none", "rio_writen"}
    BY DEF CallOK
  <2> QED
    BY <2>2 DEF ShortCountMeansEnd
<1>4. StreamIsIntact'
  BY DEF RioInv, StreamIsIntact, InCall, InBuf, Unread, Reads
<1> QED
  BY <1>1, <1>2, <1>3, <1>4 DEF RioInv

(* A read is called. *)
LEMMA CallRead ==
  ASSUME RioInv, NEW fn \in Reads, NEW fd \in Fds, NEW n \in Nat,
         fn = "rio_readlineb" => n > 0,
         Call(fn, fd, n, <<>>)
  PROVE  RioInv'
<1> DEFINE c == [fn |-> fn, fd |-> fd, n |-> n, usrbuf |-> <<>>, done |-> 0, rc |-> NULL]
<1>1. /\ call' = [fn |-> fn, fd |-> fd, n |-> n, usrbuf |-> <<>>, done |-> 0, rc |-> call'.rc]
      /\ call' = Settled(c)
      /\ Over(c) => call'.rc = Result(c)
      /\ ~Over(c) => call'.rc = NULL
      /\ Over(call') <=> Over(c)
  BY SettledOK DEF Call
<1>2. NetOK' /\ BufOK'
  BY DEF RioInv, NetOK, BufOK, Call, net
<1>3. CallOK'
  <2>1. Result(c) = 0
    BY DEF Result, Reads
  <2>2. call'.rc \in Int \cup {NULL}
    BY <1>1, <2>1
  <2>3. /\ call'.fn = fn /\ call'.fd = fd /\ call'.n = n
        /\ call'.usrbuf = <<>> /\ call'.done = 0
    BY <1>1
  <2>4. call' = [fn |-> call'.fn, fd |-> call'.fd, n |-> call'.n, usrbuf |-> call'.usrbuf,
                 done |-> call'.done, rc |-> call'.rc]
    BY <1>1, <2>3
  <2>5. call'.usrbuf \in Seq(Bytes)
    BY <2>3
  <2> HIDE DEF c
  <2> QED
    BY <2>2, <2>3, <2>4, <2>5 DEF CallOK, Reads
<1>4. Pending'
  BY <1>1, RioAssumption DEF Pending, Result, Reads
<1>5. ShortCountMeansEnd'
  BY <1>1, RioAssumption DEF ShortCountMeansEnd, Over, Reads
<1>6. StreamIsIntact'
  <2>1. call = NoCall /\ UNCHANGED <<sent, taken, rio, given>>
    BY DEF Call, net
  <2>2. \A s \in Fds : InCall(s) = 0
    BY <2>1 DEF InCall, NoCall
  <2>3. \A s \in Fds : InCall(s)' = 0
    BY <1>1 DEF InCall
  <2>4. \A s \in Fds : InBuf(s)' = InBuf(s)
    BY <2>1 DEF InBuf, Unread
  <2>5. \A i \in 1 .. 0 : FALSE
    OBVIOUS
  <2> QED
    BY <2>1, <2>2, <2>3, <2>4, <2>5 DEF RioInv, StreamIsIntact
<1> QED
  BY <1>2, <1>3, <1>4, <1>5, <1>6 DEF RioInv

(* rio_writen is called, and takes its steps. *)
LEMMA CallWrite ==
  ASSUME RioInv, NEW fd \in Fds, NEW n, NEW buf, Call("rio_writen", fd, n, buf)
  PROVE  RioInv'
<1> DEFINE c == [fn |-> "rio_writen", fd |-> fd, n |-> n, usrbuf |-> buf, done |-> 0, rc |-> NULL]
<1>1. call' = [fn |-> "rio_writen", fd |-> fd, n |-> n, usrbuf |-> buf, done |-> 0, rc |-> call'.rc]
  BY SettledOK DEF Call
<1>2. CallOK'
  BY <1>1 DEF CallOK, Reads
<1>3. call.fn \notin Reads /\ UNCHANGED <<sent, fin, reset, taken, rio, given>>
  BY DEF Call, NoCall, Reads, net
<1> QED
  BY <1>1, <1>2, <1>3, NotReading DEF Reads

LEMMA WriteSteps ==
  ASSUME RioInv, (\E k \in 1 .. call.n : WriteSome(k)) \/ WriteFails
  PROVE  RioInv'
<1>1. call.fn = "rio_writen" /\ UNCHANGED <<sent, fin, reset, taken, rio, given>>
  BY DEF WriteSome, WriteFails, Writing, net
<1>2. call = [fn |-> call.fn, fd |-> call.fd, n |-> call.n, usrbuf |-> call.usrbuf,
              done |-> call.done, rc |-> call.rc]
  BY DEF RioInv, CallOK
<1>3. call' = [fn |-> call.fn, fd |-> call.fd, n |-> call.n, usrbuf |-> call.usrbuf,
               done |-> call'.done, rc |-> call'.rc]
  <2>1. CASE WriteFails
    BY <1>2, <2>1 DEF WriteFails
  <2>2. CASE \E k \in 1 .. call.n : WriteSome(k)
    <3>1. PICK k \in 1 .. call.n : WriteSome(k)
      BY <2>2
    <3> DEFINE c == [call EXCEPT !.done = @ + k]
    <3>2. c = [fn |-> call.fn, fd |-> call.fd, n |-> call.n, usrbuf |-> call.usrbuf,
               done |-> c.done, rc |-> call.rc]
      BY <1>2
    <3>3. call' = Settled(c)
      BY <3>1 DEF WriteSome
    <3> HIDE DEF c
    <3> QED
      BY <3>2, <3>3, SettledOK
  <2> QED
    BY <2>1, <2>2
<1>4. CallOK'
  BY <1>1, <1>3 DEF CallOK, Reads
<1> QED
  BY <1>1, <1>3, <1>4, NotReading DEF Reads

(* Steps that end the call, or only break the connection: neither the      *)
(* bytes taken nor the ones of the buffer change.                          *)
LEMMA SameStream ==
  ASSUME StreamIsIntact, CallOK, UNCHANGED <<sent, taken, given>>,
         call'.fn = call.fn, call'.fd = call.fd, call'.usrbuf = call.usrbuf,
         \/ rio' = rio
         \/ \E cnt \in {0, -1} : ~Unread(call.fd) /\ rio' = [rio EXCEPT ![call.fd].rio_cnt = cnt],
         BufOK, call.fn \in Reads \/ rio' = rio
  PROVE  StreamIsIntact'
<1>1. ASSUME NEW fd \in Fds
      PROVE  /\ InCall(fd)' = InCall(fd) /\ InBuf(fd)' = InBuf(fd)
             /\ InBuf(fd) > 0 => rio'[fd] = rio[fd]
  <2>1. InCall(fd)' = InCall(fd)
    BY DEF InCall
  <2>2. CASE rio' = rio
    BY <2>1, <2>2 DEF InBuf, Unread
  <2>3. CASE \E cnt \in {0, -1} : ~Unread(call.fd) /\ rio' = [rio EXCEPT ![call.fd].rio_cnt = cnt]
    <3>1. fd # call.fd => rio'[fd] = rio[fd]
      BY <2>3 DEF BufOK, RioT
    <3>2. fd = call.fd => ~Unread(fd) /\ ~(Unread(fd)')
      BY <2>3 DEF BufOK, RioT, Unread
    <3> QED
      BY <2>1, <3>1, <3>2 DEF InBuf, Unread
  <2> QED
    BY <2>2, <2>3
<1>2. ASSUME NEW fd \in Fds, NEW i \in 1 .. InBuf(fd)
      PROVE  InBuf(fd) > 0
  <2>1. InBuf(fd) \in Int
    BY DEF InBuf, BufOK, RioT, Unread
  <2> QED
    BY <2>1
<1> QED
  BY <1>1, <1>2 DEF StreamIsIntact

LEMMA EndSteps ==
  ASSUME RioInv, RefillInterrupted \/ RefillAtEnd \/ RefillFails
  PROVE  RioInv'
<1>1. /\ Reading /\ ~Unread(call.fd) /\ call.fn \in Reads /\ call.fd \in Fds /\ call.rc = NULL
      /\ UNCHANGED <<sent, fin, reset, taken, given>>
  BY DEF RioInv, CallOK, RefillInterrupted, RefillAtEnd, RefillFails, Reading, Reads, net
<1>2. PICK cnt \in {0, -1} : rio' = [rio EXCEPT ![call.fd].rio_cnt = cnt]
  BY DEF RefillInterrupted, RefillAtEnd, RefillFails
<1>3. /\ call' = [call EXCEPT !.rc = call'.rc]
      /\ \/ call'.rc \in {NULL, -1}
         \/ call'.rc = Result(call) /\ AtEnd(call.fd)
  <2>0. call = [fn |-> call.fn, fd |-> call.fd, n |-> call.n, usrbuf |-> call.usrbuf,
                done |-> call.done, rc |-> call.rc]
    BY DEF RioInv, CallOK
  <2>1. CASE RefillInterrupted
    BY <2>0, <2>1, <1>1 DEF RefillInterrupted
  <2>2. CASE RefillAtEnd
    <3>1. AtEnd(call.fd)
      BY <1>1, <2>2 DEF RefillAtEnd, AtEnd, Left, RioInv, NetOK
    <3> QED
      BY <2>0, <2>2, <3>1 DEF RefillAtEnd
  <2>3. CASE RefillFails
    BY <2>0, <2>3 DEF RefillFails
  <2> QED
    BY <2>1, <2>2, <2>3
<1>4. /\ call' = [fn |-> call.fn, fd |-> call.fd, n |-> call.n, usrbuf |-> call.usrbuf,
                  done |-> call.done, rc |-> call'.rc]
      /\ call'.fn = call.fn /\ call'.fd = call.fd /\ call'.n = call.n /\ call'.usrbuf = call.usrbuf
  BY <1>3 DEF RioInv, CallOK
<1>5. NetOK'
  BY <1>1 DEF RioInv, NetOK
<1>6. BufOK'
  <2> DEFINE r == [rio[call.fd] EXCEPT !.rio_cnt = cnt]
  <2>1. r \in RioT /\ r.rio_cnt = cnt
    BY <1>1 DEF RioInv, BufOK, RioT
  <2>2. rio' = [rio EXCEPT ![call.fd] = r]
    BY <1>2
  <2> HIDE DEF r
  <2>3. rio' \in [Fds -> RioT]
    BY <2>1, <2>2 DEF RioInv, BufOK
  <2>4. ASSUME NEW fd \in Fds, rio'[fd].rio_cnt > 0
        PROVE  rio'[fd] = rio[fd]
    BY <2>1, <2>2, <2>4 DEF RioInv, BufOK
  <2> QED
    BY <2>3, <2>4 DEF RioInv, BufOK
<1>7. CallOK'
  <2>1. call.usrbuf \in Seq(Bytes)
    BY <1>1 DEF RioInv, CallOK
  <2>2. Result(call) \in Int
    BY <1>1, <2>1 DEF Result, Reads
  <2>3. call'.rc \in Int \cup {NULL}
    BY <1>3, <2>2
  <2>4. call' = [fn |-> call'.fn, fd |-> call'.fd, n |-> call'.n, usrbuf |-> call'.usrbuf,
                 done |-> call'.done, rc |-> call'.rc]
    BY <1>4
  <2> QED
    BY <1>1, <1>4, <2>3, <2>4 DEF RioInv, CallOK, Reads
<1>8. Pending'
  <2>1. Over(call') <=> Over(call)
    BY <1>1, <1>4 DEF Over, Reads
  <2> QED
    BY <1>1, <1>4, <2>1 DEF RioInv, Pending
<1>9. ShortCountMeansEnd'
  <2>1. call'.rc \notin {NULL, -1} => AtEnd(call.fd)'
    <3> SUFFICES ASSUME AtEnd(call.fd) PROVE AtEnd(call.fd)'
      BY <1>3
    <3>1. rio'[call.fd].rio_cnt = cnt
      BY <1>1, <1>2 DEF RioInv, BufOK, RioT
    <3> QED
      BY <1>1, <1>4, <3>1 DEF AtEnd, Unread
  <2> QED
    BY <2>1, <1>4, <1>8 DEF ShortCountMeansEnd, Pending, Reads
<1>10. StreamIsIntact'
  BY <1>1, <1>2, <1>4, SameStream DEF RioInv
<1> QED
  BY <1>5, <1>6, <1>7, <1>8, <1>9, <1>10 DEF RioInv

LEMMA ResetStep ==
  ASSUME RioInv, NEW fd \in Fds, Reset(fd)
  PROVE  RioInv'
<1>1. UNCHANGED <<sent, fin, taken, given, call, rio>> /\ reset' \in [Fds -> BOOLEAN]
  BY DEF Reset, net, RioInv, NetOK
<1>2. NetOK' /\ BufOK' /\ CallOK' /\ Pending'
  BY <1>1 DEF RioInv, NetOK, BufOK, CallOK, Pending
<1>3. ShortCountMeansEnd' /\ StreamIsIntact'
  BY <1>1 DEF RioInv, ShortCountMeansEnd, AtEnd, Unread, StreamIsIntact, InCall, InBuf
<1> QED
  BY <1>2, <1>3 DEF RioInv

(* The buffer is filled from the socket. *)
LEMMA RefillStep ==
  ASSUME RioInv, NEW k \in 1 .. RIO_BUFSIZE, Refill(k)
  PROVE  RioInv'
<1>0. PICK fd \in Fds : fd = call.fd
  BY DEF Refill, Reading, RioInv, CallOK, Reads
<1> DEFINE r  == [rio_cnt |-> k, rio_bufptr |-> 0,
                  rio_buf |-> [i \in 0 .. (RIO_BUFSIZE - 1) |->
                     IF i < k THEN sent[fd][taken[fd] + i + 1] ELSE rio[fd].rio_buf[i]]]
<1>1. /\ call.fn \in Reads /\ fd \in Fds /\ call.rc = NULL /\ ~Unread(fd)
      /\ k <= Len(sent[fd]) - taken[fd]
      /\ rio' = [rio EXCEPT ![fd] = r]
      /\ taken' = [taken EXCEPT ![fd] = @ + k]
      /\ UNCHANGED <<sent, fin, reset, given, call>>
  BY <1>0 DEF RioInv, CallOK, Refill, Reading, Reads, Left, net
<1>2. sent[fd] \in Seq(Bytes) /\ taken[fd] \in Nat /\ RIO_BUFSIZE \in Nat /\ k \in Nat
  BY <1>1, RioAssumption DEF RioInv, NetOK
<1>3. NetOK'
  BY <1>1, <1>2 DEF RioInv, NetOK
<1>4. r \in RioT
  <2>1. rio[fd].rio_buf \in [0 .. (RIO_BUFSIZE - 1) -> Bytes]
    BY <1>1 DEF RioInv, BufOK, RioT
  <2>2. ASSUME NEW i \in 0 .. (RIO_BUFSIZE - 1), i < k
        PROVE  sent[fd][taken[fd] + i + 1] \in Bytes
    <3>1. taken[fd] + i + 1 \in 1 .. Len(sent[fd])
      BY <1>1, <1>2, <2>2
    <3> QED
      BY <1>2, <3>1
  <2>3. r.rio_buf \in [0 .. (RIO_BUFSIZE - 1) -> Bytes]
    BY <2>1, <2>2
  <2> QED
    BY <1>2, <2>3 DEF RioT
<1>5. r.rio_cnt = k /\ r.rio_bufptr = 0
      /\ \A i \in 1 .. k : r.rio_buf[0 + i - 1] = sent[fd][taken[fd] + i]
  <2>1. ASSUME NEW i \in 1 .. k PROVE r.rio_buf[i - 1] = sent[fd][taken[fd] + i]
    <3>1. i - 1 \in 0 .. (RIO_BUFSIZE - 1) /\ i - 1 < k /\ taken[fd] + (i - 1) + 1 = taken[fd] + i
      BY <1>2
    <3>2. r.rio_buf[i - 1] = sent[fd][taken[fd] + (i - 1) + 1]
      BY <3>1
    <3> QED
      BY <3>1, <3>2
  <2>2. \A i \in 1 .. k : 0 + i - 1 = i - 1
    BY <1>2
  <2> QED
    BY <2>1, <2>2
<1> HIDE DEF r
<1>6. BufOK'
  BY <1>1, <1>2, <1>4, <1>5 DEF RioInv, BufOK
<1>7. CallOK' /\ Pending'
  BY <1>1 DEF RioInv, CallOK, Pending
<1>8. ShortCountMeansEnd'
  BY <1>1 DEF ShortCountMeansEnd
<1>9. StreamIsIntact'
  <2>1. ASSUME NEW s \in Fds, s # fd
        PROVE  rio'[s] = rio[s] /\ taken'[s] = taken[s] /\ given'[s] = given[s] /\ sent' = sent
               /\ InCall(s)' = InCall(s) /\ InBuf(s)' = InBuf(s)
    BY <1>0, <1>1, <2>1 DEF RioInv, NetOK, BufOK, InCall, InBuf, Unread
  <2>2. rio'[fd] = r /\ taken'[fd] = taken[fd] + k /\ InCall(fd)' = InCall(fd)
        /\ InBuf(fd)' = k /\ InBuf(fd) = 0
    BY <1>0, <1>1, <1>2, <1>5 DEF RioInv, NetOK, BufOK, InCall, InBuf, Unread
  <2>3. /\ given[fd] + InCall(fd) + InBuf(fd) = taken[fd]
        /\ \A i \in 1 .. InCall(fd) : call.usrbuf[i] = sent[fd][given[fd] + i]
    BY <1>1 DEF RioInv, StreamIsIntact
  <2>4. InCall(fd) \in Nat /\ given[fd] \in Nat
    BY <1>0, <1>1 DEF RioInv, CallOK, InCall, Reads, NetOK
  <2>5. /\ given[fd] + InCall(fd) + k = taken[fd] + k
        /\ taken[fd] + k - k = taken[fd]
    BY <1>2, <2>2, <2>3, <2>4
  <2>6. /\ given'[fd] + InCall(fd)' + InBuf(fd)' = taken'[fd]
        /\ \A i \in 1 .. InCall(fd)' : call'.usrbuf[i] = sent'[fd][given'[fd] + i]
        /\ \A i \in 1 .. InBuf(fd)' :
             rio'[fd].rio_buf[rio'[fd].rio_bufptr + i - 1] = sent'[fd][taken'[fd] - InBuf(fd)' + i]
    <3>1. given' = given /\ sent' = sent /\ call' = call
      BY <1>1
    <3>2. given'[fd] + InCall(fd)' + InBuf(fd)' = taken'[fd]
      BY <2>2, <2>5, <3>1
    <3>3. taken'[fd] - InBuf(fd)' = taken[fd]
      <4>1. taken'[fd] = taken[fd] + k /\ InBuf(fd)' = k
        BY <2>2
      <4> QED
        BY <1>2, <4>1
    <3>4. \A i \in 1 .. k : r.rio_buf[r.rio_bufptr + i - 1] = sent[fd][taken[fd] + i]
      BY <1>5
    <3>5. \A i \in 1 .. InCall(fd)' : call'.usrbuf[i] = sent'[fd][given'[fd] + i]
      BY <2>2, <2>3, <3>1
    <3>6. /\ rio'[fd] = r /\ InBuf(fd)' = k /\ sent' = sent
      BY <2>2, <3>1
    <3> QED
      BY <3>2, <3>3, <3>4, <3>5, <3>6
  <2>7. ASSUME NEW s \in Fds
        PROVE  /\ given'[s] + InCall(s)' + InBuf(s)' = taken'[s]
               /\ \A i \in 1 .. InCall(s)' : call'.usrbuf[i] = sent'[s][given'[s] + i]
               /\ \A i \in 1 .. InBuf(s)' :
                    rio'[s].rio_buf[rio'[s].rio_bufptr + i - 1] = sent'[s][taken'[s] - InBuf(s)' + i]
    <3>1. CASE s = fd
      BY <2>6, <3>1
    <3>2. CASE s # fd
      <4>1. /\ given[s] + InCall(s) + InBuf(s) = taken[s]
            /\ \A i \in 1 .. InCall(s) : call.usrbuf[i] = sent[s][given[s] + i]
            /\ \A i \in 1 .. InBuf(s) :
                 rio[s].rio_buf[rio[s].rio_bufptr + i - 1] = sent[s][taken[s] - InBuf(s) + i]
        BY DEF RioInv, StreamIsIntact
      <4> QED
        BY <4>1, <2>1, <3>2, <1>1
    <3> QED
      BY <3>1, <3>2
  <2> QED
    BY <2>7 DEF StreamIsIntact
<1> QED
  BY <1>3, <1>6, <1>7, <1>8, <1>9 DEF RioInv

(* The bytes of a call become bytes given. *)
LEMMA ReturnStep ==
  ASSUME RioInv, Return
  PROVE  RioInv'
<1>1. /\ call.fn # "none" /\ call' = NoCall /\ UNCHANGED <<sent, fin, reset, taken, rio>>
      /\ given' = IF call.fn = "rio_writen" THEN given
                  ELSE [given EXCEPT ![call.fd] = @ + Len(call.usrbuf)]
  BY DEF Return, net, RioInv, CallOK, NoCall
<1>2. CallOK' /\ Pending' /\ ShortCountMeansEnd' /\ BufOK'
  BY <1>1 DEF CallOK, Pending, ShortCountMeansEnd, NoCall, Reads, RioInv, BufOK
<1>3. ASSUME NEW s \in Fds
      PROVE  /\ given'[s] = given[s] + InCall(s) /\ given'[s] \in Nat
             /\ InCall(s)' = 0 /\ InBuf(s)' = InBuf(s) /\ InBuf(s) \in Nat
  <2>1. InCall(s)' = 0
    BY <1>1 DEF InCall, NoCall
  <2>2. InBuf(s)' = InBuf(s) /\ InBuf(s) \in Nat
    BY <1>1 DEF InBuf, Unread, RioInv, BufOK, RioT
  <2>3. given'[s] = given[s] + InCall(s)
    <3>1. CASE call.fn = "rio_writen"
      BY <1>1, <3>1 DEF InCall, RioInv, NetOK
    <3>2. CASE call.fn \in Reads
      BY <1>1, <3>2 DEF InCall, RioInv, NetOK, CallOK, Reads
    <3> QED
      BY <1>1, <3>1, <3>2 DEF RioInv, CallOK
  <2>4. given[s] \in Nat /\ InCall(s) \in Nat
    BY DEF InCall, RioInv, NetOK, CallOK, Reads
  <2> QED
    BY <2>1, <2>2, <2>3, <2>4
<1>4. NetOK'
  <2>1. given' \in [Fds -> Nat]
    <3>1. CASE call.fn = "rio_writen"
      BY <1>1, <3>1 DEF RioInv, NetOK
    <3>2. CASE call.fn # "rio_writen"
      <4>1. call.fd \in Fds /\ Len(call.usrbuf) \in Nat
        BY <1>1, <3>2 DEF RioInv, CallOK, Reads
      <4> QED
        BY <1>1, <3>2, <4>1 DEF RioInv, NetOK
    <3> QED
      BY <3>1, <3>2
  <2> QED
    BY <1>1, <2>1 DEF RioInv, NetOK
<1>5. StreamIsIntact'
  <2>1. ASSUME NEW s \in Fds
        PROVE  /\ given'[s] + InCall(s)' + InBuf(s)' = taken'[s]
               /\ 1 .. InCall(s)' = {}
               /\ \A i \in 1 .. InBuf(s)' :
                    rio'[s].rio_buf[rio'[s].rio_bufptr + i - 1] = sent'[s][taken'[s] - InBuf(s)' + i]
    <3>1. /\ given[s] + InCall(s) + InBuf(s) = taken[s]
          /\ \A i \in 1 .. InBuf(s) :
               rio[s].rio_buf[rio[s].rio_bufptr + i - 1] = sent[s][taken[s] - InBuf(s) + i]
      BY DEF RioInv, StreamIsIntact
    <3>2. given'[s] + InCall(s)' + InBuf(s)' = taken'[s] /\ 1 .. InCall(s)' = {}
      BY <1>1, <1>3, <3>1
    <3> QED
      BY <1>1, <1>3, <3>1, <3>2
  <2>2. ASSUME NEW s \in Fds, NEW i \in 1 .. InCall(s)' PROVE FALSE
    BY <2>1
  <2> QED
    BY <2>1, <2>2 DEF StreamIsIntact
<1> QED
  BY <1>2, <1>4, <1>5 DEF RioInv

(* Bytes of the buffer are appended to those of the call. *)
LEMMA CopyOutStep ==
  ASSUME RioInv, NEW cnt \in 1 .. RIO_BUFSIZE, CopyOut(cnt)
  PROVE  RioInv'
<1>0. PICK fd \in Fds : fd = call.fd
  BY DEF CopyOut, Reading, RioInv, CallOK, Reads
<1> DEFINE u  == call.usrbuf
           ch == Chunk(rio[fd], cnt)
           c  == [call EXCEPT !.usrbuf = @ \o ch]
           r  == [rio_cnt |-> rio[fd].rio_cnt - cnt, rio_bufptr |-> rio[fd].rio_bufptr + cnt,
                  rio_buf |-> rio[fd].rio_buf]
<1>1. /\ call.fn \in Reads /\ fd \in Fds /\ call.rc = NULL /\ Unread(fd)
      /\ cnt <= Wanted /\ cnt <= rio[fd].rio_cnt
      /\ call' = Settled(c)
      /\ rio' = [rio EXCEPT ![fd] = r]
      /\ UNCHANGED <<sent, fin, reset, taken, given>>
  <2>1. Reading /\ Unread(fd) /\ cnt = Smaller(Wanted, rio[fd].rio_cnt)
    BY <1>0 DEF CopyOut
  <2>2. call.fn \in Reads /\ fd \in Fds /\ call.rc = NULL /\ u \in Seq(Bytes) /\ call.n \in Nat
    BY <2>1 DEF Reading, Reads, RioInv, CallOK
  <2>3. Wanted \in Int /\ rio[fd].rio_cnt \in Int
    BY <2>2 DEF Wanted, RioInv, BufOK, RioT
  <2>4. cnt <= Wanted /\ cnt <= rio[fd].rio_cnt
    BY <2>1, <2>3 DEF Smaller
  <2> QED
    BY <1>0, <2>1, <2>2, <2>4 DEF CopyOut, net
<1>2. /\ u \in Seq(Bytes) /\ call.n \in Nat /\ RIO_BUFSIZE \in Nat
      /\ rio[fd] \in RioT /\ rio[fd].rio_cnt \in Nat /\ rio[fd].rio_bufptr \in Nat
      /\ rio[fd].rio_buf \in [0 .. (RIO_BUFSIZE - 1) -> Bytes]
      /\ rio[fd].rio_bufptr + rio[fd].rio_cnt <= RIO_BUFSIZE
  BY <1>1, RioAssumption DEF RioInv, CallOK, BufOK, RioT, Unread
<1>3. /\ ch \in Seq(Bytes) /\ Len(ch) = cnt
      /\ \A i \in 1 .. cnt : ch[i] = rio[fd].rio_buf[rio[fd].rio_bufptr + i - 1]
  <2>1. ASSUME NEW i \in 1 .. cnt
        PROVE  rio[fd].rio_buf[rio[fd].rio_bufptr + i - 1] \in Bytes
    <3>1. rio[fd].rio_bufptr + i - 1 \in 0 .. (RIO_BUFSIZE - 1)
      <4>1. cnt <= rio[fd].rio_cnt
        BY <1>1
      <4> QED
        BY <1>2, <4>1
    <3> QED
      BY <1>2, <3>1
  <2>2. ch = [i \in 1 .. cnt |-> rio[fd].rio_buf[rio[fd].rio_bufptr + i - 1]]
    BY DEF Chunk
  <2> QED
    BY <2>1, <2>2
<1> HIDE DEF ch
<1>4. /\ u \o ch \in Seq(Bytes) /\ Len(u \o ch) = Len(u) + cnt
      /\ \A i \in 1 .. Len(u) : (u \o ch)[i] = u[i]
      /\ \A i \in 1 .. cnt : (u \o ch)[Len(u) + i] = ch[i]
  <2>1. /\ u \o ch \in Seq(Bytes) /\ Len(u \o ch) = Len(u) + Len(ch)
        /\ \A i \in 1 .. (Len(u) + Len(ch)) :
             (u \o ch)[i] = IF i <= Len(u) THEN u[i] ELSE ch[i - Len(u)]
    BY <1>2, <1>3, ConcatProperties
  <2>2. Len(u) \in Nat
    BY <1>2
  <2> HIDE DEF u
  <2>3. ASSUME NEW i \in 1 .. cnt PROVE (u \o ch)[Len(u) + i] = ch[i]
    <3>1. Len(u) + i \in 1 .. (Len(u) + Len(ch)) /\ ~(Len(u) + i <= Len(u)) /\ (Len(u) + i) - Len(u) = i
      BY <1>3, <2>2
    <3> QED
      BY <2>1, <3>1
  <2>4. ASSUME NEW i \in 1 .. Len(u) PROVE (u \o ch)[i] = u[i]
    <3>1. i \in 1 .. (Len(u) + Len(ch)) /\ i <= Len(u)
      BY <1>3, <2>2
    <3> QED
      BY <2>1, <3>1
  <2> QED
    BY <1>3, <2>1, <2>3, <2>4
<1>5. c = [fn |-> call.fn, fd |-> fd, n |-> call.n, usrbuf |-> u \o ch, done |-> call.done, rc |-> NULL]
  <2>1. call = [fn |-> call.fn, fd |-> fd, n |-> call.n, usrbuf |-> u, done |-> call.done, rc |-> NULL]
    BY <1>0, <1>1 DEF RioInv, CallOK
  <2> DEFINE v == u \o ch
  <2>2. c = [call EXCEPT !.usrbuf = v]
    OBVIOUS
  <2> HIDE DEF v, u, c
  <2>3. c = [fn |-> call.fn, fd |-> fd, n |-> call.n, usrbuf |-> v, done |-> call.done, rc |-> NULL]
    BY <2>1, <2>2
  <2> QED
    BY <2>3 DEF v
<1> HIDE DEF c, u
<1>6. /\ c.fn = call.fn /\ c.fd = fd /\ c.n = call.n /\ c.usrbuf = u \o ch /\ c.done = call.done
      /\ c.rc = NULL
  BY <1>5
<1>7. /\ call' = [fn |-> call.fn, fd |-> fd, n |-> call.n, usrbuf |-> u \o ch,
                  done |-> call.done, rc |-> call'.rc]
      /\ Over(c) => call'.rc = Result(c)
      /\ ~Over(c) => call'.rc = NULL
      /\ Over(call') <=> Over(c)
  <2>1. c = [fn |-> c.fn, fd |-> c.fd, n |-> c.n, usrbuf |-> c.usrbuf, done |-> c.done, rc |-> c.rc]
    BY <1>5, <1>6
  <2> QED
    BY <1>1, <1>6, <2>1, SettledOK
<1>8. call'.fn = call.fn /\ call'.fd = fd /\ call'.n = call.n /\ call'.usrbuf = u \o ch
  BY <1>7
<1>9. NetOK'
  BY <1>1 DEF RioInv, NetOK
<1>10. /\ r \in RioT /\ r.rio_cnt = rio[fd].rio_cnt - cnt /\ r.rio_buf = rio[fd].rio_buf
       /\ r.rio_bufptr = rio[fd].rio_bufptr + cnt
  <2>1. rio[fd].rio_cnt - cnt \in Int /\ rio[fd].rio_bufptr + cnt \in Nat
    BY <1>2
  <2> QED
    BY <1>2, <2>1 DEF RioT
<1> HIDE DEF r
<1>11. BufOK'
  BY <1>1, <1>2, <1>10 DEF RioInv, BufOK
<1>12. Len(u) \in Nat /\ Len(u \o ch) \in Nat /\ (u \o ch) # <<>>
  BY <1>2, <1>4
<1>13. CallOK'
  <2>1. Result(c) = Len(u \o ch)
    BY <1>1, <1>6 DEF Result, Reads
  <2>2. call'.rc \in Int \cup {NULL}
    BY <1>7, <1>12, <2>1
  <2>3. call' = [fn |-> call'.fn, fd |-> call'.fd, n |-> call'.n, usrbuf |-> call'.usrbuf,
                 done |-> call'.done, rc |-> call'.rc]
    BY <1>7
  <2>4. call'.fn \in Reads /\ call'.fd \in Fds /\ call'.n \in Nat /\ call'.usrbuf \in Seq(Bytes)
    BY <1>1, <1>2, <1>4, <1>8
  <2> QED
    BY <2>2, <2>3, <2>4 DEF CallOK, Reads
<1>14. Pending'
  <2>1. call'.rc = NULL => ~Over(call')
    <3>1. Result(c) = Len(u \o ch) /\ Result(c) # NULL
      BY <1>1, <1>6, <1>12, RioAssumption DEF Result, Reads
    <3> QED
      BY <1>7, <3>1
  <2>2. CASE call.fn = "rio_readnb"
    <3>1. cnt <= call.n - Len(u)
      BY <1>1, <2>2 DEF Wanted, u
    <3>2. Len(u \o ch) <= call.n
      BY <1>2, <1>4, <1>12, <3>1
    <3> QED
      BY <1>8, <2>1, <2>2, <3>2 DEF Pending
  <2>3. CASE call.fn = "rio_readlineb"
    <3>1. cnt = 1
      BY <1>1, <2>3 DEF Wanted
    <3>2. /\ ~Over(call) /\ call.n > 0
          /\ \A i \in 1 .. (Len(u) - 1) : u[i] # NEWLINE
      BY <1>1, <2>3 DEF RioInv, Pending, u
    <3>3. /\ ~(Len(u) >= call.n - 1)
          /\ u # <<>> => u[Len(u)] # NEWLINE
      BY <2>3, <3>2 DEF Over, u
    <3>4. \A i \in 1 .. Len(u) : u[i] # NEWLINE
      <4> SUFFICES ASSUME NEW i \in 1 .. Len(u) PROVE u[i] # NEWLINE
        OBVIOUS
      <4>1. u # <<>>
        BY <1>2
      <4>2. i = Len(u) \/ i \in 1 .. (Len(u) - 1)
        BY <1>12
      <4> QED
        BY <3>2, <3>3, <4>1, <4>2
    <3>5. Len(u \o ch) < call.n /\ Len(u \o ch) - 1 = Len(u)
      BY <1>2, <1>4, <1>12, <3>1, <3>3
    <3>6. \A i \in 1 .. (Len(u \o ch) - 1) : (u \o ch)[i] # NEWLINE
      BY <1>4, <3>4, <3>5
    <3> QED
      BY <1>8, <2>1, <2>3, <3>2, <3>5, <3>6 DEF Pending
  <2> QED
    BY <1>1, <2>2, <2>3 DEF Reads
<1>15. ShortCountMeansEnd'
  <2> SUFFICES ASSUME call'.rc # NULL PROVE ShortCountMeansEnd'
    BY DEF ShortCountMeansEnd
  <2>1. Over(call')
    BY <1>7
  <2>2. call'.usrbuf \in Seq(Bytes) /\ call'.n \in Nat /\ call'.fn \in Reads
    BY <1>1, <1>2, <1>4, <1>8
  <2>3. call'.fn = "rio_readnb" => Len(call'.usrbuf) = call'.n
    BY <2>1 DEF Over
  <2>4. call'.fn = "rio_readlineb" =>
          /\ \A i \in 1 .. (Len(call'.usrbuf) - 1) : call'.usrbuf[i] # NEWLINE
          /\ Len(call'.usrbuf) < call'.n
    BY <1>14, <2>2 DEF Pending
  <2>5. call'.fn = "rio_readlineb" =>
          \/ call'.usrbuf # <<>> /\ call'.usrbuf[Len(call'.usrbuf)] = NEWLINE
          \/ Len(call'.usrbuf) = call'.n - 1
    BY <2>1, <2>2, <2>4 DEF Over
  <2> QED
    BY <2>3, <2>4, <2>5 DEF ShortCountMeansEnd
<1>16. StreamIsIntact'
  <2>1. ASSUME NEW s \in Fds, s # fd
        PROVE  rio'[s] = rio[s] /\ InCall(s)' = 0 /\ InCall(s) = 0 /\ InBuf(s)' = InBuf(s)
    <3>1. rio'[s] = rio[s]
      BY <1>1, <2>1 DEF RioInv, BufOK
    <3>2. InCall(s)' = 0 /\ InCall(s) = 0
      BY <1>0, <1>8, <2>1 DEF InCall
    <3> QED
      BY <3>1, <3>2 DEF InBuf, Unread
  <2>2. /\ rio'[fd] = r /\ InCall(fd)' = Len(u) + cnt /\ InCall(fd) = Len(u)
        /\ InBuf(fd)' = rio[fd].rio_cnt - cnt /\ InBuf(fd) = rio[fd].rio_cnt
    <3>1. rio'[fd] = r
      BY <1>1 DEF RioInv, BufOK
    <3>2. InCall(fd)' = Len(u) + cnt
      BY <1>1, <1>4, <1>8 DEF InCall, Reads
    <3>3. InCall(fd) = Len(u)
      BY <1>0, <1>1 DEF InCall, Reads, u
    <3>4. InBuf(fd)' = rio[fd].rio_cnt - cnt
      BY <1>1, <1>2, <1>10, <3>1 DEF InBuf, Unread
    <3>5. InBuf(fd) = rio[fd].rio_cnt
      BY <1>1 DEF InBuf, Unread
    <3> QED
      BY <3>1, <3>2, <3>3, <3>4, <3>5
  <2> DEFINE m == rio[fd].rio_cnt
             p == rio[fd].rio_bufptr
             g == given[fd]
             t == taken[fd]
             b == rio[fd].rio_buf
             w == sent[fd]
             l == Len(u)
  <2>3. /\ g + l + m = t
        /\ \A i \in 1 .. l : u[i] = w[g + i]
        /\ \A i \in 1 .. m : b[p + i - 1] = w[t - m + i]
    <3>1. /\ given[fd] + InCall(fd) + InBuf(fd) = taken[fd]
          /\ \A i \in 1 .. InCall(fd) : call.usrbuf[i] = sent[fd][given[fd] + i]
          /\ \A i \in 1 .. InBuf(fd) :
               rio[fd].rio_buf[rio[fd].rio_bufptr + i - 1] = sent[fd][taken[fd] - InBuf(fd) + i]
      BY DEF RioInv, StreamIsIntact
    <3> QED
      BY <2>2, <3>1 DEF u
  <2>4. m \in Nat /\ p \in Nat /\ g \in Nat /\ t \in Nat /\ l \in Nat /\ cnt \in Nat /\ cnt <= m
    BY <1>1, <1>2, <1>12 DEF RioInv, NetOK
  <2>5. \A i \in 1 .. cnt : ch[i] = b[p + i - 1]
    BY <1>3
  <2>6. /\ \A i \in 1 .. l : (u \o ch)[i] = u[i]
        /\ \A i \in 1 .. cnt : (u \o ch)[l + i] = ch[i]
    BY <1>4
  <2>7. /\ given'[fd] = g /\ taken'[fd] = t /\ sent'[fd] = w /\ call'.usrbuf = u \o ch
        /\ rio'[fd].rio_buf = b /\ rio'[fd].rio_bufptr = p + cnt
        /\ InCall(fd)' = l + cnt /\ InBuf(fd)' = m - cnt
    BY <1>1, <1>8, <1>10, <2>2
  <2> HIDE DEF m, p, g, t, b, w, l
  <2>8. g + (l + cnt) + (m - cnt) = t
    BY <2>3, <2>4
  <2>9. ASSUME NEW i \in 1 .. (l + cnt) PROVE (u \o ch)[i] = w[g + i]
    <3>1. CASE i <= l
      <4>1. i \in 1 .. l
        BY <2>4, <3>1
      <4> QED
        BY <2>3, <2>6, <4>1
    <3>2. CASE ~(i <= l)
      <4> DEFINE j == i - l
      <4>1. j \in 1 .. cnt /\ j \in 1 .. m /\ i = l + j /\ t - m + j = g + i
        BY <2>3, <2>4, <3>2
      <4> HIDE DEF j
      <4>2. (u \o ch)[l + j] = ch[j]
        BY <2>6, <4>1
      <4>3. ch[j] = b[p + j - 1]
        BY <2>5, <4>1
      <4>4. b[p + j - 1] = w[t - m + j]
        BY <2>3, <4>1
      <4> QED
        BY <4>1, <4>2, <4>3, <4>4
    <3> QED
      BY <3>1, <3>2
  <2>10. ASSUME NEW i \in 1 .. (m - cnt) PROVE b[(p + cnt) + i - 1] = w[t - (m - cnt) + i]
    <3> DEFINE j == i + cnt
    <3>1. j \in 1 .. m /\ (p + cnt) + i - 1 = p + j - 1 /\ t - (m - cnt) + i = t - m + j
      BY <2>4
    <3> HIDE DEF j
    <3>2. b[p + j - 1] = w[t - m + j]
      BY <2>3, <3>1
    <3> QED
      BY <3>1, <3>2
  <2>11. /\ given'[fd] + InCall(fd)' + InBuf(fd)' = taken'[fd]
         /\ \A i \in 1 .. InCall(fd)' : call'.usrbuf[i] = sent'[fd][given'[fd] + i]
         /\ \A i \in 1 .. InBuf(fd)' :
              rio'[fd].rio_buf[rio'[fd].rio_bufptr + i - 1] = sent'[fd][taken'[fd] - InBuf(fd)' + i]
    BY <2>7, <2>8, <2>9, <2>10
  <2>12. ASSUME NEW s \in Fds, s # fd
         PROVE  /\ given'[s] + InCall(s)' + InBuf(s)' = taken'[s]
                /\ \A i \in 1 .. InCall(s)' : call'.usrbuf[i] = sent'[s][given'[s] + i]
                /\ \A i \in 1 .. InBuf(s)' :
                     rio'[s].rio_buf[rio'[s].rio_bufptr + i - 1] = sent'[s][taken'[s] - InBuf(s)' + i]
    <3>1. /\ given[s] + InCall(s) + InBuf(s) = taken[s]
          /\ \A i \in 1 .. InBuf(s) :
               rio[s].rio_buf[rio[s].rio_bufptr + i - 1] = sent[s][taken[s] - InBuf(s) + i]
      BY DEF RioInv, StreamIsIntact
    <3>2. \A i \in 1 .. 0 : FALSE
      OBVIOUS
    <3> QED
      BY <1>1, <2>1, <2>12, <3>1, <3>2
  <2> QED
    BY <2>11, <2>12 DEF StreamIsIntact
<1> QED
  BY <1>9, <1>11, <1>13, <1>14, <1>15, <1>16 DEF RioInv
-----------------------------------------------------------------------------
(* Every step of the package, or none, preserves the invariant. *)
LEMMA RioStep ==
  ASSUME RioInv, [RioNext]_rioVars
  PROVE  RioInv'
<1>1. CASE UNCHANGED rioVars
  BY <1>1 DEF rioVars, RioInv, NetOK, BufOK, CallOK, Pending, StreamIsIntact, ShortCountMeansEnd,
              InCall, InBuf, Unread, AtEnd
<1>2. ASSUME NEW fd \in Fds, NEW n \in Nat, Call("rio_readnb", fd, n, <<>>)
      PROVE  RioInv'
  BY <1>2, CallRead DEF Reads
<1>3. ASSUME NEW fd \in Fds, NEW maxlen \in Nat \ {0}, Call("rio_readlineb", fd, maxlen, <<>>)
      PROVE  RioInv'
  BY <1>3, CallRead DEF Reads
<1>4. ASSUME NEW fd \in Fds, NEW buf, Call("rio_writen", fd, Len(buf), buf)
      PROVE  RioInv'
  BY <1>4, CallWrite
<1>5. CASE Progress
  BY <1>5, RefillStep, EndSteps, CopyOutStep, WriteSteps DEF Progress
<1>6. CASE RefillInterrupted
  BY <1>6, EndSteps
<1>7. CASE WriteInterrupted
  BY <1>7 DEF WriteInterrupted, net, RioInv, NetOK, BufOK, CallOK, Pending, StreamIsIntact,
              ShortCountMeansEnd, InCall, InBuf, Unread, AtEnd
<1>8. CASE Return
  BY <1>8, ReturnStep
<1>9. ASSUME NEW fd \in Fds, Reset(fd) PROVE RioInv'
  BY <1>9, ResetStep
<1> QED
  BY <1>1, <1>2, <1>3, <1>4, <1>5, <1>6, <1>7, <1>8, <1>9 DEF RioNext

(* For every buffer size, all streams and all calls of rio_readlineb,      *)
(* rio_readnb and rio_writen: no short read, interrupted system call or    *)
(* lost connection makes the reads lose, repeat or move a byte.            *)
THEOREM RioKeepsTheStream == RioSpec => []StreamIsIntact
<1>1. RioInv => StreamIsIntact
  BY DEF RioInv
<1> QED
  BY <1>1, InitOK, RioStep, PTL DEF RioSpec

(* And a result below what was asked for is given at the end of the stream *)
(* only, a line ends at its newline or where its buffer does, with room    *)
(* for the NUL.                                                            *)
THEOREM RioShortCounts == RioSpec => []ShortCountMeansEnd
<1>1. RioInv => ShortCountMeansEnd
  BY DEF RioInv
<1> QED
  BY <1>1, InitOK, RioStep, PTL DEF RioSpec

-----------------------------------------------------------------------------
(* The peers of the thread are peers of the package. *)
LEMMA RelayInitIsRioInit ==
  Init => RioInit([Fds -> Seq(Bytes)], [Fds -> BOOLEAN])
<1> SUFFICES ASSUME NEW c \in Cases,
                    RioInit({[fd \in Fds |-> IF fd = "client" THEN c.client ELSE c.server]},
                            {[fd \in Fds |-> fd = "server" \/ c.fin]})
             PROVE  RioInit([Fds -> Seq(Bytes)], [Fds -> BOOLEAN])
  BY DEF Init
<1>1. c.client \in Seq(Bytes) /\ c.server \in Seq(Bytes) /\ c.fin \in BOOLEAN
  BY RelayAssumption
<1>2. sent \in [Fds -> Seq(Bytes)]
  BY <1>1 DEF RioInit
<1>3. fin \in [Fds -> BOOLEAN]
  BY <1>1 DEF RioInit
<1> QED
  BY <1>2, <1>3 DEF RioInit

(* A step of the thread, a signal or a lost peer is a step of the package, *)
(* or leaves its state alone.                                              *)
LEMMA RelayStepIsRioStep ==
  ASSUME [Next]_vars
  PROVE  [RioNext]_rioVars
<1>0. MAXLINE \in Nat \ {0} /\ "client" \in Fds /\ "server" \in Fds
  BY RelayAssumption
<1>1. CASE UNCHANGED vars
  BY <1>1 DEF vars
<1>2. ASSUME NEW where, Ask(where, "rio_readlineb", "client", MAXLINE, <<>>)
      PROVE  RioNext
  BY <1>0, <1>2 DEF Ask, RioNext
<1>3. ASSUME NEW where, Ask(where, "rio_readnb", "server", MAXLINE, <<>>)
      PROVE  RioNext
  BY <1>0, <1>3 DEF Ask, RioNext
<1>4. ASSUME NEW where, NEW fd \in Fds, NEW buf, Ask(where, "rio_writen", fd, Len(buf), buf)
      PROVE  RioNext
  BY <1>4 DEF Ask, RioNext
<1>5. CASE GotRequestLine \/ GotLine \/ Sent \/ Received \/ Forwarded \/ unix_error
  BY <1>5 DEF GotRequestLine, GotLine, Sent, Received, Forwarded, unix_error, Answered, RioNext
<1>6. CASE open_clientfd \/ Open_clientfd_Fails \/ BuildRequest \/ Store
  <2>1. UNCHANGED rioVars
    BY <1>6, Zenon DEF open_clientfd, Open_clientfd_Fails, BuildRequest, Store
  <2> QED
    BY <2>1
<1>7. CASE Progress \/ Interrupt \/ PeerLost
  BY <1>7 DEF Interrupt, PeerLost, RioNext
<1> QED
  BY <1>0, <1>1, <1>2, <1>3, <1>4, <1>5, <1>6, <1>7 DEF Next, Thread

(* The thread's specification implements the package's. *)
THEOREM RelayUsesRio == Spec => RioSpec
  BY RelayInitIsRioInit, RelayStepIsRioStep, PTL DEF Spec, RioSpec

(* Whatever client and server send, in whatever pieces, and for every      *)
(* RIO_BUFSIZE and MAXLINE: the bytes that the thread has got from a       *)
(* socket, and those still in its rio_buf, are the bytes sent.             *)
THEOREM RelayKeepsTheStream == Spec => []StreamIsIntact
  BY RelayUsesRio, RioKeepsTheStream, PTL

(* And where the thread sees a count below what it asked for, the stream   *)
(* has ended: the loop of send_request never takes a short read of the     *)
(* socket for the end of the response.                                     *)
THEOREM RelayShortCounts == Spec => []ShortCountMeansEnd
  BY RelayUsesRio, RioShortCounts, PTL
-----------------------------------------------------------------------------
(* A set of naturals has a least element. *)
LEMMA LeastNat ==
  ASSUME NEW S, S \subseteq Nat, S # {}
  PROVE  \E x \in S : \A y \in S : x <= y
<1> DEFINE R == OpToRel(<, Nat)
<1>1. PICK x \in S : \A y \in S : ~(<<y, x>> \in R)
  BY NatLessThanWellFounded, WFMin
<1>a. R = {ss \in Nat \X Nat : ss[1] < ss[2]}
  BY Zenon DEF OpToRel
<1> HIDE DEF R
<1>3. \A y \in S : x <= y
  <2> SUFFICES ASSUME NEW y \in S, y < x PROVE FALSE
    OBVIOUS
  <2>1. <<y, x>> \in R
    BY <1>a
  <2> QED BY <1>1, <2>1
<1> QED BY <1>3

(* FlattenSeq joins sequences by a recursive function, which exists, by    *)
(* induction over how many there are, and whose values are sequences.      *)
FlattenStep(s, f, i) == IF i = 1 THEN s[i] ELSE f[i - 1] \o s[i]

(* There is such a function for any number of sequences. *)
LEMMA FlattenExists ==
  ASSUME NEW s, NEW n \in Nat
  PROVE  \E f : f = [i \in 1 .. n |-> FlattenStep(s, f, i)]
<1> DEFINE Bad == {k \in Nat : ~\E f : f = [i \in 1 .. k |-> FlattenStep(s, f, i)]}
<1>1. ASSUME Bad # {} PROVE FALSE
  <2>1. PICK k \in Bad : \A y \in Bad : k <= y
    <3> HIDE DEF Bad
    <3>1. Bad \subseteq Nat
      BY DEF Bad
    <3> QED BY <1>1, <3>1, LeastNat
  <2>2. k # 0
    <3> SUFFICES ASSUME k = 0 PROVE FALSE
      OBVIOUS
    <3> DEFINE f == [i \in {} |-> 0]
    <3>1. f = [i \in 1 .. 0 |-> FlattenStep(s, f, i)]
      OBVIOUS
    <3> QED BY <2>1, <3>1
  <2>3. k \in Nat /\ k - 1 \in Nat /\ k - 1 \notin Bad
    BY <2>1, <2>2
  <2>4. PICK g : g = [i \in 1 .. (k - 1) |-> FlattenStep(s, g, i)]
    BY <2>3
  <2> DEFINE h == [i \in 1 .. k |-> IF i = k THEN FlattenStep(s, g, k) ELSE g[i]]
  <2>5. \A i \in 1 .. k : h[i] = FlattenStep(s, h, i)
    <3> SUFFICES ASSUME NEW i \in 1 .. k PROVE h[i] = FlattenStep(s, h, i)
      OBVIOUS
    <3>1. i # 1 => h[i - 1] = g[i - 1]
      BY <2>3
    <3>2. FlattenStep(s, h, i) = FlattenStep(s, g, i)
      BY <3>1 DEF FlattenStep
    <3>3. CASE i = k
      BY <3>2, <3>3
    <3>4. CASE i # k
      <4>1. i \in 1 .. (k - 1)
        BY <2>3, <3>4
      <4>2. g[i] = FlattenStep(s, g, i)
        BY <2>4, <4>1
      <4> QED BY <3>2, <3>4, <4>2
    <3> QED BY <3>3, <3>4
  <2>6. h = [i \in 1 .. k |-> FlattenStep(s, h, i)]
    <3> DEFINE e == [i \in 1 .. k |-> FlattenStep(s, h, i)]
    <3>1. e = [i \in 1 .. k |-> h[i]]
      BY <2>5
    <3> QED BY <3>1
  <2> QED BY <2>1, <2>6
<1> QED BY <1>1

(* The headers that are joined for the request are a string of bytes. *)
LEMMA FlattenOK ==
  ASSUME NEW S, NEW s \in Seq(Seq(S))
  PROVE  FlattenSeq(s) \in Seq(S)
<1>1. CASE Len(s) = 0
  <2>1. s = <<>>
    BY <1>1
  <2> QED BY <1>1, <2>1 DEF FlattenSeq
<1>2. CASE Len(s) # 0
  <2> DEFINE f == CHOOSE f : f = [i \in 1 .. Len(s) |-> IF i = 1 THEN s[i] ELSE f[i - 1] \o s[i]]
  <2>1. FlattenSeq(s) = f[Len(s)]
    BY <1>2 DEF FlattenSeq
  <2>2. \E g : g = [i \in 1 .. Len(s) |-> FlattenStep(s, g, i)]
    <3>1. Len(s) \in Nat
      OBVIOUS
    <3> QED BY <3>1, FlattenExists
  <2>3. f = [i \in 1 .. Len(s) |-> IF i = 1 THEN s[i] ELSE f[i - 1] \o s[i]]
    BY <2>2 DEF FlattenStep
  <2> HIDE DEF f
  <2> DEFINE Bad == {k \in 1 .. Len(s) : f[k] \notin Seq(S)}
  <2>4. ASSUME Bad # {} PROVE FALSE
    <3>1. PICK k \in Bad : \A y \in Bad : k <= y
      <4>1. Bad \subseteq Nat
        OBVIOUS
      <4> HIDE DEF Bad
      <4> QED BY <2>4, <4>1, LeastNat
    <3>2. k \in 1 .. Len(s) /\ s[k] \in Seq(S) /\ f[k] \notin Seq(S)
      OBVIOUS
    <3>3. f[k] = IF k = 1 THEN s[k] ELSE f[k - 1] \o s[k]
      BY <2>3, <3>2
    <3>4. k # 1 /\ k - 1 \in 1 .. Len(s)
      BY <3>2, <3>3
    <3>5. k - 1 \notin Bad
      BY <3>1, <3>2
    <3>6. f[k - 1] \in Seq(S)
      BY <3>4, <3>5
    <3> QED BY <3>2, <3>3, <3>4, <3>6
  <2>5. Len(s) \in 1 .. Len(s)
    BY <1>2
  <2> QED BY <2>1, <2>4, <2>5
<1> QED BY <1>1, <1>2

-----------------------------------------------------------------------------
(* What the result of a call says: -1 that the connection is lost, another *)
(* number how many bytes it took, or that all were written.                *)
ResultOK ==
  /\ call.fn = "rio_writen" =>
       /\ call.fd \in Fds /\ call.usrbuf \in Seq(Bytes) /\ call.n = Len(call.usrbuf)
       /\ call.done \in 0 .. call.n
  /\ call.rc = -1 => call.fd \in Fds /\ reset[call.fd]
  /\ call.fn \in Reads /\ call.rc \notin {NULL, -1} => call.rc = Len(call.usrbuf)
  /\ call.fn = "rio_writen" /\ call.rc \notin {NULL, -1} => call.done = call.n

(* A record of a call has these fields and no others. *)
Fields(c) == c = [fn |-> c.fn, fd |-> c.fd, n |-> c.n, usrbuf |-> c.usrbuf, done |-> c.done, rc |-> c.rc]

(* Without a call there is no result. *)
LEMMA NoCallOK ==
  ASSUME call' = NoCall
  PROVE  ResultOK'
<1>1. call'.fn = "none" /\ call'.rc = NULL
  BY DEF NoCall
<1>2. NULL # -1
  BY RioAssumption
<1> QED BY <1>1, <1>2 DEF ResultOK, Reads

(* A call that is over at once has the result 0. *)
LEMMA CallResult ==
  ASSUME NEW fn \in Reads \cup {"rio_writen"}, NEW fd \in Fds, NEW buf \in Seq(Bytes), NEW n \in Nat,
         fn \in Reads => buf = <<>>, fn = "rio_writen" => n = Len(buf), Call(fn, fd, n, buf)
  PROVE  /\ ResultOK'
         /\ call'.fn = fn /\ call'.fd = fd /\ call'.n = n /\ call'.usrbuf = buf /\ call'.done = 0
<1> DEFINE c == [fn |-> fn, fd |-> fd, n |-> n, usrbuf |-> buf, done |-> 0, rc |-> NULL]
<1>1. Fields(c) /\ c.fn = fn /\ c.fd = fd /\ c.n = n /\ c.usrbuf = buf /\ c.done = 0 /\ c.rc = NULL
  BY DEF Fields
<1>2. call' = Settled(c)
  BY DEF Call
<1> HIDE DEF c
<1>3. /\ call' = [fn |-> fn, fd |-> fd, n |-> n, usrbuf |-> buf, done |-> 0, rc |-> call'.rc]
      /\ Over(c) => call'.rc = Result(c)
      /\ ~Over(c) => call'.rc = NULL
  BY <1>1, <1>2, SettledOK DEF Fields
<1>4. call'.fn = fn /\ call'.fd = fd /\ call'.n = n /\ call'.usrbuf = buf /\ call'.done = 0
  BY <1>3
<1>5. Over(c) /\ fn = "rio_writen" => n = 0 /\ Result(c) = n
  BY <1>1 DEF Over, Result
<1>6. fn \in Reads => Result(c) = Len(buf)
  BY <1>1 DEF Result, Reads
<1>7. Result(c) \in Nat
  BY <1>1 DEF Result
<1>8. NULL # -1 /\ NULL \notin Int
  BY RioAssumption
<1>9. call'.rc # -1
  BY <1>3, <1>7, <1>8
<1>10. Len(buf) \in Nat
  OBVIOUS
<1>11. call'.fn = "rio_writen" =>
         /\ call'.fd \in Fds /\ call'.usrbuf \in Seq(Bytes) /\ call'.n = Len(call'.usrbuf)
         /\ call'.done \in 0 .. call'.n
  BY <1>4, <1>10
<1>12. call'.fn \in Reads /\ call'.rc \notin {NULL, -1} => call'.rc = Len(call'.usrbuf)
  BY <1>3, <1>4, <1>6
<1>13. call'.fn = "rio_writen" /\ call'.rc \notin {NULL, -1} => call'.done = call'.n
  BY <1>3, <1>4, <1>5
<1> QED BY <1>4, <1>9, <1>11, <1>12, <1>13 DEF ResultOK

(* The call of a read. *)
LEMMA ReadCalled ==
  ASSUME NEW fn \in Reads, NEW fd \in Fds, NEW n \in Nat, Call(fn, fd, n, <<>>)
  PROVE  ResultOK' /\ call'.fn = fn /\ call'.fd = fd /\ call'.n = n
<1>1. fn # "rio_writen" /\ <<>> \in Seq(Bytes) /\ fn \in Reads \cup {"rio_writen"}
  BY DEF Reads
<1> QED BY <1>1, CallResult

(* The call of rio_writen. *)
LEMMA WriteCalled ==
  ASSUME NEW fd \in Fds, NEW buf \in Seq(Bytes), Call("rio_writen", fd, Len(buf), buf)
  PROVE  /\ ResultOK' /\ call'.fn = "rio_writen" /\ call'.fd = fd
         /\ call'.usrbuf = buf /\ call'.done = 0
<1>1. "rio_writen" \notin Reads /\ Len(buf) \in Nat
  BY DEF Reads
<1> QED BY <1>1, CallResult

(* write accepts the next k bytes. *)
LEMMA WriteStep ==
  ASSUME RioInv, ResultOK, NEW k \in 1 .. call.n, WriteSome(k)
  PROVE  /\ ResultOK'
         /\ call.fn = "rio_writen" /\ k <= call.n - call.done
         /\ call'.fn = call.fn /\ call'.fd = call.fd /\ call'.n = call.n
         /\ call'.usrbuf = call.usrbuf /\ call'.done = call.done + k
         /\ written' = [written EXCEPT ![call.fd] =
                          @ \o SubSeq(call.usrbuf, call.done + 1, call.done + k)]
         /\ UNCHANGED <<sent, given, reset>>
<1>1. Fields(call)
  BY DEF RioInv, CallOK, Fields
<1> DEFINE c == [call EXCEPT !.done = @ + k]
<1>2. /\ Fields(c) /\ c.fn = call.fn /\ c.fd = call.fd /\ c.n = call.n /\ c.usrbuf = call.usrbuf
      /\ c.done = call.done + k /\ c.rc = call.rc
  BY <1>1 DEF Fields
<1>3. /\ call' = Settled(c) /\ call.fn = "rio_writen" /\ call.rc = NULL /\ k <= call.n - call.done
      /\ written' = [written EXCEPT ![call.fd] =
                       @ \o SubSeq(call.usrbuf, call.done + 1, call.done + k)]
      /\ UNCHANGED <<sent, given, reset>>
  BY DEF WriteSome, Writing, net
<1> HIDE DEF c
<1>4. /\ call' = [fn |-> call.fn, fd |-> call.fd, n |-> call.n, usrbuf |-> call.usrbuf,
                  done |-> call.done + k, rc |-> call'.rc]
      /\ Over(c) => call'.rc = Result(c)
      /\ ~Over(c) => call'.rc = NULL
  BY <1>2, <1>3, SettledOK DEF Fields
<1>5. /\ call'.fn = call.fn /\ call'.fd = call.fd /\ call'.n = call.n
      /\ call'.usrbuf = call.usrbuf /\ call'.done = call.done + k
  BY <1>4
<1>6. Over(c) => call.done + k = call.n /\ Result(c) = call.n
  BY <1>2, <1>3 DEF Over, Result
<1>7. /\ call.fd \in Fds /\ call.usrbuf \in Seq(Bytes) /\ call.n = Len(call.usrbuf)
      /\ call.done \in 0 .. call.n /\ call.n \in Nat
  BY <1>3 DEF ResultOK
<1>8. NULL # -1 /\ NULL \notin Int
  BY RioAssumption
<1>9. call'.rc # -1
  BY <1>4, <1>6, <1>7, <1>8
<1>10. call'.fn = "rio_writen" =>
         /\ call'.fd \in Fds /\ call'.usrbuf \in Seq(Bytes) /\ call'.n = Len(call'.usrbuf)
         /\ call'.done \in 0 .. call'.n
  BY <1>3, <1>5, <1>7
<1>11. call'.fn \notin Reads
  BY <1>3, <1>5 DEF Reads
<1>12. call'.rc \notin {NULL, -1} => call'.done = call'.n
  BY <1>4, <1>5, <1>6
<1>13. ResultOK'
  BY <1>9, <1>10, <1>11, <1>12 DEF ResultOK
<1> QED BY <1>3, <1>5, <1>13

(* The steps of a read, and the end of a call that fails. *)
LEMMA OtherSteps ==
  ASSUME RioInv, ResultOK,
         \/ \E k \in 1 .. RIO_BUFSIZE : Refill(k) \/ CopyOut(k)
         \/ RefillAtEnd \/ RefillFails \/ RefillInterrupted \/ WriteInterrupted \/ WriteFails
         \/ \E fd \in Fds : Reset(fd)
  PROVE  /\ ResultOK'
         /\ call'.fn = call.fn /\ call'.fd = call.fd /\ call'.n = call.n /\ call'.done = call.done
         /\ call'.usrbuf = call.usrbuf \/ call.fn \in Reads
         /\ UNCHANGED <<sent, given, written>>
         /\ \A fd \in Fds : reset[fd] => reset'[fd]
<1>0. reset \in [Fds -> BOOLEAN]
  BY DEF RioInv, NetOK
<1>1. Fields(call)
  BY DEF RioInv, CallOK, Fields
<1>2. NULL # -1 /\ NULL \notin Int
  BY RioAssumption
<1>3. ASSUME NEW k \in 1 .. RIO_BUFSIZE, Refill(k)
      PROVE  UNCHANGED <<sent, given, written, reset, call>>
  BY <1>3 DEF Refill, net
<1>4. ASSUME RefillInterrupted \/ WriteInterrupted
      PROVE  UNCHANGED <<sent, given, written, reset, call>>
  BY <1>4 DEF RefillInterrupted, WriteInterrupted, net
<1>5. ASSUME UNCHANGED <<sent, given, written, reset, call>>
      PROVE  /\ ResultOK'
             /\ UNCHANGED <<sent, given, written>>
             /\ \A fd \in Fds : reset[fd] => reset'[fd]
  BY <1>5 DEF ResultOK
<1>6. ASSUME NEW fd \in Fds, Reset(fd)
      PROVE  /\ ResultOK'
             /\ call' = call /\ UNCHANGED <<sent, given, written>>
             /\ \A s \in Fds : reset[s] => reset'[s]
  <2>1. call' = call /\ UNCHANGED <<sent, given, written>> /\ reset' = [reset EXCEPT ![fd] = TRUE]
    BY <1>6 DEF Reset, net
  <2>2. \A s \in Fds : reset[s] => reset'[s]
    BY <1>0, <2>1
  <2> QED BY <2>1, <2>2 DEF ResultOK
<1>7. ASSUME NEW rc, call' = [call EXCEPT !.rc = rc], call.fn # "none"
      PROVE  /\ call'.fn = call.fn /\ call'.fd = call.fd /\ call'.n = call.n
             /\ call'.done = call.done /\ call'.usrbuf = call.usrbuf /\ call'.rc = rc
  BY <1>1, <1>7 DEF Fields
<1>8. ASSUME RefillFails \/ WriteFails
      PROVE  /\ ResultOK' /\ UNCHANGED <<sent, given, written, reset>>
             /\ call' = [call EXCEPT !.rc = -1] /\ call.fn # "none"
  <2>1. /\ UNCHANGED <<sent, given, written, reset>> /\ call' = [call EXCEPT !.rc = -1]
        /\ reset[call.fd] /\ call.fn \in Reads \cup {"rio_writen"}
    BY <1>8 DEF RefillFails, WriteFails, Reading, Writing, Reads, net
  <2>2. call.fd \in Fds
    BY <2>1 DEF RioInv, CallOK, ResultOK
  <2>3. call.fn # "none"
    BY <2>1 DEF Reads
  <2>4. /\ call'.fn = call.fn /\ call'.fd = call.fd /\ call'.n = call.n
        /\ call'.done = call.done /\ call'.usrbuf = call.usrbuf /\ call'.rc = -1
    BY <1>7, <2>1, <2>3
  <2> QED BY <2>1, <2>2, <2>3, <2>4 DEF ResultOK
<1>9. ASSUME RefillAtEnd
      PROVE  /\ ResultOK' /\ UNCHANGED <<sent, given, written, reset>>
             /\ call' = [call EXCEPT !.rc = Result(call)] /\ call.fn # "none"
  <2>1. /\ UNCHANGED <<sent, given, written, reset>> /\ call' = [call EXCEPT !.rc = Result(call)]
        /\ call.fn \in Reads
    BY <1>9 DEF RefillAtEnd, Reading, Reads, net
  <2>2. call.usrbuf \in Seq(Bytes)
    BY <2>1 DEF RioInv, CallOK
  <2>3. call.fn # "none" /\ call.fn # "rio_writen"
    BY <2>1 DEF Reads
  <2>4. Result(call) = Len(call.usrbuf) /\ Len(call.usrbuf) \in Nat
    BY <2>2, <2>3 DEF Result
  <2>5. /\ call'.fn = call.fn /\ call'.fd = call.fd /\ call'.n = call.n
        /\ call'.done = call.done /\ call'.usrbuf = call.usrbuf /\ call'.rc = Len(call.usrbuf)
    BY <1>7, <2>1, <2>3, <2>4
  <2> QED BY <2>1, <2>3, <2>4, <2>5 DEF ResultOK
<1>10. ASSUME NEW cnt \in 1 .. RIO_BUFSIZE, CopyOut(cnt)
       PROVE  /\ ResultOK' /\ UNCHANGED <<sent, given, written, reset>>
              /\ call'.fn = call.fn /\ call'.fd = call.fd /\ call'.n = call.n
              /\ call'.done = call.done /\ call.fn \in Reads
  <2> DEFINE u == call.usrbuf \o Chunk(rio[call.fd], cnt)
             c == [call EXCEPT !.usrbuf = u]
  <2>1. /\ UNCHANGED <<sent, given, written, reset>> /\ call.fn \in Reads
        /\ call.rc = NULL /\ call' = Settled(c)
    BY <1>10 DEF CopyOut, Reading, Reads, net
  <2> HIDE DEF u
  <2>2. Fields(c) /\ c.fn = call.fn /\ c.fd = call.fd /\ c.n = call.n /\ c.done = call.done /\ c.rc = NULL
    BY <1>1, <2>1 DEF Fields
  <2> HIDE DEF c
  <2>3. /\ call' = [fn |-> call.fn, fd |-> call.fd, n |-> call.n, usrbuf |-> c.usrbuf,
                    done |-> call.done, rc |-> call'.rc]
        /\ Over(c) => call'.rc = Result(c)
        /\ ~Over(c) => call'.rc = NULL
    BY <2>1, <2>2, SettledOK DEF Fields
  <2>4. /\ call'.fn = call.fn /\ call'.fd = call.fd /\ call'.n = call.n
        /\ call'.done = call.done /\ call'.usrbuf = c.usrbuf
    BY <2>3
  <2>5. call.fn # "none" /\ call.fn # "rio_writen"
    BY <2>1 DEF Reads
  <2>6. Result(c) = Len(c.usrbuf)
    BY <2>2, <2>5 DEF Result
  <2>7. RioInv'
    BY <1>10, CopyOutStep
  <2>8. c.usrbuf \in Seq(Bytes)
    BY <2>1, <2>4, <2>7 DEF RioInv, CallOK
  <2>9. Len(c.usrbuf) \in Nat
    BY <2>8
  <2> QED BY <1>2, <2>1, <2>3, <2>4, <2>5, <2>6, <2>9 DEF ResultOK
<1> QED BY <1>3, <1>4, <1>5, <1>6, <1>7, <1>8, <1>9, <1>10

-----------------------------------------------------------------------------
(* Text is the position of the first NUL. *)
LEMMA TextOK ==
  ASSUME NEW T, NEW s \in Seq(T)
  PROVE  /\ Text(s) \in 0 .. Len(s) /\ Len(s) \in Nat
         /\ Text(s) = 0 => \A k \in 1 .. Len(s) : s[k] # 0
         /\ Text(s) # 0 => s[Text(s)] = 0 /\ \A k \in 1 .. (Text(s) - 1) : s[k] # 0
<1> DEFINE I == {i \in 1 .. Len(s) : s[i] = 0}
<1>1. Text(s) = IF I # {} THEN Min(I) ELSE 0
  BY DEF Text, SelectInSeq
<1>2. Len(s) \in Nat /\ I \subseteq Nat
  OBVIOUS
<1>3. CASE I = {}
  BY <1>1, <1>2, <1>3
<1>4. CASE I # {}
  <2>1. Text(s) \in I /\ \A j \in I : Text(s) <= j
    <3> HIDE DEF I
    <3>1. \E x \in I : \A y \in I : x <= y
      BY <1>2, <1>4, LeastNat
    <3> QED BY <1>1, <1>2, <1>4, <3>1 DEF Min
  <2> QED BY <1>2, <2>1
<1> QED BY <1>3, <1>4

(* The length of a string in bytes that may hold a NUL. *)
LEMMA StringOK ==
  ASSUME NEW T, NEW s \in Seq(T), NEW n, n = Len(String(s))
  PROVE  /\ n \in 0 .. Len(s)
         /\ \A k \in 1 .. n : s[k] # 0
         /\ n < Len(s) => s[n + 1] = 0
<1>1. CASE Text(s) = 0
  BY <1>1, TextOK DEF String
<1>2. CASE Text(s) # 0
  <2>1. Text(s) \in 1 .. Len(s) /\ Len(s) \in Nat
    BY <1>2, TextOK
  <2>2. n = Text(s) - 1
    BY <1>2, <2>1 DEF String
  <2> QED BY <1>2, <2>1, <2>2, TextOK
<1> QED BY <1>1, <1>2

(* Two strings that agree up to the first NUL of one of them. *)
LEMMA StringEq ==
  ASSUME NEW T, NEW s \in Seq(T), NEW t \in Seq(T), Len(s) = Len(t),
         \A i \in 1 .. Len(t) : (\A j \in 1 .. (i - 1) : t[j] # 0) => s[i] = t[i]
  PROVE  String(s) = String(t)
<1>1. CASE Text(t) = 0
  <2>1. \A i \in 1 .. Len(t) : t[i] # 0
    BY <1>1, TextOK
  <2>2. \A i \in 1 .. Len(t) : s[i] = t[i]
    BY <2>1
  <2>3. s = t
    BY <2>2
  <2> QED BY <2>3
<1>2. CASE Text(t) # 0
  <2> DEFINE k == Text(t)
  <2>1. k \in 1 .. Len(t) /\ t[k] = 0 /\ \A i \in 1 .. (k - 1) : t[i] # 0
    BY <1>2, TextOK
  <2> HIDE DEF k
  <2>2. \A i \in 1 .. k : s[i] = t[i]
    <3> SUFFICES ASSUME NEW i \in 1 .. k PROVE s[i] = t[i]
      OBVIOUS
    <3>1. i \in 1 .. Len(t) /\ \A j \in 1 .. (i - 1) : t[j] # 0
      BY <2>1
    <3> QED BY <3>1
  <2>3. Text(s) = k
    <3>0. k \in 1 .. Len(s) /\ s[k] = 0 /\ \A i \in 1 .. (k - 1) : s[i] # 0
      BY <2>1, <2>2
    <3>1. /\ Text(s) \in 0 .. Len(s) /\ Len(s) \in Nat
          /\ Text(s) = 0 => \A j \in 1 .. Len(s) : s[j] # 0
          /\ Text(s) # 0 => s[Text(s)] = 0 /\ \A j \in 1 .. (Text(s) - 1) : s[j] # 0
      BY TextOK
    <3> QED BY <3>0, <3>1
  <2>4. SubSeq(s, 1, k - 1) = SubSeq(t, 1, k - 1)
    BY <2>1, <2>2
  <2>5. k # 0
    BY <1>2 DEF k
  <2> QED BY <2>3, <2>4, <2>5 DEF String, k
<1> QED BY <1>1, <1>2

-----------------------------------------------------------------------------
(* The thread before it has asked the server for anything. *)
Before == {"start", "headers", "build", "overrun", "open", "send", "no server"}

(* Where the thread calls what. *)
CallFits ==
  /\ pc \in Before \cup {"receive", "forward", "store", "closed", "exit"}
  /\ \/ call.fn = "none"
     \/ pc \in {"start", "headers"} /\ call.fn = "rio_readlineb" /\ call.fd = "client" /\ call.n = MAXLINE
     \/ pc = "send" /\ call.fn = "rio_writen" /\ call.fd = "server" /\ call.usrbuf = Request_buf
     \/ pc = "receive" /\ call.fn = "rio_readnb" /\ call.fd = "server" /\ call.n = MAXLINE
     \/ pc = "forward" /\ call.fn = "rio_writen" /\ call.fd = "client" /\ call.usrbuf = read_buf

(* The types of the thread's buffers. *)
Typed ==
  /\ written = [fd \in Fds |-> written[fd]] /\ written["client"] \in Seq(Bytes)
  /\ headers \in Seq(Seq(Bytes)) /\ Request_buf \in Seq(Bytes) /\ read_buf \in Seq(Bytes)

(* The bytes of read_buf that the client has not got yet. *)
Rest == IF pc # "forward" THEN 0
        ELSE Len(read_buf) - IF call.fn = "rio_writen" THEN call.done ELSE 0

(* The client has got the response as far as it was read, but for what is  *)
(* in read_buf; where the thread stops reading, that is all of it.         *)
PassedOn ==
  /\ \A i \in 1 .. Len(written["client"]) : written["client"][i] = sent["server"][i]
  /\ pc \in Before => given["server"] = 0
  /\ pc # "exit" => Len(written["client"]) + Rest = given["server"]
  /\ pc = "forward" => \A i \in 1 .. Len(read_buf) :
                         read_buf[i] = sent["server"][given["server"] - Len(read_buf) + i]
  /\ pc = "exit" => Len(written["client"]) <= given["server"] /\ \E fd \in Fds : reset[fd]
  /\ pc \in {"store", "closed"} => given["server"] = Len(sent["server"])

(* What the package guarantees of the server's stream. *)
Facts ==
  /\ "client" \in Fds /\ "server" \in Fds /\ "client" # "server"
  /\ sent["server"] \in Seq(Bytes) /\ Len(sent["server"]) \in Nat
  /\ given["server"] \in Nat /\ given["server"] <= Len(sent["server"])

(* No more is returned than the server has sent. *)
LEMMA RioFacts ==
  ASSUME RioInv
  PROVE  Facts
<1>1. "client" \in Fds /\ "server" \in Fds
  BY RelayAssumption
<1>2. /\ sent["server"] \in Seq(Bytes) /\ given["server"] \in Nat /\ taken["server"] \in Nat
      /\ taken["server"] <= Len(sent["server"])
  BY <1>1 DEF RioInv, NetOK
<1>3. given["server"] + InCall("server") + InBuf("server") = taken["server"]
  BY <1>1 DEF RioInv, StreamIsIntact
<1>4. InBuf("server") \in Nat
  BY <1>1 DEF RioInv, BufOK, RioT, InBuf, Unread
<1>5. InCall("server") \in Nat
  BY <1>1 DEF RioInv, CallOK, InCall, Reads
<1> QED BY <1>1, <1>2, <1>3, <1>4, <1>5 DEF Facts

(* The k elements of a sequence from place d on. *)
LEMMA PieceIs ==
  ASSUME NEW S, NEW s \in Seq(S), NEW d \in Nat, NEW k \in Nat, k >= 1, d + k <= Len(s)
  PROVE  /\ SubSeq(s, d + 1, d + k) \in Seq(S) /\ Len(SubSeq(s, d + 1, d + k)) = k
         /\ \A i \in 1 .. k : SubSeq(s, d + 1, d + k)[i] = s[d + i]
<1>1. \A i \in (d + 1) .. (d + k) : s[i] \in S
  OBVIOUS
<1>2. /\ SubSeq(s, d + 1, d + k) \in Seq(S)
      /\ Len(SubSeq(s, d + 1, d + k)) = IF d + 1 <= d + k THEN (d + k) - (d + 1) + 1 ELSE 0
      /\ \A i \in 1 .. (d + k) - (d + 1) + 1 : SubSeq(s, d + 1, d + k)[i] = s[(d + 1) + i - 1]
  BY <1>1, SubSeqProperties
<1> QED BY <1>2

(* The steps inside of calls. *)
LEMMA InsidePassesOn ==
  ASSUME RioInv, ResultOK, CallFits, Typed, PassedOn, UNCHANGED local,
         Progress \/ RefillInterrupted \/ WriteInterrupted \/ \E fd \in Fds : Reset(fd)
  PROVE  ResultOK' /\ CallFits' /\ Typed' /\ PassedOn' /\ UNCHANGED <<sent, given>>
<1>1. Facts
  BY RioFacts
<1>2. UNCHANGED <<pc, headers, Request_buf, read_buf>>
  BY DEF local
<1>3. ASSUME NEW k \in 1 .. call.n, WriteSome(k)
      PROVE  ResultOK' /\ CallFits' /\ Typed' /\ PassedOn' /\ UNCHANGED <<sent, given>>
  <2>1. /\ ResultOK'
        /\ call.fn = "rio_writen" /\ k <= call.n - call.done
        /\ call'.fn = call.fn /\ call'.fd = call.fd /\ call'.n = call.n
        /\ call'.usrbuf = call.usrbuf /\ call'.done = call.done + k
        /\ written' = [written EXCEPT ![call.fd] =
                         @ \o SubSeq(call.usrbuf, call.done + 1, call.done + k)]
        /\ UNCHANGED <<sent, given, reset>>
    BY <1>3, WriteStep
  <2>2. CallFits'
    BY <1>2, <2>1 DEF CallFits
  <2>3. /\ call.usrbuf \in Seq(Bytes) /\ call.n = Len(call.usrbuf) /\ call.n \in Nat
        /\ call.done \in 0 .. call.n /\ k \in Nat /\ call.done + k <= call.n /\ k >= 1
    BY <2>1 DEF ResultOK
  <2>4. written' = [fd \in Fds |-> written'[fd]]
    BY <2>1 DEF Typed
  <2>5. CASE call.fd # "client"
    <3>1. pc = "send"
      BY <2>1, <2>5 DEF CallFits
    <3>2. written'["client"] = written["client"]
      BY <1>1, <2>1, <2>5 DEF Typed, Facts
    <3>3. Typed'
      BY <1>2, <2>4, <3>2 DEF Typed
    <3>4. PassedOn'
      BY <1>2, <2>1, <3>1, <3>2 DEF PassedOn, Rest
    <3> QED BY <2>1, <2>2, <3>3, <3>4
  <2>6. CASE call.fd = "client"
    <3> DEFINE W == written["client"]
               piece == SubSeq(read_buf, call.done + 1, call.done + k)
    <3>1. pc = "forward" /\ call.usrbuf = read_buf
      BY <1>1, <2>1, <2>6 DEF CallFits, Facts
    <3>2. written'["client"] = W \o piece
      BY <1>1, <2>1, <2>6, <3>1 DEF Typed, Facts
    <3>3. /\ piece \in Seq(Bytes) /\ Len(piece) = k
          /\ \A i \in 1 .. k : piece[i] = read_buf[call.done + i]
      <4>1. PICK s \in Seq(Bytes) : s = read_buf
        BY <2>3, <3>1
      <4>2. PICK d \in Nat : d = call.done
        BY <2>3
      <4>3. k >= 1 /\ k \in Nat /\ d + k <= Len(s)
        BY <2>3, <3>1, <4>1, <4>2
      <4>4. /\ SubSeq(s, d + 1, d + k) \in Seq(Bytes) /\ Len(SubSeq(s, d + 1, d + k)) = k
            /\ \A i \in 1 .. k : SubSeq(s, d + 1, d + k)[i] = s[d + i]
        BY <4>3, PieceIs
      <4> QED BY <4>1, <4>2, <4>4
    <3>4. W \in Seq(Bytes) /\ Len(W) \in Nat
      BY DEF Typed
    <3>5. Len(W) + (Len(read_buf) - call.done) = given["server"]
      BY <2>1, <3>1 DEF PassedOn, Rest
    <3>6. \A i \in 1 .. Len(W) : W[i] = sent["server"][i]
      BY DEF PassedOn
    <3>7. \A i \in 1 .. Len(read_buf) :
            read_buf[i] = sent["server"][given["server"] - Len(read_buf) + i]
      BY <3>1 DEF PassedOn
    <3> DEFINE V == written'["client"]
    <3> HIDE DEF W, piece
    <3>8. /\ V \in Seq(Bytes) /\ Len(V) = Len(W) + k
          /\ \A i \in 1 .. (Len(W) + k) : V[i] = IF i <= Len(W) THEN W[i] ELSE piece[i - Len(W)]
      <4>1. V = W \o piece /\ W \in Seq(Bytes) /\ piece \in Seq(Bytes)
        BY <3>2, <3>3, <3>4
      <4> HIDE DEF V
      <4>2. /\ V \in Seq(Bytes) /\ Len(V) = Len(W) + Len(piece)
            /\ \A i \in 1 .. (Len(W) + Len(piece)) : V[i] = IF i <= Len(W) THEN W[i] ELSE piece[i - Len(W)]
        BY ONLY <4>1
      <4> QED BY <3>3, <4>2
    <3>9. \A i \in 1 .. Len(V) : V[i] = sent["server"][i]
      <4> SUFFICES ASSUME NEW i \in 1 .. Len(V) PROVE V[i] = sent["server"][i]
        OBVIOUS
      <4> HIDE DEF V
      <4>1. CASE i <= Len(W)
        BY <2>3, <3>4, <3>6, <3>8, <4>1
      <4>2. CASE i > Len(W)
        <5>1. i - Len(W) \in 1 .. k
          BY <2>3, <3>4, <3>8, <4>2
        <5>2. V[i] = read_buf[call.done + (i - Len(W))]
          BY <2>3, <3>3, <3>4, <3>8, <4>2, <5>1
        <5>3. call.done + (i - Len(W)) \in 1 .. Len(read_buf)
          BY <2>3, <3>1, <3>4, <5>1
        <5>4. given["server"] - Len(read_buf) + (call.done + (i - Len(W))) = i
          BY <1>1, <2>3, <3>1, <3>4, <3>5 DEF Facts
        <5> QED BY <3>7, <5>2, <5>3, <5>4
      <4> QED BY <2>3, <3>4, <3>8, <4>1, <4>2
    <3>10. Len(V) + (Len(read_buf) - (call.done + k)) = given["server"]
      BY <1>1, <2>3, <3>1, <3>4, <3>5, <3>8 DEF Facts
    <3>11. Typed'
      BY <1>2, <2>4, <3>8 DEF Typed
    <3>12. Rest' = Len(read_buf) - (call.done + k)
      BY <1>2, <2>1, <3>1 DEF Rest
    <3>13. PassedOn'
      BY <1>2, <2>1, <3>1, <3>7, <3>9, <3>10, <3>12 DEF PassedOn, Before
    <3> QED BY <2>1, <2>2, <3>11, <3>13
  <2> QED BY <2>5, <2>6
<1>4. CASE \/ \E k \in 1 .. RIO_BUFSIZE : Refill(k) \/ CopyOut(k)
           \/ RefillAtEnd \/ RefillFails \/ RefillInterrupted \/ WriteInterrupted \/ WriteFails
           \/ \E fd \in Fds : Reset(fd)
  <2>1. /\ ResultOK'
        /\ call'.fn = call.fn /\ call'.fd = call.fd /\ call'.n = call.n /\ call'.done = call.done
        /\ call'.usrbuf = call.usrbuf \/ call.fn \in Reads
        /\ UNCHANGED <<sent, given, written>>
        /\ \A fd \in Fds : reset[fd] => reset'[fd]
    BY <1>4, OtherSteps
  <2>2. CallFits'
    BY <1>2, <2>1 DEF CallFits, Reads
  <2>3. Typed'
    BY <1>2, <2>1 DEF Typed
  <2>4. Rest' = Rest
    BY <1>2, <2>1 DEF Rest
  <2>5. PassedOn'
    BY <1>2, <2>1, <2>4 DEF PassedOn
  <2> QED BY <2>1, <2>2, <2>3, <2>5
<1> QED BY <1>3, <1>4 DEF Progress

(* The calls. *)
LEMMA AskPassesOn ==
  ASSUME RioInv, ResultOK, CallFits, Typed, PassedOn, UNCHANGED local,
         \/ pc = "start" /\ Call("rio_readlineb", "client", MAXLINE, <<>>)
         \/ pc = "headers" /\ Call("rio_readlineb", "client", MAXLINE, <<>>)
         \/ pc = "send" /\ Call("rio_writen", "server", Len(Request_buf), Request_buf)
         \/ pc = "receive" /\ Call("rio_readnb", "server", MAXLINE, <<>>)
         \/ pc = "forward" /\ Call("rio_writen", "client", Len(read_buf), read_buf)
  PROVE  ResultOK' /\ CallFits' /\ Typed' /\ PassedOn' /\ UNCHANGED <<sent, given>>
<1>1. Facts /\ MAXLINE \in Nat
  BY RioFacts, RelayAssumption
<1>2. UNCHANGED <<pc, headers, Request_buf, read_buf>>
  BY DEF local
<1>3. call = NoCall /\ UNCHANGED <<sent, given, written, reset>>
  BY DEF Call, net
<1>4. call.fn = "none"
  BY <1>3 DEF NoCall
<1>5. Typed'
  BY <1>2, <1>3 DEF Typed
<1>6. ASSUME Rest' = Rest PROVE PassedOn'
  BY <1>2, <1>3, <1>6 DEF PassedOn
<1>7. ASSUME pc \in {"start", "headers"}, Call("rio_readlineb", "client", MAXLINE, <<>>)
      PROVE  ResultOK' /\ CallFits' /\ Rest' = Rest
  <2>1. ResultOK' /\ call'.fn = "rio_readlineb" /\ call'.fd = "client" /\ call'.n = MAXLINE
    BY <1>1, <1>7, ReadCalled DEF Facts, Reads
  <2> QED BY <1>2, <1>7, <2>1 DEF CallFits, Rest, Before
<1>8. ASSUME pc = "send", Call("rio_writen", "server", Len(Request_buf), Request_buf)
      PROVE  ResultOK' /\ CallFits' /\ Rest' = Rest
  <2>1. ResultOK' /\ call'.fn = "rio_writen" /\ call'.fd = "server" /\ call'.usrbuf = Request_buf
    BY <1>1, <1>8, WriteCalled DEF Facts, Typed
  <2> QED BY <1>2, <1>8, <2>1 DEF CallFits, Rest, Before
<1>9. ASSUME pc = "receive", Call("rio_readnb", "server", MAXLINE, <<>>)
      PROVE  ResultOK' /\ CallFits' /\ Rest' = Rest
  <2>1. ResultOK' /\ call'.fn = "rio_readnb" /\ call'.fd = "server" /\ call'.n = MAXLINE
    BY <1>1, <1>9, ReadCalled DEF Facts, Reads
  <2> QED BY <1>2, <1>9, <2>1 DEF CallFits, Rest, Before
<1>10. ASSUME pc = "forward", Call("rio_writen", "client", Len(read_buf), read_buf)
       PROVE  ResultOK' /\ CallFits' /\ Rest' = Rest
  <2>1. /\ ResultOK' /\ call'.fn = "rio_writen" /\ call'.fd = "client"
        /\ call'.usrbuf = read_buf /\ call'.done = 0
    BY <1>1, <1>10, WriteCalled DEF Facts, Typed
  <2> QED BY <1>2, <1>4, <1>10, <2>1 DEF CallFits, Rest, Before
<1> QED BY <1>3, <1>5, <1>6, <1>7, <1>8, <1>9, <1>10

-----------------------------------------------------------------------------
(* mem holds the first n bytes of s, as far as the first NUL. *)
Agree(mem, s, n) ==
  \A i \in 0 .. (n - 1) : (\A j \in 1 .. i : s[j] # 0) => mem[i] = s[i + 1]

(* cache_buf, and the byte after it. *)
Cells == [0 .. MAX_OBJECT_SIZE -> Bytes \cup {JUNK}]

(* The copy of a piece that ends at n writes behind mem only a NUL, if mem  *)
(* is full.                                                                *)
BehindFrom(mem, new, n) ==
  \/ new[MAX_OBJECT_SIZE] = mem[MAX_OBJECT_SIZE]
  \/ new[MAX_OBJECT_SIZE] = 0 /\ n = MAX_OBJECT_SIZE

(* strncat of the next piece stops at its first NUL, and writes one there:  *)
(* from that cell on the bytes do not count.                               *)
LEMMA CopyAgrees ==
  ASSUME NEW s \in Seq(Bytes), NEW mem \in Cells, NEW p \in Nat, NEW r \in Seq(Bytes),
         p + Len(r) <= MAX_OBJECT_SIZE, \A i \in 1 .. Len(r) : r[i] = s[p + i], Agree(mem, s, p),
         NEW new, new = safe_strncpy(mem, p, r)
  PROVE  new \in Cells /\ Agree(new, s, p + Len(r)) /\ BehindFrom(mem, new, p + Len(r))
<1> DEFINE L == Len(String(r))
<1>0. MAX_OBJECT_SIZE \in Nat /\ 0 \in Bytes /\ Len(r) \in Nat
  BY RelayAssumption, RioAssumption
<1>1. L \in 0 .. Len(r) /\ (\A k \in 1 .. L : r[k] # 0) /\ (L < Len(r) => r[L + 1] = 0)
  BY StringOK
<1>2. DOMAIN mem = 0 .. MAX_OBJECT_SIZE
  BY DEF Cells
<1>3. new = [i \in 0 .. MAX_OBJECT_SIZE |->
                CASE i >= p /\ i < p + L -> r[i - p + 1]
                  [] i = p + L -> 0
                  [] OTHER -> mem[i]]
  BY <1>2 DEF safe_strncpy
<1> HIDE DEF L
<1>4. \A i \in 0 .. MAX_OBJECT_SIZE :
        /\ i >= p /\ i < p + L => new[i] = r[i - p + 1]
        /\ i = p + L => new[i] = 0
        /\ i < p \/ i > p + L => new[i] = mem[i]
  BY <1>0, <1>1, <1>3
<1>5. \A i \in 0 .. MAX_OBJECT_SIZE : new[i] \in Bytes \cup {JUNK}
  <2> SUFFICES ASSUME NEW i \in 0 .. MAX_OBJECT_SIZE PROVE new[i] \in Bytes \cup {JUNK}
    OBVIOUS
  <2>1. CASE i >= p /\ i < p + L
    <3>1. i - p + 1 \in 1 .. Len(r)
      BY <1>0, <1>1, <2>1
    <3> QED BY <1>4, <2>1, <3>1
  <2>2. CASE i = p + L
    BY <1>0, <1>4, <2>2
  <2>3. CASE i < p \/ i > p + L
    BY <1>4, <2>3 DEF Cells
  <2> QED BY <1>0, <1>1, <2>1, <2>2, <2>3
<1>6. new \in Cells
  BY <1>3, <1>5 DEF Cells
<1>7. ASSUME NEW i \in 0 .. (p + Len(r) - 1), \A j \in 1 .. i : s[j] # 0
      PROVE  new[i] = s[i + 1]
  <2>0. i \in 0 .. MAX_OBJECT_SIZE
    BY <1>0
  <2>1. CASE i < p
    BY <1>0, <1>4, <1>7, <2>0, <2>1 DEF Agree
  <2>2. CASE i >= p /\ i < p + L
    <3>1. i - p + 1 \in 1 .. Len(r) /\ p + (i - p + 1) = i + 1
      BY <1>0, <1>1, <2>2
    <3>2. r[i - p + 1] = s[i + 1]
      BY <3>1
    <3> QED BY <1>4, <2>0, <2>2, <3>2
  <2>3. CASE i = p + L
    <3>1. L < Len(r) /\ L + 1 \in 1 .. Len(r) /\ p + (L + 1) = i + 1
      BY <1>0, <1>1, <2>3
    <3>2. s[i + 1] = 0
      BY <1>1, <3>1
    <3> QED BY <1>4, <2>0, <2>3, <3>2
  <2>4. CASE i > p + L
    <3>1. L < Len(r) /\ L + 1 \in 1 .. Len(r) /\ p + (L + 1) \in 1 .. i
      BY <1>0, <1>1, <2>4
    <3>2. s[p + (L + 1)] = 0
      BY <1>1, <3>1
    <3> QED BY <1>7, <3>1, <3>2
  <2> QED BY <1>0, <1>1, <2>1, <2>2, <2>3, <2>4
<1>8. BehindFrom(mem, new, p + Len(r))
  <2> DEFINE m == MAX_OBJECT_SIZE
  <2>0. m \in 0 .. m /\ L <= Len(r) /\ L \in Nat
    BY <1>0, <1>1
  <2>1. CASE m = p + L
    <3>1. new[m] = 0
      BY <1>4, <2>0, <2>1
    <3>2. p + Len(r) = m
      BY <1>0, <2>0, <2>1
    <3> QED BY <3>1, <3>2 DEF BehindFrom
  <2>2. CASE m # p + L
    <3>1. m > p + L
      BY <1>0, <2>0, <2>2
    <3>2. new[m] = mem[m]
      BY <1>4, <2>0, <3>1
    <3> QED BY <3>2 DEF BehindFrom
  <2> QED BY <2>1, <2>2
<1> QED BY <1>6, <1>7, <1>8 DEF Agree

(* The bytes of the response up to the pieces that went into the cache. *)
Seen == given["server"] - IF pc = "forward" THEN Len(read_buf) ELSE 0

(* The byte behind cache_buf is written only when all of cache_buf is full. *)
Behind == \/ cache_buf[MAX_OBJECT_SIZE] = JUNK
          \/ cache_buf[MAX_OBJECT_SIZE] = 0 /\ cache_ptr = MAX_OBJECT_SIZE

(* As long as the response may be cached, cache_buf has all of it that went *)
(* through; otherwise it is too large.                                     *)
CacheOK ==
  /\ cache_ptr \in 0 .. MAX_OBJECT_SIZE
  /\ cache_buf \in Cells
  /\ cachable \in BOOLEAN
  /\ pc # "exit" /\ cachable => cache_ptr = Seen
  /\ pc # "exit" /\ ~cachable => Seen > MAX_OBJECT_SIZE
  /\ Agree(cache_buf, sent["server"], cache_ptr)
  /\ Behind
  /\ pc = "closed" =>
       IF Len(sent["server"]) <= MAX_OBJECT_SIZE
       THEN item = [size |-> Len(sent["server"]), data |-> String(sent["server"])]
       ELSE item = NULL

(* The sockets that are open, by where the thread is. *)
OpenOK ==
  /\ addrs \in Seq({"ok", "nosocket", "refused", "badclose"})
  /\ pc \in {"start", "headers", "build", "open"} => open = {clientfd}
  /\ pc \in {"send", "receive", "forward", "store"} => \E n \in Nat \ {0} : open = {clientfd, n}
  /\ pc = "closed" => open = {}

RelayInv == RioInv /\ ResultOK /\ CallFits /\ Typed /\ PassedOn /\ CacheOK /\ OpenOK

(* The thread starts with the client's socket and nothing read. *)
LEMMA RelayInitInv == Init => RelayInv
<1> SUFFICES ASSUME Init PROVE RelayInv
  OBVIOUS
<1>1. RioInv
  BY RelayInitIsRioInit, InitOK
<1>2. PICK c \in Cases :
        /\ RioInit({[fd \in Fds |-> IF fd = "client" THEN c.client ELSE c.server]},
                   {[fd \in Fds |-> fd = "server" \/ c.fin]})
        /\ pc = "start" /\ headers = <<>> /\ addrs = c.addrs /\ open = {clientfd}
        /\ Request_buf = c.left /\ read_buf = <<>>
        /\ cache_buf = [i \in 0 .. MAX_OBJECT_SIZE |-> JUNK]
        /\ cache_ptr = 0 /\ cachable = TRUE /\ item = NULL
  BY DEF Init
<1>3. call = NoCall /\ given = [fd \in Fds |-> 0] /\ written = [fd \in Fds |-> <<>>]
  BY <1>2 DEF RioInit
<1>4. call.fn = "none" /\ call.rc = NULL /\ NULL # -1
  BY <1>3, RioAssumption DEF NoCall
<1>5. "client" \in Fds /\ "server" \in Fds /\ c.left \in Seq(Bytes) /\ MAX_OBJECT_SIZE \in Nat
      /\ c.addrs \in Seq({"ok", "nosocket", "refused", "badclose"})
  BY RelayAssumption
<1>6. ResultOK
  BY <1>4 DEF ResultOK, Reads
<1>7. CallFits
  BY <1>2, <1>4 DEF CallFits, Before
<1>8. written["client"] = <<>> /\ given["server"] = 0
  BY <1>3, <1>5
<1>9. Typed
  BY <1>2, <1>3, <1>5, <1>8 DEF Typed
<1>10. Rest = 0
  BY <1>2 DEF Rest
<1>11. PassedOn
  BY <1>2, <1>8, <1>10 DEF PassedOn
<1>12. CacheOK
  BY <1>2, <1>5, <1>8 DEF CacheOK, Cells, Agree, Seen, Behind
<1>13. OpenOK
  BY <1>2, <1>5 DEF OpenOK
<1> QED BY <1>1, <1>6, <1>7, <1>9, <1>11, <1>12, <1>13 DEF RelayInv

(* Steps that leave the thread's own variables alone. *)
LEMMA CacheOpenSame ==
  ASSUME CacheOK, OpenOK, UNCHANGED local, UNCHANGED <<sent, given>>
  PROVE  CacheOK' /\ OpenOK'
<1>1. UNCHANGED <<pc, addrs, open, read_buf, cache_buf, cache_ptr, cachable, item>>
  BY DEF local
<1>2. Seen' = Seen
  BY <1>1 DEF Seen
<1>3. CacheOK'
  BY <1>1, <1>2 DEF CacheOK, Behind
<1>4. OpenOK'
  BY <1>1 DEF OpenOK
<1> QED BY <1>3, <1>4

(* The thread takes a result. *)
LEMMA TakenResult ==
  ASSUME RioInv, Return
  PROVE  /\ call' = NoCall /\ call'.fn = "none" /\ UNCHANGED <<sent, reset, written>>
         /\ call.fn = "rio_writen" => given' = given
         /\ call.fn # "rio_writen" => given' = [given EXCEPT ![call.fd] = @ + Len(call.usrbuf)]
         /\ call.fn # "none"
<1>1. call' = NoCall /\ UNCHANGED <<sent, reset, written>> /\ call.rc # NULL
  BY DEF Return, net
<1>2. call.fn # "none"
  BY <1>1 DEF RioInv, CallOK, NoCall
<1> QED BY <1>1, <1>2 DEF Return, NoCall

(* The request line and the headers. *)
LEMMA GotKeeps ==
  ASSUME RelayInv, RioInv', GotRequestLine \/ GotLine
  PROVE  RelayInv'
<1>0. RioInv /\ ResultOK /\ CallFits /\ Typed /\ PassedOn /\ CacheOK /\ OpenOK
  BY DEF RelayInv
<1>1. /\ pc \in {"start", "headers"} /\ pc' \in {"headers", "build"} /\ Return
      /\ UNCHANGED <<addrs, open, Request_buf, read_buf, cache_buf, cache_ptr, cachable, item>>
  BY DEF GotRequestLine, GotLine, Answered
<1>2. /\ call' = NoCall /\ call'.fn = "none" /\ UNCHANGED <<sent, reset, written>>
      /\ call.fn # "rio_writen" => given' = [given EXCEPT ![call.fd] = @ + Len(call.usrbuf)]
      /\ call.fn # "none"
  BY <1>0, <1>1, TakenResult
<1>3. call.fn = "rio_readlineb" /\ call.fd = "client"
  BY <1>0, <1>1, <1>2 DEF CallFits
<1>4. call.usrbuf \in Seq(Bytes) /\ Facts /\ given \in [Fds -> Nat]
  BY <1>0, <1>3, RioFacts DEF RioInv, CallOK, Reads, NetOK
<1>5. given'["server"] = given["server"]
  BY <1>2, <1>3, <1>4 DEF Facts
<1>6. headers' \in Seq(Seq(Bytes))
  <2>1. CASE GotRequestLine
    BY <1>0, <2>1 DEF GotRequestLine, Typed
  <2>2. CASE GotLine
    <3>1. headers' = headers \/ headers' = Append(headers, call.usrbuf)
      BY <2>2 DEF GotLine
    <3>2. headers \in Seq(Seq(Bytes))
      BY <1>0 DEF Typed
    <3>3. Append(headers, call.usrbuf) \in Seq(Seq(Bytes))
      BY <1>4, <3>2, AppendProperties
    <3> QED BY <3>1, <3>2, <3>3
  <2> QED BY <2>1, <2>2
<1>7. ResultOK'
  BY <1>2, NoCallOK
<1>8. CallFits'
  BY <1>1, <1>2 DEF CallFits, Before
<1>9. Typed'
  BY <1>0, <1>1, <1>2, <1>6 DEF Typed
<1>10. Rest = 0 /\ Rest' = 0
  BY <1>1 DEF Rest
<1>11. PassedOn'
  BY <1>0, <1>1, <1>2, <1>5, <1>10 DEF PassedOn, Before
<1>12. Seen' = Seen
  BY <1>1, <1>5 DEF Seen
<1>13. CacheOK'
  BY <1>0, <1>1, <1>2, <1>12 DEF CacheOK, Behind
<1>14. OpenOK'
  BY <1>0, <1>1 DEF OpenOK
<1> QED BY <1>7, <1>8, <1>9, <1>11, <1>13, <1>14 DEF RelayInv

(* Building the request and connecting are steps of the thread alone. *)
LEMMA AloneKeeps ==
  ASSUME RelayInv, RioInv', open_clientfd \/ Open_clientfd_Fails \/ BuildRequest
  PROVE  RelayInv'
<1>0. RioInv /\ ResultOK /\ CallFits /\ Typed /\ PassedOn /\ CacheOK /\ OpenOK
  BY DEF RelayInv
<1>1. /\ UNCHANGED rioVars
      /\ UNCHANGED <<headers, read_buf, cache_buf, cache_ptr, cachable, item>>
      /\ pc \in {"open", "build"} /\ pc' \in {"open", "overrun", "no server", "send"}
  <2>1. CASE open_clientfd
    <3>1. /\ UNCHANGED rioVars
          /\ UNCHANGED <<headers, read_buf, cache_buf, cache_ptr, cachable, item>> /\ pc = "open"
      BY <2>1 DEF open_clientfd
    <3>2. pc' = CASE Head(addrs) = "ok" -> "send" [] Head(addrs) = "badclose" -> "no server" [] OTHER -> "open"
      BY <2>1, Zenon DEF open_clientfd
    <3>3. pc' \in {"send", "no server", "open"}
      BY ONLY <3>2
    <3> QED BY <3>1, <3>3
  <2>2. CASE Open_clientfd_Fails
    BY <2>2 DEF Open_clientfd_Fails
  <2>3. CASE BuildRequest
    BY <2>3 DEF BuildRequest
  <2> QED BY <2>1, <2>2, <2>3
<1>2. UNCHANGED <<sent, reset, written, given, call>>
  BY <1>1 DEF rioVars
<1>3. call.fn = "none"
  BY <1>0, <1>1 DEF CallFits
<1>4. ResultOK'
  BY <1>0, <1>2 DEF ResultOK
<1>5. CallFits'
  BY <1>1, <1>2, <1>3 DEF CallFits, Before
<1>6. Request_buf' \in Seq(Bytes)
  <2>1. CASE open_clientfd \/ Open_clientfd_Fails
    BY <1>0, <2>1 DEF open_clientfd, Open_clientfd_Fails, Typed
  <2>2. CASE BuildRequest
    <3>1. Request_buf' = Built \/ Request_buf' = Request_buf
      BY <2>2 DEF BuildRequest
    <3> DEFINE h == FlattenSeq(headers)
    <3>2. /\ Request_buf \in Seq(Bytes) /\ REQUEST \in Seq(Bytes) /\ h \in Seq(Bytes)
          /\ DEFAULTS \in Seq(Bytes) /\ Empty \in Seq(Bytes)
      BY <1>0, RelayAssumption, FlattenOK DEF Typed, Empty
    <3> HIDE DEF h
    <3>3. Request_buf \o REQUEST \o h \o DEFAULTS \o Empty \in Seq(Bytes)
      BY ONLY <3>2
    <3> QED BY <3>1, <3>2, <3>3 DEF h, Built
  <2> QED BY <2>1, <2>2
<1>7. Typed'
  BY <1>0, <1>1, <1>2, <1>6 DEF Typed
<1>8. Rest = 0 /\ Rest' = 0
  BY <1>1 DEF Rest
<1>9. PassedOn'
  BY <1>0, <1>1, <1>2, <1>8 DEF PassedOn, Before
<1>10. Seen' = Seen
  BY <1>1, <1>2 DEF Seen
<1>11. CacheOK'
  BY <1>0, <1>1, <1>2, <1>10 DEF CacheOK, Behind
<1>12. OpenOK'
  <2>1. CASE open_clientfd
    <3> DEFINE how == Head(addrs)
    <3>1. /\ pc = "open" /\ addrs # <<>> /\ addrs' = Tail(addrs)
          /\ open' = IF how \in {"ok", "badclose"} THEN open \cup {Len(addrs)} ELSE open
      BY <2>1 DEF open_clientfd
    <3>2. pc' = CASE how = "ok" -> "send" [] how = "badclose" -> "no server" [] OTHER -> "open"
      BY <2>1, Zenon DEF open_clientfd
    <3>3. Len(addrs) \in Nat \ {0} /\ addrs' \in Seq({"ok", "nosocket", "refused", "badclose"})
      BY <1>0, <3>1 DEF OpenOK
    <3>4. open = {clientfd}
      BY <1>0, <3>1 DEF OpenOK
    <3> HIDE DEF how
    <3>5. CASE how = "ok"
      <4>1. pc' = "send" /\ open' = {clientfd, Len(addrs)}
        BY <3>1, <3>2, <3>4, <3>5
      <4> QED BY <3>3, <4>1 DEF OpenOK
    <3>6. CASE how = "badclose"
      <4>1. pc' = "no server"
        BY <3>2, <3>6
      <4> QED BY <3>3, <4>1 DEF OpenOK
    <3>7. CASE how \notin {"ok", "badclose"}
      <4>1. pc' = "open" /\ open' = open
        BY <3>1, <3>2, <3>7
      <4> QED BY <3>3, <3>4, <4>1 DEF OpenOK
    <3> QED BY <3>5, <3>6, <3>7
  <2>2. CASE Open_clientfd_Fails
    BY <1>0, <2>2 DEF Open_clientfd_Fails, OpenOK
  <2>3. CASE BuildRequest
    BY <1>0, <2>3 DEF BuildRequest, OpenOK
  <2> QED BY <2>1, <2>2, <2>3
<1> QED BY <1>4, <1>5, <1>7, <1>9, <1>11, <1>12 DEF RelayInv

(* The server has got the request. *)
LEMMA SentKeeps ==
  ASSUME RelayInv, RioInv', Sent
  PROVE  RelayInv'
<1>0. RioInv /\ ResultOK /\ CallFits /\ Typed /\ PassedOn /\ CacheOK /\ OpenOK
  BY DEF RelayInv
<1>1. /\ pc = "send" /\ pc' = "receive" /\ Return
      /\ UNCHANGED <<headers, addrs, open, Request_buf, read_buf, cache_buf, cache_ptr, cachable, item>>
  BY DEF Sent, Answered
<1>2. /\ call' = NoCall /\ call'.fn = "none" /\ UNCHANGED <<sent, reset, written>>
      /\ call.fn = "rio_writen" => given' = given
      /\ call.fn # "none"
  BY <1>0, <1>1, TakenResult
<1>3. given' = given
  BY <1>0, <1>1, <1>2 DEF CallFits
<1>4. ResultOK'
  BY <1>2, NoCallOK
<1>5. CallFits'
  BY <1>1, <1>2 DEF CallFits
<1>6. Typed'
  BY <1>0, <1>1, <1>2 DEF Typed
<1>7. Rest = 0 /\ Rest' = 0
  BY <1>1 DEF Rest
<1>8. PassedOn'
  BY <1>0, <1>1, <1>2, <1>3, <1>7 DEF PassedOn, Before
<1>9. Seen' = Seen
  BY <1>1, <1>3 DEF Seen
<1>10. CacheOK'
  BY <1>0, <1>1, <1>2, <1>9 DEF CacheOK, Behind
<1>11. OpenOK'
  BY <1>0, <1>1 DEF OpenOK
<1> QED BY <1>4, <1>5, <1>6, <1>8, <1>10, <1>11 DEF RelayInv

(* A piece of the response, or its end, which is the end of the stream. *)
LEMMA ReceivedKeeps ==
  ASSUME RelayInv, RioInv', Received
  PROVE  RelayInv'
<1>0. RioInv /\ ResultOK /\ CallFits /\ Typed /\ PassedOn /\ CacheOK /\ OpenOK
  BY DEF RelayInv
<1> DEFINE G == given["server"]
           r == Len(call.usrbuf)
<1>1. /\ pc = "receive" /\ Return /\ read_buf' = call.usrbuf /\ call.rc # NULL /\ call.rc # -1
      /\ pc' = IF call.rc > 0 THEN "forward" ELSE "store"
      /\ UNCHANGED <<headers, addrs, open, Request_buf, cache_buf, cache_ptr, cachable, item>>
  BY DEF Received, Answered
<1>2. /\ call' = NoCall /\ call'.fn = "none" /\ UNCHANGED <<sent, reset, written>>
      /\ call.fn # "rio_writen" => given' = [given EXCEPT ![call.fd] = @ + Len(call.usrbuf)]
      /\ call.fn # "none"
  BY <1>0, <1>1, TakenResult
<1>3. call.fn = "rio_readnb" /\ call.fd = "server" /\ call.n = MAXLINE
  BY <1>0, <1>1, <1>2 DEF CallFits
<1>4. /\ call.usrbuf \in Seq(Bytes) /\ r \in Nat /\ Facts /\ given \in [Fds -> Nat]
      /\ G \in Nat /\ MAXLINE \in Nat \ {0} /\ "server" \in Fds
  BY <1>0, <1>3, RioFacts, RelayAssumption DEF RioInv, CallOK, Reads, NetOK, Facts
<1>5. given'["server"] = G + r
  BY <1>2, <1>3, <1>4
<1>6. call.rc = r
  BY <1>0, <1>1, <1>3 DEF ResultOK, Reads
<1>7. /\ InCall("server") = r
      /\ \A i \in 1 .. r : call.usrbuf[i] = sent["server"][G + i]
  <2>1. InCall("server") = r
    BY <1>3 DEF InCall
  <2> QED BY <1>0, <1>4, <2>1 DEF RioInv, StreamIsIntact
<1>8. Len(written["client"]) = G /\ Len(written["client"]) \in Nat
  <2>1. Rest = 0
    BY <1>1 DEF Rest
  <2> QED BY <1>0, <1>1, <1>4, <2>1 DEF PassedOn, Typed
<1>9. pc' = IF r > 0 THEN "forward" ELSE "store"
  BY <1>1, <1>6
<1>10. r = 0 => G = Len(sent["server"])
  <2> SUFFICES ASSUME r = 0 PROVE G = Len(sent["server"])
    OBVIOUS
  <2>1. AtEnd("server")
    BY <1>0, <1>1, <1>3, <1>4 DEF RioInv, ShortCountMeansEnd
  <2>2. G + InCall("server") + InBuf("server") = taken["server"]
    BY <1>0, <1>4 DEF RioInv, StreamIsIntact
  <2>3. InBuf("server") = 0 /\ taken["server"] = Len(sent["server"])
    BY <2>1 DEF AtEnd, InBuf
  <2> QED BY <1>4, <1>7, <2>2, <2>3
<1>11. ResultOK'
  BY <1>2, NoCallOK
<1>12. pc' \in {"forward", "store"} /\ (pc' = "forward" <=> r > 0)
  BY <1>9
<1>13. CallFits'
  BY <1>2, <1>12 DEF CallFits
<1>14. Typed'
  BY <1>0, <1>1, <1>2, <1>4 DEF Typed
<1>15. Rest' = r
  <2>1. CASE r > 0
    BY <1>1, <1>2, <1>4, <1>12, <2>1 DEF Rest
  <2>2. CASE r = 0
    BY <1>4, <1>12, <2>2 DEF Rest
  <2> QED BY <1>4, <2>1, <2>2
<1>16. PassedOn'
  <2>1. \A i \in 1 .. Len(written'["client"]) : written'["client"][i] = sent'["server"][i]
    BY <1>0, <1>2 DEF PassedOn
  <2>2. Len(written'["client"]) + Rest' = given'["server"]
    BY <1>2, <1>4, <1>5, <1>8, <1>15
  <2>3. \A i \in 1 .. Len(read_buf') : read_buf'[i] = sent'["server"][given'["server"] - Len(read_buf') + i]
    BY <1>1, <1>2, <1>4, <1>5, <1>7
  <2>4. pc' = "store" => given'["server"] = Len(sent'["server"])
    BY <1>2, <1>4, <1>5, <1>10, <1>12
  <2> QED BY <1>12, <2>1, <2>2, <2>3, <2>4 DEF PassedOn, Before
<1>17. Seen = G /\ Seen' = G
  <2>1. Seen = G
    BY <1>1, <1>4 DEF Seen
  <2>2. CASE pc' = "forward"
    BY <1>1, <1>4, <1>5, <2>1, <2>2 DEF Seen
  <2>3. CASE pc' = "store"
    BY <1>4, <1>5, <1>12, <2>1, <2>3 DEF Seen
  <2> QED BY <1>12, <2>1, <2>2, <2>3
<1>18. CacheOK'
  BY <1>0, <1>1, <1>2, <1>12, <1>17 DEF CacheOK, Behind
<1>19. OpenOK'
  BY <1>0, <1>1, <1>12 DEF OpenOK
<1> QED BY <1>11, <1>13, <1>14, <1>16, <1>18, <1>19 DEF RelayInv

(* The client has the piece; it goes into cache_buf if there is room. *)
LEMMA ForwardedKeeps ==
  ASSUME RelayInv, RioInv', Forwarded
  PROVE  RelayInv'
<1>0. RioInv /\ ResultOK /\ CallFits /\ Typed /\ PassedOn /\ CacheOK /\ OpenOK
  BY DEF RelayInv
<1> DEFINE G == given["server"]
           r == Len(read_buf)
<1>1. /\ pc = "forward" /\ pc' = "receive" /\ Return /\ call.rc # NULL /\ call.rc # -1
      /\ UNCHANGED <<headers, addrs, open, Request_buf, read_buf, item>>
  BY DEF Forwarded, Answered
<1>2. /\ call' = NoCall /\ call'.fn = "none" /\ UNCHANGED <<sent, reset, written>>
      /\ call.fn = "rio_writen" => given' = given
      /\ call.fn # "none"
  BY <1>0, <1>1, TakenResult
<1>3. call.fn = "rio_writen" /\ call.fd = "client" /\ call.usrbuf = read_buf
  BY <1>0, <1>1, <1>2 DEF CallFits
<1>4. given' = given
  BY <1>2, <1>3
<1>5. read_buf \in Seq(Bytes) /\ r \in Nat /\ Facts /\ G \in Nat /\ MAX_OBJECT_SIZE \in Nat
  BY <1>0, RioFacts, RelayAssumption DEF Typed, Facts
<1>6. call.done = r
  BY <1>0, <1>1, <1>3 DEF ResultOK
<1>7. Rest = 0
  BY <1>1, <1>3, <1>5, <1>6 DEF Rest
<1>8. ResultOK'
  BY <1>2, NoCallOK
<1>9. CallFits'
  BY <1>1, <1>2 DEF CallFits
<1>10. Typed'
  BY <1>0, <1>1, <1>2 DEF Typed
<1>11. Rest' = 0
  BY <1>1 DEF Rest
<1>12. PassedOn'
  BY <1>0, <1>1, <1>2, <1>4, <1>7, <1>11 DEF PassedOn, Before
<1>13. Seen = G - r /\ Seen' = G
  BY <1>1, <1>4, <1>5 DEF Seen
<1>14. G - r \in Nat
  <2>1. Len(written["client"]) \in Nat
    BY <1>0 DEF Typed
  <2>2. cachable \/ Seen > MAX_OBJECT_SIZE
    BY <1>0, <1>1 DEF CacheOK
  <2>3. cachable => Seen \in Nat
    BY <1>0, <1>1 DEF CacheOK
  <2> QED BY <1>5, <1>13, <2>2, <2>3
<1>15. \A i \in 1 .. r : read_buf[i] = sent["server"][(G - r) + i]
  BY <1>0, <1>1 DEF PassedOn
<1>16. cachable \in BOOLEAN /\ cache_ptr \in 0 .. MAX_OBJECT_SIZE /\ cache_buf \in Cells
       /\ Agree(cache_buf, sent["server"], cache_ptr) /\ Behind
  BY <1>0 DEF CacheOK
<1>17. CASE cachable /\ r + cache_ptr <= MAX_OBJECT_SIZE
  <2>1. /\ cache_buf' = safe_strncpy(cache_buf, cache_ptr, read_buf)
        /\ cache_ptr' = cache_ptr + r /\ cachable' = cachable
    BY <1>17 DEF Forwarded
  <2>2. cache_ptr = G - r
    BY <1>0, <1>1, <1>13, <1>17 DEF CacheOK
  <2>3. sent["server"] \in Seq(Bytes) /\ cache_ptr \in Nat /\ cache_ptr + r <= MAX_OBJECT_SIZE
    BY <1>5, <1>16, <1>17 DEF Facts
  <2>4. \A i \in 1 .. Len(read_buf) : read_buf[i] = sent["server"][cache_ptr + i]
    BY <1>15, <2>2
  <2>5. /\ cache_buf' \in Cells /\ Agree(cache_buf', sent["server"], cache_ptr + Len(read_buf))
        /\ BehindFrom(cache_buf, cache_buf', cache_ptr + Len(read_buf))
    BY <1>5, <1>16, <2>1, <2>3, <2>4, CopyAgrees
  <2>6. cache_ptr' = G /\ cache_ptr' \in 0 .. MAX_OBJECT_SIZE
    BY <1>5, <1>16, <1>17, <2>1, <2>2
  <2>7. Agree(cache_buf', sent'["server"], cache_ptr')
    BY <1>2, <2>1, <2>5
  <2>10. Behind'
    <3>1. \/ cache_buf[MAX_OBJECT_SIZE] = JUNK
          \/ cache_buf[MAX_OBJECT_SIZE] = 0 /\ cache_ptr = MAX_OBJECT_SIZE
      BY <1>16 DEF Behind
    <3>2. cache_ptr = MAX_OBJECT_SIZE => cache_ptr' = MAX_OBJECT_SIZE
      BY <1>5, <2>1, <2>3
    <3> QED BY <2>1, <2>5, <3>1, <3>2 DEF Behind, BehindFrom
  <2>8. CacheOK'
    BY <1>1, <1>13, <1>16, <1>17, <2>1, <2>5, <2>6, <2>7, <2>10 DEF CacheOK
  <2>9. OpenOK'
    BY <1>0, <1>1 DEF OpenOK
  <2> QED BY <1>8, <1>9, <1>10, <1>12, <2>8, <2>9 DEF RelayInv
<1>18. CASE ~(cachable /\ r + cache_ptr <= MAX_OBJECT_SIZE)
  <2>1. cachable' = FALSE /\ UNCHANGED <<cache_buf, cache_ptr>>
    BY <1>18 DEF Forwarded
  <2>2. G > MAX_OBJECT_SIZE
    <3>1. CASE cachable
      <4>1. cache_ptr = G - r
        BY <1>0, <1>1, <1>13, <3>1 DEF CacheOK
      <4> QED BY <1>5, <1>16, <1>18, <3>1, <4>1
    <3>2. CASE ~cachable
      <4>1. G - r > MAX_OBJECT_SIZE
        BY <1>0, <1>1, <1>13, <3>2 DEF CacheOK
      <4> QED BY <1>5, <4>1
    <3> QED BY <3>1, <3>2
  <2>3. CacheOK'
    BY <1>1, <1>2, <1>13, <1>16, <2>1, <2>2 DEF CacheOK, Behind
  <2>4. OpenOK'
    BY <1>0, <1>1 DEF OpenOK
  <2> QED BY <1>8, <1>9, <1>10, <1>12, <2>3, <2>4 DEF RelayInv
<1> QED BY <1>17, <1>18

(* The item gets the response up to its first NUL. *)
LEMMA StoreKeeps ==
  ASSUME RelayInv, RioInv', Store
  PROVE  RelayInv'
<1>0. RioInv /\ ResultOK /\ CallFits /\ Typed /\ PassedOn /\ CacheOK /\ OpenOK
  BY DEF RelayInv
<1> DEFINE s == sent["server"]
           d == [i \in 1 .. cache_ptr |-> cache_buf[i - 1]]
<1>1. /\ pc = "store" /\ pc' = "closed" /\ open' = {} /\ UNCHANGED rioVars
      /\ item' = IF ~cachable THEN NULL ELSE [size |-> cache_ptr, data |-> String(d)]
      /\ UNCHANGED <<headers, addrs, Request_buf, read_buf, cache_buf, cache_ptr, cachable>>
  BY DEF Store
<1>2. UNCHANGED <<sent, reset, written, given, call>>
  BY <1>1 DEF rioVars
<1>3. call.fn = "none"
  BY <1>0, <1>1 DEF CallFits
<1>4. Facts /\ MAX_OBJECT_SIZE \in Nat /\ s \in Seq(Bytes) /\ Len(s) \in Nat /\ given["server"] = Len(s)
  BY <1>0, <1>1, RioFacts, RelayAssumption DEF PassedOn, Facts
<1>5. ResultOK'
  BY <1>0, <1>2 DEF ResultOK
<1>6. CallFits'
  BY <1>1, <1>2, <1>3 DEF CallFits
<1>7. Typed'
  BY <1>0, <1>1, <1>2 DEF Typed
<1>8. Rest = 0 /\ Rest' = 0
  BY <1>1 DEF Rest
<1>9. PassedOn'
  BY <1>0, <1>1, <1>2, <1>8 DEF PassedOn, Before
<1>10. Seen = Len(s) /\ Seen' = Len(s)
  BY <1>1, <1>2, <1>4 DEF Seen
<1>11. OpenOK'
  BY <1>0, <1>1 DEF OpenOK
<1>12. /\ cachable \in BOOLEAN /\ cache_ptr \in 0 .. MAX_OBJECT_SIZE /\ cache_buf \in Cells
       /\ Agree(cache_buf, s, cache_ptr) /\ Behind
       /\ cachable => cache_ptr = Len(s)
       /\ ~cachable => Len(s) > MAX_OBJECT_SIZE
  BY <1>0, <1>1, <1>10 DEF CacheOK
<1>13. cachable => String(d) = String(s)
  <2> SUFFICES ASSUME cachable PROVE String(d) = String(s)
    OBVIOUS
  <2>1. cache_ptr = Len(s) /\ cache_ptr \in 0 .. MAX_OBJECT_SIZE
    BY <1>12
  <2> DEFINE T == Bytes \cup {JUNK}
  <2>2. \A i \in 1 .. cache_ptr : cache_buf[i - 1] \in T
    BY <1>4, <1>12, <2>1 DEF Cells
  <2>3. d \in Seq(T) /\ Len(d) = Len(s) /\ \A i \in 1 .. Len(s) : d[i] = cache_buf[i - 1]
    BY <1>4, <2>1, <2>2
  <2>4. s \in Seq(T)
    BY <1>4
  <2>5. \A i \in 1 .. Len(s) : (\A j \in 1 .. (i - 1) : s[j] # 0) => d[i] = s[i]
    <3> SUFFICES ASSUME NEW i \in 1 .. Len(s), \A j \in 1 .. (i - 1) : s[j] # 0
                 PROVE  d[i] = s[i]
      OBVIOUS
    <3>1. i - 1 \in 0 .. (cache_ptr - 1) /\ (i - 1) + 1 = i
      BY <1>4, <2>1
    <3> HIDE DEF d, s
    <3>2. cache_buf[i - 1] = s[(i - 1) + 1]
      BY <1>12, <3>1 DEF Agree
    <3> QED BY <2>3, <3>1, <3>2
  <2> HIDE DEF d, s, T
  <2> QED BY <2>3, <2>4, <2>5, StringEq
<1>14. IF Len(s) <= MAX_OBJECT_SIZE THEN item' = [size |-> Len(s), data |-> String(s)] ELSE item' = NULL
  <2> HIDE DEF d, s
  <2>1. CASE cachable
    BY <1>1, <1>4, <1>12, <1>13, <2>1
  <2>2. CASE ~cachable
    BY <1>1, <1>4, <1>12, <2>2
  <2> QED BY <2>1, <2>2
<1>15. CacheOK'
  <2> HIDE DEF d
  <2> QED BY <1>1, <1>2, <1>4, <1>10, <1>12, <1>14 DEF CacheOK, Behind
<1> QED BY <1>5, <1>6, <1>7, <1>9, <1>11, <1>15 DEF RelayInv

(* A lost connection ends the process. *)
LEMMA ErrorKeeps ==
  ASSUME RelayInv, RioInv', unix_error
  PROVE  RelayInv'
<1>0. RioInv /\ ResultOK /\ CallFits /\ Typed /\ PassedOn /\ CacheOK /\ OpenOK
  BY DEF RelayInv
<1>1. /\ call.rc = -1 /\ Return /\ pc' = "exit"
      /\ UNCHANGED <<headers, addrs, open, Request_buf, read_buf, cache_buf, cache_ptr, cachable, item>>
  BY DEF unix_error
<1>2. /\ call' = NoCall /\ call'.fn = "none" /\ UNCHANGED <<sent, reset, written>>
      /\ call.fn = "rio_writen" => given' = given
      /\ call.fn # "rio_writen" => given' = [given EXCEPT ![call.fd] = @ + Len(call.usrbuf)]
      /\ call.fn # "none"
  BY <1>0, <1>1, TakenResult
<1>3. Facts /\ given \in [Fds -> Nat] /\ Len(written["client"]) \in Nat /\ read_buf \in Seq(Bytes)
  BY <1>0, RioFacts DEF RioInv, NetOK, Typed
<1>4. \E fd \in Fds : reset'[fd]
  BY <1>0, <1>1, <1>2 DEF ResultOK
<1>5. given'["server"] \in Nat /\ given["server"] <= given'["server"]
  <2>1. CASE call.fn = "rio_writen"
    BY <1>2, <1>3, <2>1 DEF Facts
  <2>2. CASE call.fn # "rio_writen"
    <3>1. call.fn \in Reads
      BY <1>0, <1>2, <2>2 DEF RioInv, CallOK
    <3>2. Len(call.usrbuf) \in Nat /\ call.fd \in Fds
      BY <1>0, <3>1 DEF RioInv, CallOK
    <3> QED BY <1>2, <1>3, <2>2, <3>2 DEF Facts
  <2> QED BY <2>1, <2>2
<1>6. Len(written["client"]) <= given["server"]
  <2>1. pc # "exit"
    BY <1>0, <1>2 DEF CallFits
  <2>2. Rest \in Nat
    BY <1>0, <1>3 DEF Rest, CallFits, ResultOK
  <2> QED BY <1>0, <1>3, <2>1, <2>2 DEF PassedOn
<1>7. ResultOK'
  BY <1>2, NoCallOK
<1>8. CallFits'
  BY <1>1, <1>2 DEF CallFits
<1>9. Typed'
  BY <1>0, <1>1, <1>2 DEF Typed
<1>10. PassedOn'
  <2>1. \A i \in 1 .. Len(written'["client"]) : written'["client"][i] = sent'["server"][i]
    BY <1>0, <1>2 DEF PassedOn
  <2>2. Len(written'["client"]) <= given'["server"]
    BY <1>2, <1>3, <1>5, <1>6 DEF Facts
  <2> QED BY <1>1, <1>4, <2>1, <2>2 DEF PassedOn, Before
<1>11. CacheOK'
  BY <1>0, <1>1, <1>2 DEF CacheOK, Behind
<1>12. OpenOK'
  BY <1>0, <1>1 DEF OpenOK
<1> QED BY <1>7, <1>8, <1>9, <1>10, <1>11, <1>12 DEF RelayInv

(* Every step of the thread, of the network and of a peer. *)
LEMMA RelayNextInv == RelayInv /\ [Next]_vars => RelayInv'
<1> SUFFICES ASSUME RelayInv, [Next]_vars PROVE RelayInv'
  OBVIOUS
<1>0. RioInv /\ ResultOK /\ CallFits /\ Typed /\ PassedOn /\ CacheOK /\ OpenOK
  BY DEF RelayInv
<1>1. RioInv'
  BY <1>0, RelayStepIsRioStep, RioStep
<1>2. ASSUME ResultOK' /\ CallFits' /\ Typed' /\ PassedOn' /\ UNCHANGED <<sent, given>>, UNCHANGED local
      PROVE  RelayInv'
  BY <1>0, <1>1, <1>2, CacheOpenSame DEF RelayInv
<1>3. CASE UNCHANGED vars
  <2>1. UNCHANGED local /\ UNCHANGED <<sent, given, call, written, reset, pc, read_buf, headers, Request_buf>>
    BY <1>3 DEF vars, local, rioVars
  <2>2. ResultOK' /\ CallFits' /\ Typed'
    BY <1>0, <2>1 DEF ResultOK, CallFits, Typed
  <2>3. Rest' = Rest
    BY <2>1 DEF Rest
  <2>4. PassedOn'
    BY <1>0, <2>1, <2>3 DEF PassedOn
  <2> QED BY <1>2, <2>1, <2>2, <2>4
<1>4. CASE \/ Ask("start", "rio_readlineb", "client", MAXLINE, <<>>)
           \/ Ask("headers", "rio_readlineb", "client", MAXLINE, <<>>)
           \/ Ask("send", "rio_writen", "server", Len(Request_buf), Request_buf)
           \/ Ask("receive", "rio_readnb", "server", MAXLINE, <<>>)
           \/ Ask("forward", "rio_writen", "client", Len(read_buf), read_buf)
  BY <1>0, <1>2, <1>4, AskPassesOn DEF Ask
<1>5. CASE Progress /\ UNCHANGED local
  BY <1>0, <1>2, <1>5, InsidePassesOn
<1>6. CASE Interrupt \/ PeerLost
  BY <1>0, <1>2, <1>6, InsidePassesOn DEF Interrupt, PeerLost
<1> QED BY <1>1, <1>3, <1>4, <1>5, <1>6, GotKeeps, AloneKeeps, SentKeeps, ReceivedKeeps, ForwardedKeeps,
           StoreKeeps, ErrorKeeps DEF Next, Thread

(* What the thread has passed on, stored and left open, at each of its      *)
(* steps; the properties below are read off it.                            *)
THEOREM RelayInvariant == Spec => []RelayInv
  BY RelayInitInv, RelayNextInv, PTL DEF Spec

(* For every response, every RIO_BUFSIZE and MAXLINE and every size in     *)
(* which the two sockets deliver and take it, the client gets the response *)
(* byte for byte, all of it when the connections are closed, and only a    *)
(* lost connection ends the process before.                                *)
THEOREM RelayPassesAllOn == Spec => []RelayIsExact
<1>1. RelayInv => RelayIsExact
  <2> SUFFICES ASSUME RelayInv PROVE RelayIsExact
    OBVIOUS
  <2> DEFINE W == written["client"]
             s == sent["server"]
  <2>0. RioInv /\ Typed /\ PassedOn /\ Facts /\ CallFits /\ ResultOK
    BY RioFacts DEF RelayInv
  <2>1. W \in Seq(Bytes) /\ Len(W) \in Nat /\ s \in Seq(Bytes) /\ Len(s) \in Nat
    BY <2>0 DEF Typed, Facts
  <2>2. \A i \in 1 .. Len(W) : W[i] = s[i]
    BY <2>0 DEF PassedOn
  <2>3. Rest \in Nat
    BY <2>0 DEF Rest, CallFits, ResultOK, Typed
  <2>4. Len(W) <= Len(s)
    BY <2>0, <2>1, <2>3 DEF PassedOn, Facts
  <2>5. pc = "closed" => Len(W) = Len(s)
    BY <2>0, <2>1 DEF PassedOn, Rest
  <2>6. pc = "exit" => \E fd \in Fds : reset[fd]
    BY <2>0 DEF PassedOn
  <2> HIDE DEF W, s
  <2>7. SubSeq(W, 1, Len(W)) = SubSeq(s, 1, Len(W))
    BY <2>1, <2>2, <2>4
  <2>8. pc = "closed" => W = s
    BY <2>1, <2>2, <2>5
  <2> QED BY <2>4, <2>6, <2>7, <2>8 DEF RelayIsExact, IsPrefix, W, s
<1> QED BY <1>1, RelayInvariant, PTL

(* For every response and all pieces in which it arrives: it is stored if  *)
(* and only if it has at most MAX_OBJECT_SIZE bytes, as far as its first   *)
(* NUL.  Of the memory behind cache_buf only the next byte is written, and *)
(* only by the NUL after a response that fills cache_buf.                  *)
THEOREM RelayCachesExactly == Spec => []CacheIsExact
<1>1. RelayInv => CacheIsExact
  BY DEF RelayInv, CacheOK, CacheIsExact, Behind
<1> QED BY <1>1, RelayInvariant, PTL

(* However many addresses open_clientfd tries, the client's socket and the *)
(* server's are the only ones open during the exchange, and none is after. *)
THEOREM RelayClosesSockets == Spec => []DescriptorsBalance
<1>1. ASSUME NEW n \in Nat \ {0} PROVE Cardinality({clientfd, n}) = 2
  <2>1. IsFiniteSet({clientfd}) /\ Cardinality({clientfd}) = 1 /\ n \notin {clientfd}
    BY FS_Singleton DEF clientfd
  <2>2. Cardinality({clientfd} \cup {n}) = 2
    BY <2>1, FS_AddElement
  <2>3. {clientfd, n} = {clientfd} \cup {n}
    OBVIOUS
  <2> QED BY <2>2, <2>3
<1>2. RelayInv => DescriptorsBalance
  BY <1>1 DEF RelayInv, OpenOK, DescriptorsBalance
<1> QED BY <1>2, RelayInvariant, PTL
-----------------------------------------------------------------------------
(* A stream has finitely many lines. *)
LEMMA EndsFinite ==
  ASSUME NEW s \in Seq(Bytes), NEW S, S \subseteq Ends(s)
  PROVE  IsFiniteSet(S) /\ S \subseteq Nat
<1>1. Len(s) \in Nat /\ S \subseteq 1 .. Len(s) /\ 1 \in Int /\ Len(s) \in Int
  BY DEF Ends
<1>2. IsFiniteSet(1 .. Len(s))
  BY <1>1, FS_Interval
<1>3. IsFiniteSet(S)
  BY <1>1, <1>2, FS_Subset
<1> QED BY <1>1, <1>3

(* A line begins after the end of the line before it. *)
LEMMA LineIs ==
  ASSUME NEW s \in Seq(Bytes), NEW g \in Nat, g = 0 \/ g \in Ends(s), NEW x \in Ends(s), g < x,
         \A j \in Ends(s) : j > g => j >= x
  PROVE  Line(s, x) = SubSeq(s, g + 1, x)
<1> DEFINE B == {0} \cup {j \in Ends(s) : j < x}
<1>1. Ends(s) \subseteq Nat
  BY EndsFinite
<1>2. g \in B /\ \A j \in B : g >= j
  BY <1>1
<1>3. B \subseteq Nat
  BY <1>1
<1> HIDE DEF B
<1>4. PICK m : m = Max(B)
  OBVIOUS
<1>5. m \in B /\ \A j \in B : m >= j
  BY <1>2, <1>3, <1>4 DEF Max
<1>6. m = g
  BY <1>2, <1>3, <1>5
<1> QED BY <1>4, <1>6 DEF Line, B

(* The least number of a set of naturals. *)
LEMMA MinIs ==
  ASSUME NEW S, S \subseteq Nat, NEW x \in S, \A y \in S : x <= y
  PROVE  Min(S) = x
<1>1. PICK m : m = Min(S)
  OBVIOUS
<1>2. m \in S /\ \A y \in S : m <= y
  BY <1>1 DEF Min
<1>3. m <= x /\ x <= m /\ m \in Nat /\ x \in Nat
  BY <1>2
<1>4. m = x
  BY <1>3
<1> QED BY <1>1, <1>4

(* The sequence of no lines. *)
LEMMA NoLines == \A s : LinesAt(s, {}) = <<>>
<1>1. Cardinality({}) = 0
  BY FS_EmptySet
<1> QED BY <1>1 DEF LinesAt

(* A line after all those at S comes last. *)
LEMMA OneLineMore ==
  ASSUME NEW s \in Seq(Bytes), NEW S, IsFiniteSet(S), S \subseteq Nat,
         NEW x \in Nat, \A j \in S : j < x, LinesAt(s, S) \in Seq(Seq(Bytes)),
         Line(s, x) \in Seq(Bytes)
  PROVE  LinesAt(s, S \cup {x}) = Append(LinesAt(s, S), Line(s, x))
<1> DEFINE T == S \cup {x}
           C == Cardinality(S)
           UpTo(A, i) == {j \in A : j <= i}
           At(A, n) == {i \in A : Cardinality(UpTo(A, i)) = n}
<1>1. C \in Nat /\ x \notin S
  BY FS_CardinalityType
<1>2. IsFiniteSet(T) /\ Cardinality(T) = C + 1
  BY <1>1, FS_AddElement
<1>3. \A i \in S : UpTo(T, i) = UpTo(S, i)
  OBVIOUS
<1>4. UpTo(T, x) = T
  <2>1. \A j \in T : j \in Nat /\ j <= x
    OBVIOUS
  <2> HIDE DEF T
  <2> QED BY <2>1
<1>5. \A i \in S : Cardinality(UpTo(S, i)) <= C
  <2> SUFFICES ASSUME NEW i \in S PROVE Cardinality(UpTo(S, i)) <= C
    OBVIOUS
  <2>1. UpTo(S, i) \subseteq S
    OBVIOUS
  <2> HIDE DEF UpTo
  <2> QED BY <2>1, FS_Subset
<1>6. \A i \in S : Cardinality(UpTo(S, i)) \in Nat
  <2> SUFFICES ASSUME NEW i \in S PROVE Cardinality(UpTo(S, i)) \in Nat
    OBVIOUS
  <2>1. UpTo(S, i) \subseteq S
    OBVIOUS
  <2> HIDE DEF UpTo
  <2> QED BY <2>1, FS_Subset, FS_CardinalityType
<1>7. \A n \in 1 .. C : At(T, n) = At(S, n)
  <2> SUFFICES ASSUME NEW n \in 1 .. C PROVE At(T, n) = At(S, n)
    OBVIOUS
  <2>0. Cardinality(UpTo(T, x)) # n
    <3> HIDE DEF UpTo, T, C
    <3> QED BY <1>1, <1>2, <1>4
  <2>1. \A i \in S : Cardinality(UpTo(T, i)) = Cardinality(UpTo(S, i))
    BY <1>3, Zenon
  <2> HIDE DEF UpTo
  <2> QED BY <2>0, <2>1
<1>8. At(T, C + 1) = {x}
  <2>1. \A i \in S : Cardinality(UpTo(T, i)) # C + 1
    <3> SUFFICES ASSUME NEW i \in S PROVE Cardinality(UpTo(T, i)) # C + 1
      OBVIOUS
    <3>1. UpTo(T, i) = UpTo(S, i)
      BY <1>3
    <3> HIDE DEF UpTo, C, T
    <3> QED BY <1>1, <1>5, <1>6, <3>1
  <2>2. Cardinality(UpTo(T, x)) = C + 1
    BY <1>2, <1>4, Zenon
  <2> HIDE DEF UpTo, C
  <2> QED BY <2>1, <2>2
<1>9. \A n \in 1 .. C : Nth(T, n) = Nth(S, n)
  <2> SUFFICES ASSUME NEW n \in 1 .. C PROVE Nth(T, n) = Nth(S, n)
    OBVIOUS
  <2>1. At(T, n) = At(S, n)
    BY <1>7
  <2>2. Nth(T, n) = Min(At(T, n)) /\ Nth(S, n) = Min(At(S, n))
    BY Zenon DEF Nth
  <2> QED BY <2>1, <2>2, Zenon
<1>10. Nth(T, C + 1) = x
  <2>1. Nth(T, C + 1) = Min(At(T, C + 1))
    BY Zenon DEF Nth
  <2>2. Nth(T, C + 1) = Min({x})
    BY <1>8, <2>1, Zenon
  <2>3. {x} \subseteq Nat /\ x \in {x} /\ \A y \in {x} : x <= y
    OBVIOUS
  <2>4. \A X : X = {x} => Min(X) = x
    BY <2>3, MinIs
  <2> QED BY <2>2, <2>4
<1>11. LinesAt(s, S) = [n \in 1 .. C |-> Line(s, Nth(S, n))]
  BY Zenon DEF LinesAt
<1>12. LinesAt(s, T) = [n \in 1 .. Cardinality(T) |-> Line(s, Nth(T, n))]
  BY Zenon DEF LinesAt
<1> DEFINE h == LinesAt(s, S)
           l == Line(s, x)
<1>13. h \in Seq(Seq(Bytes)) /\ l \in Seq(Bytes) /\ DOMAIN h = 1 .. C
  BY <1>11
<1>14. Len(h) = C
  BY <1>1, <1>13
<1> HIDE DEF T, C, h, l
<1>15. LinesAt(s, T) = [n \in 1 .. (C + 1) |-> Line(s, Nth(T, n))]
  BY <1>2, <1>12
<1>16. Append(h, l) = [n \in 1 .. (C + 1) |-> IF n = C + 1 THEN l ELSE h[n]]
  <2>1. /\ Append(h, l) \in Seq(Seq(Bytes)) /\ Len(Append(h, l)) = C + 1
        /\ \A n \in 1 .. C : Append(h, l)[n] = h[n]
        /\ Append(h, l)[C + 1] = l
    BY <1>13, <1>14, AppendProperties
  <2>2. DOMAIN Append(h, l) = 1 .. (C + 1)
    BY <2>1
  <2>3. PICK a : a = Append(h, l)
    OBVIOUS
  <2>4. \A n \in 1 .. (C + 1) : Append(h, l)[n] = IF n = C + 1 THEN l ELSE h[n]
    BY <1>1, <2>1
  <2>5. a = [n \in 1 .. (C + 1) |-> IF n = C + 1 THEN l ELSE h[n]]
    <3>1. a \in Seq(Seq(Bytes)) /\ Len(a) = C + 1
      BY <2>1, <2>3
    <3>2. \A n \in 1 .. (C + 1) : a[n] = IF n = C + 1 THEN l ELSE h[n]
      BY <2>3, <2>4
    <3>3. DOMAIN a = 1 .. (C + 1) /\ a = [n \in DOMAIN a |-> a[n]]
      BY ONLY <3>1
    <3>4. a = [n \in 1 .. (C + 1) |-> a[n]]
      BY <3>3
    <3> QED BY ONLY <3>2, <3>4
  <2> QED BY <2>3, <2>5
<1>17. \A n \in 1 .. (C + 1) : Line(s, Nth(T, n)) = IF n = C + 1 THEN l ELSE h[n]
  <2> SUFFICES ASSUME NEW n \in 1 .. (C + 1)
               PROVE  Line(s, Nth(T, n)) = IF n = C + 1 THEN l ELSE h[n]
    OBVIOUS
  <2>1. CASE n = C + 1
    BY <1>10, <2>1 DEF l
  <2>2. CASE n # C + 1
    <3>1. n \in 1 .. C
      BY <1>1, <2>2
    <3>2. Nth(T, n) = Nth(S, n)
      BY <1>9, <3>1
    <3>3. h[n] = Line(s, Nth(S, n))
      BY <1>11, <3>1 DEF h
    <3> QED BY <2>2, <3>2, <3>3
  <2> QED BY <2>1, <2>2
<1>18. LinesAt(s, T) = Append(h, l)
  BY <1>15, <1>16, <1>17
<1> QED BY <1>18 DEF T, h, l
-----------------------------------------------------------------------------
(* Where the server has got nothing of the request, and where all of it.   *)
Unsent == {"start", "headers", "build", "overrun"}
Done   == {"receive", "forward", "store", "closed"}

(* Of a complete request, the thread has read whole lines, and has kept    *)
(* the headers among them.                                                 *)
LinesOK ==
  Complete(sent["client"]) =>
    /\ pc = "start" => given["client"] = 0 /\ headers = <<>>
    /\ pc = "headers" =>
         /\ given["client"] \in Ends(sent["client"])
         /\ \A e \in EmptyLines(sent["client"]) : given["client"] < e
         /\ headers = LinesAt(sent["client"], HeadersIn(sent["client"], 1 .. given["client"]))
    /\ pc \in {"build", "overrun", "open", "send"} \cup Done => headers = HeaderLines(sent["client"])

(* The request that is built for case c from the headers the thread has. *)
RequestFor(c) == c.left \o REQUEST \o FlattenSeq(headers) \o DEFAULTS \o Empty

(* The request for the server is built on what Request_buf held, if it      *)
(* fits, and goes out as far as write has accepted it.                     *)
RequestOK ==
  /\ \E c \in Cases :
       /\ c.client = sent["client"]
       /\ pc \in Unsent => Request_buf = c.left
       /\ pc = "overrun" => Len(RequestFor(c)) >= REQUEST_SIZE
       /\ pc \in {"open", "send"} \cup Done =>
            Request_buf = RequestFor(c) /\ Len(RequestFor(c)) < REQUEST_SIZE
  /\ pc \in Unsent \cup {"open"} => written["server"] = <<>>
  /\ pc = "send" =>
       written["server"] = SubSeq(Request_buf, 1, IF call.fn = "rio_writen" THEN call.done ELSE 0)
  /\ pc \in Done => written["server"] = Request_buf

(* A line that the thread gets from a complete request is the next one of  *)
(* the stream, and a whole one.                                            *)
LEMMA NextLine ==
  ASSUME RelayInv, Complete(sent["client"]), call.rc \notin {NULL, -1},
         call.fn = "rio_readlineb", call.fd = "client", call.n = MAXLINE,
         \/ given["client"] = 0
         \/ /\ given["client"] \in Ends(sent["client"])
            /\ \A e \in EmptyLines(sent["client"]) : given["client"] < e
  PROVE  /\ given["client"] + Len(call.usrbuf) \in Ends(sent["client"])
         /\ Len(call.usrbuf) \in Nat \ {0}
         /\ \A j \in Ends(sent["client"]) :
              j > given["client"] => j >= given["client"] + Len(call.usrbuf)
         /\ call.usrbuf = Line(sent["client"], given["client"] + Len(call.usrbuf))
         /\ call.usrbuf \in Seq(Bytes)
         /\ \A i \in 1 .. (Len(call.usrbuf) - 1) : call.usrbuf[i] # NEWLINE
<1> DEFINE s == sent["client"]
           g == given["client"]
           u == call.usrbuf
<1>0. RioInv /\ "client" \in Fds /\ MAXLINE \in Nat
  BY RelayAssumption DEF RelayInv
<1>1. s \in Seq(Bytes) /\ Len(s) \in Nat /\ g \in Nat /\ taken["client"] \in Nat
  BY <1>0 DEF RioInv, NetOK
<1>2. u \in Seq(Bytes) /\ Len(u) \in Nat
  BY <1>0 DEF RioInv, CallOK, Reads
<1>3. InCall("client") = Len(u)
  BY DEF InCall
<1>4. /\ g + Len(u) + InBuf("client") = taken["client"]
      /\ \A i \in 1 .. Len(u) : u[i] = s[g + i]
  BY <1>0, <1>3 DEF RioInv, StreamIsIntact
<1>5. /\ \A i \in 1 .. (Len(u) - 1) : u[i] # NEWLINE
      /\ Len(u) < MAXLINE
      /\ \/ u # <<>> /\ u[Len(u)] = NEWLINE
         \/ Len(u) = MAXLINE - 1 \/ AtEnd("client")
  BY <1>0 DEF RioInv, ShortCountMeansEnd
<1>6. AtEnd("client") => g + Len(u) = Len(s)
  <2> SUFFICES ASSUME AtEnd("client") PROVE g + Len(u) = Len(s)
    OBVIOUS
  <2>1. taken["client"] = Len(s) /\ InBuf("client") = 0
    BY DEF AtEnd, InBuf
  <2> QED BY <1>1, <1>2, <1>4, <2>1
<1>7. EmptyLines(s) # {} /\ EmptyLines(s) \subseteq Ends(s)
  BY DEF Complete, EmptyLines, Later
<1>8. Ends(s) \subseteq 1 .. Len(s) /\ \A i \in 1 .. Len(s) : i \in Ends(s) <=> s[i] = NEWLINE
  BY DEF Ends
<1>9. g = 0 \/ g \in Ends(s)
  OBVIOUS
<1>10. \E e \in Ends(s) : g < e
  BY <1>1, <1>7, <1>8
<1>11. \A i \in Ends(s) : Len(Line(s, i)) < MAXLINE
  BY DEF Complete
<1> HIDE DEF s, g, u
<1> DEFINE A == {e \in Ends(s) : g < e}
<1>12. PICK x \in A : \A y \in A : x <= y
  <2>1. A \subseteq Nat /\ A # {}
    BY <1>8, <1>10
  <2> HIDE DEF A
  <2> QED BY <2>1, LeastNat
<1>13. x \in Ends(s) /\ x \in 1 .. Len(s) /\ g < x /\ s[x] = NEWLINE /\ \A j \in Ends(s) : j > g => j >= x
  BY <1>1, <1>8, <1>12
<1>14. Line(s, x) = SubSeq(s, g + 1, x)
  BY <1>1, <1>9, <1>13, LineIs
<1>15. Len(Line(s, x)) = x - g
  BY <1>1, <1>13, <1>14
<1>16. x - g < MAXLINE
  BY <1>11, <1>13, <1>15
<1>17. ~(Len(u) > x - g)
  <2> SUFFICES ASSUME Len(u) > x - g PROVE FALSE
    OBVIOUS
  <2>1. x - g \in 1 .. (Len(u) - 1) /\ x - g \in 1 .. Len(u) /\ g + (x - g) = x
    BY <1>1, <1>2, <1>13
  <2>2. u[x - g] = NEWLINE
    BY <1>4, <1>13, <2>1
  <2> QED BY <1>5, <2>1, <2>2
<1>18. ~(Len(u) < x - g)
  <2> SUFFICES ASSUME Len(u) < x - g PROVE FALSE
    OBVIOUS
  <2>1. CASE u # <<>> /\ u[Len(u)] = NEWLINE
    <3>1. Len(u) \in 1 .. Len(u)
      BY <1>2, <2>1
    <3>2. s[g + Len(u)] = NEWLINE /\ g + Len(u) \in 1 .. Len(s) /\ g + Len(u) > g /\ g + Len(u) < x
      BY <1>1, <1>2, <1>4, <1>13, <2>1, <3>1
    <3>3. g + Len(u) \in Ends(s)
      BY <1>8, <3>2
    <3> QED BY <1>1, <1>2, <1>13, <3>2, <3>3
  <2>2. CASE Len(u) = MAXLINE - 1
    BY <1>0, <1>1, <1>2, <1>13, <1>16, <2>2
  <2>3. CASE AtEnd("client")
    BY <1>1, <1>2, <1>6, <1>13, <2>3
  <2> QED BY <1>5, <2>1, <2>2, <2>3
<1>19. Len(u) = x - g /\ g + Len(u) = x
  BY <1>1, <1>2, <1>13, <1>17, <1>18
<1>20. u = SubSeq(s, g + 1, x)
  <2>1. SubSeq(s, g + 1, x) \in Seq(Bytes) /\ Len(SubSeq(s, g + 1, x)) = x - g
        /\ \A i \in 1 .. (x - g) : SubSeq(s, g + 1, x)[i] = s[g + i]
    BY <1>1, <1>13
  <2>2. PICK w : w = SubSeq(s, g + 1, x)
    OBVIOUS
  <2>3. w \in Seq(Bytes) /\ Len(w) = Len(u) /\ \A i \in 1 .. Len(u) : w[i] = u[i]
    BY <1>4, <1>19, <2>1, <2>2
  <2>4. w = u
    BY ONLY <1>2, <2>3
  <2> QED BY <2>2, <2>4
<1>21. Len(u) \in Nat \ {0}
  BY <1>1, <1>2, <1>13, <1>19
<1> QED BY <1>2, <1>5, <1>13, <1>14, <1>19, <1>20, <1>21 DEF s, g, u

(* strcmp stops at a NUL, but no line has bytes behind the empty line.     *)
LEMMA EmptyText ==
  ASSUME NEW u \in Seq(Bytes), \A i \in 1 .. (Len(u) - 1) : u[i] # NEWLINE
  PROVE  String(u) = Empty <=> u = Empty
<1> DEFINE k == Text(u)
<1>1. /\ k \in 0 .. Len(u) /\ Len(u) \in Nat
      /\ k = 0 => \A j \in 1 .. Len(u) : u[j] # 0
      /\ k # 0 => u[k] = 0 /\ \A j \in 1 .. (k - 1) : u[j] # 0
  BY TextOK
<1>2. String(u) = IF k = 0 THEN u ELSE SubSeq(u, 1, k - 1)
  BY DEF String
<1>3. CR # 0 /\ NEWLINE # 0
  BY RelayAssumption
<1> HIDE DEF k
<1>4. ASSUME u = Empty PROVE String(u) = Empty
  <2>1. Len(u) = 2 /\ u[1] # 0 /\ u[2] # 0
    BY <1>3, <1>4 DEF Empty
  <2>2. k = 0
    BY <1>1, <2>1
  <2> QED BY <1>2, <1>4, <2>2
<1>5. ASSUME String(u) = Empty PROVE u = Empty
  <2> SUFFICES ASSUME k # 0 PROVE FALSE
    BY <1>2, <1>5
  <2>1. PICK t : t = SubSeq(u, 1, k - 1)
    OBVIOUS
  <2>2. t = Empty
    BY <1>2, <1>5, <2>1
  <2>3. Len(t) = 2 /\ t[2] = NEWLINE
    BY <2>2 DEF Empty
  <2>4. Len(t) = k - 1 /\ \A i \in 1 .. (k - 1) : t[i] = u[i]
    BY <1>1, <2>1
  <2>5. k = 3
    <3>1. k - 1 = 2
      BY <2>3, <2>4
    <3> QED BY <1>1, <3>1
  <2>6. 2 \in 1 .. (k - 1)
    BY <2>5
  <2>7. u[2] = NEWLINE
    BY <2>3, <2>4, <2>6
  <2> QED BY <1>1, <2>5, <2>7
<1> QED BY <1>4, <1>5

(* The request line, which is the first line. *)
LEMMA GotRequestLineKeepsLines ==
  ASSUME RelayInv, LinesOK, GotRequestLine
  PROVE  LinesOK'
<1>0. RioInv /\ CallFits /\ Typed
  BY DEF RelayInv
<1>1. /\ pc = "start" /\ pc' = "headers" /\ Return /\ headers' = headers
      /\ call.rc \notin {NULL, -1}
  BY DEF GotRequestLine, Answered
<1>2. /\ sent' = sent /\ call.fn # "none"
      /\ call.fn # "rio_writen" => given' = [given EXCEPT ![call.fd] = @ + Len(call.usrbuf)]
  BY <1>0, <1>1, TakenResult
<1>3. call.fn = "rio_readlineb" /\ call.fd = "client" /\ call.n = MAXLINE
  BY <1>0, <1>1, <1>2 DEF CallFits
<1> SUFFICES ASSUME Complete(sent["client"])
             PROVE  /\ given'["client"] \in Ends(sent["client"])
                    /\ \A e \in EmptyLines(sent["client"]) : given'["client"] < e
                    /\ headers = LinesAt(sent["client"], HeadersIn(sent["client"], 1 .. given'["client"]))
  BY <1>1, <1>2 DEF LinesOK, Done
<1> DEFINE s == sent["client"]
           x == 0 + Len(call.usrbuf)
<1>4. given["client"] = 0 /\ headers = <<>>
  BY <1>1 DEF LinesOK
<1>5. x \in Ends(s) /\ Len(call.usrbuf) \in Nat \ {0} /\ \A j \in Ends(s) : j > 0 => j >= x
  BY <1>1, <1>3, <1>4, NextLine
<1>6. "client" \in Fds /\ given \in [Fds -> Nat] /\ s \in Seq(Bytes)
  BY <1>0, RelayAssumption DEF RioInv, NetOK
<1>7. given'["client"] = x
  BY <1>2, <1>3, <1>4, <1>6
<1> HIDE DEF s, x
<1>8. Ends(s) \subseteq Nat \ {0} /\ x \in Nat
  BY <1>5, <1>6 DEF Ends
<1>9. \A e \in Later(s) : x < e
  BY <1>5, <1>8 DEF Later
<1>10. \A e \in EmptyLines(s) : x < e
  BY <1>9 DEF EmptyLines
<1>11. HeadersIn(s, 1 .. x) = {}
  <2> SUFFICES ASSUME NEW e \in HeadersIn(s, 1 .. x) PROVE FALSE
    OBVIOUS
  <2>1. e \in Later(s) /\ e \in 1 .. x
    BY DEF HeadersIn
  <2> QED BY <1>8, <1>9, <2>1
<1> QED BY <1>4, <1>5, <1>7, <1>10, <1>11, NoLines DEF s

(* A later line: a header, another one, or the empty one. *)
LEMMA GotLineKeepsLines ==
  ASSUME RelayInv, LinesOK, GotLine
  PROVE  LinesOK'
<1>0. RioInv /\ CallFits /\ Typed
  BY DEF RelayInv
<1> DEFINE s == sent["client"]
           g == given["client"]
           u == call.usrbuf
           x == g + Len(u)
           H(n) == HeadersIn(s, 1 .. n)
<1>1. /\ pc = "headers" /\ pc' = (IF String(u) = Empty THEN "build" ELSE "headers") /\ Return
      /\ call.rc \notin {NULL, -1}
  BY DEF GotLine, Answered
<1>2. headers' = IF String(u) # Empty /\ IsHeader(u) THEN Append(headers, u) ELSE headers
  BY DEF GotLine
<1>3. /\ sent' = sent /\ call.fn # "none"
      /\ call.fn # "rio_writen" => given' = [given EXCEPT ![call.fd] = @ + Len(call.usrbuf)]
  BY <1>0, <1>1, TakenResult
<1>4. call.fn = "rio_readlineb" /\ call.fd = "client" /\ call.n = MAXLINE
  BY <1>0, <1>1, <1>3 DEF CallFits
<1>5. CASE ~Complete(s)
  BY <1>3, <1>5 DEF LinesOK
<1>6. CASE Complete(s)
  <2>1. g \in Ends(s) /\ (\A e \in EmptyLines(s) : g < e) /\ headers = LinesAt(s, H(g))
    BY <1>1, <1>6 DEF LinesOK
  <2>2. /\ x \in Ends(s) /\ Len(u) \in Nat \ {0} /\ \A j \in Ends(s) : j > g => j >= x
        /\ u = Line(s, x) /\ u \in Seq(Bytes)
        /\ \A i \in 1 .. (Len(u) - 1) : u[i] # NEWLINE
    BY <1>1, <1>4, <1>6, <2>1, NextLine
  <2>3. "client" \in Fds /\ given \in [Fds -> Nat] /\ s \in Seq(Bytes) /\ headers \in Seq(Seq(Bytes))
    BY <1>0, RelayAssumption DEF RioInv, NetOK, Typed
  <2>4. given'["client"] = x
    BY <1>3, <1>4, <2>3
  <2>5. g \in Nat /\ x \in Nat /\ g < x /\ Ends(s) \subseteq Nat \ {0}
    BY <2>2, <2>3 DEF Ends
  <2> HIDE DEF s, g, u, x
  <2>13. String(u) = Empty <=> u = Empty
    BY <2>2, EmptyText
  <2>6. x \in Later(s)
    BY <2>1, <2>2, <2>5 DEF Later
  <2>7. \A j \in Later(s) : j \in Nat \ {0} /\ (j <= g \/ j >= x)
    BY <2>2, <2>5 DEF Later
  <2>8. H(x - 1) = H(g)
    <3>1. \A j \in Later(s) : j \in 1 .. (x - 1) <=> j \in 1 .. g
      BY <2>5, <2>7
    <3> QED BY <3>1 DEF HeadersIn
  <2>9. H(x) = IF IsHeader(u) THEN H(g) \cup {x} ELSE H(g)
    <3>1. \A j \in Later(s) : j \in 1 .. x <=> (j \in 1 .. g \/ j = x)
      BY <2>5, <2>6, <2>7
    <3>2. IsHeader(u) <=> IsHeader(Line(s, x))
      BY <2>2, Zenon
    <3> QED BY <2>6, <3>1, <3>2 DEF HeadersIn
  <2>10. \A e \in EmptyLines(s) : e \in Later(s) /\ e \in Nat /\ e >= x
    BY <2>1, <2>5, <2>7 DEF EmptyLines
  <2>11. CASE u = Empty
    <3>1. x \in EmptyLines(s)
      BY <2>2, <2>6, <2>11 DEF EmptyLines
    <3>2. EmptyLines(s) \subseteq Nat /\ \A e \in EmptyLines(s) : x <= e
      BY <2>5, <2>10
    <3>3. Min(EmptyLines(s)) = x
      BY <3>1, <3>2, MinIs
    <3>4. HeaderLines(s) = LinesAt(s, H(x - 1))
      BY <3>3, Zenon DEF HeaderLines
    <3>5. headers' = HeaderLines(s) /\ pc' = "build"
      BY <1>1, <1>2, <2>1, <2>8, <2>11, <2>13, <3>4
    <3> QED BY <1>3, <3>5 DEF LinesOK, Done, s
  <2>12. CASE u # Empty
    <3>1. x \notin EmptyLines(s)
      BY <2>2, <2>12 DEF EmptyLines
    <3>2. \A e \in EmptyLines(s) : x < e
      BY <2>5, <2>10, <3>1
    <3>3. headers' = LinesAt(s, H(x))
      <4>1. CASE IsHeader(u)
        <5>1. H(x) = H(g) \cup {x} /\ headers' = Append(LinesAt(s, H(g)), Line(s, x))
          BY <1>2, <2>1, <2>2, <2>9, <2>12, <2>13, <4>1
        <5>2. H(g) \subseteq Ends(s) /\ \A j \in H(g) : j < x
          BY <2>5 DEF HeadersIn, Later
        <5>3. LinesAt(s, H(g)) \in Seq(Seq(Bytes)) /\ Line(s, x) \in Seq(Bytes)
          BY <2>1, <2>2, <2>3
        <5> HIDE DEF H
        <5>4. IsFiniteSet(H(g)) /\ H(g) \subseteq Nat
          BY <2>3, <5>2, EndsFinite
        <5>5. LinesAt(s, H(g) \cup {x}) = Append(LinesAt(s, H(g)), Line(s, x))
          BY <2>3, <2>5, <5>2, <5>3, <5>4, OneLineMore
        <5> QED BY <5>1, <5>5
      <4>2. CASE ~IsHeader(u)
        BY <1>2, <2>1, <2>9, <4>2
      <4> QED BY <4>1, <4>2
    <3>4. pc' = "headers"
      BY <1>1, <2>12, <2>13
    <3> QED BY <1>3, <2>2, <2>4, <3>2, <3>3, <3>4 DEF LinesOK, Done, s
  <2> QED BY <2>11, <2>12
<1> QED BY <1>5, <1>6

(* What the thread knows of the client's request and has sent of its own. *)
HeadersOK == LinesOK /\ RequestOK

(* At first, nothing is read and nothing sent. *)
LEMMA HeadersInit == Init => HeadersOK
<1> SUFFICES ASSUME Init PROVE HeadersOK
  OBVIOUS
<1>1. PICK c \in Cases :
        /\ RioInit({[fd \in Fds |-> IF fd = "client" THEN c.client ELSE c.server]},
                   {[fd \in Fds |-> fd = "server" \/ c.fin]})
        /\ pc = "start" /\ headers = <<>> /\ Request_buf = c.left
  BY DEF Init
<1>2. "client" \in Fds /\ "server" \in Fds
  BY RelayAssumption
<1>3. sent["client"] = c.client /\ given["client"] = 0 /\ written["server"] = <<>>
  BY <1>1, <1>2 DEF RioInit
<1>4. LinesOK
  BY <1>1, <1>3 DEF LinesOK, Done
<1>5. RequestOK
  BY <1>1, <1>3 DEF RequestOK, Done, Unsent
<1> QED BY <1>4, <1>5 DEF HeadersOK

(* The calls, and the steps inside of them. *)
LEMMA CallsKeepHeaders ==
  ASSUME RelayInv, HeadersOK, UNCHANGED local,
         \/ \E fn, fd, n, buf : Call(fn, fd, n, buf) /\ (pc = "send" => fn = "rio_writen")
         \/ Progress \/ RefillInterrupted \/ WriteInterrupted \/ \E fd \in Fds : Reset(fd)
  PROVE  HeadersOK'
<1>0. RioInv /\ ResultOK /\ CallFits /\ Typed /\ LinesOK /\ RequestOK
  BY DEF RelayInv, HeadersOK
<1>1. UNCHANGED <<pc, headers, Request_buf>>
  BY DEF local
<1>2. "client" \in Fds /\ "server" \in Fds /\ "client" # "server"
  BY RelayAssumption
<1>3. ASSUME UNCHANGED <<sent, given>> PROVE LinesOK'
  BY <1>0, <1>1, <1>3 DEF LinesOK
<1> DEFINE Out == IF call.fn = "rio_writen" THEN call.done ELSE 0
<1>4. ASSUME UNCHANGED <<sent, written>>, pc = "send" => Out' = Out
      PROVE  RequestOK'
  BY <1>0, <1>1, <1>4 DEF RequestOK, RequestFor
<1>5. ASSUME NEW fn, NEW fd, NEW n, NEW buf, Call(fn, fd, n, buf), pc = "send" => fn = "rio_writen"
      PROVE  HeadersOK'
  <2>1. call = NoCall /\ UNCHANGED <<sent, given, written>>
    BY <1>5 DEF Call, net
  <2>2. call' = Settled([fn |-> fn, fd |-> fd, n |-> n, usrbuf |-> buf, done |-> 0, rc |-> NULL])
    BY <1>5 DEF Call
  <2>3. call'.done = 0
    BY <2>2 DEF Settled
  <2>4. Out = 0 /\ Out' = 0
    BY <2>1, <2>3 DEF NoCall
  <2> HIDE DEF Out
  <2> QED BY <1>3, <1>4, <2>1, <2>4 DEF HeadersOK
<1>6. CASE \/ \E k \in 1 .. RIO_BUFSIZE : Refill(k) \/ CopyOut(k)
           \/ RefillAtEnd \/ RefillFails \/ RefillInterrupted \/ WriteInterrupted \/ WriteFails
           \/ \E fd \in Fds : Reset(fd)
  <2>1. /\ call'.fn = call.fn /\ call'.done = call.done
        /\ UNCHANGED <<sent, given, written>>
    BY <1>0, <1>6, OtherSteps
  <2> QED BY <1>3, <1>4, <2>1 DEF HeadersOK
<1>7. ASSUME NEW k \in 1 .. call.n, WriteSome(k)
      PROVE  HeadersOK'
  <2>1. /\ call.fn = "rio_writen" /\ k <= call.n - call.done
        /\ call'.fn = call.fn /\ call'.done = call.done + k
        /\ written' = [written EXCEPT ![call.fd] =
                         @ \o SubSeq(call.usrbuf, call.done + 1, call.done + k)]
        /\ UNCHANGED <<sent, given>>
    BY <1>0, <1>7, WriteStep
  <2>2. /\ call.usrbuf \in Seq(Bytes) /\ call.n = Len(call.usrbuf) /\ call.n \in Nat
        /\ call.done \in 0 .. call.n /\ k \in Nat /\ call.done + k <= call.n
    BY <1>0, <2>1 DEF ResultOK
  <2>3. CASE pc = "send"
    <3>1. call.fd = "server" /\ call.usrbuf = Request_buf
      BY <1>0, <2>1, <2>3 DEF CallFits
    <3> DEFINE R == Request_buf
               d == call.done
    <3>2. written["server"] = SubSeq(R, 1, d)
      BY <1>0, <2>1, <2>3 DEF RequestOK
    <3>3. written'["server"] = written["server"] \o SubSeq(R, d + 1, d + k)
      BY <1>0, <1>2, <2>1, <3>1 DEF Typed
    <3>4. R \in Seq(Bytes) /\ d \in 0 .. Len(R) /\ k \in Nat /\ d + k <= Len(R) /\ Len(R) \in Nat
      BY <2>2, <3>1
    <3> HIDE DEF R, d
    <3>5. SubSeq(R, 1, d) \o SubSeq(R, d + 1, d + k) = SubSeq(R, 1, d + k)
      BY <3>4
    <3>6. written'["server"] = SubSeq(R, 1, d + k)
      BY <3>2, <3>3, <3>5
    <3>7. RequestOK'
      BY <1>0, <1>1, <2>1, <2>3, <3>6 DEF RequestOK, RequestFor, Unsent, Done, R, d
    <3> QED BY <1>3, <2>1, <3>7 DEF HeadersOK
  <2>4. CASE pc # "send"
    <3>1. pc = "forward" /\ call.fd = "client"
      BY <1>0, <2>1, <2>4 DEF CallFits
    <3>2. written'["server"] = written["server"]
      BY <1>0, <1>2, <2>1, <3>1 DEF Typed
    <3>3. RequestOK'
      BY <1>0, <1>1, <2>1, <3>1, <3>2 DEF RequestOK, RequestFor, Unsent, Done
    <3> QED BY <1>3, <2>1, <3>3 DEF HeadersOK
  <2> QED BY <2>3, <2>4
<1> QED BY <1>5, <1>6, <1>7 DEF Progress

(* The steps of the thread that take a line of the request. *)
LEMMA GotKeepsHeaders ==
  ASSUME RelayInv, HeadersOK, GotRequestLine \/ GotLine
  PROVE  HeadersOK'
<1>0. RioInv /\ LinesOK /\ RequestOK
  BY DEF RelayInv, HeadersOK
<1>1. /\ pc \in {"start", "headers"} /\ pc' \in {"headers", "build"} /\ Return /\ Request_buf' = Request_buf
  BY DEF GotRequestLine, GotLine, Answered
<1>2. UNCHANGED <<sent, written>>
  BY <1>0, <1>1, TakenResult
<1>3. RequestOK'
  BY <1>0, <1>1, <1>2 DEF RequestOK, RequestFor, Unsent, Done
<1> QED BY <1>0, <1>3, GotRequestLineKeepsLines, GotLineKeepsLines DEF HeadersOK

(* The steps after the request was read. *)
LEMMA LaterKeepHeaders ==
  ASSUME RelayInv, HeadersOK,
         \/ open_clientfd \/ Open_clientfd_Fails \/ BuildRequest
         \/ Sent \/ Received \/ Forwarded \/ Store \/ unix_error
  PROVE  HeadersOK'
<1>0. RioInv /\ ResultOK /\ CallFits /\ Typed /\ LinesOK /\ RequestOK
  BY DEF RelayInv, HeadersOK
<1> DEFINE Read == {"build", "overrun", "open", "send"} \cup Done
<1>1. ASSUME sent' = sent, headers' = headers, (pc \in Read /\ pc' \in Read \cup {"no server"}) \/ pc' = "exit"
      PROVE  LinesOK'
  BY <1>0, <1>1 DEF LinesOK, Done
<1>2. CASE open_clientfd \/ Open_clientfd_Fails
  <2>1. /\ UNCHANGED rioVars /\ UNCHANGED <<headers, Request_buf>> /\ pc = "open"
    BY <1>2 DEF open_clientfd, Open_clientfd_Fails
  <2>2. pc' \in {"open", "send", "no server"}
    <3>1. CASE open_clientfd
      <4>1. pc' = CASE Head(addrs) = "ok" -> "send" [] Head(addrs) = "badclose" -> "no server" [] OTHER -> "open"
        BY <3>1, Zenon DEF open_clientfd
      <4> QED BY ONLY <4>1
    <3> QED BY <1>2, <3>1 DEF Open_clientfd_Fails
  <2>3. UNCHANGED <<sent, written, call>>
    BY <2>1 DEF rioVars
  <2>5. call.fn = "none"
    BY <1>0, <2>1 DEF CallFits
  <2>6. written'["server"] = SubSeq(Request_buf', 1, 0)
    <3>1. written'["server"] = <<>>
      BY <1>0, <2>1, <2>3 DEF RequestOK
    <3>2. SubSeq(Request_buf', 1, 0) = <<>>
      OBVIOUS
    <3> QED BY <3>1, <3>2
  <2>4. RequestOK'
    BY <1>0, <2>1, <2>2, <2>3, <2>5, <2>6 DEF RequestOK, RequestFor, Unsent, Done
  <2> QED BY <1>1, <2>1, <2>2, <2>3, <2>4 DEF HeadersOK
<1>3. CASE BuildRequest
  <2>1. /\ UNCHANGED rioVars /\ headers' = headers /\ pc = "build"
        /\ \/ Len(Built) < REQUEST_SIZE /\ Request_buf' = Built /\ pc' = "open"
           \/ Len(Built) >= REQUEST_SIZE /\ Request_buf' = Request_buf /\ pc' = "overrun"
    BY <1>3 DEF BuildRequest
  <2>2. UNCHANGED <<sent, written>>
    BY <2>1 DEF rioVars
  <2>3. PICK c \in Cases : c.client = sent["client"] /\ Request_buf = c.left
    BY <1>0, <2>1 DEF RequestOK, Unsent
  <2>4. Built = RequestFor(c) /\ RequestFor(c)' = RequestFor(c)
    BY <2>1, <2>3 DEF Built, RequestFor
  <2>5. written'["server"] = <<>>
    BY <1>0, <2>1, <2>2 DEF RequestOK, Unsent
  <2>6. RequestOK'
    <3>1. CASE pc' = "open"
      <4>1. Request_buf' = RequestFor(c)' /\ Len(RequestFor(c)') < REQUEST_SIZE
        BY <2>1, <2>4, <3>1
      <4> QED BY <2>2, <2>3, <2>5, <3>1, <4>1 DEF RequestOK, Unsent, Done
    <3>2. CASE pc' = "overrun"
      <4>1. Request_buf' = c.left /\ Len(RequestFor(c)') >= REQUEST_SIZE
        BY <2>1, <2>3, <2>4, <3>2
      <4> QED BY <2>2, <2>3, <2>5, <3>2, <4>1 DEF RequestOK, Unsent, Done
    <3> QED BY <2>1, <3>1, <3>2
  <2> QED BY <1>1, <2>1, <2>2, <2>6 DEF HeadersOK
<1>4. CASE Sent
  <2>1. /\ pc = "send" /\ pc' = "receive" /\ Return /\ UNCHANGED <<headers, Request_buf>>
        /\ call.rc \notin {NULL, -1}
    BY <1>4 DEF Sent, Answered
  <2>2. UNCHANGED <<sent, written>> /\ call.fn # "none"
    BY <1>0, <2>1, TakenResult
  <2>3. call.fn = "rio_writen" /\ call.usrbuf = Request_buf
    BY <1>0, <2>1, <2>2 DEF CallFits
  <2>4. call.done = Len(Request_buf) /\ Request_buf \in Seq(Bytes)
    BY <1>0, <2>1, <2>3 DEF ResultOK
  <2>5. written["server"] = SubSeq(Request_buf, 1, Len(Request_buf))
    BY <1>0, <2>1, <2>3, <2>4 DEF RequestOK
  <2>6. written["server"] = Request_buf
    BY <2>4, <2>5
  <2>7. RequestOK'
    BY <1>0, <2>1, <2>2, <2>6 DEF RequestOK, RequestFor, Unsent, Done
  <2> QED BY <1>1, <2>1, <2>2, <2>7 DEF HeadersOK, Done
<1>5. CASE Received \/ Forwarded \/ Store
  <2>1. pc \in Done /\ pc' \in Done /\ UNCHANGED <<headers, Request_buf>> /\ (Return \/ UNCHANGED rioVars)
    BY <1>5 DEF Received, Forwarded, Store, Answered, Done
  <2>2. UNCHANGED <<sent, written>>
    BY <1>0, <2>1, TakenResult DEF rioVars
  <2>3. RequestOK'
    BY <1>0, <2>1, <2>2 DEF RequestOK, RequestFor, Unsent, Done
  <2> QED BY <1>1, <2>1, <2>2, <2>3 DEF HeadersOK
<1>6. CASE unix_error
  <2>1. pc' = "exit" /\ Return /\ UNCHANGED <<headers, Request_buf>>
    BY <1>6 DEF unix_error
  <2>2. UNCHANGED <<sent, written>>
    BY <1>0, <2>1, TakenResult
  <2>3. RequestOK'
    BY <1>0, <2>1, <2>2 DEF RequestOK, RequestFor, Unsent, Done
  <2> QED BY <1>1, <2>1, <2>2, <2>3 DEF HeadersOK
<1> QED BY <1>2, <1>3, <1>4, <1>5, <1>6

(* Every step. *)
LEMMA HeadersNext == RelayInv /\ HeadersOK /\ [Next]_vars => HeadersOK'
<1> SUFFICES ASSUME RelayInv, HeadersOK, [Next]_vars PROVE HeadersOK'
  OBVIOUS
<1>1. CASE UNCHANGED vars
  <2>1. UNCHANGED <<sent, given, call, written, pc, headers, Request_buf>>
    BY <1>1 DEF vars, local, rioVars
  <2> QED BY <2>1 DEF HeadersOK, LinesOK, RequestOK, RequestFor
<1>2. CASE \/ Ask("start", "rio_readlineb", "client", MAXLINE, <<>>)
           \/ Ask("headers", "rio_readlineb", "client", MAXLINE, <<>>)
           \/ Ask("send", "rio_writen", "server", Len(Request_buf), Request_buf)
           \/ Ask("receive", "rio_readnb", "server", MAXLINE, <<>>)
           \/ Ask("forward", "rio_writen", "client", Len(read_buf), read_buf)
  <2>1. UNCHANGED local /\ \E fn, fd, n, buf : Call(fn, fd, n, buf) /\ (pc = "send" => fn = "rio_writen")
    BY <1>2 DEF Ask
  <2> QED BY <2>1, CallsKeepHeaders
<1>3. CASE (Progress /\ UNCHANGED local) \/ Interrupt \/ PeerLost
  BY <1>3, CallsKeepHeaders DEF Interrupt, PeerLost
<1> QED BY <1>1, <1>2, <1>3, GotKeepsHeaders, LaterKeepHeaders DEF Next, Thread

(* For every complete request, every RIO_BUFSIZE, MAXLINE and REQUEST_SIZE *)
(* and all pieces in which the bytes arrive and leave: if the request line,*)
(* what was in Request_buf, the header lines that the client sent before   *)
(* the empty line and a NUL fit into Request_buf, the server gets exactly  *)
(* these lines in their order and unchanged; the strcat calls overrun      *)
(* Request_buf if and only if they do not fit.                             *)
THEOREM HeadersAllArrive == Spec => []HeadersReachServer
<1>1. RelayInv /\ HeadersOK => HeadersReachServer
  <2> SUFFICES ASSUME HeadersOK, Complete(sent["client"]) PROVE HeadersReachServer
    BY DEF HeadersReachServer
  <2>1. pc \in {"build", "overrun", "open", "send"} \cup Done => headers = HeaderLines(sent["client"])
    BY DEF HeadersOK, LinesOK
  <2>2. PICK c \in Cases :
          /\ c.client = sent["client"]
          /\ pc = "overrun" => Len(RequestFor(c)) >= REQUEST_SIZE
          /\ pc \in {"open", "send"} \cup Done =>
               Request_buf = RequestFor(c) /\ Len(RequestFor(c)) < REQUEST_SIZE
    BY DEF HeadersOK, RequestOK
  <2>3. pc \in {"overrun", "open", "send"} \cup Done => RequestFor(c) = RequestOf(c)
    BY <2>1, <2>2 DEF RequestFor, RequestOf
  <2>4. pc \in Done => written["server"] = Request_buf
    BY DEF HeadersOK, RequestOK
  <2> QED BY <2>2, <2>3, <2>4 DEF HeadersReachServer, Done
<1> QED BY <1>1, RelayInvariant, HeadersInit, HeadersNext, PTL DEF Spec
=============================================================================
