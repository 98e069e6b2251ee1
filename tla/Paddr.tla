------------------------------- MODULE Paddr -------------------------------
(***************************************************************************)
(* kernellab/paddr/dbfs_paddr.c: a read of paddr/output takes a packet     *)
(* (pid, vaddr, paddr) from the reader's buffer and puts the physical      *)
(* address into it.  One process at a time reads; app.c is one such.       *)
(*                                                                         *)
(* Bytes are digits to the base BASE = HALF^2 instead of 256 = 16^2, which *)
(* keeps the layout: an offset in a page has one byte and a half.          *)
(***************************************************************************)
EXTENDS Tasks, Sequences

CONSTANTS
  HALF,
  MAX_LEN,     \* the size of kernel_buf and output_buf
  Packets,     \* [pid, vaddr, paddr] that processes ask with
  Lengths      \* of the reads

BASE == HALF * HALF
PAGE == BASE * HALF

\* The last line says what a power is, which the provers do not know.
ASSUME PaddrAssumption ==
  /\ HALF \in Nat \ {0, 1} /\ MAX_LEN \in Nat \ (0 .. 23) /\ Lengths \subseteq Nat
  /\ Packets \subseteq [pid : Nat, vaddr : Nat, paddr : Nat]
  /\ BASE^0 = 1 /\ \A i \in 0 .. 7 : BASE^(i + 1) = BASE * BASE^i

VARIABLES
  paLoaded,
  user,        \* the reader's buffer
  fd,          \* the file offset, NULL while the file is not open
  reader,      \* the locals of read_output; ret is its last return value
  kernel_buf, output_buf,   \* with a cell for the byte after the array
  asked        \* the packet as it was before the read

paddr == <<paLoaded, user, fd, reader, kernel_buf, output_buf, asked>>

InUser(ret) == [at |-> "user", length |-> 0, pid |-> 0, vaddr |-> 0, pfn |-> 0, ret |-> ret]

(* Memory of all zeroes but for the byte after the array. *)
Clean(after) == [i \in 0 .. MAX_LEN |-> IF i = MAX_LEN THEN after ELSE 0]

PaddrInit ==
  /\ paLoaded = FALSE /\ user = Clean(0) /\ fd = NULL /\ reader = InUser(0)
  /\ kernel_buf = Clean(1) /\ output_buf = Clean(1) /\ asked = NULL

(* insmod: a refused file leaves the directory, which is refused next time. *)
paddr_init ==
  /\ ~paLoaded
  /\ \/ "paddr" \notin dirs /\ dirs' = dirs \cup {"paddr"} /\ paLoaded' \in BOOLEAN
     \/ UNCHANGED <<dirs, paLoaded>>
  /\ UNCHANGED <<real_parent, parents, user, fd, reader, kernel_buf, output_buf, asked, calls>>

paddr_exit ==
  /\ paLoaded /\ fd = NULL
  /\ paLoaded' = FALSE /\ dirs' = dirs \ {"paddr"}
  /\ UNCHANGED <<real_parent, parents, user, fd, reader, kernel_buf, output_buf, asked, calls>>
-----------------------------------------------------------------------------
Digit(n, i) == (n \div BASE^i) % BASE

(* struct packet: four bytes of pid, four of padding, eight and eight. *)
Bytes(p) == [i \in 0 .. MAX_LEN |->
  IF i < 4 THEN Digit(p.pid, i)
  ELSE IF i \in 8 .. 15 THEN Digit(p.vaddr, i - 8)
  ELSE IF i \in 16 .. 23 THEN Digit(p.paddr, i - 16) ELSE 0]

(* t[0] + ... + t[n - 1]. *)
Sum(t, n) == LET sum[i \in 0 .. n] == IF i = 0 THEN 0 ELSE sum[i - 1] + t[i - 1]
             IN  sum[n]

Number(buf, lo, n) == Sum([i \in 0 .. (n - 1) |-> buf[lo + i] * BASE^i], n)

(* A process fills its packet in and opens the file, and later closes it. *)
Open(p) ==
  /\ paLoaded /\ fd = NULL /\ calls < MAXCALLS
  /\ user' = Bytes(p) /\ fd' = 0 /\ asked' = NULL
  /\ UNCHANGED <<kernel, paLoaded, reader, kernel_buf, output_buf, calls>>

Close ==
  /\ fd # NULL /\ reader.at = "user" /\ fd' = NULL
  /\ user' = Clean(0) /\ reader' = InUser(0) /\ asked' = NULL
  /\ UNCHANGED <<kernel, paLoaded, kernel_buf, output_buf, calls>>
-----------------------------------------------------------------------------
(* The power of BASE for byte i of vaddr, by repeated squaring in 64 bits: *)
(* one round of the loop, and i rounds, the last of which change nothing.  *)
Round(l) ==
  IF l.divisor = 0 THEN l
  ELSE [ret     |-> IF l.divisor % 2 = 1 THEN (l.ret * l.mul) % BASE^8 ELSE l.ret,
        divisor |-> l.divisor \div 2,
        mul     |-> (l.mul * l.mul) % BASE^8]
Power(i) ==
  LET loop[k \in 0 .. i] == IF k = 0 THEN [ret |-> 1, divisor |-> i, mul |-> BASE] ELSE Round(loop[k - 1])
  IN  loop[i].ret

Vaddr(buf) == Sum([i \in 0 .. 5 |-> buf[8 + i] * Power(i)], 6)

RealLength(length) == IF length < MAX_LEN THEN length ELSE MAX_LEN

(* read_output, up to the look at the pid. *)
CopyIn(length) ==
  LET real == RealLength(length)
      buf  == [i \in 0 .. MAX_LEN |-> IF i < real THEN user[i] ELSE Clean(kernel_buf[MAX_LEN])[i]]
  IN  /\ fd # NULL /\ reader.at = "user"
      /\ Enter
      /\ kernel_buf' = buf /\ output_buf' = Clean(output_buf[MAX_LEN])
      /\ reader' = [InUser(0) EXCEPT !.at = "find", !.length = length,
                      !.pid = Number(buf, 0, 4), !.vaddr = Vaddr(buf)]
      /\ asked' = user
      /\ UNCHANGED <<kernel, paLoaded, user, fd>>

(* copy_from_user fails. *)
CopyInFails ==
  /\ fd # NULL /\ reader.at = "user"
  /\ Enter
  /\ kernel_buf' = Clean(kernel_buf[MAX_LEN]) /\ output_buf' = Clean(output_buf[MAX_LEN])
  /\ reader' = InUser(-EFAULT) /\ asked' = user
  /\ UNCHANGED <<kernel, paLoaded, user, fd>>

(* The five levels of the page table.  For a task without mm the kernel    *)
(* follows a NULL pointer, and ends the reader.                            *)
FindPage ==
  /\ reader.at = "find"
  /\ LET table == PageTable(reader.pid)
         page  == reader.vaddr \div PAGE
     IN  \/ /\ ~Found(reader.pid)
            /\ reader' = InUser(-EINVAL) /\ UNCHANGED fd
         \/ /\ Found(reader.pid) /\ table = NULL
            /\ reader' = InUser(NULL) /\ fd' = NULL
         \/ /\ Found(reader.pid) /\ table # NULL /\ UNCHANGED fd
            /\ reader' = IF page \in DOMAIN table
                         THEN [reader EXCEPT !.at = "answer", !.pfn = table[page]]
                         ELSE InUser(-EFAULT)
  /\ UNCHANGED <<kernel, paLoaded, user, kernel_buf, output_buf, asked, calls>>

\* Mutant: the half byte of the frame is not shifted.
Output_NoShift(real) == [i \in 0 .. MAX_LEN |->
  IF i = real THEN 0
  ELSE IF i < 16 \/ (i = 16 /\ real > 16) THEN kernel_buf[i]
  ELSE IF i = 17 /\ real > 17 THEN (kernel_buf[9] % HALF) + (reader.pfn % HALF)
  ELSE IF i >= 18 /\ i < real THEN Digit(reader.pfn \div HALF, i - 18)
  ELSE output_buf[i]]

(* The bytes of the packet, and then those of the physical address: the    *)
(* first one is copied from the packet's own paddr.                        *)
Output(real) == [i \in 0 .. MAX_LEN |->
  IF i = real THEN 0
  ELSE IF i < 16 \/ (i = 16 /\ real > 16) THEN kernel_buf[i]
  ELSE IF i = 17 /\ real > 17 THEN (kernel_buf[9] % HALF) + (reader.pfn % HALF) * HALF
  ELSE IF i >= 18 /\ i < real THEN Digit(reader.pfn \div HALF, i - 18)
  ELSE output_buf[i]]

(* simple_read_from_buffer copies what is left after the file offset. *)
Answer ==
  LET real == RealLength(reader.length)
      left == IF fd < real THEN real - fd ELSE 0
      n    == IF reader.length < left THEN reader.length ELSE left
  IN  /\ reader.at = "answer"
      /\ output_buf' = Output(real)
      /\ user' = [i \in 0 .. MAX_LEN |-> IF i < n THEN output_buf'[fd + i] ELSE user[i]]
      /\ fd' = fd + n
      /\ reader' = InUser(n)
      /\ UNCHANGED <<kernel, paLoaded, kernel_buf, asked, calls>>

PaddrStep == FindPage \/ Answer
PaddrNext ==
  \/ PaddrStep \/ paddr_init \/ paddr_exit \/ Close \/ CopyInFails
  \/ \E p \in Packets : Open(p)
  \/ \E length \in Lengths : CopyIn(length)
-----------------------------------------------------------------------------
(* A read at the start of the file that returns a whole packet has put the *)
(* physical address of the packet's pid and vaddr into it and left these   *)
(* two alone, if the lowest byte of paddr was that of vaddr, as it is in   *)
(* app.c, where both are 0.  One that returns nothing or an error has left *)
(* all of the packet alone.                                                *)
AnswerIsRight ==
  LET pid   == Number(asked, 0, 4)
      vaddr == Number(asked, 8, 8)
  IN  reader.at = "user" /\ asked # NULL =>
        /\ reader.ret = 24 /\ fd = 24 /\ asked[16] = asked[8] =>
             /\ \A i \in 0 .. 15 : user[i] = asked[i]
             /\ Number(user, 16, 8) = mm[pid][vaddr \div PAGE] * PAGE + (vaddr % PAGE)
        /\ reader.ret \in {0, -EFAULT, -EINVAL} => user = asked
=============================================================================
