---------------------------- MODULE ByteStreams ----------------------------
(***************************************************************************)
(* A client that sends a message through a ByteStream on a non-blocking    *)
(* descriptor, and one that receives it at the other end.  Both repeat     *)
(* short calls with what is left.  Between them is the buffer of the       *)
(* kernel, which holds Capacity bytes.                                     *)
(*                                                                         *)
(* A stream is an FdIoStream ("fd"), an FdIoStream behind a                *)
(* ByteStreamDecorator ("decorator"), or a stream that has only the byte   *)
(* operations of FdIoStream and takes the blocks of ByteStream ("loop").   *)
(* The sending stream and the receiving stream are objects of their own.   *)
(* The sender may also print: PrintfToStream puts one character after the  *)
(* other, does not look at what put_char() returns and counts them all     *)
(* ("print").                                                              *)
(* The sender may begin without a descriptor; FdIoStream::readBlock() must *)
(* not (FD_SET(-1)), and the receiver has one from the start.              *)
(***************************************************************************)
EXTENDS Integers, Sequences

CONSTANTS
  Length,     \* the length of the message; its bytes are numbered
  Capacity,   \* of the kernel's buffer
  Faults      \* how often a system call may fail with an error other than EAGAIN

ASSUME LengthAssumption == Length \in Nat /\ Capacity \in Nat \ {0} /\ Faults \in Nat

Blocks == {"fd", "decorator", "loop"}
Kinds  == Blocks \cup {"print"}

VARIABLES
  pipe,       \* the bytes in the kernel's buffer
  faults,     \* errors so far
  w, r,       \* the calls of the two clients: kind of the stream, the locals i
              \* and numBytes of the block, the bytes read into it, and whether
              \* a system call of the call has failed
  open,                 \* the sending stream has its descriptor
  wErrno, rErrno,       \* myErrno # 0
  acknowledged,         \* what the writeBlock() and printf() calls returned, in sum
  lost,                 \* the bytes that were refused and not repeated
  received              \* what the readBlock() calls delivered

vars == <<pipe, faults, w, r, open, wErrno, rErrno, acknowledged, lost, received>>
writer == <<w, open, wErrno, acknowledged, lost>>
reader == <<r, rErrno, received>>

Idle == [pc |-> "idle", kind |-> "fd", i |-> 0, numBytes |-> 0, buf |-> <<>>, failed |-> FALSE]

Bytes(from, n) == [k \in 1 .. n |-> from + k]

Init ==
  /\ pipe = <<>> /\ faults = 0
  /\ w = Idle /\ r = Idle
  /\ open \in BOOLEAN                 \* constructed with a descriptor, or with -1
  /\ wErrno = FALSE /\ rErrno = FALSE
  /\ acknowledged = 0 /\ lost = {} /\ received = <<>>

(* What one system call is asked for: a block, or a byte of it in write()  *)
(* and read().                                                             *)
Asked(call) == IF call.kind \in {"loop", "print"} THEN 1 ELSE call.numBytes

(* A call begins; a decorator passes its block on as it is. *)
Begin(pc, kind, n) == [Idle EXCEPT !.pc = pc, !.kind = kind, !.numBytes = n]
-----------------------------------------------------------------------------
(* setFd() between two calls; myErrno stays. *)
SetFd ==
  /\ w.pc = "idle" /\ ~open
  /\ open' = TRUE
  /\ UNCHANGED <<pipe, faults, w, wErrno, acknowledged, lost, reader>>

(* unsigned writeBlock(const unsigned char *b, unsigned int numBytes) *)

WriteCall ==
  /\ w.pc = "idle" /\ acknowledged < Length
  /\ \E kind \in Blocks, n \in 1 .. Length - acknowledged : w' = Begin("write", kind, n)
  /\ UNCHANGED <<pipe, faults, open, wErrno, acknowledged, lost, reader>>

(* put_char(): one byte, -1 stands for none. *)
PutChar ==
  /\ w.pc = "idle" /\ acknowledged < Length
  /\ w' = Begin("write", "loop", 1)
  /\ UNCHANGED <<pipe, faults, open, wErrno, acknowledged, lost, reader>>

(* printf() of some characters. *)
PrintText ==
  /\ w.pc = "idle" /\ acknowledged < Length
  /\ \E n \in 1 .. Length - acknowledged : w' = Begin("write", "print", n)
  /\ UNCHANGED <<pipe, faults, open, wErrno, acknowledged, lost, reader>>

(* A call goes on behind its first n bytes, or returns. *)
WriteOn(n, err) ==
  /\ w' = [w EXCEPT !.i = w.i + n, !.numBytes = w.numBytes - n, !.failed = w.failed \/ err]
  /\ UNCHANGED acknowledged
WriteReturns(n, err) ==
  /\ w' = [Idle EXCEPT !.kind = w.kind, !.failed = w.failed \/ err]
  /\ acknowledged' = acknowledged + w.i + n

(* Variant: the loop of writeBlock() goes on after a byte that was         *)
(* refused, and counts it.                                                 *)
AfterWriteBlindly(n, err) ==
  LET m == IF Asked(w) = 1 THEN 1 ELSE n
  IN /\ IF w.kind \in {"loop", "print"} /\ w.numBytes > 1 THEN WriteOn(m, err) ELSE WriteReturns(m, err)
     /\ lost' = IF w.kind = "print" /\ n = 0 THEN lost \cup {acknowledged + w.i + 1} ELSE lost

(* Variant: the loop does not count down. *)
AfterWriteEndless(n, err) ==
  /\ IF w.kind = "loop" /\ n > 0 /\ w.numBytes > 0
       THEN w' = [w EXCEPT !.i = w.i + n] /\ UNCHANGED acknowledged
       ELSE WriteReturns(n, err)
  /\ UNCHANGED lost

(* ::write() has placed n bytes: a loop goes on, or the call returns.      *)
(* Printing goes on without the byte.                                      *)
AfterWrite(n, err) ==
  IF w.kind = "print"
    THEN /\ IF w.numBytes > 1 THEN WriteOn(1, err) ELSE WriteReturns(1, err)
         /\ lost' = IF n = 0 THEN lost \cup {acknowledged + w.i + 1} ELSE lost
    ELSE /\ IF w.kind = "loop" /\ n > 0 /\ w.numBytes > n THEN WriteOn(n, err) ELSE WriteReturns(n, err)
         /\ UNCHANGED lost

Write ==
  /\ w.pc = "write" /\ open
  /\ \E n \in 1 .. Asked(w) :
       /\ n <= Capacity - Len(pipe)
       /\ pipe' = pipe \o Bytes(acknowledged + w.i, n)
       /\ AfterWrite(n, FALSE)
  /\ wErrno' = FALSE
  /\ UNCHANGED <<faults, open, reader>>

(* EAGAIN *)
WriteRefused ==
  /\ w.pc = "write" /\ open
  /\ Len(pipe) = Capacity
  /\ AfterWrite(0, FALSE)
  /\ wErrno' = FALSE
  /\ UNCHANGED <<pipe, faults, open, reader>>

(* An error other than EAGAIN, which is EBADF without a descriptor. *)
WriteFails ==
  /\ w.pc = "write"
  /\ IF open THEN faults < Faults /\ faults' = faults + 1 ELSE UNCHANGED faults
  /\ AfterWrite(0, TRUE)
  /\ wErrno' = TRUE
  /\ UNCHANGED <<pipe, open, reader>>
-----------------------------------------------------------------------------
(* unsigned readBlock(unsigned char *b, unsigned int numBytes) *)

ReadCall ==
  /\ r.pc = "idle"
  /\ \E kind \in Blocks, n \in 1 .. Length : r' = Begin("select", kind, n)
  /\ UNCHANGED <<pipe, faults, rErrno, received, writer>>

(* get_char(): one byte, -1 stands for none. *)
GetChar ==
  /\ r.pc = "idle"
  /\ r' = Begin("select", "loop", 1)
  /\ UNCHANGED <<pipe, faults, rErrno, received, writer>>

(* A call of FdIoStream has delivered bytes: the loop goes on, or the call *)
(* returns.                                                                *)
AfterRead(bytes, err) ==
  IF r.kind = "loop" /\ bytes # <<>> /\ r.numBytes > 1
    THEN /\ r' = [r EXCEPT !.pc = "select", !.buf = r.buf \o bytes, !.numBytes = r.numBytes - 1]
         /\ UNCHANGED received
    ELSE r' = [Idle EXCEPT !.failed = err] /\ received' = received \o r.buf \o bytes

(* Variant: the descriptor is not put into the set. *)
SelectNothingAlways ==
  /\ r.pc = "select"
  /\ AfterRead(<<>>, FALSE)
  /\ rErrno' = FALSE
  /\ UNCHANGED <<pipe, faults, writer>>

SelectNothing ==
  /\ r.pc = "select"
  /\ pipe = <<>>
  /\ AfterRead(<<>>, FALSE)
  /\ rErrno' = FALSE
  /\ UNCHANGED <<pipe, faults, writer>>

(* select() may say that there is something to read although there is not. *)
SelectReady ==
  /\ r.pc = "select"
  /\ r' = [r EXCEPT !.pc = "read"]
  /\ rErrno' = FALSE
  /\ UNCHANGED <<pipe, faults, received, writer>>

Read ==
  /\ r.pc = "read"
  /\ \E n \in 1 .. Asked(r) :
       /\ n <= Len(pipe)
       /\ AfterRead(SubSeq(pipe, 1, n), FALSE)
       /\ pipe' = SubSeq(pipe, n + 1, Len(pipe))
  /\ UNCHANGED <<faults, rErrno, writer>>

(* EAGAIN, or the end of the stream: both are 0 bytes and no error. *)
ReadRefused ==
  /\ r.pc = "read"
  /\ pipe = <<>>
  /\ AfterRead(<<>>, FALSE)
  /\ UNCHANGED <<pipe, faults, rErrno, writer>>

(* select() or ::read() fails. *)
ReadFails ==
  /\ r.pc \in {"select", "read"} /\ faults < Faults
  /\ faults' = faults + 1
  /\ AfterRead(<<>>, TRUE)
  /\ rErrno' = TRUE
  /\ UNCHANGED <<pipe, writer>>
-----------------------------------------------------------------------------
WriterStep == SetFd \/ WriteCall \/ PutChar \/ PrintText \/ Write \/ WriteRefused \/ WriteFails
ReaderStep == ReadCall \/ GetChar \/ SelectNothing \/ SelectReady \/ Read \/ ReadRefused \/ ReadFails

Next == WriterStep \/ ReaderStep

Spec == Init /\ [][Next]_vars

(* Both clients keep calling, and the sender gets its descriptor between   *)
(* two of its calls.                                                       *)
FairSpec == Spec /\ WF_vars(WriterStep) /\ WF_vars(ReaderStep) /\ SF_vars(SetFd)
-----------------------------------------------------------------------------
(* Types: the sender never gets a count beyond its message, the kernel's   *)
(* buffer and the block are never overfilled.                              *)
TypeOK ==
  /\ pipe \in Seq(1 .. Length) /\ Len(pipe) <= Capacity
  /\ faults \in 0 .. Faults
  /\ w \in [pc : {"idle", "write"}, kind : Kinds, i : Nat, numBytes : Nat,
            buf : {<<>>}, failed : BOOLEAN]
  /\ r \in [pc : {"idle", "select", "read"}, kind : Blocks, i : {0}, numBytes : Nat,
            buf : Seq(1 .. Length), failed : BOOLEAN]
  /\ acknowledged + w.i + w.numBytes <= Length
  /\ {open, wErrno, rErrno} \subseteq BOOLEAN
  /\ acknowledged \in 0 .. Length /\ lost \subseteq 1 .. acknowledged + w.i
  /\ received \in Seq(1 .. Length)

(* "the number of bytes actually placed", "actually read": what the calls  *)
(* return is exact, however they are cut short by a full or empty buffer   *)
(* or an error between two bytes, so that a client that repeats the rest   *)
(* neither loses nor doubles a byte.  Only characters that were refused    *)
(* while printing are missing; those around them are in their order.       *)
ExactlyOnceInOrder ==
  LET all == received \o r.buf \o pipe
  IN /\ \A j, k \in 1 .. Len(all) : j < k => all[j] < all[k]
     /\ {all[k] : k \in 1 .. Len(all)} = (1 .. acknowledged + w.i) \ lost

(* "If an error occurred, hasPosixError() is true" once the call is back,  *)
(* and it is false after a call that was only short: a failure in the      *)
(* middle of a block is not hidden by the bytes before it.  Printing is    *)
(* left out: it only shows what happened to its last character.            *)
ErrorsShow ==
  /\ w.pc = "idle" /\ w.kind # "print" => wErrno = w.failed
  /\ r.pc = "idle" => rErrno = r.failed

(* The whole message arrives if both clients keep repeating short calls:   *)
(* neither a full buffer nor a failure that passes stops them for good,    *)
(* and printing takes nothing but its refused characters away.             *)
MessageArrives ==
  <>(received = SelectSeq(Bytes(0, Length), LAMBDA b : b \notin lost))
=============================================================================
