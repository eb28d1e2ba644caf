-------------------------- MODULE ByteStreamsProofs --------------------------
(***************************************************************************)
(* The safety of ByteStreams for every length of the message, every size   *)
(* of the kernel's buffer and any number of failures.                      *)
(***************************************************************************)
EXTENDS ByteStreams, SequenceTheorems, TLAPS

(* The bytes on their way, oldest first, and how many have been tried. *)
All   == received \o r.buf \o pipe
Tried == acknowledged + w.i

(* Which bytes arrive and in what order, of any sequence of bytes. *)
InOrder(all, tried, missing) ==
  /\ \A j, k \in 1 .. Len(all) : j < k => all[j] < all[k]
  /\ {all[k] : k \in 1 .. Len(all)} = (1 .. tried) \ missing

(* The clients of the two streams: the types of their calls. *)
WCalls == [pc : {"idle", "write"}, kind : Kinds, i : Nat, numBytes : Nat,
           buf : {<<>>}, failed : BOOLEAN]
RCalls == [pc : {"idle", "select", "read"}, kind : Blocks, i : {0}, numBytes : Nat,
           buf : Seq(1 .. Length), failed : BOOLEAN]

(* A call that has begun has something left to do, and has not failed yet: *)
(* only printing goes on after an error.                                   *)
CallsGoOn ==
  /\ w.pc = "write" => w.numBytes > 0 /\ (w.kind # "print" => ~w.failed)
  /\ w.pc = "idle" => w.i = 0 /\ w.numBytes = 0
  /\ r.pc # "idle" => r.numBytes > 0
  /\ r.pc = "idle" => r.buf = <<>>
  /\ r.pc = "read" => ~rErrno

IInv == TypeOK /\ CallsGoOn /\ ExactlyOnceInOrder /\ ErrorsShow
-----------------------------------------------------------------------------
(* Joining two sequences, under a name that the provers leave closed. *)
Cat(s, t) == s \o t

(* What the sequence of two joined ones consists of. *)
LEMMA CatProperties ==
  ASSUME NEW S, NEW s \in Seq(S), NEW t \in Seq(S)
  PROVE  /\ Cat(s, t) \in Seq(S)
         /\ Len(Cat(s, t)) = Len(s) + Len(t)
         /\ \A i \in 1 .. Len(s) + Len(t) :
              Cat(s, t)[i] = IF i <= Len(s) THEN s[i] ELSE t[i - Len(s)]
BY ConcatProperties DEF Cat

(* It does not matter which two of three sequences are joined first. *)
LEMMA CatAssociative ==
  ASSUME NEW S, NEW s \in Seq(S), NEW t \in Seq(S), NEW u \in Seq(S)
  PROVE  Cat(Cat(s, t), u) = Cat(s, Cat(t, u))
BY ConcatAssociative DEF Cat

(* The bytes on their way form a sequence. *)
LEMMA AllIsSeq ==
  ASSUME TypeOK
  PROVE  /\ received \in Seq(1 .. Length) /\ r.buf \in Seq(1 .. Length)
         /\ pipe \in Seq(1 .. Length) /\ All \in Seq(1 .. Length)
         /\ All = Cat(Cat(received, r.buf), pipe)
<1>1. received \in Seq(1 .. Length) /\ r.buf \in Seq(1 .. Length) /\ pipe \in Seq(1 .. Length)
  BY DEF TypeOK
<1>2. All = Cat(Cat(received, r.buf), pipe)
  BY Zenon DEF All, Cat
<1>3. All \in Seq(1 .. Length)
  BY <1>1, <1>2, CatProperties
<1> QED BY <1>1, <1>2, <1>3

(* The property is one of All, before and after a step. *)
LEMMA OrderOfAll ==
  /\ ExactlyOnceInOrder <=> InOrder(All, Tried, lost)
  /\ ExactlyOnceInOrder' <=> InOrder(All', Tried', lost')
BY Zenon DEF ExactlyOnceInOrder, InOrder, All, Tried

(* The number of the last byte that was tried. *)
LEMMA TriedIsNat ==
  ASSUME TypeOK
  PROVE  Tried \in Nat /\ Length \in Nat /\ lost \subseteq 1 .. Tried
BY LengthAssumption DEF TypeOK, Tried, WCalls

(* What is left of a call after ::write() has placed n bytes. *)
LEMMA AfterWriteStep ==
  ASSUME TypeOK, CallsGoOn, w.pc = "write", NEW n \in 0 .. Asked(w), NEW err \in BOOLEAN,
         err => n = 0, AfterWrite(n, err)
  PROVE  /\ w' \in WCalls
         /\ acknowledged' \in 0 .. Length
         /\ acknowledged' + w'.i + w'.numBytes <= Length
         /\ w'.pc = "write" => w'.numBytes > 0 /\ (w'.kind # "print" => ~w'.failed)
         /\ w'.pc = "idle" => w'.i = 0 /\ w'.numBytes = 0 /\ (w'.kind # "print" => w'.failed = err)
         /\ Tried' = IF w.kind = "print" THEN Tried + 1 ELSE Tried + n
         /\ lost' = IF w.kind = "print" /\ n = 0 THEN lost \cup {Tried + 1} ELSE lost
<1>1. /\ w \in WCalls
      /\ w.kind \in Kinds /\ w.i \in Nat /\ w.numBytes \in Nat \ {0}
      /\ acknowledged \in Nat /\ Length \in Nat
      /\ acknowledged + w.i + w.numBytes <= Length
  BY LengthAssumption DEF TypeOK, CallsGoOn, WCalls
<1>2. n \in Nat /\ n <= w.numBytes /\ (w.kind \in {"loop", "print"} => n <= 1)
  BY <1>1 DEF Asked, WCalls
<1>3. ASSUME NEW m \in 0 .. w.numBytes - 1, WriteOn(m, err),
             w.kind = "print" \/ ~err
      PROVE  /\ w' \in WCalls
             /\ acknowledged' = acknowledged
             /\ w'.pc = "write" /\ w'.numBytes = w.numBytes - m /\ w'.i = w.i + m /\ w'.numBytes > 0
             /\ w'.kind # "print" => ~w'.failed
  <2>1. w' = [w EXCEPT !.i = w.i + m, !.numBytes = w.numBytes - m, !.failed = w.failed \/ err]
    BY <1>3 DEF WriteOn
  <2>2. w.i + m \in Nat /\ w.numBytes - m \in Nat \ {0}
    BY <1>1
  <2>3. /\ w' \in WCalls
        /\ w'.kind = w.kind /\ w'.pc = w.pc
        /\ w'.i = w.i + m /\ w'.numBytes = w.numBytes - m
    BY <1>1, <2>1, <2>2 DEF WCalls
  <2>4. w'.failed = (w.failed \/ err)
    BY <1>1, <2>1, Zenon DEF WCalls
  <2>5. w'.kind # "print" => ~w'.failed
    BY <1>3, <2>3, <2>4, Zenon DEF CallsGoOn
  <2>6. acknowledged' = acknowledged
    BY <1>3 DEF WriteOn
  <2> QED BY <2>2, <2>3, <2>5, <2>6
<1>4. ASSUME NEW m \in 0 .. w.numBytes, WriteReturns(m, err)
      PROVE  /\ w' \in WCalls
             /\ acknowledged' = acknowledged + w.i + m
             /\ w'.pc = "idle" /\ w'.numBytes = 0 /\ w'.i = 0
             /\ w'.kind # "print" => w'.failed = err
  <2>1. w' = [Idle EXCEPT !.kind = w.kind, !.failed = w.failed \/ err]
    BY <1>4 DEF WriteReturns
  <2>2. w'.kind = w.kind /\ w'.failed = (w.failed \/ err)
    BY <2>1 DEF Idle
  <2>3. w'.kind # "print" => w'.failed = err
    BY <2>2 DEF CallsGoOn
  <2>4. /\ w' \in WCalls
        /\ w'.pc = "idle" /\ w'.numBytes = 0 /\ w'.i = 0
    BY <1>1, <2>1 DEF WCalls, Idle
  <2>5. acknowledged' = acknowledged + w.i + m
    BY <1>4 DEF WriteReturns
  <2> QED BY <2>3, <2>4, <2>5
<1>5. CASE w.kind = "print"
  <2>1. /\ IF w.numBytes > 1 THEN WriteOn(1, err) ELSE WriteReturns(1, err)
        /\ lost' = IF n = 0 THEN lost \cup {Tried + 1} ELSE lost
    BY <1>5 DEF AfterWrite, Tried
  <2>2. CASE w.numBytes > 1
    <3>1. 1 \in 0 .. w.numBytes - 1
      BY <1>1, <2>2
    <3> QED BY <1>1, <1>3, <1>5, <2>1, <2>2, <3>1 DEF Tried
  <2>3. CASE ~(w.numBytes > 1)
    <3>1. w.numBytes = 1 /\ 1 \in 0 .. w.numBytes
      BY <1>1, <2>3
    <3> QED BY <1>1, <1>4, <1>5, <2>1, <2>3, <3>1 DEF Tried
  <2> QED BY <2>2, <2>3
<1>6. CASE w.kind # "print"
  <2>1. /\ IF w.kind = "loop" /\ n > 0 /\ w.numBytes > n THEN WriteOn(n, err) ELSE WriteReturns(n, err)
        /\ lost' = lost
    BY <1>6 DEF AfterWrite
  <2>2. CASE w.kind = "loop" /\ n > 0 /\ w.numBytes > n
    <3>1. n \in 0 .. w.numBytes - 1 /\ ~err
      BY <1>1, <1>2, <2>2
    <3> QED BY <1>1, <1>3, <1>6, <2>1, <2>2, <3>1 DEF Tried
  <2>3. CASE ~(w.kind = "loop" /\ n > 0 /\ w.numBytes > n)
    <3>1. n \in 0 .. w.numBytes
      BY <1>1, <1>2
    <3> QED BY <1>1, <1>4, <1>6, <2>1, <2>3, <3>1 DEF Tried
  <2> QED BY <2>2, <2>3
<1> QED BY <1>5, <1>6

(* A call of the sender that has placed nothing: what was refused while    *)
(* printing is lost, everything else is tried again.                       *)
LEMMA NothingPlaced ==
  ASSUME TypeOK, ExactlyOnceInOrder, UNCHANGED <<pipe, reader>>,
         \/ Tried' = Tried /\ lost' = lost
         \/ Tried' = Tried + 1 /\ lost' = lost \cup {Tried + 1}
  PROVE  ExactlyOnceInOrder' /\ lost' \subseteq 1 .. Tried'
<1>1. All' = All
  BY Zenon DEF All, reader
<1>2. Tried \in Nat /\ lost \subseteq 1 .. Tried
  BY TriedIsNat
<1>3. (1 .. Tried') \ lost' = (1 .. Tried) \ lost /\ lost' \subseteq 1 .. Tried'
  <2>1. CASE Tried' = Tried /\ lost' = lost
    BY <1>2, <2>1
  <2>2. CASE Tried' = Tried + 1 /\ lost' = lost \cup {Tried + 1}
    <3>1. 1 .. Tried' = (1 .. Tried) \cup {Tried + 1}
      BY <1>2, <2>2
    <3> QED BY <1>2, <2>2, <3>1
  <2> QED BY <2>1, <2>2
<1>5. InOrder(All', Tried', lost')
  BY <1>1, <1>3, OrderOfAll, Zenon DEF InOrder
<1> QED BY <1>3, <1>5, OrderOfAll

(* ::write() has placed the next n bytes behind the others. *)
LEMMA BytesPlaced ==
  ASSUME TypeOK, ExactlyOnceInOrder, UNCHANGED reader, NEW n \in Nat, Tried + n <= Length,
         pipe' = pipe \o Bytes(Tried, n), Tried' = Tried + n, lost' = lost
  PROVE  /\ ExactlyOnceInOrder'
         /\ pipe' \in Seq(1 .. Length) /\ Len(pipe') = Len(pipe) + n
<1> DEFINE B == Bytes(Tried, n)
           m == Len(All)
<1>1. Tried \in Nat /\ Length \in Nat /\ lost \subseteq 1 .. Tried
  BY TriedIsNat
<1>2. B \in Seq(1 .. Length) /\ Len(B) = n /\ \A k \in 1 .. n : B[k] = Tried + k
  BY <1>1 DEF Bytes
<1> HIDE DEF B
<1>3. pipe' = Cat(pipe, B)
  BY Zenon DEF Cat, B
<1>4. All' = Cat(All, B)
  <2>1. All' = Cat(Cat(received, r.buf), Cat(pipe, B))
    BY <1>3, Zenon DEF All, Cat, reader
  <2> QED BY <1>2, <2>1, AllIsSeq, CatProperties, CatAssociative
<1>5. /\ m \in Nat /\ Len(All') = m + n
      /\ \A k \in 1 .. m + n : All'[k] = IF k <= m THEN All[k] ELSE Tried + (k - m)
  <2>1. All \in Seq(1 .. Length) /\ m \in Nat
    BY AllIsSeq, LenProperties
  <2>2. /\ Len(All') = m + n
        /\ \A k \in 1 .. m + n : All'[k] = IF k <= m THEN All[k] ELSE B[k - m]
    BY <1>2, <1>4, <2>1, CatProperties
  <2>3. \A k \in 1 .. m + n : ~(k <= m) => k - m \in 1 .. n
    BY <2>1
  <2> QED BY <1>2, <2>1, <2>2, <2>3
<1>6. /\ \A j, k \in 1 .. m : j < k => All[j] < All[k]
      /\ {All[k] : k \in 1 .. m} = (1 .. Tried) \ lost
  BY OrderOfAll, Zenon DEF InOrder
<1> HIDE DEF m
<1>7. \A k \in 1 .. m : All[k] \in (1 .. Tried) \ lost
  BY <1>6
<1>8. \A j, k \in 1 .. m + n : j < k => All'[j] < All'[k]
  BY <1>1, <1>5, <1>6, <1>7
<1>9. {All'[k] : k \in 1 .. m + n} = (1 .. Tried + n) \ lost
  <2>1. ASSUME NEW k \in 1 .. m + n PROVE All'[k] \in (1 .. Tried + n) \ lost
    <3>1. CASE k <= m
      BY <1>1, <1>5, <1>7, <3>1
    <3>2. CASE k > m
      BY <1>1, <1>5, <3>2
    <3> QED BY <1>5, <3>1, <3>2
  <2>2. ASSUME NEW b \in (1 .. Tried + n) \ lost PROVE \E k \in 1 .. m + n : All'[k] = b
    <3>1. CASE b <= Tried
      <4>1. PICK k \in 1 .. m : All[k] = b
        BY <1>1, <1>6, <3>1
      <4> QED BY <1>5, <4>1
    <3>2. CASE b > Tried
      <4>1. /\ m + (b - Tried) \in 1 .. m + n
            /\ All'[m + (b - Tried)] = b
        BY <1>1, <1>5, <3>2
      <4> QED BY <4>1
    <3> QED BY <1>1, <3>1, <3>2
  <2> QED BY <2>1, <2>2
<1>10. ExactlyOnceInOrder'
  <2>1. InOrder(All', Tried + n, lost)
    BY <1>5, <1>8, <1>9, Zenon DEF InOrder
  <2> QED BY <2>1, OrderOfAll
<1>11. pipe' \in Seq(1 .. Length) /\ Len(pipe') = Len(pipe) + n
  BY <1>2, <1>3, AllIsSeq, CatProperties
<1> QED BY <1>10, <1>11

(* The bytes a call of the receiver has taken out of the kernel's buffer   *)
(* are delivered, now or when the block is complete.                       *)
LEMMA AfterReadStep ==
  ASSUME TypeOK, CallsGoOn, ExactlyOnceInOrder, r.pc \in {"select", "read"},
         NEW bytes \in Seq(1 .. Length), NEW err \in BOOLEAN, AfterRead(bytes, err),
         pipe = bytes \o pipe', pipe' \in Seq(1 .. Length), UNCHANGED writer,
         bytes # <<>> => ~err
  PROVE  /\ r' \in RCalls
         /\ received' \in Seq(1 .. Length)
         /\ \/ r'.pc = "select" /\ r'.numBytes > 0
            \/ r'.pc = "idle" /\ r'.buf = <<>> /\ r'.failed = err
         /\ ExactlyOnceInOrder'
<1>1. /\ r \in RCalls /\ r.numBytes \in Nat /\ Length \in Nat
      /\ received \in Seq(1 .. Length) /\ r.buf \in Seq(1 .. Length)
      /\ All = Cat(Cat(received, r.buf), pipe)
  BY LengthAssumption, AllIsSeq DEF TypeOK, RCalls
<1> DEFINE taken == Cat(r.buf, bytes)
<1>2. taken \in Seq(1 .. Length) /\ Cat(received, taken) \in Seq(1 .. Length)
  BY <1>1, CatProperties
<1>3. All = Cat(Cat(received, taken), pipe')
  <2>1. pipe = Cat(bytes, pipe')
    BY Zenon DEF Cat
  <2>2. Cat(r.buf, Cat(bytes, pipe')) = Cat(taken, pipe')
    BY <1>1, CatAssociative
  <2>3. Cat(Cat(received, r.buf), Cat(bytes, pipe')) = Cat(received, Cat(r.buf, Cat(bytes, pipe')))
    <3>1. Cat(bytes, pipe') \in Seq(1 .. Length)
      BY CatProperties
    <3> QED BY <1>1, <3>1, CatAssociative
  <2>4. Cat(received, Cat(taken, pipe')) = Cat(Cat(received, taken), pipe')
    BY <1>1, <1>2, CatAssociative
  <2> QED BY <1>1, <2>1, <2>2, <2>3, <2>4, Zenon
<1>4. ASSUME All' = All PROVE ExactlyOnceInOrder'
  <2>1. Tried' = Tried /\ lost' = lost
    BY Zenon DEF Tried, writer
  <2> QED BY <1>4, <2>1, OrderOfAll, Zenon
<1>5. CASE r.kind = "loop" /\ bytes # <<>> /\ r.numBytes > 1
  <2>1. r' = [r EXCEPT !.pc = "select", !.buf = taken, !.numBytes = r.numBytes - 1]
    BY <1>5, Zenon DEF AfterRead, Cat
  <2>2. received' = received
    BY <1>5 DEF AfterRead
  <2>3. r.numBytes - 1 \in Nat /\ r.numBytes - 1 > 0
    BY <1>1, <1>5
  <2> HIDE DEF taken
  <2>4. /\ r' \in RCalls
        /\ r'.buf = taken /\ r'.pc = "select" /\ r'.numBytes = r.numBytes - 1
    BY <1>1, <1>2, <2>1, <2>3 DEF RCalls
  <2>5. All' = Cat(Cat(received, taken), pipe')
    BY <2>2, <2>4, Zenon DEF All, Cat
  <2>6. ExactlyOnceInOrder'
    BY <1>3, <1>4, <2>5
  <2>7. r'.pc = "select" /\ r'.numBytes > 0 /\ received' \in Seq(1 .. Length)
    BY <1>1, <2>2, <2>3, <2>4
  <2> QED BY <2>4, <2>6, <2>7
<1>6. CASE ~(r.kind = "loop" /\ bytes # <<>> /\ r.numBytes > 1)
  <2>1. r' = [Idle EXCEPT !.failed = err] /\ received' = Cat(Cat(received, r.buf), bytes)
    BY <1>6, Zenon DEF AfterRead, Cat
  <2>2. received' = Cat(received, taken)
    BY <1>1, <2>1, CatAssociative
  <2> HIDE DEF taken
  <2>3. <<>> \in Seq(1 .. Length)
    OBVIOUS
  <2>4. /\ r' \in RCalls
        /\ r'.pc = "idle" /\ r'.buf = <<>> /\ r'.failed = err
    BY <2>1, <2>3 DEF Idle, Blocks, RCalls
  <2>5. received' \o r'.buf = received'
    BY <1>2, <2>2, <2>4, ConcatEmptySeq
  <2>6. All' = Cat(Cat(received, taken), pipe')
    BY <2>2, <2>5, Zenon DEF All, Cat
  <2>7. ExactlyOnceInOrder'
    BY <1>3, <1>4, <2>6
  <2> QED BY <1>2, <2>2, <2>4, <2>7
<1> QED BY <1>5, <1>6
-----------------------------------------------------------------------------
(* ::write() has come back: the call of the sender goes on or returns, and *)
(* the rest of the invariant does not depend on how.                       *)
LEMMA AfterWriteKeeps ==
  ASSUME IInv, w.pc = "write", NEW n \in 0 .. Asked(w), NEW err \in BOOLEAN,
         err => n = 0, AfterWrite(n, err), wErrno' = err, UNCHANGED <<open, reader>>,
         pipe' \in Seq(1 .. Length), Len(pipe') <= Capacity, faults' \in 0 .. Faults,
         ExactlyOnceInOrder', lost' \subseteq 1 .. Tried'
  PROVE  IInv'
<1>1. /\ w' \in WCalls
      /\ acknowledged' \in 0 .. Length
      /\ acknowledged' + w'.i + w'.numBytes <= Length
      /\ w'.pc = "write" => w'.numBytes > 0 /\ (w'.kind # "print" => ~w'.failed)
      /\ w'.pc = "idle" => w'.i = 0 /\ w'.numBytes = 0 /\ (w'.kind # "print" => w'.failed = err)
  BY AfterWriteStep DEF IInv
<1>2. r' = r /\ rErrno' = rErrno /\ received' = received /\ open' = open
  BY DEF reader
<1>3. TypeOK'
  BY <1>1, <1>2 DEF IInv, TypeOK, Tried, WCalls
<1>4. CallsGoOn'
  BY <1>1, <1>2, Zenon DEF IInv, CallsGoOn
<1>5. ErrorsShow'
  BY <1>1, <1>2, Zenon DEF IInv, ErrorsShow
<1> QED BY <1>3, <1>4, <1>5, Zenon DEF IInv

(* A call of the sender that ends with an error or at a full buffer.       *)
LEMMA NothingWritten ==
  ASSUME IInv, w.pc = "write", NEW err \in BOOLEAN, AfterWrite(0, err), wErrno' = err,
         UNCHANGED <<pipe, open, reader>>, faults' \in 0 .. Faults
  PROVE  IInv'
<1>1. 0 \in 0 .. Asked(w)
  BY DEF Asked, IInv, TypeOK
<1>2. \/ Tried' = Tried /\ lost' = lost
      \/ Tried' = Tried + 1 /\ lost' = lost \cup {Tried + 1}
  BY <1>1, AfterWriteStep, TriedIsNat DEF IInv
<1>3. ExactlyOnceInOrder' /\ lost' \subseteq 1 .. Tried'
  BY <1>2, NothingPlaced DEF IInv
<1>4. pipe' \in Seq(1 .. Length) /\ Len(pipe') <= Capacity
  BY DEF IInv, TypeOK
<1> QED BY <1>1, <1>3, <1>4, AfterWriteKeeps

(* A system call of the receiver has come back with some bytes, or none.   *)
LEMMA AfterReadKeeps ==
  ASSUME IInv, r.pc \in {"select", "read"},
         NEW bytes \in Seq(1 .. Length), NEW err \in BOOLEAN, AfterRead(bytes, err),
         pipe = bytes \o pipe', pipe' \in Seq(1 .. Length), Len(pipe') <= Capacity,
         bytes # <<>> => ~err, rErrno' = err, faults' \in 0 .. Faults, UNCHANGED writer
  PROVE  IInv'
<1>1. /\ r' \in RCalls
      /\ received' \in Seq(1 .. Length)
      /\ \/ r'.pc = "select" /\ r'.numBytes > 0
         \/ r'.pc = "idle" /\ r'.buf = <<>> /\ r'.failed = err
      /\ ExactlyOnceInOrder'
  BY AfterReadStep DEF IInv
<1>2. /\ w' = w /\ open' = open /\ wErrno' = wErrno
      /\ acknowledged' = acknowledged /\ lost' = lost
  BY DEF writer
<1>3. TypeOK'
  BY <1>1, <1>2 DEF IInv, TypeOK, RCalls
<1>4. CallsGoOn'
  BY <1>1, <1>2 DEF IInv, CallsGoOn
<1>5. ErrorsShow'
  BY <1>1, <1>2, Zenon DEF IInv, ErrorsShow
<1> QED BY <1>1, <1>3, <1>4, <1>5, Zenon DEF IInv

(* A call of the sender begins.                                            *)
LEMMA WriteBegins ==
  ASSUME IInv, w.pc = "idle", NEW kind \in Kinds, NEW n \in 1 .. Length - acknowledged,
         w' = Begin("write", kind, n),
         UNCHANGED <<pipe, faults, open, wErrno, acknowledged, lost, reader>>
  PROVE  IInv'
<1>1. /\ w' \in WCalls
      /\ w'.pc = "write" /\ w'.i = 0 /\ w'.numBytes = n /\ w'.failed = FALSE
      /\ w.i = 0
  <2>1. n \in Nat /\ w.i = 0
    BY LengthAssumption DEF IInv, TypeOK, CallsGoOn
  <2> QED BY <2>1 DEF Begin, Idle, WCalls
<1>2. r' = r /\ rErrno' = rErrno /\ received' = received
  BY DEF reader
<1>3. TypeOK'
  <2>1. acknowledged \in 0 .. Length /\ Length \in Nat
    BY LengthAssumption DEF IInv, TypeOK
  <2>2. acknowledged' + w'.i + w'.numBytes <= Length
    BY <1>1, <2>1
  <2>3. lost' \subseteq 1 .. acknowledged' + w'.i
    BY <1>1, <2>1 DEF IInv, TypeOK
  <2> QED BY <1>1, <1>2, <2>1, <2>2, <2>3 DEF IInv, TypeOK, WCalls
<1>4. CallsGoOn'
  BY <1>1, <1>2 DEF IInv, CallsGoOn
<1>5. ErrorsShow'
  BY <1>1, <1>2 DEF IInv, ErrorsShow
<1>6. ExactlyOnceInOrder'
  <2>1. All' = All /\ Tried' = Tried /\ lost' = lost
    BY <1>1, <1>2, Zenon DEF All, Tried
  <2> QED BY <2>1, OrderOfAll, Zenon DEF IInv
<1> QED BY <1>3, <1>4, <1>5, <1>6, Zenon DEF IInv

(* A call of the receiver begins.                                          *)
LEMMA ReadBegins ==
  ASSUME IInv, r.pc = "idle", NEW kind \in Blocks, NEW n \in Nat \ {0},
         r' = Begin("select", kind, n), UNCHANGED <<pipe, faults, rErrno, received, writer>>
  PROVE  IInv'
<1>1. <<>> \in Seq(1 .. Length)
  OBVIOUS
<1>2. /\ r' \in RCalls
      /\ r'.pc = "select" /\ r'.buf = <<>> /\ r'.numBytes = n
      /\ r.buf = <<>>
  BY <1>1 DEF Begin, Idle, RCalls, IInv, CallsGoOn
<1>3. /\ w' = w /\ open' = open /\ wErrno' = wErrno
      /\ acknowledged' = acknowledged /\ lost' = lost
  BY DEF writer
<1>4. TypeOK'
  BY <1>2, <1>3 DEF IInv, TypeOK, RCalls
<1>5. CallsGoOn'
  BY <1>2, <1>3 DEF IInv, CallsGoOn
<1>6. ErrorsShow'
  BY <1>2, <1>3 DEF IInv, ErrorsShow
<1>7. ExactlyOnceInOrder'
  <2>1. All' = All /\ Tried' = Tried /\ lost' = lost
    BY <1>2, <1>3, Zenon DEF All, Tried
  <2> QED BY <2>1, OrderOfAll, Zenon DEF IInv
<1> QED BY <1>4, <1>5, <1>6, <1>7, Zenon DEF IInv
-----------------------------------------------------------------------------
(* The first state. *)
LEMMA Initial == Init => IInv
<1> SUFFICES ASSUME Init PROVE IInv
  OBVIOUS
<1>1. All = <<>> /\ Tried = 0 /\ lost = {}
  BY DEF Init, Idle, All, Tried
<1>2. InOrder(<<>>, 0, {})
  BY DEF InOrder
<1>3. ExactlyOnceInOrder
  BY <1>1, <1>2, OrderOfAll
<1>4. TypeOK
  <2>1. Idle \in WCalls /\ Idle \in RCalls /\ Idle.i = 0 /\ Idle.numBytes = 0
    BY DEF Idle, WCalls, RCalls, Kinds, Blocks
  <2>2. <<>> \in Seq(1 .. Length) /\ Len(<<>>) = 0
    OBVIOUS
  <2>3. w \in WCalls /\ r \in RCalls /\ w.i = 0 /\ w.numBytes = 0
    BY <2>1 DEF Init
  <2>4. /\ pipe = <<>> /\ received = <<>> /\ faults = 0 /\ acknowledged = 0 /\ lost = {}
        /\ {open, wErrno, rErrno} \subseteq BOOLEAN
    BY DEF Init
  <2>5. pipe \in Seq(1 .. Length) /\ received \in Seq(1 .. Length) /\ Len(pipe) = 0
    BY <2>2, <2>4
  <2> QED BY <2>3, <2>4, <2>5, LengthAssumption DEF TypeOK, WCalls, RCalls
<1>5. CallsGoOn /\ ErrorsShow
  BY DEF Init, Idle, CallsGoOn, ErrorsShow
<1> QED BY <1>3, <1>4, <1>5 DEF IInv

(* The descriptor arrives between two calls. *)
LEMMA SetFdStep == ASSUME IInv, SetFd PROVE IInv'
<1>1. /\ open' = TRUE
      /\ UNCHANGED <<pipe, faults, w, r, wErrno, rErrno, acknowledged, lost, received>>
  BY DEF SetFd, reader
<1>2. TypeOK'
  BY <1>1 DEF IInv, TypeOK
<1>3. CallsGoOn' /\ ErrorsShow'
  BY <1>1 DEF IInv, CallsGoOn, ErrorsShow
<1>4. All' = All /\ Tried' = Tried /\ lost' = lost
  BY <1>1, Zenon DEF All, Tried
<1>5. ExactlyOnceInOrder'
  BY <1>4, OrderOfAll, Zenon DEF IInv
<1> QED BY <1>2, <1>3, <1>5, Zenon DEF IInv

(* ::write() has placed some bytes: they stand behind the others, and the  *)
(* call goes on behind them.                                               *)
LEMMA WriteStep == ASSUME IInv, Write PROVE IInv'
<1>1. PICK n \in 1 .. Asked(w) :
        /\ n <= Capacity - Len(pipe)
        /\ pipe' = pipe \o Bytes(acknowledged + w.i, n)
        /\ AfterWrite(n, FALSE)
  BY DEF Write
<1>2. w.pc = "write" /\ wErrno' = FALSE /\ UNCHANGED <<faults, open, reader>>
  BY DEF Write
<1>3. /\ n \in Nat /\ n > 0 /\ n <= w.numBytes
      /\ w.kind = "print" => n = 1
      /\ n \in 0 .. Asked(w)
      /\ acknowledged \in Nat /\ w.i \in Nat /\ w.numBytes \in Nat /\ Length \in Nat
      /\ acknowledged + w.i + w.numBytes <= Length
  BY <1>2, LengthAssumption DEF IInv, TypeOK, CallsGoOn, Asked
<1>4. Tried' = Tried + n /\ lost' = lost
  <2>1. /\ Tried' = IF w.kind = "print" THEN Tried + 1 ELSE Tried + n
        /\ lost' = IF w.kind = "print" /\ n = 0 THEN lost \cup {Tried + 1} ELSE lost
    BY <1>1, <1>2, <1>3, AfterWriteStep DEF IInv
  <2> QED BY <1>3, <2>1
<1>5. Tried + n <= Length
  BY <1>3 DEF Tried
<1>6. /\ ExactlyOnceInOrder'
      /\ pipe' \in Seq(1 .. Length) /\ Len(pipe') = Len(pipe) + n
  BY <1>1, <1>2, <1>3, <1>4, <1>5, BytesPlaced DEF IInv, Tried
<1>7. lost' \subseteq 1 .. Tried'
  BY <1>3, <1>4, TriedIsNat DEF IInv
<1>8. Len(pipe') <= Capacity /\ faults' \in 0 .. Faults
  BY <1>1, <1>2, <1>3, <1>6, LengthAssumption, LenProperties DEF IInv, TypeOK
<1> QED BY <1>1, <1>2, <1>3, <1>6, <1>7, <1>8, AfterWriteKeeps

(* ::read() has taken some bytes from the front of the kernel's buffer. *)
LEMMA ReadStep == ASSUME IInv, Read PROVE IInv'
<1>1. PICK n \in 1 .. Asked(r) :
        /\ n <= Len(pipe)
        /\ AfterRead(SubSeq(pipe, 1, n), FALSE)
        /\ pipe' = SubSeq(pipe, n + 1, Len(pipe))
  BY DEF Read
<1>2. r.pc = "read" /\ UNCHANGED <<faults, rErrno, writer>> /\ ~rErrno /\ rErrno \in BOOLEAN
  BY DEF Read, IInv, CallsGoOn, TypeOK
<1>3. /\ pipe \in Seq(1 .. Length) /\ Len(pipe) \in Nat /\ Len(pipe) <= Capacity
      /\ n \in 1 .. Len(pipe)
  BY <1>1, LenProperties DEF IInv, TypeOK, Asked
<1>4. /\ SubSeq(pipe, 1, n) \in Seq(1 .. Length)
      /\ pipe' \in Seq(1 .. Length) /\ Len(pipe') <= Len(pipe)
  <2>1. \A k \in 1 .. Len(pipe) : pipe[k] \in 1 .. Length
    BY <1>3, ElementOfSeq
  <2>2. SubSeq(pipe, 1, n) \in Seq(1 .. Length)
    BY <1>3, <2>1, SubSeqProperties
  <2>3. /\ SubSeq(pipe, n + 1, Len(pipe)) \in Seq(1 .. Length)
        /\ Len(SubSeq(pipe, n + 1, Len(pipe))) =
             IF n + 1 <= Len(pipe) THEN Len(pipe) - (n + 1) + 1 ELSE 0
    <3>1. n + 1 \in Int /\ Len(pipe) \in Int /\ \A k \in n + 1 .. Len(pipe) : pipe[k] \in 1 .. Length
      BY <1>3, <2>1
    <3> QED BY <3>1, SubSeqProperties
  <2> QED BY <1>1, <1>3, <2>2, <2>3
<1>5. pipe = SubSeq(pipe, 1, n) \o pipe'
  <2>1. SubSeq(pipe, 1, n) \o SubSeq(pipe, n + 1, Len(pipe)) = SubSeq(pipe, 1, Len(pipe))
    BY <1>3, ConcatAdjacentSubSeq
  <2> QED BY <1>1, <1>3, <2>1, SubSeqFull, Zenon
<1>6. rErrno' = FALSE /\ faults' \in 0 .. Faults /\ Len(pipe') <= Capacity
  BY <1>2, <1>3, <1>4, LengthAssumption, LenProperties DEF IInv, TypeOK
<1> QED BY <1>1, <1>2, <1>4, <1>5, <1>6, AfterReadKeeps

(* A system call of the receiver that brings nothing. *)
LEMMA NothingRead ==
  ASSUME IInv, r.pc \in {"select", "read"}, NEW err \in BOOLEAN, AfterRead(<<>>, err),
         rErrno' = err, faults' \in 0 .. Faults, UNCHANGED <<pipe, writer>>
  PROVE  IInv'
<1>1. /\ pipe \in Seq(1 .. Length) /\ Len(pipe) <= Capacity /\ pipe' = pipe
      /\ <<>> \in Seq(1 .. Length)
  BY DEF IInv, TypeOK
<1>2. pipe = <<>> \o pipe'
  BY <1>1, ConcatEmptySeq
<1> QED BY <1>1, <1>2, AfterReadKeeps

(* select() says that there is something to read. *)
LEMMA SelectReadyStep == ASSUME IInv, SelectReady PROVE IInv'
<1>1. /\ r.pc = "select" /\ r' = [r EXCEPT !.pc = "read"] /\ rErrno' = FALSE
      /\ UNCHANGED <<pipe, faults, w, open, wErrno, acknowledged, lost, received>>
  BY DEF SelectReady, writer
<1>2. /\ r' \in RCalls
      /\ r'.pc = "read" /\ r'.buf = r.buf /\ r'.numBytes = r.numBytes
  BY <1>1 DEF IInv, TypeOK, RCalls
<1>3. TypeOK'
  BY <1>1, <1>2 DEF IInv, TypeOK, RCalls
<1>4. CallsGoOn'
  BY <1>1, <1>2 DEF IInv, CallsGoOn
<1>5. ErrorsShow'
  BY <1>1, <1>2 DEF IInv, ErrorsShow
<1>6. ExactlyOnceInOrder'
  <2>1. All' = All /\ Tried' = Tried /\ lost' = lost
    BY <1>1, <1>2, Zenon DEF All, Tried
  <2> QED BY <2>1, OrderOfAll, Zenon DEF IInv
<1> QED BY <1>3, <1>4, <1>5, <1>6, Zenon DEF IInv

(* Every step keeps the invariant. *)
LEMMA Inductive == IInv /\ [Next]_vars => IInv'
<1> SUFFICES ASSUME IInv, [Next]_vars PROVE IInv'
  OBVIOUS
<1>1. faults \in 0 .. Faults /\ Faults \in Nat /\ Length \in Nat /\ acknowledged \in 0 .. Length
  BY LengthAssumption DEF IInv, TypeOK
<1>2. CASE SetFd
  BY <1>2, SetFdStep
<1>3. CASE WriteCall
  <2>1. PICK kind \in Blocks, n \in 1 .. Length - acknowledged : w' = Begin("write", kind, n)
    BY <1>3 DEF WriteCall
  <2> QED BY <1>3, <2>1, WriteBegins DEF WriteCall, Kinds
<1>4. CASE PutChar
  <2>1. "loop" \in Kinds /\ 1 \in 1 .. Length - acknowledged
    BY <1>1, <1>4 DEF PutChar, Kinds, Blocks
  <2> QED BY <1>4, <2>1, WriteBegins DEF PutChar
<1>5. CASE PrintText
  <2>1. PICK n \in 1 .. Length - acknowledged : w' = Begin("write", "print", n)
    BY <1>5 DEF PrintText
  <2> QED BY <1>5, <2>1, WriteBegins DEF PrintText, Kinds
<1>6. CASE Write
  BY <1>6, WriteStep
<1>7. CASE WriteRefused
  BY <1>1, <1>7, NothingWritten DEF WriteRefused
<1>8. CASE WriteFails
  <2>1. faults' \in 0 .. Faults
    BY <1>1, <1>8 DEF WriteFails
  <2> QED BY <1>8, <2>1, NothingWritten DEF WriteFails
<1>9. CASE ReadCall
  <2>1. PICK kind \in Blocks, n \in 1 .. Length : r' = Begin("select", kind, n)
    BY <1>9 DEF ReadCall
  <2> QED BY <1>1, <1>9, <2>1, ReadBegins DEF ReadCall
<1>10. CASE GetChar
  BY <1>10, ReadBegins DEF GetChar, Blocks
<1>11. CASE SelectNothing
  BY <1>1, <1>11, NothingRead DEF SelectNothing
<1>12. CASE SelectReady
  BY <1>12, SelectReadyStep
<1>13. CASE Read
  BY <1>13, ReadStep
<1>14. CASE ReadRefused
  <2>1. rErrno' = FALSE
    BY <1>14 DEF ReadRefused, IInv, CallsGoOn, TypeOK
  <2> QED BY <1>1, <1>14, <2>1, NothingRead DEF ReadRefused
<1>15. CASE ReadFails
  <2>1. faults' \in 0 .. Faults
    BY <1>1, <1>15 DEF ReadFails
  <2> QED BY <1>15, <2>1, NothingRead DEF ReadFails
<1>16. CASE UNCHANGED vars
  <2>1. UNCHANGED <<pipe, faults, w, r, open, wErrno, rErrno, acknowledged, lost, received>>
    BY <1>16 DEF vars
  <2>2. All' = All /\ Tried' = Tried /\ lost' = lost
    BY <2>1, Zenon DEF All, Tried
  <2>3. ExactlyOnceInOrder'
    BY <2>2, OrderOfAll, Zenon DEF IInv
  <2>4. TypeOK' /\ CallsGoOn' /\ ErrorsShow'
    BY <2>1 DEF IInv, TypeOK, CallsGoOn, ErrorsShow
  <2> QED BY <2>3, <2>4 DEF IInv
<1> QED BY <1>2, <1>3, <1>4, <1>5, <1>6, <1>7, <1>8, <1>9, <1>10, <1>11, <1>12, <1>13,
           <1>14, <1>15, <1>16 DEF Next, WriterStep, ReaderStep

(* The invariant holds in every state the two clients reach. *)
THEOREM Invariance == Spec => []IInv
BY Initial, Inductive, PTL DEF Spec

(* No count leaves the message and no buffer is overfilled. *)
THEOREM TypeCorrect == Spec => []TypeOK
<1>1. IInv => TypeOK
  BY DEF IInv
<1> QED BY <1>1, Invariance, PTL

(* Short calls, full buffers and errors between two bytes neither lose nor *)
(* double a byte, nor put it before an earlier one: what writeBlock() and  *)
(* printf() returned and what readBlock() delivered fit together, but for  *)
(* the characters that were refused while printing.                        *)
THEOREM ExactlyOnce == Spec => []ExactlyOnceInOrder
<1>1. IInv => ExactlyOnceInOrder
  BY DEF IInv
<1> QED BY <1>1, Invariance, PTL

(* hasPosixError() says after every call of writeBlock() and readBlock()   *)
(* whether a system call of it has failed, also when bytes were            *)
(* transferred before.  printf() is left out (see ErrorsShow).             *)
THEOREM ErrorsAlwaysShow == Spec => []ErrorsShow
<1>1. IInv => ErrorsShow
  BY DEF IInv
<1> QED BY <1>1, Invariance, PTL
=============================================================================
