------------------------ MODULE FdSelectHandlerProofs ------------------------
(***************************************************************************)
(* The safety of FdSelectHandler for every finite set of objects: the      *)
(* chain stays a list, and the second walk of waitOn() meets each object   *)
(* that pselect() reported once, although execute() may delete its own     *)
(* object, take it out of the chain, and put others into it.               *)
(***************************************************************************)
EXTENDS FdSelectHandler, FiniteSetTheorems, TLAPS

Orders == [inChain -> 1 .. Cardinality(inChain)]

(* The objects a walk that stands at c has still to meet. *)
Ahead(pos, c) == {o \in inChain : c # Null /\ pos[o] >= pos[c]}

(* Where a walk goes on: execute() returns to h_next. *)
Cursor == IF pc = "execute" THEN h_next ELSE h

(* What pselect() reported and is not served yet lies ahead and is still   *)
(* waited for; what is served does not lie ahead.                          *)
Round(pos) ==
  /\ Cursor \in inChain \cup {Null}
  /\ \A e \in ready : e[1] \in served \cup Ahead(pos, Cursor)
  /\ \A e \in ready : e[1] \in Ahead(pos, Cursor) => e[2] \in wants[e[1]]
  /\ served \cap Ahead(pos, Cursor) = {}
  /\ served \subseteq {e[1] : e \in ready}
  /\ pc = "execute" => h \in served

(* An object outside the chain has no links. *)
Unlinked == \A o \in Objects \ inChain : prev[o] = Null /\ next[o] = Null

(* Before the second walk nothing is served, and what was asked for is in  *)
(* the chain and waited for.                                               *)
Asked ==
  /\ pc \in {"idle", "select"} => served = {}
  /\ pc = "select" => \A e \in ready : e[1] \in inChain /\ e[2] \in wants[e[1]]

IInv ==
  /\ TypeOK /\ Unlinked /\ Asked
  /\ \E pos \in Orders :
       /\ InOrder(pos)
       /\ pc \in {"dispatch", "execute"} => Round(pos)
-----------------------------------------------------------------------------
(* There are finitely many objects, so the chain has an end. *)
LEMMA ChainFinite ==
  ASSUME TypeOK
  PROVE  IsFiniteSet(inChain) /\ Cardinality(inChain) \in Nat
<1>1. inChain \subseteq Objects
  BY DEF TypeOK
<1> QED BY <1>1, ObjectsAssumption, FS_Subset, FS_CardinalityType

(* addTo() makes the object the first one and moves the others back. *)
LEMMA AddOrder ==
  ASSUME TypeOK, Unlinked, NEW pos \in Orders, InOrder(pos),
         NEW o \in Objects \ inChain, AddTo(o)
  PROVE  /\ prev' \in [Objects -> Objects \cup {Null}]
         /\ next' \in [Objects -> Objects \cup {Null}]
         /\ Unlinked'
         /\ \E q \in Orders' : InOrder(q)' /\ q[o] = 1 /\ \A p \in inChain : q[p] = pos[p] + 1
<1> DEFINE n == Cardinality(inChain)
<1>0. PICK q : q = [p \in inChain' |-> IF p = o THEN 1 ELSE pos[p] + 1]
  OBVIOUS
<1>1. /\ inChain \subseteq Objects /\ chain \in Objects \cup {Null} /\ Null \notin Objects
      /\ prev \in [Objects -> Objects \cup {Null}] /\ next \in [Objects -> Objects \cup {Null}]
  BY ObjectsAssumption DEF TypeOK
<1>2. /\ inChain' = inChain \cup {o} /\ chain' = o
      /\ prev' = [p \in Objects |-> IF p = o THEN Null ELSE IF p = chain THEN o ELSE prev[p]]
      /\ next' = [next EXCEPT ![o] = chain]
  BY DEF AddTo
<1>3. n \in Nat /\ Cardinality(inChain') = n + 1
  BY <1>2, ChainFinite, FS_AddElement
<1>4. /\ prev' \in [Objects -> Objects \cup {Null}]
      /\ next' \in [Objects -> Objects \cup {Null}]
      /\ next'[o] = chain /\ prev'[o] = Null
      /\ \A p \in Objects : p # o => next'[p] = next[p]
      /\ \A p \in Objects : p # o => prev'[p] = IF p = chain THEN o ELSE prev[p]
  BY <1>1, <1>2
<1>5. Unlinked'
  BY <1>1, <1>2, <1>4 DEF Unlinked, InOrder
<1>6. /\ \A p \in inChain : pos[p] \in 1 .. n /\ q[p] = pos[p] + 1
      /\ q[o] = 1
  BY <1>0, <1>2 DEF Orders
<1>7. q \in Orders'
  BY <1>0, <1>2, <1>3, <1>6 DEF Orders
<1>8. \A x, y \in inChain' : q[x] = q[y] => x = y
  BY <1>2, <1>3, <1>6 DEF InOrder
<1>9. ASSUME NEW p \in inChain'
      PROVE  IF next'[p] = Null
               THEN q[p] = Cardinality(inChain')
               ELSE next'[p] \in inChain' /\ prev'[next'[p]] = p /\ q[next'[p]] = q[p] + 1
  <2>1. CASE p = o
    <3>1. CASE chain = Null
      <4>1. n = 0
        BY <3>1, FS_EmptySet DEF InOrder
      <4> QED BY <1>3, <1>4, <1>6, <2>1, <3>1, <4>1
    <3>2. CASE chain # Null
      <4>1. chain \in inChain /\ pos[chain] = 1
        BY <3>2 DEF InOrder
      <4> QED BY <1>1, <1>2, <1>4, <1>6, <2>1, <3>2, <4>1
    <3> QED BY <3>1, <3>2
  <2>2. CASE p # o
    <3>1. p \in inChain /\ p \in Objects /\ next'[p] = next[p] /\ pos[p] \in 1 .. n
      BY <1>1, <1>2, <1>4, <1>6, <2>2
    <3>2. CASE next[p] = Null
      BY <1>3, <1>6, <3>1, <3>2 DEF InOrder
    <3>3. CASE next[p] # Null
      <4>1. next[p] \in inChain /\ prev[next[p]] = p /\ pos[next[p]] = pos[p] + 1
        BY <3>1, <3>3 DEF InOrder
      <4>2. next[p] # chain /\ next[p] # o
        BY <1>1, <3>1, <4>1 DEF InOrder
      <4> QED BY <1>1, <1>2, <1>4, <1>6, <3>1, <3>3, <4>1, <4>2
    <3> QED BY <3>2, <3>3
  <2> QED BY <2>1, <2>2
<1>10. ASSUME NEW p \in inChain'
       PROVE  IF prev'[p] = Null THEN p = chain' ELSE prev'[p] \in inChain' /\ next'[prev'[p]] = p
  BY <1>1, <1>2, <1>4 DEF InOrder
<1>11. InOrder(q)'
  BY <1>1, <1>2, <1>6, <1>8, <1>9, <1>10 DEF InOrder
<1> QED BY <1>4, <1>5, <1>6, <1>7, <1>11

(* removeFromChain() closes the gap. *)
LEMMA RemoveOrder ==
  ASSUME TypeOK, Unlinked, NEW pos \in Orders, InOrder(pos),
         NEW o \in inChain, RemoveFromChain(o)
  PROVE  /\ prev' \in [Objects -> Objects \cup {Null}]
         /\ next' \in [Objects -> Objects \cup {Null}]
         /\ chain' \in Objects \cup {Null}
         /\ Unlinked'
         /\ \E q \in Orders' : /\ InOrder(q)'
                               /\ \A p \in inChain' : q[p] = IF pos[p] > pos[o] THEN pos[p] - 1 ELSE pos[p]
<1> DEFINE n == Cardinality(inChain)
<1>0. PICK q : q = [p \in inChain' |-> IF pos[p] > pos[o] THEN pos[p] - 1 ELSE pos[p]]
  OBVIOUS
<1>1. /\ inChain \subseteq Objects /\ chain \in Objects \cup {Null} /\ Null \notin Objects
      /\ prev \in [Objects -> Objects \cup {Null}] /\ next \in [Objects -> Objects \cup {Null}]
      /\ o \in Objects
  BY ObjectsAssumption DEF TypeOK
<1>2. /\ inChain' = inChain \ {o}
      /\ chain' = IF prev[o] = Null THEN next[o] ELSE chain
      /\ next' = [p \in Objects |-> IF p = o THEN Null ELSE IF p = prev[o] THEN next[o] ELSE next[p]]
      /\ prev' = [p \in Objects |-> IF p = o THEN Null ELSE IF p = next[o] THEN prev[o] ELSE prev[p]]
  BY DEF RemoveFromChain
<1>3. n \in Nat /\ Cardinality(inChain') = n - 1
  BY <1>2, ChainFinite, FS_RemoveElement
<1>4. /\ prev' \in [Objects -> Objects \cup {Null}]
      /\ next' \in [Objects -> Objects \cup {Null}]
      /\ chain' \in Objects \cup {Null}
  BY <1>1, <1>2
<1>5. Unlinked'
  BY <1>1, <1>2 DEF Unlinked, InOrder
<1>6. /\ \A p \in inChain : pos[p] \in 1 .. n
      /\ \A p \in inChain' : q[p] = IF pos[p] > pos[o] THEN pos[p] - 1 ELSE pos[p]
  BY <1>0 DEF Orders
<1>7. \A p \in inChain' : p \in inChain /\ p # o /\ p \in Objects /\ pos[p] # pos[o]
  BY <1>1, <1>2 DEF InOrder
<1>8. q \in Orders'
  <2>1. \A p \in inChain' : q[p] \in 1 .. n - 1
    BY <1>3, <1>6, <1>7
  <2> QED BY <1>0, <1>3, <2>1 DEF Orders
<1>9. ASSUME NEW x \in inChain', NEW y \in inChain', q[x] = q[y] PROVE x = y
  <2>1. pos[x] = pos[y]
    BY <1>3, <1>6, <1>7, <1>9
  <2> QED BY <1>7, <2>1 DEF InOrder
<1>10. ASSUME NEW p \in inChain'
       PROVE  IF next'[p] = Null
                THEN q[p] = Cardinality(inChain')
                ELSE next'[p] \in inChain' /\ prev'[next'[p]] = p /\ q[next'[p]] = q[p] + 1
  <2>1. CASE p = prev[o]
    <3>1. next[p] = o /\ pos[o] = pos[p] + 1 /\ next'[p] = next[o]
      BY <1>1, <1>2, <1>7, <2>1 DEF InOrder
    <3>2. CASE next[o] = Null
      BY <1>3, <1>6, <1>7, <3>1, <3>2 DEF InOrder
    <3>3. CASE next[o] # Null
      <4>1. next[o] \in inChain /\ pos[next[o]] = pos[o] + 1
        BY <3>3 DEF InOrder
      <4>2. next[o] # o
        BY <1>6, <4>1
      <4> QED BY <1>1, <1>2, <1>6, <1>7, <2>1, <3>1, <3>3, <4>1, <4>2
    <3> QED BY <3>2, <3>3
  <2>2. CASE p # prev[o]
    <3>1. next'[p] = next[p] /\ next[p] # o
      BY <1>1, <1>2, <1>7, <2>2 DEF InOrder
    <3>2. CASE next[p] = Null
      BY <1>3, <1>6, <1>7, <3>1, <3>2 DEF InOrder
    <3>3. CASE next[p] # Null
      <4>1. next[p] \in inChain /\ prev[next[p]] = p /\ pos[next[p]] = pos[p] + 1
        BY <1>7, <3>3 DEF InOrder
      <4>2. next[p] \in inChain' /\ next[p] # next[o]
        BY <1>1, <1>2, <1>7, <3>1, <4>1 DEF InOrder
      <4>3. q[next[p]] = q[p] + 1
        BY <1>6, <1>7, <4>1, <4>2
      <4> QED BY <1>1, <1>2, <1>7, <3>1, <3>3, <4>1, <4>2, <4>3
    <3> QED BY <3>2, <3>3
  <2> QED BY <2>1, <2>2
<1>11. ASSUME NEW p \in inChain'
       PROVE  IF prev'[p] = Null THEN p = chain' ELSE prev'[p] \in inChain' /\ next'[prev'[p]] = p
  <2>1. CASE p = next[o]
    BY <1>1, <1>2, <1>7, <2>1 DEF InOrder
  <2>2. CASE p # next[o]
    <3>1. prev'[p] = prev[p] /\ prev[p] # o
      BY <1>1, <1>2, <1>7, <2>2 DEF InOrder
    <3> QED BY <1>1, <1>2, <1>7, <2>2, <3>1 DEF InOrder
  <2> QED BY <2>1, <2>2
<1>12. IF chain' = Null THEN inChain' = {} ELSE chain' \in inChain' /\ q[chain'] = 1
  <2>1. CASE prev[o] # Null
    <3>1. chain' = chain /\ chain \in inChain' /\ pos[chain] = 1
      BY <1>1, <1>2, <2>1, <1>6 DEF InOrder
    <3> QED BY <1>1, <1>6, <1>7, <3>1
  <2>2. CASE prev[o] = Null
    <3>1. o = chain /\ pos[o] = 1 /\ chain' = next[o]
      BY <1>1, <1>2, <2>2 DEF InOrder
    <3>2. CASE next[o] = Null
      <4>1. n = 1
        BY <3>1, <3>2 DEF InOrder
      <4>2. inChain' = {}
        BY <1>6, <1>7, <3>1, <4>1
      <4> QED BY <3>1, <3>2, <4>2
    <3>3. CASE next[o] # Null
      <4>1. next[o] \in inChain /\ pos[next[o]] = 2
        BY <3>1, <3>3 DEF InOrder
      <4> QED BY <1>1, <1>2, <1>6, <3>1, <3>3, <4>1
    <3> QED BY <3>2, <3>3
  <2> QED BY <2>1, <2>2
<1>13. InOrder(q)'
  BY <1>9, <1>10, <1>11, <1>12 DEF InOrder
<1> QED BY <1>4, <1>5, <1>6, <1>8, <1>13

(* removeFromChain() of an object in no chain does nothing. *)
LEMMA RemoveNothing ==
  ASSUME TypeOK, Unlinked, NEW o \in Objects \ inChain, RemoveFromChain(o)
  PROVE  UNCHANGED linkVars
<1>1. prev[o] = Null /\ next[o] = Null /\ Null \notin Objects
  BY ObjectsAssumption DEF Unlinked
<1>2. next' = [p \in Objects |-> next[p]] /\ prev' = [p \in Objects |-> prev[p]]
  BY <1>1 DEF RemoveFromChain
<1>3. next' = next /\ prev' = prev
  BY <1>2 DEF TypeOK
<1> QED BY <1>3 DEF RemoveFromChain, linkVars
-----------------------------------------------------------------------------
(* What lies ahead of a round is not touched by the client: the round goes *)
(* on as before.                                                           *)
LEMMA RoundFrame ==
  ASSUME NEW pos, NEW q, Round(pos), UNCHANGED loopVars,
         Ahead(q, Cursor)' = Ahead(pos, Cursor),
         Cursor \in inChain' \cup {Null},
         \A o \in Ahead(pos, Cursor) : wants'[o] = wants[o]
  PROVE  Round(q)'
<1>1. Cursor' = Cursor /\ UNCHANGED <<pc, h, ready, served>>
  BY DEF loopVars, Cursor
<1> QED BY <1>1 DEF Round

(* A client step is right when it leaves the loop alone, keeps the types   *)
(* and has an order of the new chain under which the round goes on.        *)
LEMMA ClientRest ==
  ASSUME IInv, pc \in {"idle", "execute"}, UNCHANGED loopVars, TypeOK', Unlinked',
         NEW q, q \in Orders', InOrder(q)',
         pc = "execute" => Round(q)'
  PROVE  IInv'
<1>1. UNCHANGED <<pc, served>>
  BY DEF loopVars
<1>2. Asked'
  BY <1>1 DEF IInv, Asked
<1> QED BY <1>1, <1>2 DEF IInv

(* A new object is in no chain and touches none. *)
LEMMA ConstructStep ==
  ASSUME IInv, NEW o \in Objects, Construct(o)
  PROVE  IInv'
<1>1. PICK pos \in Orders : /\ InOrder(pos)
                            /\ pc \in {"dispatch", "execute"} => Round(pos)
  BY DEF IInv
<1>2. /\ o \notin inChain /\ prev[o] = Null /\ next[o] = Null
      /\ prev' = prev /\ next' = next
  BY DEF IInv, TypeOK, Unlinked, Construct
<1>3. UNCHANGED linkVars
  BY <1>2 DEF Construct, linkVars
<1>4. TypeOK'
  BY <1>3 DEF IInv, TypeOK, Construct, linkVars, loopVars
<1>5. Unlinked' /\ pos \in Orders' /\ InOrder(pos)'
  BY <1>1, <1>3 DEF IInv, Unlinked, Orders, InOrder, linkVars
<1>6. pc = "execute" => Round(pos)'
  <2> SUFFICES ASSUME pc = "execute" PROVE Round(pos)'
    OBVIOUS
  <2>1. Ahead(pos, Cursor)' = Ahead(pos, Cursor) /\ Ahead(pos, Cursor) \subseteq inChain
    BY <1>3 DEF Ahead, Cursor, linkVars, loopVars, Construct
  <2>2. \A x \in Ahead(pos, Cursor) : wants'[x] = wants[x]
    BY <1>2, <2>1 DEF Construct, IInv, TypeOK
  <2>3. Round(pos) /\ Cursor \in inChain' \cup {Null}
    BY <1>1, <1>3 DEF Round, linkVars
  <2> QED BY <2>1, <2>2, <2>3, RoundFrame DEF Construct
<1> QED BY <1>4, <1>5, <1>6, ClientRest DEF Construct, InClientCode

(* addTo(): the new object stands before all others, which move one on.  *)
(* The walk does not see it, because its cursor is behind the first one. *)
LEMMA AddStep ==
  ASSUME IInv, NEW o \in Objects, Add(o)
  PROVE  IInv'
<1>1. PICK pos \in Orders : /\ InOrder(pos)
                            /\ pc \in {"dispatch", "execute"} => Round(pos)
  BY DEF IInv
<1>2. /\ o \in alive \ inChain /\ AddTo(o)
      /\ inChain' = inChain \cup {o} /\ chain' = o
      /\ UNCHANGED <<objVars, loopVars>>
  BY DEF Add, AddTo
<1>3. /\ prev' \in [Objects -> Objects \cup {Null}]
      /\ next' \in [Objects -> Objects \cup {Null}]
      /\ Unlinked'
      /\ \E q \in Orders' : InOrder(q)' /\ q[o] = 1 /\ \A p \in inChain : q[p] = pos[p] + 1
  BY <1>1, <1>2, AddOrder DEF IInv
<1>4. PICK q \in Orders' : InOrder(q)' /\ q[o] = 1 /\ \A p \in inChain : q[p] = pos[p] + 1
  BY <1>3
<1>5. TypeOK'
  BY <1>2, <1>3 DEF IInv, TypeOK, objVars, loopVars
<1>6. pc = "execute" => Round(q)'
  <2> SUFFICES ASSUME pc = "execute" PROVE Round(q)'
    OBVIOUS
  <2>1. Round(pos) /\ Cursor \in inChain \cup {Null} /\ Cursor' = Cursor
    BY <1>1, <1>2 DEF Round, Cursor, loopVars
  <2>2. \A p \in inChain : pos[p] \in Nat \ {0}
    BY <1>1, ChainFinite DEF Orders, IInv
  <2>3. Ahead(q, Cursor)' = Ahead(pos, Cursor)
    BY <1>2, <1>4, <2>1, <2>2 DEF Ahead
  <2> QED BY <1>2, <2>1, <2>3, RoundFrame DEF objVars
<1> QED BY <1>2, <1>3, <1>4, <1>5, <1>6, ClientRest DEF Add, InClientCode

(* remove() and the destructor, which takes the object out of the chain:   *)
(* during execute() the object is the one being executed, which does not   *)
(* lie ahead.                                                              *)
LEMMA RemoveStep ==
  ASSUME IInv, NEW o \in alive, MayTouch(o), RemoveFromChain(o),
         UNCHANGED <<wants, loopVars>>,
         \/ UNCHANGED <<alive, open>>
         \/ alive' = alive \ {o} /\ open' = open \ {o}
  PROVE  IInv'
<1>1. PICK pos \in Orders : /\ InOrder(pos)
                            /\ pc \in {"dispatch", "execute"} => Round(pos)
  BY DEF IInv
<1>2. /\ inChain' = inChain \ {o} /\ pc \in {"idle", "execute"}
      /\ o \in Objects
  BY DEF RemoveFromChain, MayTouch, IInv, TypeOK
<1>3. CASE o \in inChain
  <2>1. /\ prev' \in [Objects -> Objects \cup {Null}]
        /\ next' \in [Objects -> Objects \cup {Null}]
        /\ chain' \in Objects \cup {Null}
        /\ Unlinked'
        /\ \E q \in Orders' : /\ InOrder(q)'
                              /\ \A p \in inChain' : q[p] = IF pos[p] > pos[o] THEN pos[p] - 1 ELSE pos[p]
    BY <1>1, <1>3, RemoveOrder DEF IInv
  <2>2. PICK q \in Orders' :
          /\ InOrder(q)'
          /\ \A p \in inChain' : q[p] = IF pos[p] > pos[o] THEN pos[p] - 1 ELSE pos[p]
    BY <2>1
  <2>3. TypeOK'
    BY <1>2, <2>1 DEF IInv, TypeOK, loopVars
  <2>4. pc = "execute" => Round(q)'
    <3> SUFFICES ASSUME pc = "execute" PROVE Round(q)'
      OBVIOUS
    <3>1. /\ Round(pos) /\ Cursor \in inChain \cup {Null} /\ Cursor' = Cursor
          /\ o \in served /\ o \notin Ahead(pos, Cursor)
      BY <1>1 DEF Round, Cursor, loopVars, MayTouch
    <3>2. \A p \in inChain : pos[p] \in Nat
      BY <1>1, ChainFinite DEF Orders, IInv
    <3>3. Cursor # o
      BY <1>3, <3>1, <3>2, ObjectsAssumption DEF Ahead, IInv, TypeOK
    <3>4. Ahead(q, Cursor)' = Ahead(pos, Cursor)
      <4>1. CASE Cursor = Null
        BY <3>1, <4>1 DEF Ahead
      <4>2. CASE Cursor # Null
        <5>1. Cursor \in inChain' /\ pos[o] < pos[Cursor]
          BY <1>2, <1>3, <3>1, <3>2, <3>3, <4>2 DEF Ahead
        <5>2. ASSUME NEW p \in inChain'
              PROVE  q[p] >= q[Cursor] <=> pos[p] >= pos[Cursor]
          <6>1. /\ pos[p] \in Nat /\ pos[o] \in Nat /\ pos[Cursor] \in Nat
                /\ pos[p] # pos[o]
            BY <1>1, <1>2, <1>3, <3>2, <5>1 DEF InOrder
          <6>2. /\ q[Cursor] = pos[Cursor] - 1
                /\ q[p] = IF pos[p] > pos[o] THEN pos[p] - 1 ELSE pos[p]
            BY <2>2, <5>1
          <6> QED BY <5>1, <6>1, <6>2
        <5> QED BY <1>2, <3>1, <4>2, <5>1, <5>2 DEF Ahead
      <4> QED BY <4>1, <4>2
    <3> QED BY <1>2, <3>1, <3>3, <3>4, RoundFrame
  <2> QED BY <1>2, <2>1, <2>2, <2>3, <2>4, ClientRest
<1>4. CASE o \notin inChain
  <2>1. UNCHANGED linkVars
    BY <1>2, <1>4, RemoveNothing DEF IInv
  <2>2. TypeOK'
    BY <1>4, <2>1 DEF IInv, TypeOK, loopVars, linkVars
  <2>3. Unlinked' /\ pos \in Orders' /\ InOrder(pos)'
    BY <1>1, <2>1 DEF IInv, Unlinked, Orders, InOrder, linkVars
  <2>4. pc = "execute" => Round(pos)'
    BY <1>1, <2>1 DEF Round, Cursor, Ahead, linkVars, loopVars
  <2> QED BY <1>2, <2>2, <2>3, <2>4, ClientRest
<1> QED BY <1>3, <1>4

(* destroy() of a connection only takes the descriptor away. *)
LEMMA DestroyStep ==
  ASSUME IInv, NEW o \in Objects, Destroy(o)
  PROVE  IInv'
BY DEF Destroy, IInv, TypeOK, Unlinked, Asked, Orders, InOrder, Round, Cursor, Ahead, linkVars, loopVars

(* What client code may do to the objects, between two rounds or inside    *)
(* of execute().                                                           *)
LEMMA ClientStep ==
  ASSUME IInv, Client
  PROVE  IInv'
<1>1. PICK o \in Objects : Construct(o) \/ Add(o) \/ Remove(o) \/ Destroy(o) \/ Delete(o)
  BY DEF Client
<1>2. CASE Remove(o) \/ Delete(o)
  BY <1>2, RemoveStep DEF Remove, Delete, objVars
<1> QED BY <1>1, <1>2, ConstructStep, AddStep, DestroyStep
-----------------------------------------------------------------------------
(* The steps of waitOn() leave the links alone. *)
LEMMA LinksKept ==
  ASSUME IInv, UNCHANGED linkVars, NEW pos \in Orders, InOrder(pos)
  PROVE  Unlinked' /\ pos \in Orders' /\ InOrder(pos)'
BY DEF IInv, Unlinked, Orders, InOrder, linkVars

(* waitOn() asks the objects of the chain and sleeps. *)
LEMMA WaitOnStep ==
  ASSUME IInv, WaitOn
  PROVE  IInv'
<1>1. PICK pos \in Orders : InOrder(pos)
  BY DEF IInv
<1>2. PICK w \in [inChain -> SUBSET Events] :
        /\ wants' = IF inChain \cap open = {} THEN Forgotten
                    ELSE [o \in Objects |-> IF o \in inChain THEN w[o] ELSE {}]
        /\ ready' = {e \in (inChain \cap open) \X Events : e[2] \in w[e[1]]}
  BY DEF WaitOn
<1>3. /\ UNCHANGED <<alive, open, linkVars, h, h_next, served>>
      /\ pc = "idle" /\ pc' = IF inChain \cap open = {} THEN "idle" ELSE "select"
  BY DEF WaitOn
<1>4. inChain \subseteq Objects
  BY DEF IInv, TypeOK
<1>5. ready' \subseteq Objects \X Events /\ \A e \in ready' : e[1] \in inChain /\ e[2] \in w[e[1]]
  BY <1>2, <1>4
<1>6. wants' \in [Objects -> SUBSET Events]
  BY <1>2, <1>4 DEF Forgotten
<1>7. TypeOK'
  BY <1>3, <1>5, <1>6 DEF IInv, TypeOK, linkVars
<1>8. Asked'
  BY <1>2, <1>3, <1>4, <1>5 DEF IInv, Asked, linkVars
<1>9. Unlinked' /\ pos \in Orders' /\ InOrder(pos)'
  BY <1>1, <1>3, LinksKept
<1> QED BY <1>3, <1>7, <1>8, <1>9 DEF IInv

(* pselect() returns: the walk begins at the head, everything ready ahead. *)
LEMMA SelectStep ==
  ASSUME IInv, Select
  PROVE  IInv'
<1>1. PICK pos \in Orders : InOrder(pos)
  BY DEF IInv
<1>2. /\ ready' \subseteq ready /\ h' = chain /\ pc = "select" /\ pc' = "dispatch"
      /\ UNCHANGED <<objVars, linkVars, h_next, served>>
  BY DEF Select
<1>3. TypeOK'
  BY <1>2 DEF IInv, TypeOK, linkVars, objVars
<1>4. Unlinked' /\ pos \in Orders' /\ InOrder(pos)'
  BY <1>1, <1>2, LinksKept
<1>5. Round(pos)'
  <2>1. Cursor' = chain /\ served' = {} /\ inChain' = inChain /\ wants' = wants /\ pc' # "execute"
    BY <1>2 DEF Cursor, IInv, Asked, linkVars, objVars
  <2>2. chain \in inChain \cup {Null}
    BY <1>1 DEF InOrder
  <2>3. Ahead(pos, Cursor)' = inChain
    <3>1. \A o \in inChain : pos[o] >= 1
      BY <1>1, ChainFinite DEF Orders, IInv
    <3>2. IF chain = Null THEN inChain = {} ELSE pos[chain] = 1
      BY <1>1 DEF InOrder
    <3> QED BY <2>1, <3>1, <3>2 DEF Ahead
  <2>4. \A e \in ready' : e[1] \in inChain /\ e[2] \in wants[e[1]]
    BY <1>2 DEF IInv, Asked
  <2> QED BY <2>1, <2>2, <2>3, <2>4 DEF Round
<1> QED BY <1>2, <1>3, <1>4, <1>5 DEF IInv, Asked

(* A round ends, or nothing was ready. *)
LEMMA EndStep ==
  ASSUME IInv, SelectNothing \/ RoundDone
  PROVE  IInv'
<1>1. PICK pos \in Orders : InOrder(pos)
  BY DEF IInv
<1>2. /\ ready' = {} /\ served' = {} /\ wants' = Forgotten /\ pc' = "idle"
      /\ h_next' \in {h_next, Null}
      /\ UNCHANGED <<alive, open, linkVars, h>>
  BY DEF SelectNothing, RoundDone, IInv, Asked
<1>3. TypeOK'
  BY <1>2 DEF IInv, TypeOK, linkVars, Forgotten
<1>4. Unlinked' /\ pos \in Orders' /\ InOrder(pos)'
  BY <1>1, <1>2, LinksKept
<1> QED BY <1>2, <1>3, <1>4 DEF IInv, Asked

(* execute() is back: the walk goes on with the object it remembered. *)
LEMMA ReturnStep ==
  ASSUME IInv, Return
  PROVE  IInv'
<1>1. PICK pos \in Orders : InOrder(pos) /\ Round(pos)
  BY DEF IInv, Return
<1>2. /\ pc = "execute" /\ pc' = "dispatch" /\ h' = h_next
      /\ UNCHANGED <<objVars, linkVars, h_next, ready, served>>
  BY DEF Return
<1>3. TypeOK'
  BY <1>2 DEF IInv, TypeOK, linkVars, objVars
<1>4. Unlinked' /\ pos \in Orders' /\ InOrder(pos)'
  BY <1>1, <1>2, LinksKept
<1>5. Round(pos)'
  <2>1. Cursor' = Cursor /\ Ahead(pos, Cursor)' = Ahead(pos, Cursor)
    BY <1>2 DEF Cursor, Ahead, linkVars
  <2> QED BY <1>1, <1>2, <2>1 DEF Round, linkVars, objVars
<1> QED BY <1>2, <1>3, <1>4, <1>5 DEF IInv, Asked

(* One object further: all that lay ahead but the object itself still      *)
(* does, and the object is executed if it was reported.                    *)
LEMMA DispatchStep ==
  ASSUME IInv, Dispatch
  PROVE  /\ IInv'
         /\ pc' = "execute" => h \notin served
<1>1. PICK pos \in Orders : InOrder(pos) /\ Round(pos)
  BY DEF IInv, Dispatch
<1>2. PICK w \in SUBSET Events :
        /\ wants[h] \subseteq w
        /\ wants' = [wants EXCEPT ![h] = w]
        /\ h_next' = next[h]
        /\ IF h \notin open /\ w # {}
             THEN pc' = "aborted" /\ UNCHANGED <<h, served>>
             ELSE IF \E e \in w : <<h, e>> \in ready
               THEN pc' = "execute" /\ served' = served \cup {h} /\ UNCHANGED h
               ELSE h' = next[h] /\ UNCHANGED <<pc, served>>
  BY DEF Dispatch
<1>3. /\ pc = "dispatch" /\ h # Null
      /\ UNCHANGED <<alive, open, linkVars, ready>>
  BY DEF Dispatch
<1>4. /\ Cursor = h /\ h \in inChain /\ h \in Objects
      /\ h \in Ahead(pos, h) /\ h \notin served
  <2>1. Cursor = h /\ h \in inChain
    BY <1>1, <1>3 DEF Round, Cursor
  <2>2. pos[h] \in Nat
    BY <1>1, <2>1, ChainFinite DEF Orders, IInv
  <2>3. h \in Ahead(pos, h)
    BY <1>3, <2>1, <2>2 DEF Ahead
  <2> QED BY <1>1, <2>1, <2>3 DEF Round, IInv, TypeOK
<1>5. next[h] \in Objects \cup {Null}
  BY <1>4 DEF IInv, TypeOK
<1>6. TypeOK'
  BY <1>2, <1>3, <1>4, <1>5 DEF IInv, TypeOK, linkVars
<1>7. Unlinked' /\ pos \in Orders' /\ InOrder(pos)'
  BY <1>1, <1>3, LinksKept
<1>8. Asked'
  BY <1>2, <1>3 DEF Asked
<1>9. ASSUME pc' \in {"dispatch", "execute"}
      PROVE  Round(pos)'
  <2>1. Cursor' = next[h] /\ inChain' = inChain
    BY <1>2, <1>3, <1>9 DEF Cursor, linkVars
  <2>2. next[h] \in inChain \cup {Null}
    BY <1>1, <1>4 DEF InOrder
  <2>3. Ahead(pos, Cursor)' = Ahead(pos, h) \ {h}
    <3>1. \A o \in inChain : pos[o] \in 1 .. Cardinality(inChain) /\ pos[o] \in Nat
      BY <1>1, ChainFinite DEF Orders, IInv
    <3>2. \A o \in inChain : o # h => pos[o] # pos[h]
      BY <1>1, <1>4 DEF InOrder
    <3>3. CASE next[h] = Null
      <4>1. pos[h] = Cardinality(inChain)
        BY <1>1, <1>4, <3>3 DEF InOrder
      <4>2. \A o \in inChain : pos[o] >= pos[h] => o = h
        BY <1>4, <3>1, <3>2, <4>1
      <4> QED BY <2>1, <3>3, <4>2 DEF Ahead
    <3>4. CASE next[h] # Null
      <4>1. next[h] \in inChain /\ pos[next[h]] = pos[h] + 1
        BY <1>1, <1>4, <3>4 DEF InOrder
      <4>2. \A o \in inChain : pos[o] >= pos[next[h]] <=> pos[o] >= pos[h] /\ o # h
        BY <1>4, <3>1, <3>2, <4>1
      <4> QED BY <1>3, <2>1, <3>4, <4>2 DEF Ahead
    <3> QED BY <3>3, <3>4
  <2>4. /\ \A e \in ready : e[1] \in served \cup Ahead(pos, h)
        /\ \A e \in ready : e[1] \in Ahead(pos, h) => e[2] \in wants[e[1]]
        /\ served \cap Ahead(pos, h) = {}
        /\ served \subseteq {e[1] : e \in ready}
    BY <1>1, <1>4 DEF Round
  <2>5. \A e \in ready : e[1] \in Objects /\ e = <<e[1], e[2]>>
    BY DEF IInv, TypeOK
  <2>6. \A o \in Objects : o # h => wants'[o] = wants[o]
    BY <1>2 DEF IInv, TypeOK
  <2>7. CASE pc' = "execute"
    <3>1. served' = served \cup {h} /\ h' = h /\ \E e \in w : <<h, e>> \in ready
      BY <1>2, <1>3, <2>7
    <3>2. h \in {e[1] : e \in ready}
      BY <3>1
    <3> QED BY <1>3, <2>1, <2>2, <2>3, <2>4, <2>5, <2>6, <3>1, <3>2 DEF Round
  <2>8. CASE pc' # "execute"
    <3>1. served' = served /\ ~\E e \in w : <<h, e>> \in ready
      BY <1>2, <1>9, <2>8
    <3>2. \A e \in ready : e[1] # h
      BY <1>2, <1>4, <2>4, <2>5, <3>1
    <3> QED BY <1>3, <2>1, <2>2, <2>3, <2>4, <2>5, <2>6, <2>8, <3>1, <3>2 DEF Round
  <2> QED BY <2>7, <2>8
<1> QED BY <1>4, <1>6, <1>7, <1>8, <1>9 DEF IInv
-----------------------------------------------------------------------------
(* No object and no chain. *)
LEMMA Initial == Init => IInv
<1> SUFFICES ASSUME Init PROVE IInv
  OBVIOUS
<1>1. TypeOK /\ Unlinked /\ Asked
  BY DEF Init, TypeOK, Unlinked, Asked, Forgotten
<1>2. PICK pos : pos = [o \in {} |-> 1]
  OBVIOUS
<1>3. pos \in Orders /\ InOrder(pos)
  BY <1>2 DEF Init, Orders, InOrder
<1> QED BY <1>1, <1>3 DEF Init, IInv

(* Every step keeps the invariant. *)
LEMMA Inductive == IInv /\ [Next]_vars => IInv'
<1> SUFFICES ASSUME IInv, [Next]_vars PROVE IInv'
  OBVIOUS
<1>1. CASE UNCHANGED vars
  BY <1>1 DEF vars, IInv, TypeOK, Unlinked, Asked, Orders, InOrder, Round, Cursor, Ahead,
              objVars, linkVars, loopVars
<1> QED BY <1>1, ClientStep, WaitOnStep, SelectStep, EndStep, ReturnStep, DispatchStep
        DEF Next, Loop

(* IInv holds in every state of every behaviour. *)
THEOREM Invariance == Spec => []IInv
BY Initial, Inductive, PTL DEF Spec

(* The links, cursors and sets of waitOn() keep their types. *)
THEOREM TypeCorrect == Spec => []TypeOK
<1>1. IInv => TypeOK
  BY DEF IInv
<1> QED BY <1>1, Invariance, PTL

(* addTo() and removeFromChain() keep the chain a doubly linked list of    *)
(* exactly the objects that are in it, for any number of objects.          *)
THEOREM ChainStaysList == Spec => []ChainIsList
<1>1. IInv => ChainIsList
  BY DEF IInv, ChainIsList, Orders
<1> QED BY <1>1, Invariance, PTL

(* The cursor that waitOn() stored before execute() is still in the chain  *)
(* after it.                                                               *)
THEOREM CursorStaysValid == Spec => []CursorValid
<1>1. IInv => CursorValid
  BY DEF IInv, TypeOK, Round, Cursor, CursorValid
<1> QED BY <1>1, Invariance, PTL

(* A round of waitOn() executes exactly what pselect() reported. *)
THEOREM ReadyIsServed == Spec => []EveryReadyServed
<1>1. IInv => EveryReadyServed
  <2> SUFFICES ASSUME IInv, pc = "dispatch", h = Null
               PROVE  served = {e[1] : e \in ready}
    BY DEF EveryReadyServed
  <2>1. PICK pos \in Orders : Round(pos)
    BY DEF IInv
  <2>2. Ahead(pos, Cursor) = {}
    BY DEF Ahead, Cursor
  <2> QED BY <2>1, <2>2 DEF Round
<1> QED BY <1>1, Invariance, PTL

(* A round of waitOn() executes no object twice. *)
THEOREM NobodyServedTwice == Spec => ServedOnce
<1>1. IInv /\ [Next]_vars => [pc = "dispatch" /\ pc' = "execute" => h \notin served]_vars
  <2> SUFFICES ASSUME IInv, Next, pc = "dispatch", pc' = "execute" PROVE h \notin served
    BY DEF vars
  <2>1. Dispatch
    BY DEF Next, Client, Construct, Add, Remove, Destroy, Delete, InClientCode, MayTouch,
           WaitOn, Loop, Select, SelectNothing, Return, RoundDone
  <2> QED BY <2>1, DispatchStep
<1> QED BY <1>1, Invariance, PTL DEF Spec, ServedOnce
=============================================================================
