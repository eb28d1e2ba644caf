------------------------- MODULE OptionParserProofs -------------------------
(***************************************************************************)
(* The registry of options and its help lines, for every catalogue and any *)
(* number of calls, the cursors of parse(), for every argv, and what       *)
(* process() does to the variable that options share.                      *)
(*                                                                         *)
(* Then what parse() collects and does: the words and the effects are      *)
(* those of argv read as a whole, by recursion over its words and the      *)
(* characters of its clusters.  The recursive definitions are shown to     *)
(* have a value by counting up to the length of what they read.  The end   *)
(* of the module is about the lists of elements for a SubParser.           *)
(***************************************************************************)
EXTENDS OptionParser, SequenceTheorems, WellFoundedInduction, TLAPS

(* The options are in the order in which they were added. *)
OptionsInOrder ==
  \A m, n \in 1 .. Len(opt_list) : m < n => opt_list[m] < opt_list[n]

RegistryInv ==
  /\ opts \in Seq(DOMAIN Catalogue)
  /\ opt_list \in Seq(1 .. Len(opts)) /\ help_list \in Seq(0 .. Len(opts))
  /\ OptionsInOrder

(* parse() reads inside of its words: i is a word of argv or behind the    *)
(* last one, and k a character of the word or behind its last one.         *)
CursorInv ==
  /\ argv \in Seq(Tokens)
  /\ i \in 1 .. Len(argv) + 1
  /\ k \in Nat /\ k >= 2
  /\ status = "parse" /\ i <= Len(argv) /\ Len(argv[i]) > 1 => k <= Len(argv[i]) + 1

StoredInv == stored \in Seq(Range(stored)) /\ Len(stored) = Len(opts)

EffectsInv ==
  /\ mode \in Int /\ StoredInv
  /\ status \in {"idle", "parse", "done", "error", "exit"}
  /\ ignore \in BOOLEAN /\ work \in 0 .. MaxWork

IInv == RegistryInv /\ HelpLinesAlive /\ CursorInv /\ EffectsInv
-----------------------------------------------------------------------------
(* The first place of s with one of the set G, 0 without any, and s        *)
(* without that entry: what remove() does to both lists, with G the        *)
(* options that match.                                                     *)
Places(s, G)  == {n \in 1 .. Len(s) : s[n] \in G}
First(s, G)   == IF Places(s, G) = {} THEN 0 ELSE Min(Places(s, G))
Without(s, G) == IF First(s, G) = 0 THEN s ELSE RemoveAt(s, First(s, G))

(* All entries of t are entries of s at another place than x, and the      *)
(* other way round; and their order is the same.                           *)
From(s, t, x)   == \A m \in 1 .. Len(t) : \E a \in 1 .. Len(s) : a # x /\ s[a] = t[m]
Covers(s, t, x) == \A a \in 1 .. Len(s) : a # x => \E m \in 1 .. Len(t) : t[m] = s[a]
SameOrder(s, t) ==
  \A m, n \in 1 .. Len(t) : m < n =>
    \E a, b \in 1 .. Len(s) : a < b /\ s[a] = t[m] /\ s[b] = t[n]

(* A nonempty set of numbers has a least one. *)
LEMMA LeastNumber ==
  ASSUME NEW I, I \subseteq Nat, I # {}
  PROVE  Min(I) \in I /\ \A n \in I : Min(I) <= n
<1> DEFINE Less == {ss \in Nat \X Nat : ss[1] < ss[2]}
<1>1. IsWellFoundedOn(Less, Nat)
  BY NatLessThanWellFounded DEF OpToRel
<1>2. PICK x \in I : \A y \in I : ~(<<y, x>> \in Less)
  <2> HIDE DEF Less
  <2> QED BY <1>1, WFMin
<1>3. ASSUME NEW y \in I, y < x
      PROVE  <<y, x>> \in Less
  BY <1>3
<1>4. \A y \in I : x =< y
  <2> HIDE DEF Less
  <2>1. \A y \in I : ~(y < x)
    BY <1>2, <1>3
  <2> QED BY <2>1
<1> QED BY <1>4 DEF Min

(* The first place is a place, and no other one is before it. *)
LEMMA FirstPlace ==
  ASSUME NEW s, Len(s) \in Nat, NEW G
  PROVE  /\ First(s, G) \in 0 .. Len(s)
         /\ First(s, G) # 0 => s[First(s, G)] \in G
         /\ \A n \in 1 .. Len(s) : s[n] \in G => First(s, G) # 0 /\ First(s, G) <= n
<1>1. CASE Places(s, G) = {}
  BY <1>1 DEF Places, First
<1>2. CASE Places(s, G) # {}
  <2> DEFINE I == Places(s, G)
  <2>1. I \subseteq Nat /\ I # {} /\ First(s, G) = Min(I)
    BY <1>2 DEF Places, First
  <2>2. Min(I) \in I /\ \A n \in I : Min(I) <= n
    <3> HIDE DEF I
    <3> QED BY <2>1, LeastNumber
  <2> DEFINE x == First(s, G)
  <2>3. x \in I /\ \A n \in I : x <= n
    <3> HIDE DEF I
    <3> QED BY <2>1, <2>2
  <2> HIDE DEF x
  <2>4. x \in 1 .. Len(s) /\ s[x] \in G
    BY <2>3 DEF Places
  <2>5. \A n \in 1 .. Len(s) : s[n] \in G => x # 0 /\ x <= n
    BY <2>3, <2>4 DEF Places
  <2> QED BY <2>4, <2>5 DEF x
<1> QED BY <1>1, <1>2

(* What is left of a sequence without the entry at n. *)
LEMMA RemovedEntry ==
  ASSUME NEW S, NEW s \in Seq(S), NEW n \in 1 .. Len(s)
  PROVE  /\ RemoveAt(s, n) \in Seq(S)
         /\ Len(RemoveAt(s, n)) = Len(s) - 1
         /\ \A m \in 1 .. Len(s) - 1 : RemoveAt(s, n)[m] = IF m < n THEN s[m] ELSE s[m + 1]
<1> DEFINE a == SubSeq(s, 1, n - 1)
           b == SubSeq(s, n + 1, Len(s))
<1>1. Len(s) \in Nat /\ n \in Nat /\ n >= 1 /\ n <= Len(s)
  OBVIOUS
<1>2. /\ a \in Seq(S) /\ Len(a) = n - 1
      /\ \A m \in 1 .. n - 1 : a[m] = s[m]
  BY <1>1
<1>3. /\ b \in Seq(S) /\ Len(b) = Len(s) - n
      /\ \A m \in 1 .. Len(s) - n : b[m] = s[n + m]
  BY <1>1
<1> HIDE DEF a, b
<1> DEFINE t == a \o b
<1>4. /\ t \in Seq(S)
      /\ Len(t) = Len(a) + Len(b)
      /\ \A m \in 1 .. Len(a) + Len(b) : t[m] = IF m <= Len(a) THEN a[m] ELSE b[m - Len(a)]
  BY <1>2, <1>3, ConcatProperties
<1>5. RemoveAt(s, n) = t
  BY DEF RemoveAt, a, b
<1> HIDE DEF t
<1>6. /\ t \in Seq(S) /\ Len(t) = Len(s) - 1
      /\ \A m \in 1 .. Len(s) - 1 : t[m] = IF m <= n - 1 THEN a[m] ELSE b[m - (n - 1)]
  BY <1>1, <1>2, <1>3, <1>4
<1>7. \A m \in 1 .. Len(s) - 1 : t[m] = IF m < n THEN s[m] ELSE s[m + 1]
  <2> SUFFICES ASSUME NEW m \in 1 .. Len(s) - 1
               PROVE  t[m] = IF m < n THEN s[m] ELSE s[m + 1]
    OBVIOUS
  <2>1. CASE m < n
    BY <1>1, <1>2, <1>6, <2>1
  <2>2. CASE m >= n
    <3>1. m - (n - 1) \in 1 .. Len(s) - n /\ n + (m - (n - 1)) = m + 1
      BY <1>1, <2>2
    <3> QED BY <1>1, <1>3, <1>6, <2>2, <3>1
  <2> QED BY <1>1, <2>1, <2>2
<1> QED BY <1>5, <1>6, <1>7

(* Removing the first match keeps all other entries and their order.       *)
LEMMA WithoutKeeps ==
  ASSUME NEW S, NEW s \in Seq(S), NEW G
  PROVE  /\ Without(s, G) \in Seq(S)
         /\ From(s, Without(s, G), First(s, G))
         /\ Covers(s, Without(s, G), First(s, G))
         /\ SameOrder(s, Without(s, G))
<1>1. CASE First(s, G) = 0
  <2>1. Without(s, G) = s
    BY <1>1 DEF Without
  <2>2. From(s, s, 0) /\ Covers(s, s, 0) /\ SameOrder(s, s)
    <3>1. \A m \in 1 .. Len(s) : m # 0
      OBVIOUS
    <3> QED BY <3>1 DEF From, Covers, SameOrder
  <2> QED BY <1>1, <2>1, <2>2
<1>2. CASE First(s, G) # 0
  <2> DEFINE x == First(s, G)
             t == Without(s, G)
  <2>1. x \in 1 .. Len(s)
    BY <1>2, FirstPlace
  <2>2. t = RemoveAt(s, x)
    BY <1>2 DEF Without
  <2> HIDE DEF x, t
  <2>3. /\ t \in Seq(S) /\ Len(t) = Len(s) - 1 /\ Len(s) \in Nat
        /\ \A m \in 1 .. Len(s) - 1 : t[m] = IF m < x THEN s[m] ELSE s[m + 1]
    <3>1. /\ RemoveAt(s, x) \in Seq(S) /\ Len(RemoveAt(s, x)) = Len(s) - 1
          /\ \A m \in 1 .. Len(s) - 1 : RemoveAt(s, x)[m] = IF m < x THEN s[m] ELSE s[m + 1]
      BY <2>1, RemovedEntry
    <3>2. Len(s) \in Nat
      OBVIOUS
    <3> QED BY <2>2, <3>1, <3>2
  <2>4. From(s, t, x)
    <3> SUFFICES ASSUME NEW m \in 1 .. Len(t)
                 PROVE  \E a \in 1 .. Len(s) : a # x /\ s[a] = t[m]
      BY DEF From
    <3>1. CASE m < x
      <4>1. m \in 1 .. Len(s) /\ m # x /\ s[m] = t[m]
        BY <2>1, <2>3, <3>1
      <4> QED BY <4>1
    <3>2. CASE m >= x
      <4>1. m + 1 \in 1 .. Len(s) /\ m + 1 # x /\ s[m + 1] = t[m]
        BY <2>1, <2>3, <3>2
      <4> QED BY <4>1
    <3>3. m \in Int /\ x \in Int
      BY <2>1, <2>3
    <3> QED BY <3>1, <3>2, <3>3
  <2>5. SameOrder(s, t)
    <3> SUFFICES ASSUME NEW m \in 1 .. Len(t), NEW n \in 1 .. Len(t), m < n
                 PROVE  \E a, b \in 1 .. Len(s) : a < b /\ s[a] = t[m] /\ s[b] = t[n]
      BY DEF SameOrder
    <3> DEFINE a == IF m < x THEN m ELSE m + 1
               b == IF n < x THEN n ELSE n + 1
    <3>1. a \in 1 .. Len(s) /\ b \in 1 .. Len(s) /\ a < b
      BY <2>1, <2>3
    <3>2. s[a] = t[m] /\ s[b] = t[n]
      <4>1. m \in 1 .. Len(s) - 1 /\ n \in 1 .. Len(s) - 1
        BY <2>3
      <4> QED BY <2>3, <4>1
    <3> HIDE DEF a, b
    <3> QED BY <3>1, <3>2
  <2>6. Covers(s, t, x)
    <3> SUFFICES ASSUME NEW a \in 1 .. Len(s), a # x
                 PROVE  \E m \in 1 .. Len(t) : t[m] = s[a]
      BY DEF Covers
    <3>1. CASE a < x
      <4>1. a \in 1 .. Len(t) /\ t[a] = s[a]
        BY <2>1, <2>3, <3>1
      <4> QED BY <4>1
    <3>2. CASE a > x
      <4>1. a - 1 \in 1 .. Len(s) - 1 /\ ~(a - 1 < x) /\ (a - 1) + 1 = a
        BY <2>1, <2>3, <3>2
      <4>2. a - 1 \in 1 .. Len(t) /\ t[a - 1] = s[a]
        BY <2>3, <4>1
      <4> QED BY <4>2
    <3> QED BY <2>1, <2>3, <3>1, <3>2
  <2>7. t \in Seq(S)
    BY <2>3
  <2> QED BY <2>4, <2>5, <2>6, <2>7 DEF x, t
<1> QED BY <1>1, <1>2
-----------------------------------------------------------------------------
(* HelpLinesAlive by the places of the two lists. *)
LinesHaveOptions ==
  \A n \in 1 .. Len(help_list) : help_list[n] # 0 => \E m \in 1 .. Len(opt_list) : opt_list[m] = help_list[n]
LinesInOrder ==
  \A m, n \in 1 .. Len(help_list) :
    m < n /\ help_list[m] # 0 /\ help_list[n] # 0 => help_list[m] < help_list[n]

(* The two forms of the invariant say the same. *)
LEMMA LinesByPlace ==
  ASSUME NEW S, NEW T, help_list \in Seq(S), opt_list \in Seq(T)
  PROVE  HelpLinesAlive <=> LinesHaveOptions /\ LinesInOrder
<1>1. DOMAIN help_list = 1 .. Len(help_list) /\ DOMAIN opt_list = 1 .. Len(opt_list)
  OBVIOUS
<1> QED BY <1>1, Zenon DEF HelpLinesAlive, LinesHaveOptions, LinesInOrder

(* remove() takes the first option that matches and the first line that    *)
(* does.  Both lists are in the order of registration, so the line of the  *)
(* option goes with it, and no line is left without its option.            *)
LEMMA Erased ==
  ASSUME RegistryInv, HelpLinesAlive, NEW G, 0 \notin G,
         help_list' = Without(help_list, G), opt_list' = Without(opt_list, G),
         opts' = opts
  PROVE  RegistryInv' /\ HelpLinesAlive'
<1> DEFINE L == Len(opts)
           x == First(opt_list, G)
           y == First(help_list, G)
<1>1. /\ L \in Nat /\ opt_list \in Seq(1 .. L) /\ help_list \in Seq(0 .. L)
      /\ Len(opt_list) \in Nat /\ Len(help_list) \in Nat
      /\ OptionsInOrder
  BY DEF RegistryInv, OptionsInOrder
<1>2. LinesHaveOptions /\ LinesInOrder
  <2> HIDE DEF L
  <2> QED BY <1>1, LinesByPlace
<1>3. /\ x \in 0 .. Len(opt_list) /\ (x # 0 => opt_list[x] \in G)
      /\ \A n \in 1 .. Len(opt_list) : opt_list[n] \in G => x # 0 /\ x <= n
  BY <1>1, FirstPlace
<1>4. /\ y \in 0 .. Len(help_list) /\ (y # 0 => help_list[y] \in G)
      /\ \A n \in 1 .. Len(help_list) : help_list[n] \in G => y # 0 /\ y <= n
  BY <1>1, FirstPlace
<1>5. /\ opt_list' \in Seq(1 .. L)
      /\ Covers(opt_list, opt_list', x) /\ SameOrder(opt_list, opt_list')
  <2> HIDE DEF L
  <2> QED BY <1>1, WithoutKeeps
<1>6. /\ help_list' \in Seq(0 .. L)
      /\ From(help_list, help_list', y) /\ SameOrder(help_list, help_list')
  <2> HIDE DEF L
  <2> QED BY <1>1, WithoutKeeps
<1> HIDE DEF L, x, y
<1>7. \A n \in 1 .. Len(opt_list) : opt_list[n] \in Int
  BY <1>1
<1>8. \A n \in 1 .. Len(help_list) : help_list[n] \in Int
  BY <1>1
<1>9. OptionsInOrder'
  <2> SUFFICES ASSUME NEW m \in 1 .. Len(opt_list'), NEW n \in 1 .. Len(opt_list'), m < n
               PROVE  opt_list'[m] < opt_list'[n]
    BY DEF OptionsInOrder
  <2>1. PICK a, b \in 1 .. Len(opt_list) :
          a < b /\ opt_list[a] = opt_list'[m] /\ opt_list[b] = opt_list'[n]
    BY <1>5 DEF SameOrder
  <2> QED BY <1>1, <2>1 DEF OptionsInOrder
<1>10. LinesInOrder'
  <2> SUFFICES ASSUME NEW m \in 1 .. Len(help_list'), NEW n \in 1 .. Len(help_list'), m < n,
                      help_list'[m] # 0, help_list'[n] # 0
               PROVE  help_list'[m] < help_list'[n]
    BY DEF LinesInOrder
  <2>1. PICK a, b \in 1 .. Len(help_list) :
          a < b /\ help_list[a] = help_list'[m] /\ help_list[b] = help_list'[n]
    BY <1>6 DEF SameOrder
  <2> QED BY <1>2, <2>1 DEF LinesInOrder
<1>11. LinesHaveOptions'
  <2> SUFFICES ASSUME NEW m \in 1 .. Len(help_list'), help_list'[m] # 0
               PROVE  \E n \in 1 .. Len(opt_list') : opt_list'[n] = help_list'[m]
    BY DEF LinesHaveOptions
  <2>1. PICK a \in 1 .. Len(help_list) : a # y /\ help_list[a] = help_list'[m]
    BY <1>6 DEF From
  <2>2. PICK b \in 1 .. Len(opt_list) : opt_list[b] = help_list[a]
    BY <1>2, <2>1 DEF LinesHaveOptions
  <2>3. b # x
    <3> SUFFICES ASSUME b = x
                 PROVE  FALSE
      OBVIOUS
    <3>1. x # 0 /\ help_list[a] \in G
      BY <1>3, <2>2
    <3>2. y # 0 /\ y <= a /\ help_list[y] \in G /\ y \in 1 .. Len(help_list)
      BY <1>1, <1>4, <3>1
    <3>3. help_list[y] # 0 /\ help_list[y] < help_list[a]
      <4>1. y < a
        BY <2>1, <3>2
      <4> QED BY <1>2, <2>1, <3>1, <3>2, <4>1 DEF LinesInOrder
    <3>4. PICK c \in 1 .. Len(opt_list) : opt_list[c] = help_list[y]
      BY <1>2, <3>2, <3>3 DEF LinesHaveOptions
    <3>5. x <= c
      BY <1>3, <3>2, <3>4
    <3>6. b < c => opt_list[b] < opt_list[c]
      BY <1>1 DEF OptionsInOrder
    <3>7. opt_list[c] < opt_list[b]
      BY <2>2, <3>3, <3>4
    <3> QED BY <1>7, <3>5, <3>6, <3>7
  <2>4. PICK n \in 1 .. Len(opt_list') : opt_list'[n] = opt_list[b]
    BY <1>5, <2>3 DEF Covers
  <2> QED BY <2>1, <2>2, <2>4
<1>12. HelpLinesAlive'
  <2>1. DOMAIN help_list' = 1 .. Len(help_list') /\ DOMAIN opt_list' = 1 .. Len(opt_list')
    BY <1>5, <1>6
  <2> QED BY <1>10, <1>11, <2>1, Zenon DEF HelpLinesAlive, LinesHaveOptions, LinesInOrder
<1>13. RegistryInv'
  BY <1>1, <1>5, <1>6, <1>9 DEF RegistryInv, OptionsInOrder, L
<1> QED BY <1>12, <1>13
-----------------------------------------------------------------------------
(* What the client removes is what matches: the same options in both       *)
(* lists.                                                                  *)
LEMMA EraseTakesFirst ==
  ASSUME RegistryInv, RemoveKey \/ RemoveName
  PROVE  \E G : /\ 0 \notin G
                /\ help_list' = Without(help_list, G) /\ opt_list' = Without(opt_list, G)
<1> DEFINE L == Len(opts)
<1>1. L \in Nat /\ opt_list \in Seq(1 .. L) /\ help_list \in Seq(0 .. L)
  BY DEF RegistryInv
<1> HIDE DEF L
<1>2. /\ \A n \in 1 .. Len(help_list) : help_list[n] \in 0 .. L
      /\ \A n \in 1 .. Len(opt_list) : opt_list[n] \in 1 .. L /\ opt_list[n] # 0
  BY <1>1
<1>3. ASSUME NEW s, NEW G, Len(s) \in Nat
      PROVE  Without(s, G) = IF Places(s, G) # {} THEN RemoveAt(s, Min(Places(s, G))) ELSE s
  <2>1. CASE Places(s, G) = {}
    BY <2>1 DEF Without, First
  <2>2. CASE Places(s, G) # {}
    <3>1. First(s, G) # 0
      BY <1>3, <2>2, FirstPlace DEF Places
    <3> QED BY <2>2, <3>1 DEF Without, First
  <2> QED BY <2>1, <2>2
<1>4. Len(help_list) \in Nat /\ Len(opt_list) \in Nat
  BY <1>1
<1>5. CASE RemoveKey
  <2>1. PICK v :
          LET ho == {n \in 1 .. Len(help_list) : help_list[n] # 0 /\ Config(help_list[n]).key = v}
              oo == {n \in 1 .. Len(opt_list) : Config(opt_list[n]).key = v}
          IN  /\ help_list' = IF ho # {} THEN RemoveAt(help_list, Min(ho)) ELSE help_list
              /\ opt_list' = IF oo # {} THEN RemoveAt(opt_list, Min(oo)) ELSE opt_list
    BY <1>5 DEF RemoveKey, Erase, RemoveFirstMatch, SelectInSeq
  <2> DEFINE G == {o \in 1 .. L : Config(o).key = v}
             ho == {n \in 1 .. Len(help_list) : help_list[n] # 0 /\ Config(help_list[n]).key = v}
             oo == {n \in 1 .. Len(opt_list) : Config(opt_list[n]).key = v}
  <2>2. /\ help_list' = IF ho # {} THEN RemoveAt(help_list, Min(ho)) ELSE help_list
        /\ opt_list' = IF oo # {} THEN RemoveAt(opt_list, Min(oo)) ELSE opt_list
    BY <2>1
  <2>3. 0 \notin G
    BY <1>1
  <2>4. ho = Places(help_list, G)
    BY <1>1, <1>2 DEF Places
  <2>5. oo = Places(opt_list, G)
    BY <1>1, <1>2 DEF Places
  <2> HIDE DEF G, ho, oo
  <2>6. help_list' = Without(help_list, G) /\ opt_list' = Without(opt_list, G)
    BY <1>3, <1>4, <2>2, <2>4, <2>5
  <2> QED BY <2>3, <2>6
<1>6. CASE RemoveName
  <2>1. PICK v :
          LET ho == {n \in 1 .. Len(help_list) : help_list[n] # 0 /\ Config(help_list[n]).name = v}
              oo == {n \in 1 .. Len(opt_list) : Config(opt_list[n]).name = v}
          IN  /\ help_list' = IF ho # {} THEN RemoveAt(help_list, Min(ho)) ELSE help_list
              /\ opt_list' = IF oo # {} THEN RemoveAt(opt_list, Min(oo)) ELSE opt_list
    BY <1>6 DEF RemoveName, Erase, RemoveFirstMatch, SelectInSeq
  <2> DEFINE G == {o \in 1 .. L : Config(o).name = v}
             ho == {n \in 1 .. Len(help_list) : help_list[n] # 0 /\ Config(help_list[n]).name = v}
             oo == {n \in 1 .. Len(opt_list) : Config(opt_list[n]).name = v}
  <2>2. /\ help_list' = IF ho # {} THEN RemoveAt(help_list, Min(ho)) ELSE help_list
        /\ opt_list' = IF oo # {} THEN RemoveAt(opt_list, Min(oo)) ELSE opt_list
    BY <2>1
  <2>3. 0 \notin G
    BY <1>1
  <2>4. ho = Places(help_list, G)
    BY <1>1, <1>2 DEF Places
  <2>5. oo = Places(opt_list, G)
    BY <1>1, <1>2 DEF Places
  <2> HIDE DEF G, ho, oo
  <2>6. help_list' = Without(help_list, G) /\ opt_list' = Without(opt_list, G)
    BY <1>3, <1>4, <2>2, <2>4, <2>5
  <2> QED BY <2>3, <2>6
<1> QED BY <1>5, <1>6
-----------------------------------------------------------------------------
(* An option is added at the end of the registry, and its line, if any, at *)
(* the end of the help.                                                    *)
LEMMA AddedOption ==
  ASSUME RegistryInv, HelpLinesAlive, AddOpt
  PROVE  RegistryInv' /\ HelpLinesAlive'
<1> DEFINE L == Len(opts)
<1>1. /\ opts \in Seq(DOMAIN Catalogue) /\ L \in Nat
      /\ opt_list \in Seq(1 .. L) /\ help_list \in Seq(0 .. L)
      /\ Len(opt_list) \in Nat /\ Len(help_list) \in Nat /\ OptionsInOrder
  BY DEF RegistryInv, OptionsInOrder
<1>2. PICK n \in DOMAIN Catalogue :
        /\ opts' = Append(opts, n) /\ opt_list' = Append(opt_list, L + 1)
        /\ help_list' = IF Catalogue[n].hide THEN help_list ELSE Append(help_list, L + 1)
  BY DEF AddOpt
<1>3. opts' \in Seq(DOMAIN Catalogue) /\ Len(opts') = L + 1
  BY <1>1, <1>2
<1>4. LinesHaveOptions /\ LinesInOrder
  <2> HIDE DEF L
  <2> QED BY <1>1, LinesByPlace
<1> HIDE DEF L
<1>5. /\ opt_list \in Seq(1 .. L + 1) /\ help_list \in Seq(0 .. L + 1)
      /\ \A a \in 1 .. Len(opt_list) : opt_list[a] \in 1 .. L
      /\ \A a \in 1 .. Len(help_list) : help_list[a] \in 0 .. L
  BY <1>1
<1>6. /\ opt_list' \in Seq(1 .. L + 1) /\ Len(opt_list') = Len(opt_list) + 1
      /\ \A a \in 1 .. Len(opt_list) : opt_list'[a] = opt_list[a]
      /\ opt_list'[Len(opt_list) + 1] = L + 1
  BY <1>1, <1>2, <1>5
<1>7. /\ help_list' \in Seq(0 .. L + 1)
      /\ \A a \in 1 .. Len(help_list') :
           \/ a \in 1 .. Len(help_list) /\ help_list'[a] = help_list[a]
           \/ a = Len(help_list) + 1 /\ help_list'[a] = L + 1
  <2>1. CASE Catalogue[n].hide
    BY <1>1, <1>2, <1>5, <2>1
  <2>2. CASE ~Catalogue[n].hide
    BY <1>1, <1>2, <1>5, <2>2
  <2> QED BY <2>1, <2>2
<1>8. OptionsInOrder'
  <2> SUFFICES ASSUME NEW a \in 1 .. Len(opt_list'), NEW b \in 1 .. Len(opt_list'), a < b
               PROVE  opt_list'[a] < opt_list'[b]
    BY DEF OptionsInOrder
  <2>1. a \in 1 .. Len(opt_list) /\ opt_list'[a] = opt_list[a]
    BY <1>1, <1>6
  <2>2. CASE b = Len(opt_list) + 1
    BY <1>1, <1>5, <1>6, <2>1, <2>2
  <2>3. CASE b # Len(opt_list) + 1
    <3>0. b \in 1 .. Len(opt_list)
      <4>1. b \in 1 .. Len(opt_list) + 1
        BY <1>6
      <4> QED BY <1>1, <2>3, <4>1
    <3>1. b \in 1 .. Len(opt_list) /\ opt_list'[b] = opt_list[b]
      BY <1>6, <3>0
    <3>2. opt_list[a] < opt_list[b]
      BY <1>1, <2>1, <3>1 DEF OptionsInOrder
    <3> QED BY <2>1, <3>1, <3>2
  <2> QED BY <2>2, <2>3
<1>9. LinesInOrder'
  <2> SUFFICES ASSUME NEW a \in 1 .. Len(help_list'), NEW b \in 1 .. Len(help_list'), a < b,
                      help_list'[a] # 0, help_list'[b] # 0
               PROVE  help_list'[a] < help_list'[b]
    BY DEF LinesInOrder
  <2>1. a \in 1 .. Len(help_list) /\ help_list'[a] = help_list[a]
    <3>1. b <= Len(help_list) + 1 /\ a \in Int /\ b \in Int
      <4>1. b \in 1 .. Len(help_list) \/ b = Len(help_list) + 1
        BY <1>7
      <4>2. a \in Nat /\ b \in Nat
        BY <1>7
      <4> QED BY <1>1, <4>1, <4>2
    <3>2. a # Len(help_list) + 1
      BY <1>1, <3>1
    <3> QED BY <1>7, <3>2
  <2>2. CASE b = Len(help_list) + 1
    <3>1. help_list'[b] = L + 1 /\ help_list[a] \in 0 .. L
      BY <1>1, <1>5, <1>7, <2>1, <2>2
    <3> QED BY <1>1, <2>1, <3>1
  <2>3. CASE b # Len(help_list) + 1
    <3>1. b \in 1 .. Len(help_list) /\ help_list'[b] = help_list[b]
      BY <1>7, <2>3
    <3>2. help_list[a] < help_list[b]
      BY <1>4, <2>1, <3>1 DEF LinesInOrder
    <3> QED BY <2>1, <3>1, <3>2
  <2> QED BY <2>2, <2>3
<1>10. LinesHaveOptions'
  <2> SUFFICES ASSUME NEW a \in 1 .. Len(help_list'), help_list'[a] # 0
               PROVE  \E b \in 1 .. Len(opt_list') : opt_list'[b] = help_list'[a]
    BY DEF LinesHaveOptions
  <2>1. CASE a \in 1 .. Len(help_list) /\ help_list'[a] = help_list[a]
    <3>1. PICK b \in 1 .. Len(opt_list) : opt_list[b] = help_list[a]
      BY <1>4, <2>1 DEF LinesHaveOptions
    <3>2. b \in 1 .. Len(opt_list') /\ opt_list'[b] = help_list'[a]
      BY <1>1, <1>6, <2>1, <3>1
    <3> QED BY <3>2
  <2>2. CASE help_list'[a] = L + 1
    <3>1. Len(opt_list) + 1 \in 1 .. Len(opt_list')
      BY <1>1, <1>6
    <3> QED BY <1>6, <2>2, <3>1
  <2> QED BY <1>7, <2>1, <2>2
<1>11. HelpLinesAlive'
  <2>1. DOMAIN help_list' = 1 .. Len(help_list') /\ DOMAIN opt_list' = 1 .. Len(opt_list')
    BY <1>6, <1>7
  <2> QED BY <1>9, <1>10, <2>1, Zenon DEF HelpLinesAlive, LinesHaveOptions, LinesInOrder
<1>12. RegistryInv'
  BY <1>3, <1>6, <1>7, <1>8 DEF RegistryInv, OptionsInOrder
<1> QED BY <1>11, <1>12

(* A message is a line without an option. *)
LEMMA AddedMessage ==
  ASSUME RegistryInv, HelpLinesAlive, AddHelp
  PROVE  RegistryInv' /\ HelpLinesAlive'
<1> DEFINE L == Len(opts)
<1>1. /\ opts \in Seq(DOMAIN Catalogue) /\ L \in Nat
      /\ opt_list \in Seq(1 .. L) /\ help_list \in Seq(0 .. L) /\ OptionsInOrder
      /\ opts' = opts /\ opt_list' = opt_list /\ help_list' = Append(help_list, 0)
  BY DEF RegistryInv, OptionsInOrder, AddHelp
<1>2. LinesHaveOptions /\ LinesInOrder
  <2> HIDE DEF L
  <2> QED BY <1>1, LinesByPlace
<1> HIDE DEF L
<1>3. /\ help_list' \in Seq(0 .. L)
      /\ \A a \in 1 .. Len(help_list') : help_list'[a] # 0 =>
           a \in 1 .. Len(help_list) /\ help_list'[a] = help_list[a]
  BY <1>1
<1>4. LinesHaveOptions' /\ LinesInOrder'
  BY <1>1, <1>2, <1>3 DEF LinesHaveOptions, LinesInOrder
<1>5. HelpLinesAlive'
  <2>1. DOMAIN help_list' = 1 .. Len(help_list') /\ DOMAIN opt_list' = 1 .. Len(opt_list')
    BY <1>1, <1>3
  <2> QED BY <1>4, <2>1, Zenon DEF HelpLinesAlive, LinesHaveOptions, LinesInOrder
<1>6. RegistryInv'
  BY <1>1, <1>3 DEF RegistryInv, OptionsInOrder, L
<1> QED BY <1>5, <1>6

(* An empty registry. *)
LEMMA RemovedAll ==
  ASSUME RegistryInv, RemoveAll
  PROVE  RegistryInv' /\ HelpLinesAlive'
BY DEF RegistryInv, OptionsInOrder, HelpLinesAlive, RemoveAll

(* What does not touch the registry.                                       *)
LEMMA SameRegistry ==
  ASSUME RegistryInv, HelpLinesAlive, UNCHANGED registry
  PROVE  RegistryInv' /\ HelpLinesAlive'
BY DEF RegistryInv, OptionsInOrder, HelpLinesAlive, registry
-----------------------------------------------------------------------------
(* Every step of a client keeps the registry.                              *)
LEMMA RegisterKeeps ==
  ASSUME RegistryInv, HelpLinesAlive, Register
  PROVE  RegistryInv' /\ HelpLinesAlive'
<1>1. CASE AddOpt
  BY <1>1, AddedOption
<1>2. CASE AddHelp
  BY <1>2, AddedMessage
<1>3. CASE RemoveKey \/ RemoveName
  <2>1. opts' = opts
    BY <1>3 DEF RemoveKey, RemoveName
  <2> QED BY <1>3, <2>1, EraseTakesFirst, Erased
<1>4. CASE RemoveAll
  BY <1>4, RemovedAll
<1> QED BY <1>1, <1>2, <1>3, <1>4 DEF Register
-----------------------------------------------------------------------------
(* What process() works on, and that it left the shared int as it was, or  *)
(* that it may have set it, if nobody has before.                          *)
Running(st) ==
  /\ st = [value |-> st.value, mode |-> st.mode, helps |-> st.helps, status |-> st.status]
  /\ st.mode \in Int /\ st.status \in {"parse", "error", "exit"}
Sticks(a, b) == Running(b) /\ (a.mode # 0 => b.mode = a.mode)

(* An exception and the end of the process leave the shared int alone.     *)
LEMMA EndsKeep ==
  ASSUME NEW st, Running(st)
  PROVE  /\ Running(Failed(st)) /\ Failed(st).mode = st.mode
         /\ Running(Exited(st)) /\ Exited(st).mode = st.mode
<1> DEFINE v == st.value
           m == st.mode
           h == st.helps
           s == st.status
<1>1. st = [value |-> v, mode |-> m, helps |-> h, status |-> s] /\ m \in Int
  BY DEF Running
<1> HIDE DEF v, m, h, s
<1>2. Failed(st) = [value |-> v, mode |-> m, helps |-> h, status |-> "error"]
  BY <1>1 DEF Failed
<1>3. Exited(st) = [value |-> v, mode |-> m, helps |-> h, status |-> "exit"]
  BY <1>1 DEF Exited
<1> QED BY <1>1, <1>2, <1>3 DEF Running

(* Another value leaves the shared int alone.                              *)
LEMMA ValueKeeps ==
  ASSUME NEW st, NEW w, Running(st)
  PROVE  Running([st EXCEPT !.value = w]) /\ [st EXCEPT !.value = w].mode = st.mode
<1> DEFINE v == st.value
           m == st.mode
           h == st.helps
           s == st.status
<1>1. st = [value |-> v, mode |-> m, helps |-> h, status |-> s] /\ m \in Int
      /\ s \in {"parse", "error", "exit"}
  BY DEF Running
<1> HIDE DEF v, m, h, s
<1>2. [st EXCEPT !.value = w] = [value |-> w, mode |-> m, helps |-> h, status |-> s]
  BY <1>1
<1> QED BY <1>1, <1>2 DEF Running

(* set() of a plain option.                                                *)
LEMMA PlainKeeps ==
  ASSUME NEW c, NEW st, NEW str, Running(st), c.store \in {"text", "list", "set"}
  PROVE  Running(SetPlain(c, st, str)) /\ SetPlain(c, st, str).mode = st.mode
<1>1. /\ Running(SetText(st, str)) /\ SetText(st, str).mode = st.mode
  <2>1. [st EXCEPT !.value.text = FirstWord(str)] = [st EXCEPT !.value = [st.value EXCEPT !.text = FirstWord(str)]]
    BY DEF Running
  <2> QED BY <2>1, EndsKeep, ValueKeeps DEF SetText
<1>2. /\ Running(SetList(st, str)) /\ SetList(st, str).mode = st.mode
  <2> DEFINE l == LET pieces == Pieces(str, 0) IN [n \in DOMAIN pieces |-> FirstWord(pieces[n])]
  <2>1. SetList(st, str) = [st EXCEPT !.value.list = l]
    BY DEF SetList
  <2> HIDE DEF l
  <2>2. [st EXCEPT !.value.list = l] = [st EXCEPT !.value = [st.value EXCEPT !.list = l]]
    BY DEF Running
  <2> QED BY <2>1, <2>2, ValueKeeps
<1>3. /\ Running(SetSet(st, str)) /\ SetSet(st, str).mode = st.mode
  <2>1. PICK x : \/ SetSet(st, str) = Failed(st) \/ SetSet(st, str) = Exited(st)
                 \/ SetSet(st, str) = [st EXCEPT !.value.number = x]
    BY DEF SetSet
  <2> DEFINE w == [st.value EXCEPT !.number = x]
  <2>2. [st EXCEPT !.value.number = x] = [st EXCEPT !.value = w]
    BY DEF Running
  <2> HIDE DEF w
  <2>3. \/ SetSet(st, str) = Failed(st) \/ SetSet(st, str) = Exited(st)
        \/ SetSet(st, str) = [st EXCEPT !.value = w]
    BY <2>1, <2>2
  <2>4. CASE SetSet(st, str) = [st EXCEPT !.value = w]
    BY <2>4, ValueKeeps
  <2>5. CASE SetSet(st, str) = Failed(st) \/ SetSet(st, str) = Exited(st)
    BY <2>5, EndsKeep
  <2> QED BY <2>3, <2>4, <2>5
<1> QED BY <1>1, <1>2, <1>3 DEF SetPlain

(* The shared int is set if nobody has set it, and a callback ends the     *)
(* process, fails, or does nothing.                                        *)
LEMMA AssignSticks ==
  ASSUME NEW c, NEW st, Running(st), IsOption(c)
  PROVE  Sticks(st, Call(c, Assign(c, st)))
<1>1. Sticks(st, Assign(c, st))
  <2>1. CASE Assign(c, st) = st \/ Assign(c, st) = Failed(st)
    BY <2>1, EndsKeep DEF Sticks
  <2>2. CASE Assign(c, st) = [st EXCEPT !.mode = c.value] /\ st.mode = 0
    <3>1. Assign(c, st) = [value |-> st.value, mode |-> c.value, helps |-> st.helps, status |-> st.status]
      BY <2>2 DEF Running
    <3> HIDE DEF Assign
    <3> QED BY <2>2, <3>1 DEF Sticks, Running, IsOption
  <2> QED BY <2>1, <2>2 DEF Assign, IsOption
<1> DEFINE r == Assign(c, st)
<1> HIDE DEF r
<1>2. Call(c, r) = r \/ Call(c, r) = Failed(r) \/ Call(c, r) = Exited(r)
  BY DEF Call
<1> QED BY <1>1, <1>2, EndsKeep DEF Sticks, r

(* process() of an option of a SubParser.                                  *)
LEMMA PlainProcessSticks ==
  ASSUME NEW c, NEW st, NEW given, Running(st), IsOption(c), c.store # "sub"
  PROVE  Sticks(st, ProcessBy(SetPlain, c, st, given))
<1> DEFINE str == IF given = Absent THEN c.default ELSE given
           set == IF c.store = "none" THEN st ELSE SetPlain(c, st, str)
<1>1. \/ ProcessBy(SetPlain, c, st, given) = Failed(st)
      \/ ProcessBy(SetPlain, c, st, given) = Call(c, Assign(c, set))
  BY DEF ProcessBy
<1>2. Running(set) /\ set.mode = st.mode
  BY PlainKeeps DEF IsOption
<1> HIDE DEF set
<1>3. Sticks(set, Call(c, Assign(c, set)))
  BY <1>2, AssignSticks
<1> QED BY <1>1, <1>2, <1>3, EndsKeep DEF Sticks

(* One element of the list for a SubParser.                                *)
LEMMA ElementSticks ==
  ASSUME NEW st, NEW e, Running(st)
  PROVE  Sticks(st, SetElement(st, e))
<1> DEFINE n == SelectLastInSeq(e, LAMBDA c : c = "=")
           I == {a \in 1 .. Len(SubOptions) : SubOptions[a].name = IF n = 0 THEN e ELSE SubSeq(e, 1, n - 1)}
           o == IF I # {} THEN Min(I) ELSE 0
           given == IF n = 0 THEN Absent ELSE SubSeq(e, n + 1, Len(e))
           r == ProcessBy(SetPlain, SubOptions[o], [st EXCEPT !.value = st.value.sub[o]], given)
<1>1. SetElement(st, e) = IF ~Going(st) THEN st ELSE IF o = 0 THEN Failed(st)
                          ELSE [r EXCEPT !.value = [st.value EXCEPT !.sub[o] = r.value]]
  BY DEF SetElement, SelectInSeq
<1>2. o = 0 \/ o \in DOMAIN SubOptions
  <2>0. DOMAIN SubOptions = 1 .. Len(SubOptions) /\ Len(SubOptions) \in Nat
    BY CatalogueAssumption
  <2> HIDE DEF n
  <2>1. I \subseteq Nat /\ I \subseteq DOMAIN SubOptions
    BY <2>0
  <2> HIDE DEF I
  <2> QED BY <2>1, LeastNumber
<1> HIDE DEF o, given
<1>3. ASSUME o # 0 PROVE Sticks(st, r)
  <2> DEFINE was == [st EXCEPT !.value = st.value.sub[o]]
  <2>1. Running(was) /\ was.mode = st.mode
    BY ValueKeeps
  <2> HIDE DEF was
  <2>2. IsOption(SubOptions[o]) /\ SubOptions[o].store # "sub"
    BY <1>2, <1>3, CatalogueAssumption
  <2>3. Sticks(was, ProcessBy(SetPlain, SubOptions[o], was, given))
    BY <2>1, <2>2, PlainProcessSticks
  <2> QED BY <2>1, <2>3 DEF Sticks, was
<1> HIDE DEF r
<1>4. ASSUME o # 0
      PROVE  Sticks(st, [r EXCEPT !.value = [st.value EXCEPT !.sub[o] = r.value]])
  BY <1>3, <1>4, ValueKeeps DEF Sticks
<1>5. Sticks(st, st) /\ Sticks(st, Failed(st))
  BY EndsKeep DEF Sticks
<1> QED BY <1>1, <1>4, <1>5
-----------------------------------------------------------------------------
(* The pieces of a string from each of its characters on: what Pieces()    *)
(* computes, with E[s] the end of a piece that begins at s.                *)
PiecesFrom(f, N, E, P) ==
  f = [s \in 1 .. N + 2 |-> IF s > N THEN <<>> ELSE <<P[s]>> \o f[E[s] + 2]]

(* There is such a function: it is built from the end of the string on.    *)
LEMMA PiecesExist ==
  ASSUME NEW N \in Nat, NEW E, NEW P, \A s \in 1 .. N : E[s] \in s - 1 .. N
  PROVE  \E f : PiecesFrom(f, N, E, P)
<1> DEFINE Fills(a, f) == f = [s \in a .. N + 2 |-> IF s > N THEN <<>> ELSE <<P[s]>> \o f[E[s] + 2]]
           Bad == {d \in 0 .. N + 1 : ~\E f : Fills(N + 2 - d, f)}
<1>1. \E f : Fills(N + 2, f)
  <2> DEFINE f == [s \in N + 2 .. N + 2 |-> <<>>]
  <2>1. Fills(N + 2, f)
    OBVIOUS
  <2> QED BY <2>1
<1>2. ASSUME NEW a \in 1 .. N + 1, NEW f, Fills(a + 1, f)
      PROVE  \E g : Fills(a, g)
  <2> DEFINE g == [s \in a .. N + 2 |-> IF s = a THEN IF s > N THEN <<>> ELSE <<P[s]>> \o f[E[s] + 2] ELSE f[s]]
  <2>1. \A s \in a .. N + 2 : s <= N => E[s] + 2 \in a + 1 .. N + 2
    OBVIOUS
  <2>2. \A s \in a + 1 .. N + 2 : g[s] = f[s]
    OBVIOUS
  <2>3. \A s \in a + 1 .. N + 2 : f[s] = IF s > N THEN <<>> ELSE <<P[s]>> \o f[E[s] + 2]
    BY <1>2
  <2>4. \A s \in a .. N + 2 : g[s] = IF s > N THEN <<>> ELSE <<P[s]>> \o f[E[s] + 2]
    <3> SUFFICES ASSUME NEW s \in a .. N + 2
                 PROVE  g[s] = IF s > N THEN <<>> ELSE <<P[s]>> \o f[E[s] + 2]
      OBVIOUS
    <3>1. CASE s = a
      BY <3>1
    <3>2. CASE s # a
      <4>1. s \in a + 1 .. N + 2
        BY <3>2
      <4> HIDE DEF g
      <4> QED BY <2>2, <2>3, <4>1
    <3> QED BY <3>1, <3>2
  <2>5. g = [s \in a .. N + 2 |-> g[s]]
    OBVIOUS
  <2> HIDE DEF g
  <2>6. \A s \in a .. N + 2 : s <= N => f[E[s] + 2] = g[E[s] + 2]
    BY <2>1, <2>2
  <2>7. \A s \in a .. N + 2 : g[s] = IF s > N THEN <<>> ELSE <<P[s]>> \o g[E[s] + 2]
    <3> SUFFICES ASSUME NEW s \in a .. N + 2
                 PROVE  g[s] = IF s > N THEN <<>> ELSE <<P[s]>> \o g[E[s] + 2]
      OBVIOUS
    <3>1. CASE s > N
      BY <2>4, <3>1
    <3>2. CASE s <= N
      <4>1. f[E[s] + 2] = g[E[s] + 2]
        BY <2>6, <3>2
      <4> QED BY <2>4, <3>2, <4>1
    <3> QED BY <3>1, <3>2
  <2>8. Fills(a, g)
    BY <2>5, <2>7
  <2> HIDE DEF Fills
  <2> QED BY <2>8
<1> HIDE DEF Fills
<1>3. Bad = {}
  <2> SUFFICES ASSUME Bad # {}
               PROVE  FALSE
    OBVIOUS
  <2>1. Bad \subseteq Nat
    OBVIOUS
  <2> DEFINE d == Min(Bad)
  <2>2. d \in Bad /\ \A n \in Bad : d <= n
    <3> HIDE DEF Bad
    <3> QED BY <2>1, LeastNumber
  <2> HIDE DEF d
  <2>3. d \in 0 .. N + 1 /\ ~\E f : Fills(N + 2 - d, f)
    BY <2>2
  <2>4. d # 0
    BY <1>1, <2>3
  <2>5. d - 1 \notin Bad /\ d - 1 \in 0 .. N + 1
    <3> HIDE DEF Bad
    <3> QED BY <2>1, <2>2, <2>3, <2>4
  <2>6. PICK f : Fills(N + 2 - (d - 1), f)
    BY <2>5
  <2> DEFINE a == N + 2 - d
  <2>7. a \in 1 .. N + 1 /\ N + 2 - (d - 1) = a + 1
    BY <2>3, <2>4
  <2>8. Fills(a + 1, f)
    BY <2>6, <2>7
  <2>9. a = N + 2 - d
    OBVIOUS
  <2> HIDE DEF a
  <2> QED BY <1>2, <2>3, <2>7, <2>8, <2>9
<1>4. N + 1 \notin Bad
  BY <1>3
<1>5. PICK f : Fills(1, f)
  <2>1. N + 1 \in 0 .. N + 1 /\ N + 2 - (N + 1) = 1
    OBVIOUS
  <2> QED BY <1>4, <2>1
<1> QED BY <1>5 DEF Fills, PiecesFrom

(* A sequence with one entry more at its front.                            *)
LEMMA OneMore ==
  ASSUME NEW Q, NEW x \in Q, NEW t \in Seq(Q)
  PROVE  <<x>> \o t \in Seq(Q)
<1>1. <<x>> \in Seq(Q)
  OBVIOUS
<1> QED BY <1>1, ConcatProperties

(* It gives sequences. *)
LEMMA PiecesAreSequences ==
  ASSUME NEW N \in Nat, NEW E, NEW P, \A s \in 1 .. N : E[s] \in s - 1 .. N,
         NEW f, PiecesFrom(f, N, E, P)
  PROVE  Len(f[1]) \in Nat
<1> DEFINE Q == {P[s] : s \in 1 .. N}
           Bad == {d \in 0 .. N + 1 : f[N + 2 - d] \notin Seq(Q)}
<1>1. \A s \in 1 .. N + 2 : f[s] = IF s > N THEN <<>> ELSE <<P[s]>> \o f[E[s] + 2]
  BY DEF PiecesFrom
<1>2. Bad = {}
  <2> SUFFICES ASSUME Bad # {}
               PROVE  FALSE
    OBVIOUS
  <2>1. Bad \subseteq Nat
    OBVIOUS
  <2> DEFINE d == Min(Bad)
             a == N + 2 - d
  <2>2. d \in Bad /\ \A n \in Bad : d <= n
    <3> HIDE DEF Bad
    <3> QED BY <2>1, LeastNumber
  <2> HIDE DEF d
  <2>3. d \in 0 .. N + 1 /\ f[a] \notin Seq(Q) /\ a \in 1 .. N + 2
    BY <2>2
  <2>4. a <= N
    <3> SUFFICES ASSUME a > N
                 PROVE  FALSE
      BY <2>3
    <3>1. f[a] = <<>>
      BY <1>1, <2>3
    <3> QED BY <2>3, <3>1
  <2> DEFINE b == E[a] + 2
  <2>5. b \in a + 1 .. N + 2
    BY <2>3, <2>4
  <2>6. N + 2 - b \in 0 .. N + 1 /\ N + 2 - b < d /\ N + 2 - (N + 2 - b) = b
    <3> HIDE DEF b
    <3> QED BY <2>3, <2>5
  <2>7. f[b] \in Seq(Q)
    <3> HIDE DEF b, Q
    <3>1. N + 2 - b \notin Bad
      <4> HIDE DEF Bad
      <4> QED BY <2>2, <2>6, <2>3
    <3> QED BY <2>6, <3>1
  <2>8. f[a] = <<P[a]>> \o f[b]
    <3> HIDE DEF a
    <3>1. f[a] = IF a > N THEN <<>> ELSE <<P[a]>> \o f[E[a] + 2]
      BY <1>1, <2>3
    <3>2. a \in Int
      BY <2>3
    <3> QED BY <2>4, <3>1, <3>2
  <2>9. P[a] \in Q
    BY <2>3, <2>4
  <2> HIDE DEF a, b, Q
  <2>10. <<P[a]>> \o f[b] \in Seq(Q)
    BY <2>7, <2>9, OneMore
  <2> QED BY <2>3, <2>8, <2>10
<1>3. f[1] \in Seq(Q)
  <2> HIDE DEF Q
  <2>1. N + 1 \in 0 .. N + 1 /\ N + 2 - (N + 1) = 1
    OBVIOUS
  <2>2. N + 1 \notin Bad
    BY <1>2
  <2>3. f[N + 2 - (N + 1)] \in Seq(Q)
    BY <2>1, <2>2
  <2> QED BY <2>1, <2>3
<1> QED BY <1>3

(* A string is cut into a sequence of pieces.                              *)
LEMMA PiecesCounted ==
  ASSUME NEW str \in Seq(STRING), NEW least \in {0, 1}
  PROVE  Len(Pieces(str, least)) \in Nat
<1> DEFINE N == Len(str)
           ends(s) == {e \in s - 1 + least .. N : e = N \/ str[e + 1] = ","}
           E == [s \in 1 .. N |-> Min(ends(s))]
           P == [s \in 1 .. N |-> SubSeq(str, s, Min(ends(s)))]
           from == CHOOSE f : f = [s \in 1 .. N + 2 |->
                     IF s > N THEN <<>> ELSE <<SubSeq(str, s, Min(ends(s)))>> \o f[Min(ends(s)) + 2]]
<1>1. Pieces(str, least) = from[1]
  BY DEF Pieces
<1>2. N \in Nat
  OBVIOUS
<1>3. \A s \in 1 .. N : E[s] \in s - 1 .. N
  <2> SUFFICES ASSUME NEW s \in 1 .. N
               PROVE  Min(ends(s)) \in s - 1 .. N
    OBVIOUS
  <2>1. ends(s) \subseteq s - 1 .. N /\ ends(s) \subseteq Nat /\ N \in ends(s)
    <3> DEFINE A == s - 1 + least .. N
    <3>1. A \subseteq s - 1 .. N /\ A \subseteq Nat /\ N \in A
      <4> HIDE DEF N
      <4> QED BY <1>2
    <3> HIDE DEF A, N
    <3>2. ends(s) \subseteq A /\ (N \in A => N \in ends(s))
      BY Zenon DEF A
    <3> QED BY <3>1, <3>2
  <2>2. Min(ends(s)) \in ends(s)
    <3> HIDE DEF ends
    <3> QED BY <2>1, LeastNumber
  <2> HIDE DEF ends
  <2> QED BY <2>1, <2>2
<1>4. \A s \in 1 .. N : E[s] = Min(ends(s)) /\ P[s] = SubSeq(str, s, Min(ends(s)))
  OBVIOUS
<1> HIDE DEF ends, E, P
<1>5. ASSUME NEW f
      PROVE  PiecesFrom(f, N, E, P) <=>
               f = [s \in 1 .. N + 2 |->
                     IF s > N THEN <<>> ELSE <<SubSeq(str, s, Min(ends(s)))>> \o f[Min(ends(s)) + 2]]
  <2> DEFINE g == [s \in 1 .. N + 2 |-> IF s > N THEN <<>> ELSE <<P[s]>> \o f[E[s] + 2]]
             h == [s \in 1 .. N + 2 |->
                     IF s > N THEN <<>> ELSE <<SubSeq(str, s, Min(ends(s)))>> \o f[Min(ends(s)) + 2]]
  <2>1. \A s \in 1 .. N + 2 :
          (IF s > N THEN <<>> ELSE <<P[s]>> \o f[E[s] + 2])
            = IF s > N THEN <<>> ELSE <<SubSeq(str, s, Min(ends(s)))>> \o f[Min(ends(s)) + 2]
    <3> SUFFICES ASSUME NEW s \in 1 .. N + 2
                 PROVE  (IF s > N THEN <<>> ELSE <<P[s]>> \o f[E[s] + 2])
                          = IF s > N THEN <<>> ELSE <<SubSeq(str, s, Min(ends(s)))>> \o f[Min(ends(s)) + 2]
      OBVIOUS
    <3>1. CASE s > N
      BY <3>1
    <3>2. CASE ~(s > N)
      <4>1. s \in 1 .. N
        <5> HIDE DEF N
        <5> QED BY <1>2, <3>2
      <4>2. E[s] = Min(ends(s)) /\ P[s] = SubSeq(str, s, Min(ends(s)))
        BY <1>4, <4>1
      <4> QED BY <4>2
    <3> QED BY <3>1, <3>2
  <2>2. g = h
    BY <2>1
  <2>3. PiecesFrom(f, N, E, P) <=> f = g
    BY Zenon DEF PiecesFrom
  <2> HIDE DEF g
  <2>4. (f = g) <=> (f = h)
    <3> HIDE DEF h
    <3> QED BY <2>2
  <2> QED BY <2>3, <2>4
<1>6. \E f : PiecesFrom(f, N, E, P)
  <2> HIDE DEF N
  <2> QED BY <1>2, <1>3, PiecesExist
<1>7. PiecesFrom(from, N, E, P)
  BY <1>5, <1>6
<1> HIDE DEF from, N
<1> QED BY <1>1, <1>2, <1>3, <1>7, PiecesAreSequences

(* The elements of a list are processed one after the other, each with     *)
(* what the others have left of the shared int.                            *)
Afters(f, st, pieces) ==
  f = [n \in 0 .. Len(pieces) |-> IF n = 0 THEN st ELSE SetElement(f[n - 1], pieces[n])]

(* There is what the elements do one after the other.                      *)
LEMMA AftersExist ==
  ASSUME NEW st, NEW pieces, Len(pieces) \in Nat
  PROVE  \E f : Afters(f, st, pieces)
<1> DEFINE Upto(m, f) == f = [n \in 0 .. m |-> IF n = 0 THEN st ELSE SetElement(f[n - 1], pieces[n])]
           Bad == {m \in 0 .. Len(pieces) : ~\E f : Upto(m, f)}
<1>1. \E f : Upto(0, f)
  <2> DEFINE f == [n \in 0 .. 0 |-> st]
  <2>1. Upto(0, f)
    OBVIOUS
  <2> QED BY <2>1
<1>2. ASSUME NEW m \in Nat, m # 0, NEW f, Upto(m - 1, f)
      PROVE  \E g : Upto(m, g)
  <2> DEFINE g == [n \in 0 .. m |-> IF n = m THEN SetElement(f[m - 1], pieces[m]) ELSE f[n]]
  <2>1. \A n \in 0 .. m - 1 : g[n] = f[n]
    BY <1>2
  <2>2. g[m] = SetElement(f[m - 1], pieces[m]) /\ g[m - 1] = f[m - 1]
    BY <1>2
  <2>3. \A n \in 0 .. m - 1 : f[n] = IF n = 0 THEN st ELSE SetElement(f[n - 1], pieces[n])
    BY <1>2
  <2>4. g = [n \in 0 .. m |-> g[n]]
    OBVIOUS
  <2> HIDE DEF g, Upto
  <2>5. \A n \in 0 .. m : g[n] = IF n = 0 THEN st ELSE SetElement(g[n - 1], pieces[n])
    <3> SUFFICES ASSUME NEW n \in 0 .. m
                 PROVE  g[n] = IF n = 0 THEN st ELSE SetElement(g[n - 1], pieces[n])
      OBVIOUS
    <3>1. CASE n = m
      BY <1>2, <2>2, <3>1
    <3>2. CASE n # m
      <4>1. n \in 0 .. m - 1 /\ (n # 0 => n - 1 \in 0 .. m - 1)
        BY <1>2, <3>2
      <4> QED BY <2>1, <2>3, <4>1
    <3> QED BY <3>1, <3>2
  <2>6. Upto(m, g)
    BY <2>4, <2>5 DEF Upto
  <2> QED BY <2>6
<1> HIDE DEF Upto
<1>3. Bad = {}
  <2> SUFFICES ASSUME Bad # {}
               PROVE  FALSE
    OBVIOUS
  <2>1. Bad \subseteq Nat
    OBVIOUS
  <2> DEFINE d == Min(Bad)
  <2>2. d \in Bad /\ \A n \in Bad : d <= n
    <3> HIDE DEF Bad
    <3> QED BY <2>1, LeastNumber
  <2> HIDE DEF d
  <2>3. d \in 0 .. Len(pieces) /\ d \in Nat /\ ~\E f : Upto(d, f)
    BY <2>2
  <2>4. d # 0
    BY <1>1, <2>3
  <2>5. d - 1 \notin Bad /\ d - 1 \in 0 .. Len(pieces)
    <3> HIDE DEF Bad
    <3> QED BY <2>1, <2>2, <2>3, <2>4
  <2>6. PICK f : Upto(d - 1, f)
    BY <2>5
  <2> QED BY <1>2, <2>3, <2>4, <2>6
<1>4. Len(pieces) \notin Bad
  BY <1>3
<1>5. PICK f : Upto(Len(pieces), f)
  BY <1>4
<1> QED BY <1>5 DEF Upto, Afters

(* A list of elements for a SubParser.                                     *)
LEMMA SubSticks ==
  ASSUME NEW st, NEW str \in Seq(STRING), Running(st)
  PROVE  Sticks(st, SetSub(st, str))
<1> DEFINE pieces == Pieces(str, 1)
           after == CHOOSE f : f = [n \in 0 .. Len(pieces) |-> IF n = 0 THEN st ELSE SetElement(f[n - 1], pieces[n])]
           Bad == {n \in 0 .. Len(pieces) : ~Sticks(st, after[n])}
<1>1. Len(pieces) \in Nat
  BY PiecesCounted
<1> HIDE DEF pieces
<1>2. SetSub(st, str) = after[Len(pieces)]
  BY DEF SetSub, pieces
<1>3. Afters(after, st, pieces)
  BY <1>1, AftersExist DEF Afters
<1> HIDE DEF after
<1>4. \A n \in 0 .. Len(pieces) : after[n] = IF n = 0 THEN st ELSE SetElement(after[n - 1], pieces[n])
  BY <1>3 DEF Afters
<1>5. Bad = {}
  <2> SUFFICES ASSUME Bad # {}
               PROVE  FALSE
    OBVIOUS
  <2>1. Bad \subseteq Nat
    OBVIOUS
  <2> DEFINE d == Min(Bad)
  <2>2. d \in Bad /\ \A n \in Bad : d <= n
    <3> HIDE DEF Bad
    <3> QED BY <2>1, LeastNumber
  <2> HIDE DEF d
  <2>3. d \in 0 .. Len(pieces) /\ ~Sticks(st, after[d])
    BY <2>2
  <2>4. d # 0
    BY <1>4, <2>3 DEF Sticks
  <2>5. d - 1 \in 0 .. Len(pieces) /\ d - 1 \notin Bad
    <3> HIDE DEF Bad
    <3> QED BY <1>1, <2>2, <2>3, <2>4
  <2>6. Sticks(st, after[d - 1])
    BY <2>5
  <2>7. after[d] = SetElement(after[d - 1], pieces[d])
    BY <1>4, <2>3, <2>4
  <2> DEFINE was == after[d - 1]
             is  == SetElement(was, pieces[d])
  <2>8. Sticks(was, is)
    BY <2>6, ElementSticks DEF Sticks
  <2> HIDE DEF was, is
  <2>9. Sticks(st, was) /\ after[d] = is
    BY <2>6, <2>7 DEF was, is
  <2> QED BY <2>3, <2>8, <2>9 DEF Sticks
<1> QED BY <1>1, <1>2, <1>5

(* process() of any option.                                                *)
LEMMA ProcessSticks ==
  ASSUME NEW c, NEW st, NEW given, Running(st), IsOption(c), given = Absent \/ given \in Seq(STRING)
  PROVE  Sticks(st, Process(c, st, given))
<1> DEFINE str == IF given = Absent THEN c.default ELSE given
           set == IF c.store = "none" THEN st ELSE SetAny(c, st, str)
<1>1. \/ Process(c, st, given) = Failed(st)
      \/ Process(c, st, given) = Call(c, Assign(c, set))
  BY DEF Process, ProcessBy
<1>2. str \in Seq(STRING)
  BY DEF IsOption
<1> HIDE DEF str
<1>3. Sticks(st, set)
  BY <1>2, PlainKeeps, SubSticks DEF IsOption, SetAny, Sticks
<1> HIDE DEF set
<1>4. Sticks(set, Call(c, Assign(c, set)))
  BY <1>3, AssignSticks DEF Sticks
<1> QED BY <1>1, <1>3, <1>4, EndsKeep DEF Sticks
-----------------------------------------------------------------------------
(* While it reads, the cursor is on a word of argv.                        *)
LEMMA CursorAtWord ==
  ASSUME CursorInv, Reading
  PROVE  /\ i \in 1 .. Len(argv) /\ Len(argv) \in Nat
         /\ Len(Token) \in Nat
<1>1. i \in 1 .. Len(argv) /\ Len(argv) \in Nat /\ argv[i] \in Tokens
  BY DEF CursorInv, Reading
<1>2. argv[i] \in Seq(STRING)
  BY <1>1, CatalogueAssumption
<1> QED BY <1>1, <1>2 DEF Token

(* A step to the next word, or behind its value.                           *)
LEMMA NextWordInside ==
  ASSUME CursorInv, Reading, UNCHANGED call,
         ToToken(i + 1) \/ (i < Len(argv) /\ ToToken(i + 2))
  PROVE  CursorInv' /\ i' > i
<1>1. argv' = argv /\ i' \in 1 .. Len(argv) + 1 /\ i' > i /\ k' = 2
  BY CursorAtWord DEF ToToken, call
<1>2. i' <= Len(argv) => Len(argv[i']) \in Nat
  <2>1. i' <= Len(argv) => i' \in 1 .. Len(argv) /\ argv[i'] \in Tokens
    BY <1>1, CursorAtWord DEF CursorInv
  <2> QED BY <2>1, CatalogueAssumption
<1> QED BY <1>1, <1>2 DEF CursorInv

(* Each step of parse() keeps its cursors inside and moves one of them on, *)
(* or ends.                                                                *)
LEMMA StepMovesOn ==
  ASSUME CursorInv, ParseStep
  PROVE  /\ CursorInv'
         /\ status = "parse" /\ status' = "parse" => i' > i \/ (i' = i /\ k' > k)
<1>1. CASE TakeWord \/ EndOfCluster
  BY <1>1, NextWordInside DEF TakeWord, EndOfCluster
<1>2. CASE LongOption
  BY <1>2, NextWordInside DEF LongOption
<1>3. CASE UnknownKey
  BY <1>3, NextWordInside DEF UnknownKey, ReadingKey
<1>4. CASE AttachedValue \/ NoValue
  BY <1>4, NextWordInside DEF AttachedValue, NoValue, UseLast, ReadingValue, ReadingKey
<1>5. CASE NextValue
  BY <1>5, NextWordInside DEF NextValue, UseLast, ReadingValue, ReadingKey
<1>6. CASE Flag
  <2>1. /\ Reading /\ IsShort(Token) /\ k <= Len(Token)
        /\ k' = k + 1 /\ i' = i /\ argv' = argv
    BY <1>6 DEF Flag, ReadingKey, call
  <2>2. i \in 1 .. Len(argv) /\ Len(argv[i]) \in Nat /\ k \in Nat /\ k >= 2
    BY <2>1, CursorAtWord DEF CursorInv, Token
  <2>3. k' <= Len(argv[i]) + 1 /\ k' > k
    BY <2>1, <2>2 DEF Token
  <2> QED BY <2>1, <2>2, <2>3 DEF CursorInv
<1>7. CASE Finish
  BY <1>7 DEF Finish, CursorInv, call
<1>8. CASE Return
  BY <1>8 DEF Return, CursorInv
<1> QED BY <1>1, <1>2, <1>3, <1>4, <1>5, <1>6, <1>7, <1>8 DEF ParseStep

(* parse() begins at its first word.                                       *)
LEMMA ParseBegins ==
  ASSUME Parse
  PROVE  CursorInv'
<1>1. PICK n \in 0 .. MaxWords : argv' \in [1 .. n -> Tokens]
  BY DEF Parse
<1>2. n \in Nat /\ argv' \in Seq(Tokens) /\ Len(argv') = n
  BY <1>1, CatalogueAssumption
<1>3. i' = 1 /\ k' = 2
  BY DEF Parse
<1>4. 1 <= n => Len(argv'[1]) \in Nat
  BY <1>1, <1>2, CatalogueAssumption
<1> QED BY <1>2, <1>3, <1>4 DEF CursorInv

-----------------------------------------------------------------------------
(* The variable of one option is set, or one more is there.                *)
LEMMA StoredStays ==
  ASSUME NEW s, s \in Seq(Range(s)), NEW x
  PROVE  /\ Append(s, x) \in Seq(Range(Append(s, x))) /\ Len(Append(s, x)) = Len(s) + 1
         /\ \A o \in 1 .. Len(s) :
              LET t == [s EXCEPT ![o] = x] IN t \in Seq(Range(t)) /\ Len(t) = Len(s)
<1> DEFINE V == Range(s) \cup {x}
<1>1. s \in Seq(V) /\ x \in V
  OBVIOUS
<1> HIDE DEF V
<1>2. Append(s, x) \in Seq(V) /\ Len(Append(s, x)) = Len(s) + 1
  BY <1>1, AppendProperties
<1>3. ASSUME NEW o \in 1 .. Len(s)
      PROVE  [s EXCEPT ![o] = x] \in Seq(V) /\ Len([s EXCEPT ![o] = x]) = Len(s)
  BY <1>1, ExceptSeq
<1> QED BY <1>2, <1>3, SeqOfRange

(* find() finds an option or nothing.                                      *)
LEMMA FoundOption ==
  ASSUME RegistryInv, NEW x
  PROVE  /\ FindKey(x) = 0 \/ FindKey(x) \in 1 .. Len(opts)
         /\ FindName(x) = 0 \/ FindName(x) \in 1 .. Len(opts)
<1>1. Len(opt_list) \in Nat /\ \A n \in 1 .. Len(opt_list) : opt_list[n] \in 1 .. Len(opts)
  BY DEF RegistryInv
<1> DEFINE I == {n \in 1 .. Len(opt_list) : Config(opt_list[n]).key = x}
           J == {n \in 1 .. Len(opt_list) : Config(opt_list[n]).name = x}
<1>2. I \subseteq 1 .. Len(opt_list) /\ J \subseteq 1 .. Len(opt_list)
  OBVIOUS
<1>3. /\ FindKey(x) = LET n == IF I # {} THEN Min(I) ELSE 0 IN IF n = 0 THEN 0 ELSE opt_list[n]
      /\ FindName(x) = LET n == IF J # {} THEN Min(J) ELSE 0 IN IF n = 0 THEN 0 ELSE opt_list[n]
  BY DEF FindKey, FindName, Find, SelectInSeq
<1> HIDE DEF I, J
<1>4. I # {} => Min(I) \in 1 .. Len(opt_list)
  <2>1. I \subseteq Nat
    BY <1>1, <1>2
  <2> QED BY <1>2, <2>1, LeastNumber
<1>5. J # {} => Min(J) \in 1 .. Len(opt_list)
  <2>1. J \subseteq Nat
    BY <1>1, <1>2
  <2> QED BY <1>2, <2>1, LeastNumber
<1> QED BY <1>1, <1>3, <1>4, <1>5

(* The values that parse() cuts out of argv are strings.                   *)
LEMMA ValuesAreStrings ==
  ASSUME CursorInv, Reading
  PROVE  /\ LongValue(Token) = Absent \/ LongValue(Token) \in Seq(STRING)
         /\ Rest \in Seq(STRING)
         /\ i < Len(argv) => argv[i + 1] \in Seq(STRING)
<1>1. /\ i \in 1 .. Len(argv) /\ Len(argv) \in Nat
      /\ \A n \in 1 .. Len(argv) : argv[n] \in Seq(STRING)
  <2>1. \A n \in 1 .. Len(argv) : argv[n] \in Tokens
    BY DEF CursorInv
  <2> QED BY <2>1, CursorAtWord, CatalogueAssumption
<1>2. Token \in Seq(STRING) /\ Len(Token) \in Nat
  BY <1>1 DEF Token
<1>3. ASSUME NEW m \in Nat
      PROVE  SubSeq(Token, m + 1, Len(Token)) \in Seq(STRING)
  BY <1>2
<1>4. EqualSign(Token) \in Nat
  <2> DEFINE I == {n \in 1 .. Len(Token) : Token[n] = "="}
  <2>1. EqualSign(Token) = IF I # {} THEN Min(I) ELSE 0
    BY DEF EqualSign, SelectInSeq
  <2>2. I \subseteq Nat
    BY <1>2
  <2> HIDE DEF I
  <2>3. I # {} => Min(I) \in Nat
    BY <2>2, LeastNumber
  <2> QED BY <2>1, <2>3
<1>5. k \in Nat
  BY DEF CursorInv
<1>6. i < Len(argv) => argv[i + 1] \in Seq(STRING)
  BY <1>1
<1> QED BY <1>3, <1>4, <1>5, <1>6 DEF LongValue, Rest

(* What process() of an option leaves.                                     *)
EffectsKept ==
  /\ mode' \in Int /\ (mode # 0 => mode' = mode)
  /\ status' \in {"idle", "parse", "done", "error", "exit"}
  /\ stored' \in Seq(Range(stored')) /\ Len(stored') = Len(stored)

(* process() of an option that was found.                                  *)
LEMMA UseKeeps ==
  ASSUME RegistryInv, EffectsInv, NEW o \in 1 .. Len(opts), NEW given,
         given = Absent \/ given \in Seq(STRING), Use(o, given)
  PROVE  EffectsKept /\ status' \in {"parse", "error", "exit"}
<1> DEFINE was == Before(o, stored, mode)
           st  == Process(Config(o), was, given)
<1>1. stored' = [stored EXCEPT ![o] = st.value] /\ mode' = st.mode /\ status' = st.status
  BY DEF Use
<1>2. Running(was) /\ was.mode = mode
  BY DEF Before, Running, EffectsInv
<1>3. IsOption(Config(o))
  <2>1. opts[o] \in DOMAIN Catalogue
    BY DEF RegistryInv
  <2> QED BY <2>1, CatalogueAssumption DEF Config
<1> HIDE DEF was
<1>4. Sticks(was, st)
  BY <1>2, <1>3, ProcessSticks
<1> HIDE DEF st
<1>5. /\ stored' \in Seq(Range(stored')) /\ Len(stored') = Len(stored)
  <2> DEFINE v == st.value
             t == [stored EXCEPT ![o] = v]
  <2>1. o \in 1 .. Len(stored) /\ stored \in Seq(Range(stored))
    BY DEF EffectsInv, StoredInv
  <2> HIDE DEF v
  <2>2. t \in Seq(Range(t)) /\ Len(t) = Len(stored)
    BY <2>1, StoredStays
  <2>3. stored' = t
    BY <1>1 DEF v
  <2> HIDE DEF t
  <2> QED BY <2>2, <2>3
<1>6. mode' \in Int /\ (mode # 0 => mode' = mode) /\ status' \in {"parse", "error", "exit"}
  BY <1>1, <1>2, <1>4 DEF Sticks, Running
<1> QED BY <1>5, <1>6 DEF EffectsKept

(* An option that is not found, and steps without one.                     *)
LEMMA NothingUsed ==
  ASSUME EffectsInv, UNCHANGED effects,
         status' \in {"idle", "parse", "done", "error", "exit"}
  PROVE  EffectsKept
BY DEF EffectsInv, StoredInv, EffectsKept, effects

(* Each step that uses an option, or finds none: parse() goes on, or ends  *)
(* with an exception or with the process.                                  *)
LEMMA OptionStepKeepsEffects ==
  ASSUME RegistryInv, CursorInv, EffectsInv,
         LongOption \/ UnknownKey \/ Flag \/ AttachedValue \/ NextValue \/ NoValue
  PROVE  EffectsKept /\ status' \in {"parse", "error", "exit"}
<1>1. CASE LongOption
  <2> DEFINE o == FindName(LongName(Token))
  <2>1. Reading /\ IF o = 0 THEN Unknown ELSE Use(o, LongValue(Token))
    BY <1>1 DEF LongOption
  <2>2. o = 0 \/ o \in 1 .. Len(opts)
    BY FoundOption
  <2> HIDE DEF o
  <2>3. CASE o = 0
    <3>1. UNCHANGED effects /\ status' \in {"parse", "error"}
      BY <2>1, <2>3 DEF Unknown
    <3> QED BY <3>1, NothingUsed
  <2>4. CASE o # 0
    BY <2>1, <2>2, <2>4, ValuesAreStrings, UseKeeps
  <2> QED BY <2>3, <2>4
<1>2. CASE UnknownKey
  <2>1. UNCHANGED effects /\ status' \in {"parse", "error"}
    BY <1>2 DEF UnknownKey, Unknown
  <2> QED BY <2>1, NothingUsed
<1>3. CASE Flag \/ AttachedValue \/ NextValue \/ NoValue
  <2>1. PICK given : Reading /\ Opt # 0 /\ Use(Opt, given) /\ (given = Absent \/ given \in Seq(STRING))
    <3>1. CASE Flag
      BY <3>1 DEF Flag, ReadingKey
    <3>2. CASE AttachedValue
      BY <3>2, ValuesAreStrings DEF AttachedValue, ReadingValue, ReadingKey, UseLast
    <3>3. CASE NextValue
      BY <3>3, ValuesAreStrings DEF NextValue, ReadingValue, ReadingKey, UseLast
    <3>4. CASE NoValue
      BY <3>4 DEF NoValue, ReadingValue, ReadingKey, UseLast
    <3> QED BY <1>3, <3>1, <3>2, <3>3, <3>4
  <2>2. Opt \in 1 .. Len(opts)
    BY <2>1, FoundOption DEF Opt
  <2> QED BY <2>1, <2>2, UseKeeps
<1> QED BY <1>1, <1>2, <1>3

(* Each step of parse().                                                   *)
LEMMA StepKeepsEffects ==
  ASSUME RegistryInv, CursorInv, EffectsInv, ParseStep
  PROVE  EffectsKept
<1>1. CASE TakeWord \/ EndOfCluster \/ Finish \/ Return
  <2>1. status \in {"idle", "parse", "done", "error", "exit"}
    BY DEF EffectsInv
  <2>2. UNCHANGED effects /\ status' \in {"idle", "parse", "done", "error", "exit"}
    BY <1>1, <2>1 DEF TakeWord, EndOfCluster, Finish, Return
  <2> QED BY <2>2, NothingUsed
<1>2. CASE LongOption \/ UnknownKey \/ Flag \/ AttachedValue \/ NextValue \/ NoValue
  BY <1>2, OptionStepKeepsEffects
<1> QED BY <1>1, <1>2 DEF ParseStep

(* The bounds are numbers.                                                 *)
LEMMA Bounds == MaxWords \in Nat /\ MaxWork \in Nat
BY CatalogueAssumption

(* Every step keeps the types, and the shared int when it has been set.    *)
LEMMA NextKeepsEffects ==
  ASSUME IInv, [Next]_vars
  PROVE  EffectsInv' /\ (mode # 0 => mode' = mode)
<1>1. RegistryInv /\ CursorInv /\ EffectsInv
  BY DEF IInv
<1>2. CASE Register
  <2>1. /\ UNCHANGED <<mode, status, ignore>>
        /\ work' = work \/ (work < MaxWork /\ work' = work + 1)
    BY <1>2 DEF Register, AddOpt, AddHelp, RemoveKey, RemoveName, RemoveAll, Registering, call
  <2>3. work' \in 0 .. MaxWork
    BY <1>1, <2>1, Bounds DEF EffectsInv
  <2>2. StoredInv'
    <3>1. CASE AddOpt
      <4>1. PICK n : stored' = Append(stored, Catalogue[n].init) /\ opts' = Append(opts, n) /\ n \in DOMAIN Catalogue
        BY <3>1 DEF AddOpt
      <4>2. Len(opts') = Len(opts) + 1
        BY <1>1, <4>1 DEF RegistryInv
      <4> DEFINE x == Catalogue[n].init
      <4> HIDE DEF x
      <4>3. stored' = Append(stored, x)
        BY <4>1 DEF x
      <4> QED BY <1>1, <4>2, <4>3, StoredStays DEF EffectsInv, StoredInv
    <3>2. CASE AddHelp \/ RemoveKey \/ RemoveName \/ RemoveAll
      <4>1. UNCHANGED <<stored, opts>>
        BY <3>2 DEF AddHelp, RemoveKey, RemoveName, RemoveAll
      <4> QED BY <1>1, <4>1 DEF EffectsInv, StoredInv
    <3> QED BY <1>2, <3>1, <3>2 DEF Register
  <2> QED BY <1>1, <2>1, <2>2, <2>3 DEF EffectsInv
<1>3. CASE Parse
  <2>1. PICK n \in 0 .. MaxWords : work + n <= MaxWork /\ work' = work + n
    BY <1>3 DEF Parse
  <2>2. work' \in 0 .. MaxWork
    BY <1>1, <2>1, Bounds DEF EffectsInv
  <2>3. UNCHANGED <<opts, stored, mode>> /\ ignore' \in BOOLEAN /\ status' = "parse"
    BY <1>3 DEF Parse, registry, effects
  <2> QED BY <1>1, <2>2, <2>3 DEF EffectsInv, StoredInv
<1>4. CASE ParseStep
  <2>1. EffectsKept
    BY <1>1, <1>4, StepKeepsEffects
  <2>2. UNCHANGED <<opts, work>> /\ ignore' \in BOOLEAN
    BY <1>1, <1>4
       DEF ParseStep, TakeWord, LongOption, UnknownKey, Flag, AttachedValue, NextValue, NoValue,
           UseLast, EndOfCluster, Finish, Return, registry, call, EffectsInv
  <2> QED BY <1>1, <2>1, <2>2 DEF EffectsInv, StoredInv, EffectsKept
<1>5. CASE UNCHANGED vars
  BY <1>1, <1>5 DEF vars, registry, effects, call, EffectsInv, StoredInv
<1> QED BY <1>2, <1>3, <1>4, <1>5 DEF Next, Exit

(* The invariant holds at first.                                           *)
LEMMA InitIInv == Init => IInv
<1> SUFFICES ASSUME Init
             PROVE  IInv
  OBVIOUS
<1>1. RegistryInv /\ HelpLinesAlive /\ CursorInv
  BY DEF Init, RegistryInv, OptionsInOrder, HelpLinesAlive, CursorInv
<1>2. StoredInv
  <2>1. <<>> \in Seq(Range(<<>>))
    OBVIOUS
  <2> QED BY <2>1 DEF Init, StoredInv
<1>3. EffectsInv
  <2>1. mode = 0 /\ status = "idle" /\ work = 0 /\ ignore \in BOOLEAN
    BY Zenon DEF Init
  <2> QED BY <1>2, <2>1, Bounds DEF EffectsInv
<1> QED BY <1>1, <1>3 DEF IInv

(* The steps of a parse() leave the registry as it is.                     *)
LEMMA ParseKeepsRegistry ==
  ASSUME Parse \/ ParseStep
  PROVE  UNCHANGED registry
BY DEF Parse, ParseStep, TakeWord, LongOption, UnknownKey, Flag, AttachedValue, NextValue, NoValue,
       UseLast, EndOfCluster, Finish, Return, registry

(* Every step keeps the invariant.                                         *)
LEMMA NextIInv == IInv /\ [Next]_vars => IInv'
<1> SUFFICES ASSUME IInv, [Next]_vars
             PROVE  IInv'
  OBVIOUS
<1>1. RegistryInv /\ HelpLinesAlive /\ CursorInv /\ EffectsInv'
  BY NextKeepsEffects DEF IInv
<1>2. CASE Register
  <2>1. UNCHANGED <<argv, i, k, status>>
    BY <1>2 DEF Register, AddOpt, AddHelp, RemoveKey, RemoveName, RemoveAll, Registering, call
  <2>2. CursorInv'
    BY <1>1, <2>1 DEF CursorInv
  <2> QED BY <1>1, <1>2, <2>2, RegisterKeeps DEF IInv
<1>3. CASE Parse
  BY <1>1, <1>3, ParseBegins, ParseKeepsRegistry, SameRegistry DEF IInv
<1>4. CASE ParseStep
  BY <1>1, <1>4, StepMovesOn, ParseKeepsRegistry, SameRegistry DEF IInv
<1>5. CASE UNCHANGED vars
  <2>1. UNCHANGED registry /\ UNCHANGED <<argv, i, k, status>>
    BY <1>5 DEF vars, call
  <2>2. CursorInv'
    BY <1>1, <2>1 DEF CursorInv
  <2> QED BY <1>1, <2>1, <2>2, SameRegistry DEF IInv
<1> QED BY <1>2, <1>3, <1>4, <1>5 DEF Next, Exit

(* The invariant, in every state.                                          *)
THEOREM RegistryAndCursors == Spec => []IInv
BY InitIInv, NextIInv, PTL DEF Spec

(* get_help() follows the pointer of every line of the help: whatever is   *)
(* added and removed, by key or by name, every line that is not a message  *)
(* is an existing option's, and the lines are in the order of              *)
(* registration.                                                           *)
THEOREM HelpLinesStayAlive == Spec => []HelpLinesAlive
<1>1. IInv => HelpLinesAlive
  BY DEF IInv
<1> QED BY <1>1, RegistryAndCursors, PTL

(* parse() ends: every step of it returns, or moves on in the word that it *)
(* reads or to a later one.                                                *)
THEOREM ParseMovesOn == Spec => ParseAdvances
<1> DEFINE Moves == status = "parse" /\ status' = "parse" => i' > i \/ (i' = i /\ k' > k)
<1>1. IInv /\ [Next]_vars => [Moves]_vars
  <2> SUFFICES ASSUME IInv, Next
               PROVE  Moves \/ UNCHANGED vars
    OBVIOUS
  <2>1. CASE Register
    BY <2>1 DEF Register, AddOpt, AddHelp, RemoveKey, RemoveName, RemoveAll, Registering
  <2>2. CASE Parse
    BY <2>2 DEF Parse
  <2>3. CASE ParseStep
    BY <2>3, StepMovesOn DEF IInv
  <2>4. CASE Exit
    BY <2>4 DEF Exit
  <2> QED BY <2>1, <2>2, <2>3, <2>4 DEF Next
<1> HIDE DEF Moves
<1>2. Spec => [][Moves]_vars
  BY <1>1, RegistryAndCursors, PTL DEF Spec
<1> QED BY <1>2 DEF Moves, ParseAdvances

(* Types and ranges: the cursors stay inside of argv and of its words,     *)
(* option and help lists have numbers of options, whatever the options     *)
(* and the words are.                                                      *)
THEOREM TypeCorrect == Spec => []TypeOK
<1>1. IInv => TypeOK
  <2> SUFFICES ASSUME IInv
               PROVE  TypeOK
    OBVIOUS
  <2>1. k \in 2 .. IF status = "parse" /\ i <= Len(argv) /\ Len(argv[i]) > 1 THEN Len(argv[i]) + 1 ELSE k
    <3>1. status = "parse" /\ i <= Len(argv) => Len(argv[i]) \in Nat
      <4> SUFFICES ASSUME status = "parse", i <= Len(argv)
                   PROVE  Len(argv[i]) \in Nat
        OBVIOUS
      <4>1. Reading /\ CursorInv
        BY DEF IInv, Reading
      <4> QED BY <4>1, CursorAtWord DEF Token
    <3> QED BY <3>1 DEF IInv, CursorInv
  <2> QED BY <2>1 DEF IInv, RegistryInv, CursorInv, EffectsInv, StoredInv, TypeOK
<1> QED BY <1>1, RegistryAndCursors, PTL

(* A variable that can be set once keeps what it was set to, by whichever  *)
(* of several options, sub-options included, and in whichever parse().     *)
THEOREM SetOnceSticks == Spec => SetOnce
<1>1. IInv /\ [Next]_vars => [mode # 0 => mode' = mode]_vars
  BY NextKeepsEffects
<1> QED BY <1>1, RegistryAndCursors, PTL DEF Spec, SetOnce

-----------------------------------------------------------------------------
(***************************************************************************)
(* argv read as a whole.                                                   *)
(***************************************************************************)

(* Counting up: what holds of 0 and of the number behind each for which it *)
(* does, holds of all.                                                     *)
LEMMA CountUp ==
  ASSUME NEW N \in Nat, NEW S, 0 \in S, \A m \in 0 .. N - 1 : m \in S => m + 1 \in S
  PROVE  \A m \in 0 .. N : m \in S
<1> DEFINE Bad == {m \in 0 .. N : m \notin S}
<1>1. SUFFICES ASSUME Bad # {}
               PROVE  FALSE
  OBVIOUS
<1>2. Bad \subseteq Nat
  OBVIOUS
<1> DEFINE d == Min(Bad)
<1>3. d \in Bad /\ \A n \in Bad : d <= n
  <2> HIDE DEF Bad
  <2> QED BY <1>1, <1>2, LeastNumber
<1> HIDE DEF d
<1>4. d \in 0 .. N /\ d \notin S /\ d # 0
  BY <1>3
<1>5. d - 1 \in 0 .. N - 1 /\ d - 1 \notin Bad /\ (d - 1) + 1 = d
  <2>1. d - 1 \in 0 .. N - 1 /\ (d - 1) + 1 = d /\ ~(d <= d - 1)
    BY <1>4
  <2> HIDE DEF Bad
  <2> QED BY <1>3, <2>1
<1>6. d - 1 \in S
  BY <1>4, <1>5
<1> QED BY <1>4, <1>5, <1>6
-----------------------------------------------------------------------------
(* Which words of argv are values: a word is one if the word before awaits *)
(* it and is none itself.                                                  *)
Alternates(f, N, A) == f = [n \in 1 .. N |-> n > 1 /\ A[n - 1] /\ ~f[n - 1]]

(* There is such a function. *)
LEMMA AlternationExists ==
  ASSUME NEW N \in Nat, NEW A
  PROVE  \E f : Alternates(f, N, A)
<1> DEFINE S == {m \in 0 .. N : \E f : Alternates(f, m, A)}
<1>1. 0 \in S
  <2> DEFINE f == [n \in 1 .. 0 |-> FALSE]
  <2>1. Alternates(f, 0, A)
    BY DEF Alternates
  <2> QED BY <2>1
<1>2. ASSUME NEW m \in 0 .. N - 1, m \in S
      PROVE  m + 1 \in S
  <2>1. PICK f : Alternates(f, m, A)
    BY <1>2
  <2>2. \A n \in 1 .. m : f[n] = (n > 1 /\ A[n - 1] /\ ~f[n - 1])
    BY <2>1 DEF Alternates
  <2> DEFINE g == [n \in 1 .. m + 1 |-> n > 1 /\ A[n - 1] /\ ~f[n - 1]]
  <2>3. \A n \in 1 .. m : g[n] = f[n]
    BY <2>2
  <2>4. \A n \in 1 .. m + 1 : (n > 1 /\ A[n - 1] /\ ~f[n - 1]) = (n > 1 /\ A[n - 1] /\ ~g[n - 1])
    <3> SUFFICES ASSUME NEW n \in 1 .. m + 1
                 PROVE  n > 1 => f[n - 1] = g[n - 1]
      OBVIOUS
    <3>1. n > 1 => n - 1 \in 1 .. m
      OBVIOUS
    <3> HIDE DEF g
    <3> QED BY <2>3, <3>1
  <2>5. g = [n \in 1 .. m + 1 |-> n > 1 /\ A[n - 1] /\ ~g[n - 1]]
    <3> HIDE DEF g
    <3>1. g = [n \in 1 .. m + 1 |-> n > 1 /\ A[n - 1] /\ ~f[n - 1]]
      BY DEF g
    <3> QED BY <2>4, <3>1
  <2>6. Alternates(g, m + 1, A)
    BY <2>5 DEF Alternates
  <2> QED BY <2>6
<1> HIDE DEF S
<1>3. N \in S
  BY <1>1, <1>2, CountUp
<1> QED BY <1>3 DEF S

(* The words that are values, by the word before. *)
LEMMA ValueWordsByTheWordBefore ==
  ASSUME Len(argv) \in Nat, DOMAIN argv = 1 .. Len(argv)
  PROVE  /\ ValueWords \subseteq 1 .. Len(argv)
         /\ \A n \in 1 .. Len(argv) :
              n \in ValueWords <=> n > 1 /\ AwaitsValue(argv[n - 1]) /\ n - 1 \notin ValueWords
<1> DEFINE N  == Len(argv)
           A  == [n \in 1 .. N |-> AwaitsValue(argv[n])]
           is == CHOOSE f : f = [n \in 1 .. N |-> n > 1 /\ AwaitsValue(argv[n - 1]) /\ ~f[n - 1]]
<1>1. ValueWords = {n \in DOMAIN argv : is[n]}
  BY DEF ValueWords
<1>2. ASSUME NEW f
      PROVE  Alternates(f, N, A) <=> f = [n \in 1 .. N |-> n > 1 /\ AwaitsValue(argv[n - 1]) /\ ~f[n - 1]]
  <2>1. \A n \in 1 .. N : (n > 1 /\ A[n - 1] /\ ~f[n - 1]) = (n > 1 /\ AwaitsValue(argv[n - 1]) /\ ~f[n - 1])
    OBVIOUS
  <2> HIDE DEF A
  <2> QED BY <2>1 DEF Alternates
<1>3. \E f : Alternates(f, N, A)
  <2> HIDE DEF N, A
  <2> QED BY AlternationExists DEF N
<1>4. is = [n \in 1 .. N |-> n > 1 /\ AwaitsValue(argv[n - 1]) /\ ~is[n - 1]]
  BY <1>2, <1>3
<1> HIDE DEF is
<1>5. \A n \in 1 .. N : is[n] = (n > 1 /\ AwaitsValue(argv[n - 1]) /\ ~is[n - 1])
  BY <1>4
<1>6. ASSUME NEW n \in 1 .. N
      PROVE  n \in ValueWords <=> n > 1 /\ AwaitsValue(argv[n - 1]) /\ n - 1 \notin ValueWords
  <2>1. n \in ValueWords <=> is[n]
    BY <1>1, <1>6
  <2>2. CASE n = 1
    <3>1. ~(n > 1)
      BY <2>2
    <3>2. is[n] = FALSE
      BY <1>5, <3>1
    <3> QED BY <2>1, <3>1, <3>2
  <2>3. CASE n > 1
    <3>1. n - 1 \in 1 .. N
      BY <2>3
    <3>2. n - 1 \in ValueWords <=> is[n - 1]
      BY <1>1, <3>1
    <3> QED BY <1>5, <2>1, <2>3, <3>2
  <2> QED BY <2>2, <2>3
<1> QED BY <1>1, <1>6
-----------------------------------------------------------------------------
(* The words of argv by the places W that belong to them. *)
Collects(f, N, W, w) ==
  f = [n \in 0 .. N |-> IF n = 0 THEN <<>> ELSE IF n \in W THEN Append(f[n - 1], w[n]) ELSE f[n - 1]]

(* There is such a function. *)
LEMMA CollectionExists ==
  ASSUME NEW N \in Nat, NEW W, NEW w
  PROVE  \E f : Collects(f, N, W, w)
<1> DEFINE To(f, n) == IF n = 0 THEN <<>> ELSE IF n \in W THEN Append(f[n - 1], w[n]) ELSE f[n - 1]
           S == {m \in 0 .. N : \E f : Collects(f, m, W, w)}
<1>1. 0 \in S
  <2> DEFINE f == [n \in 0 .. 0 |-> <<>>]
  <2>1. Collects(f, 0, W, w)
    BY DEF Collects
  <2> QED BY <2>1
<1>2. ASSUME NEW m \in 0 .. N - 1, m \in S
      PROVE  m + 1 \in S
  <2>1. PICK f : Collects(f, m, W, w)
    BY <1>2
  <2>2. \A n \in 0 .. m : f[n] = To(f, n)
    BY <2>1 DEF Collects
  <2> DEFINE g == [n \in 0 .. m + 1 |-> To(f, n)]
  <2>3. \A n \in 0 .. m : g[n] = f[n]
    <3> HIDE DEF To
    <3> QED BY <2>2
  <2>4. \A n \in 0 .. m + 1 : To(f, n) = To(g, n)
    <3> SUFFICES ASSUME NEW n \in 0 .. m + 1
                 PROVE  n # 0 => f[n - 1] = g[n - 1]
      OBVIOUS
    <3>1. n # 0 => n - 1 \in 0 .. m
      OBVIOUS
    <3> HIDE DEF g
    <3> QED BY <2>3, <3>1
  <2>5. g = [n \in 0 .. m + 1 |-> To(g, n)]
    <3>1. g = [n \in 0 .. m + 1 |-> To(f, n)]
      OBVIOUS
    <3> HIDE DEF g, To
    <3> QED BY <2>4, <3>1
  <2>6. Collects(g, m + 1, W, w)
    <3> HIDE DEF g
    <3> QED BY <2>5 DEF Collects
  <2> QED BY <2>6
<1> HIDE DEF S
<1>3. N \in S
  BY <1>1, <1>2, CountUp
<1> QED BY <1>3 DEF S

(* The words up to a place, by those up to the place before.               *)
LEMMA WordsByTheWordBefore ==
  ASSUME Len(argv) \in Nat
  PROVE  /\ WordsTo[0] = <<>>
         /\ \A n \in 1 .. Len(argv) :
              WordsTo[n] = IF IsWord(argv[n]) /\ n \notin ValueWords
                             THEN Append(WordsTo[n - 1], argv[n]) ELSE WordsTo[n - 1]
<1> DEFINE N == Len(argv)
           W == {n \in 1 .. N : IsWord(argv[n]) /\ n \notin ValueWords}
           To(f, n) == IF n = 0 THEN <<>>
                       ELSE IF IsWord(argv[n]) /\ n \notin ValueWords THEN Append(f[n - 1], argv[n]) ELSE f[n - 1]
<1>1. ASSUME NEW f
      PROVE  Collects(f, N, W, argv) <=> f = [n \in 0 .. N |-> To(f, n)]
  <2>1. \A n \in 0 .. N : (IF n = 0 THEN <<>> ELSE IF n \in W THEN Append(f[n - 1], argv[n]) ELSE f[n - 1]) = To(f, n)
    OBVIOUS
  <2> HIDE DEF W, To
  <2> QED BY <2>1 DEF Collects
<1>2. \E f : Collects(f, N, W, argv)
  <2> HIDE DEF N, W
  <2> QED BY CollectionExists DEF N
<1>3. WordsTo = CHOOSE f : f = [n \in 0 .. N |-> To(f, n)]
  BY DEF WordsTo
<1>4. WordsTo = [n \in 0 .. N |-> To(WordsTo, n)]
  <2> HIDE DEF N, W, To
  <2> QED BY <1>1, <1>2, <1>3
<1>5. \A n \in 0 .. N : WordsTo[n] = To(WordsTo, n)
  <2> HIDE DEF To
  <2> QED BY <1>4
<1> QED BY <1>5
-----------------------------------------------------------------------------
(* A character ends its cluster: it is unknown, or takes a value.          *)
Ends(c) == FindKey(c) = 0 \/ TakesValue(FindKey(c))

(* parse() is not at a word that is a value, and in a cluster not behind   *)
(* the character that ends it; it has collected the words up to here.      *)
AtWord    == status = "parse" /\ i <= Len(argv) => i \notin ValueWords
InCluster == status = "parse" /\ i <= Len(argv) /\ IsShort(argv[i]) => \A m \in 2 .. k - 1 : ~Ends(argv[i][m])
Collected == status # "idle" => arg_list = WordsTo[i - 1]
AtEnd     == status = "done" => i = Len(argv) + 1

ReadingInv == AtWord /\ InCluster /\ Collected /\ AtEnd

(* Where a cluster ends. *)
LEMMA StopsAtFirstEnd ==
  ASSUME NEW token, Len(token) \in Nat, NEW n \in Nat, n >= 2, n <= Len(token) + 1,
         \A m \in 2 .. n - 1 : ~Ends(token[m]),
         n <= Len(token) => Ends(token[n])
  PROVE  Stop(token) = n
<1> DEFINE I == {m \in 2 .. Len(token) : FindKey(token[m]) = 0 \/ TakesValue(FindKey(token[m]))}
                  \cup {Len(token) + 1}
<1>1. Stop(token) = Min(I)
  BY DEF Stop
<1>2. I \subseteq Nat /\ n \in I
  BY DEF Ends
<1>3. \A m \in I : m >= n
  <2> SUFFICES ASSUME NEW m \in I, m < n
               PROVE  FALSE
    BY <1>2
  <2>1. m \in 2 .. Len(token) /\ Ends(token[m])
    BY DEF Ends
  <2> QED BY <2>1
<1> HIDE DEF I
<1>4. Min(I) \in I /\ Min(I) <= n
  BY <1>2, LeastNumber
<1>5. Min(I) \in Nat /\ Min(I) >= n /\ Min(I) <= n
  BY <1>2, <1>3, <1>4
<1> QED BY <1>1, <1>5

(* The character that parse() reads, and the end of the cluster.           *)
LEMMA StopOfToken ==
  ASSUME CursorInv, InCluster, Reading, IsShort(Token)
  PROVE  /\ k <= Len(Token) /\ Ends(Token[k]) => Stop(Token) = k
         /\ k > Len(Token) => Stop(Token) = Len(Token) + 1
<1>1. Len(Token) \in Nat /\ k \in Nat /\ k >= 2 /\ Token = argv[i]
  BY CursorAtWord DEF CursorInv, Token
<1>2. \A m \in 2 .. k - 1 : ~Ends(Token[m])
  BY DEF InCluster, Reading, Token
<1>3. ASSUME k <= Len(Token), Ends(Token[k])
      PROVE  Stop(Token) = k
  BY <1>1, <1>2, <1>3, StopsAtFirstEnd
<1>4. ASSUME k > Len(Token)
      PROVE  Stop(Token) = Len(Token) + 1
  <2>1. Len(Token) + 1 >= 2
    <3>1. Token # <<>>
      BY DEF IsShort, IsWord
    <3>2. Token \in Seq(STRING)
      BY CursorAtWord, CatalogueAssumption DEF CursorInv, Token
    <3> QED BY <1>1, <3>1, <3>2
  <2> QED BY <1>1, <1>2, <1>4, <2>1, StopsAtFirstEnd
<1> QED BY <1>3, <1>4
-----------------------------------------------------------------------------
(* What parse() passes over: behind each step to the next word, that word  *)
(* is not a value, and behind a value that was used, the value is one.     *)
LEMMA NextWordIsNoValue ==
  ASSUME CursorInv, AtWord, InCluster, Reading,
         TakeWord \/ LongOption \/ UnknownKey \/ AttachedValue \/ NoValue \/ EndOfCluster
  PROVE  i + 1 <= Len(argv) => i + 1 \notin ValueWords
<1>1. i \in 1 .. Len(argv) /\ Len(argv) \in Nat /\ Token = argv[i] /\ Len(Token) \in Nat /\ k \in Nat
  BY CursorAtWord DEF Token, CursorInv
<1>2. i + 1 < Len(argv) + 1 => (i + 1 \in ValueWords <=> i + 1 > 1 /\ AwaitsValue(Token) /\ i \notin ValueWords)
  <2>1. DOMAIN argv = 1 .. Len(argv)
    BY DEF CursorInv
  <2>2. i + 1 < Len(argv) + 1 => i + 1 \in 1 .. Len(argv) /\ (i + 1) - 1 = i
    BY <1>1
  <2> QED BY <1>1, <2>1, <2>2, ValueWordsByTheWordBefore
<1>3. CASE TakeWord \/ LongOption
  BY <1>1, <1>2, <1>3 DEF TakeWord, LongOption, AwaitsValue, IsShort
<1>4. CASE UnknownKey
  <2>1. k <= Len(Token) /\ Opt = 0 /\ IsShort(Token)
    BY <1>4 DEF UnknownKey, ReadingKey
  <2>2. Stop(Token) = k /\ FindKey(Token[k]) = 0
    BY <2>1, StopOfToken DEF Ends, Opt
  <2>3. ~AwaitsValue(Token)
    BY <2>2 DEF AwaitsValue
  <2> QED BY <1>1, <1>2, <2>3
<1>5. CASE AttachedValue
  <2>1. k <= Len(Token) /\ Opt # 0 /\ TakesValue(Opt) /\ IsShort(Token) /\ Rest # <<>>
    BY <1>5 DEF AttachedValue, ReadingValue, ReadingKey
  <2>2. Stop(Token) = k
    BY <2>1, StopOfToken DEF Ends, Opt
  <2>3. k # Len(Token)
    <3> SUFFICES ASSUME k = Len(Token)
                 PROVE  FALSE
      OBVIOUS
    <3>1. Token \in Seq(STRING)
      BY CursorAtWord, CatalogueAssumption DEF CursorInv, Token
    <3>2. SubSeq(Token, k + 1, Len(Token)) = <<>>
      BY <1>1, <3>1
    <3> QED BY <2>1, <3>2 DEF Rest
  <2>4. ~AwaitsValue(Token)
    BY <2>2, <2>3 DEF AwaitsValue
  <2> QED BY <1>1, <1>2, <2>4
<1>6. CASE NoValue
  <2>1. k <= Len(Token) /\ Opt # 0 /\ TakesValue(Opt) /\ IsShort(Token) /\ (NeedsValue(Opt) => i = Len(argv))
    BY <1>6 DEF NoValue, ReadingValue, ReadingKey
  <2>2. Stop(Token) = k
    BY <2>1, StopOfToken DEF Ends, Opt
  <2>3. AwaitsValue(Token) => NeedsValue(Opt)
    BY <2>2 DEF AwaitsValue, Opt
  <2> QED BY <1>1, <1>2, <2>1, <2>3
<1>7. CASE EndOfCluster
  <2>1. k > Len(Token) /\ IsShort(Token)
    BY <1>7 DEF EndOfCluster
  <2>2. Stop(Token) = Len(Token) + 1
    BY <2>1, StopOfToken
  <2>3. ~AwaitsValue(Token)
    BY <1>1, <2>2 DEF AwaitsValue
  <2> QED BY <1>1, <1>2, <2>3
<1> QED BY <1>3, <1>4, <1>5, <1>6, <1>7

(* The word behind a cluster whose last option needs a value.              *)
LEMMA NextWordIsItsValue ==
  ASSUME CursorInv, AtWord, InCluster, NextValue
  PROVE  /\ i + 1 \in 1 .. Len(argv) /\ i + 1 \in ValueWords
         /\ i + 2 <= Len(argv) => i + 2 \notin ValueWords
         /\ AwaitsValue(Token) /\ Stop(Token) = Len(Token) /\ k = Len(Token)
<1>1. /\ Reading /\ k <= Len(Token) /\ Opt # 0 /\ TakesValue(Opt) /\ NeedsValue(Opt) /\ IsShort(Token)
      /\ Rest = <<>> /\ i < Len(argv)
  BY DEF NextValue, ReadingValue, ReadingKey
<1>2. i \in 1 .. Len(argv) /\ Len(argv) \in Nat /\ Token = argv[i] /\ Len(Token) \in Nat /\ k \in Nat
  BY <1>1, CursorAtWord DEF Token, CursorInv
<1>3. Stop(Token) = k
  BY <1>1, StopOfToken DEF Ends, Opt
<1>4. k = Len(Token)
  <2> SUFFICES ASSUME k < Len(Token)
               PROVE  FALSE
    BY <1>1, <1>2
  <2>1. Token \in Seq(STRING)
    BY <1>1, CursorAtWord, CatalogueAssumption DEF CursorInv, Token
  <2>2. Len(SubSeq(Token, k + 1, Len(Token))) = Len(Token) - k
    BY <1>2, <2>1
  <2>3. Len(Rest) = Len(Token) - k
    BY <2>2 DEF Rest
  <2>4. Len(Rest) = 0
    BY <1>1
  <2> QED BY <1>2, <2>3, <2>4
<1>5. AwaitsValue(Token)
  BY <1>1, <1>3, <1>4 DEF AwaitsValue, Opt
<1>6. DOMAIN argv = 1 .. Len(argv)
  BY DEF CursorInv
<1>7. i + 1 \in ValueWords
  <2>1. i + 1 \in 1 .. Len(argv) /\ (i + 1) - 1 = i /\ i \notin ValueWords
    BY <1>1, <1>2 DEF AtWord, Reading
  <2> QED BY <1>2, <1>5, <1>6, <2>1, ValueWordsByTheWordBefore
<1>8. i + 2 <= Len(argv) => i + 2 \notin ValueWords
  <2>1. i + 2 <= Len(argv) => i + 2 \in 1 .. Len(argv) /\ (i + 2) - 1 = i + 1
    BY <1>2
  <2> QED BY <1>2, <1>6, <1>7, <2>1, ValueWordsByTheWordBefore
<1> QED BY <1>1, <1>2, <1>3, <1>4, <1>5, <1>7, <1>8
-----------------------------------------------------------------------------
(* As long as argv and the registry stay, argv is read in the same way.    *)
LEMMA SameReading ==
  ASSUME UNCHANGED <<argv, opts, opt_list>>
  PROVE  /\ ValueWords' = ValueWords /\ WordsTo' = WordsTo
         /\ \A c : Ends(c)' = Ends(c)
<1>1. ValueWords' = ValueWords
  BY DEF ValueWords, AwaitsValue, IsShort, IsWord, IsLong, Stop, FindKey, Find, SelectInSeq,
         TakesValue, NeedsValue, Config
<1>2. WordsTo' = WordsTo
  BY <1>1 DEF WordsTo, IsWord
<1>3. \A c : Ends(c)' = Ends(c)
  BY DEF Ends, FindKey, Find, SelectInSeq, TakesValue, Config
<1> QED BY <1>1, <1>2, <1>3

(* To a word that is not a value, with all words before it.                *)
LEMMA GoesToWord ==
  ASSUME NEW n \in Nat, ToToken(n), UNCHANGED <<argv, opts, opt_list>>,
         status' \in {"parse", "error", "exit"},
         n <= Len(argv) => n \notin ValueWords, arg_list' = WordsTo[n - 1]
  PROVE  ReadingInv'
<1>1. ValueWords' = ValueWords /\ WordsTo' = WordsTo
  BY SameReading
<1>2. i' = n /\ k' = 2 /\ argv' = argv
  BY DEF ToToken
<1>3. AtWord'
  BY <1>1, <1>2 DEF AtWord
<1>4. InCluster'
  <2>1. \A m \in 2 .. k' - 1 : FALSE
    BY <1>2
  <2> QED BY <2>1 DEF InCluster
<1>5. Collected' /\ AtEnd'
  BY <1>1, <1>2 DEF Collected, AtEnd
<1> QED BY <1>3, <1>4, <1>5 DEF ReadingInv

(* Each step of parse().                                                   *)
LEMMA StepKeepsReading ==
  ASSUME RegistryInv, CursorInv, EffectsInv, ReadingInv, ParseStep
  PROVE  ReadingInv'
<1>1. AtWord /\ InCluster /\ Collected /\ AtEnd
  BY DEF ReadingInv
<1>2. ASSUME Reading
      PROVE  /\ i \in 1 .. Len(argv) /\ Len(argv) \in Nat /\ Token = argv[i]
             /\ i \notin ValueWords /\ arg_list = WordsTo[i - 1] /\ status = "parse"
             /\ WordsTo[i] = IF IsWord(Token) THEN Append(arg_list, Token) ELSE arg_list
  <2>1. i \in 1 .. Len(argv) /\ Len(argv) \in Nat
    BY <1>2, CursorAtWord
  <2>2. i \notin ValueWords /\ arg_list = WordsTo[i - 1] /\ status = "parse"
    BY <1>1, <1>2, <2>1 DEF AtWord, Collected, Reading
  <2> QED BY <2>1, <2>2, WordsByTheWordBefore DEF Token
<1>3. CASE LongOption \/ UnknownKey \/ AttachedValue \/ NoValue \/ EndOfCluster \/ TakeWord
  <2>1. Reading /\ ToToken(i + 1) /\ UNCHANGED <<argv, opts, opt_list>>
    BY <1>3 DEF LongOption, UnknownKey, AttachedValue, NoValue, EndOfCluster, TakeWord, UseLast,
                ReadingValue, ReadingKey, registry, call
  <2>2. arg_list' = WordsTo[i]
    <3>1. CASE TakeWord
      BY <1>2, <2>1, <3>1 DEF TakeWord
    <3>2. CASE LongOption \/ UnknownKey \/ AttachedValue \/ NoValue \/ EndOfCluster
      <4>1. ~IsWord(Token) /\ arg_list' = arg_list
        BY <3>2 DEF LongOption, UnknownKey, AttachedValue, NoValue, EndOfCluster, UseLast,
                    ReadingValue, ReadingKey, IsLong, IsShort
      <4> QED BY <1>2, <2>1, <4>1
    <3> QED BY <1>3, <3>1, <3>2
  <2>3. status' \in {"parse", "error", "exit"}
    <3>1. CASE TakeWord \/ EndOfCluster
      BY <1>2, <2>1, <3>1 DEF TakeWord, EndOfCluster
    <3> QED BY <1>3, <3>1, OptionStepKeepsEffects
  <2>4. i + 1 <= Len(argv) => i + 1 \notin ValueWords
    BY <1>1, <1>3, <2>1, NextWordIsNoValue
  <2>5. i + 1 \in Nat /\ (i + 1) - 1 = i
    BY <1>2, <2>1
  <2> QED BY <2>1, <2>2, <2>3, <2>4, <2>5, GoesToWord
<1>4. CASE NextValue
  <2>1. Reading /\ ToToken(i + 2) /\ UNCHANGED <<argv, opts, opt_list, arg_list>> /\ ~IsWord(Token)
    BY <1>4 DEF NextValue, UseLast, ReadingValue, ReadingKey, IsShort, registry, call
  <2>2. status' \in {"parse", "error", "exit"}
    BY <1>4, OptionStepKeepsEffects
  <2>3. /\ i + 1 \in 1 .. Len(argv) /\ i + 1 \in ValueWords
        /\ i + 2 <= Len(argv) => i + 2 \notin ValueWords
    BY <1>1, <1>4, NextWordIsItsValue
  <2>4. i + 2 \in Nat /\ (i + 2) - 1 = i + 1 /\ (i + 1) - 1 = i
    BY <1>2, <2>1
  <2>5. WordsTo[i + 1] = WordsTo[i]
    BY <1>2, <2>1, <2>3, <2>4, WordsByTheWordBefore
  <2>6. arg_list' = WordsTo[(i + 2) - 1]
    BY <1>2, <2>1, <2>4, <2>5
  <2> QED BY <2>1, <2>2, <2>3, <2>4, <2>6, GoesToWord
<1>5. CASE Flag
  <2>1. /\ Reading /\ IsShort(Token) /\ k <= Len(Token) /\ ~Ends(Token[k])
        /\ i' = i /\ k' = k + 1 /\ UNCHANGED <<argv, opts, opt_list, arg_list>>
    BY <1>5 DEF Flag, ReadingKey, Opt, Ends, registry, call
  <2>2. status' \in {"parse", "error", "exit"}
    BY <1>5, OptionStepKeepsEffects
  <2>3. AtWord' /\ Collected' /\ AtEnd'
    BY <1>2, <2>1, <2>2, SameReading DEF AtWord, Collected, AtEnd
  <2>4. \A m \in 2 .. k' - 1 : ~Ends(argv[i][m])
    <3> SUFFICES ASSUME NEW m \in 2 .. k
                 PROVE  ~Ends(argv[i][m])
      BY <2>1 DEF CursorInv
    <3>1. CASE m = k
      BY <2>1, <3>1 DEF Token
    <3>2. CASE m # k
      <4>1. m \in 2 .. k - 1
        BY <3>2 DEF CursorInv
      <4> QED BY <1>1, <2>1, <4>1 DEF InCluster, Reading, Token
    <3> QED BY <3>1, <3>2
  <2>5. InCluster'
    BY <2>1, <2>4, SameReading DEF InCluster
  <2> QED BY <2>3, <2>5 DEF ReadingInv
<1>6. CASE Finish
  <2>1. /\ i > Len(argv) /\ status = "parse" /\ status' = "done"
        /\ UNCHANGED <<i, k, argv, opts, opt_list, arg_list>>
    BY <1>6 DEF Finish, registry, call
  <2>2. i = Len(argv) + 1
    BY <2>1 DEF CursorInv
  <2> QED BY <1>1, <2>1, <2>2, SameReading DEF AtWord, InCluster, Collected, AtEnd, ReadingInv
<1>7. CASE Return
  BY <1>7 DEF Return, AtWord, InCluster, Collected, AtEnd, ReadingInv
<1> QED BY <1>3, <1>4, <1>5, <1>6, <1>7 DEF ParseStep
-----------------------------------------------------------------------------
(* At the first word nothing is collected, and it is no value.             *)
LEMMA BeginsWithoutWords ==
  argv \in Seq(Tokens) => WordsTo[0] = <<>> /\ 1 \notin ValueWords
<1> SUFFICES ASSUME argv \in Seq(Tokens)
             PROVE  WordsTo[0] = <<>> /\ 1 \notin ValueWords
  OBVIOUS
<1>1. Len(argv) \in Nat /\ DOMAIN argv = 1 .. Len(argv)
  OBVIOUS
<1>2. 1 \in ValueWords => 1 \in 1 .. Len(argv) /\ 1 > 1
  BY <1>1, ValueWordsByTheWordBefore
<1> QED BY <1>1, <1>2, WordsByTheWordBefore

(* It reads in this way from the first word on.                            *)
LEMMA ParseBeginsReading ==
  ASSUME Parse
  PROVE  ReadingInv'
<1>1. (argv \in Seq(Tokens) => WordsTo[0] = <<>> /\ 1 \notin ValueWords)'
  BY BeginsWithoutWords, PTL
<1>2. argv' \in Seq(Tokens)
  BY ParseBegins DEF CursorInv
<1>3. i' = 1 /\ k' = 2 /\ status' = "parse" /\ arg_list' = <<>>
  BY DEF Parse
<1>4. \A m \in 2 .. k' - 1 : FALSE
  BY <1>3
<1> QED BY <1>1, <1>2, <1>3, <1>4 DEF ReadingInv, AtWord, InCluster, Collected, AtEnd

(* Whatever is not parse() leaves no word read.                            *)
LEMMA NextReadingInv ==
  ASSUME IInv, ReadingInv, [Next]_vars
  PROVE  ReadingInv'
<1>1. CASE Register
  <2>1. status' = "idle"
    BY <1>1 DEF Register, AddOpt, AddHelp, RemoveKey, RemoveName, RemoveAll, Registering
  <2> QED BY <2>1 DEF ReadingInv, AtWord, InCluster, Collected, AtEnd
<1>2. CASE Parse
  BY <1>2, ParseBeginsReading
<1>3. CASE ParseStep
  BY <1>3, StepKeepsReading DEF IInv
<1>4. CASE UNCHANGED vars
  <2>1. UNCHANGED <<argv, opts, opt_list, arg_list, i, k, status>>
    BY <1>4 DEF vars, registry, call
  <2> QED BY <2>1, SameReading DEF ReadingInv, AtWord, InCluster, Collected, AtEnd, IsShort, IsLong, IsWord
<1> QED BY <1>1, <1>2, <1>3, <1>4 DEF Next, Exit

(* More words are only added behind those that are there.                  *)
LEMMA WordsOnlyAdded ==
  ASSUME argv \in Seq(Tokens), NEW n \in 0 .. Len(argv)
  PROVE  IsPrefix(WordsTo[n], Words) /\ WordsTo[n] \in Seq(Tokens)
<1> DEFINE N == Len(argv)
           S == {m \in 0 .. N : WordsTo[m] \in Seq(Tokens)}
           T == {m \in 0 .. N - n : IsPrefix(WordsTo[n], WordsTo[n + m])}
<1>1. N \in Nat /\ \A m \in 1 .. N : argv[m] \in Tokens
  OBVIOUS
<1>2. /\ WordsTo[0] = <<>>
      /\ \A m \in 1 .. N : WordsTo[m] = WordsTo[m - 1] \/ WordsTo[m] = Append(WordsTo[m - 1], argv[m])
  BY <1>1, WordsByTheWordBefore
<1> HIDE DEF N
<1>3. \A m \in 0 .. N : WordsTo[m] \in Seq(Tokens)
  <2>1. 0 \in S
    <3>1. <<>> \in Seq(Tokens) /\ 0 \in 0 .. N
      BY <1>1
    <3> QED BY <1>2, <3>1
  <2>2. ASSUME NEW m \in 0 .. N - 1, m \in S
        PROVE  m + 1 \in S
    <3>1. m + 1 \in 1 .. N /\ (m + 1) - 1 = m /\ m + 1 \in 0 .. N
      BY <1>1
    <3>2. WordsTo[m] \in Seq(Tokens) /\ argv[m + 1] \in Tokens
      BY <1>1, <2>2, <3>1
    <3>3. Append(WordsTo[m], argv[m + 1]) \in Seq(Tokens)
      BY <3>2, AppendProperties
    <3>4. \/ WordsTo[m + 1] = WordsTo[(m + 1) - 1]
          \/ WordsTo[m + 1] = Append(WordsTo[(m + 1) - 1], argv[m + 1])
      BY <1>2, <3>1
    <3>5. WordsTo[m + 1] \in Seq(Tokens)
      BY <3>1, <3>2, <3>3, <3>4
    <3> QED BY <3>1, <3>5
  <2> HIDE DEF S
  <2>3. \A m \in 0 .. N : m \in S
    BY <1>1, <2>1, <2>2, CountUp
  <2> QED BY <2>3 DEF S
<1>4. ASSUME NEW s \in Seq(Tokens), NEW t \in Seq(Tokens), NEW x \in Tokens, IsPrefix(s, t)
      PROVE  IsPrefix(s, Append(t, x))
  <2>1. Len(s) <= Len(t) /\ SubSeq(s, 1, Len(s)) = SubSeq(t, 1, Len(s)) /\ Len(s) \in Nat /\ Len(t) \in Nat
    BY <1>4 DEF IsPrefix
  <2>2. SubSeq(Append(t, x), 1, Len(s)) = SubSeq(t, 1, Len(s))
    BY <2>1
  <2>3. Len(Append(t, x)) = Len(t) + 1
    OBVIOUS
  <2> QED BY <2>1, <2>2, <2>3 DEF IsPrefix
<1>5. \A m \in 0 .. N - n : m \in T
  <2>1. N - n \in Nat /\ n \in 0 .. N
    BY <1>1 DEF N
  <2>2. 0 \in T
    <3>1. Len(WordsTo[n]) \in Nat
      BY <1>3, <2>1
    <3> QED BY <2>1, <3>1 DEF IsPrefix
  <2>3. ASSUME NEW m \in 0 .. (N - n) - 1, m \in T
        PROVE  m + 1 \in T
    <3>1. /\ n + m \in 0 .. N /\ n + (m + 1) \in 1 .. N /\ (n + (m + 1)) - 1 = n + m
          /\ m + 1 \in 0 .. N - n
      <4>1. n \in Nat /\ N \in Nat /\ m \in Nat /\ m + 1 <= N - n
        BY <1>1, <2>1
      <4> QED BY <4>1
    <3>2. WordsTo[n] \in Seq(Tokens) /\ WordsTo[n + m] \in Seq(Tokens) /\ argv[n + (m + 1)] \in Tokens
      BY <1>1, <1>3, <2>1, <3>1
    <3>3. IsPrefix(WordsTo[n], WordsTo[n + m])
      BY <2>3
    <3>4. IsPrefix(WordsTo[n], WordsTo[n + (m + 1)])
      BY <1>2, <1>4, <3>1, <3>2, <3>3
    <3> QED BY <3>1, <3>4
  <2> HIDE DEF T
  <2> QED BY <2>1, <2>2, <2>3, CountUp
<1>6. N - n \in 0 .. N - n /\ n + (N - n) = N
  BY <1>1 DEF N
<1> QED BY <1>3, <1>5, <1>6 DEF Words, N

(* args() has the words that are neither options nor their values, in      *)
(* their order, whatever the options and the arguments are; after an       *)
(* exception a beginning of them.                                          *)
THEOREM ArgumentsAreTheWords == Spec => []WordsAsRead
<1>1. Init => ReadingInv
  BY DEF Init, ReadingInv, AtWord, InCluster, Collected, AtEnd
<1>2. IInv /\ ReadingInv /\ [Next]_vars => ReadingInv'
  BY NextReadingInv
<1>3. IInv /\ ReadingInv => WordsAsRead
  <2> SUFFICES ASSUME IInv, ReadingInv
               PROVE  WordsAsRead
    OBVIOUS
  <2>1. argv \in Seq(Tokens) /\ i \in 1 .. Len(argv) + 1
    BY DEF IInv, CursorInv
  <2>2. status = "done" => arg_list = Words
    <3>1. (Len(argv) + 1) - 1 = Len(argv)
      BY <2>1
    <3> QED BY <3>1 DEF ReadingInv, Collected, AtEnd, Words
  <2>3. status \in {"error", "exit"} => IsPrefix(arg_list, Words)
    <3>1. i - 1 \in 0 .. Len(argv)
      BY <2>1
    <3> QED BY <2>1, <3>1, WordsOnlyAdded DEF ReadingInv, Collected
  <2> QED BY <2>2, <2>3 DEF WordsAsRead
<1> QED BY <1>1, <1>2, <1>3, RegistryAndCursors, PTL DEF Spec
-----------------------------------------------------------------------------
(* What the first N of a sequence of uses do, one after the other. *)
Effects(f, N, was, uses) ==
  f = [m \in 0 .. N |-> IF m = 0 THEN was ELSE Effect(f[m - 1], uses[m])]

(* There is such a function. *)
LEMMA EffectsExist ==
  ASSUME NEW N \in Nat, NEW was, NEW uses
  PROVE  \E f : Effects(f, N, was, uses)
<1> DEFINE To(f, n) == IF n = 0 THEN was ELSE Effect(f[n - 1], uses[n])
           S == {m \in 0 .. N : \E f : Effects(f, m, was, uses)}
<1>1. 0 \in S
  <2> DEFINE f == [n \in 0 .. 0 |-> was]
  <2>1. Effects(f, 0, was, uses)
    BY DEF Effects
  <2> QED BY <2>1
<1>2. ASSUME NEW m \in 0 .. N - 1, m \in S
      PROVE  m + 1 \in S
  <2>1. PICK f : Effects(f, m, was, uses)
    BY <1>2
  <2>2. \A n \in 0 .. m : f[n] = To(f, n)
    BY <2>1 DEF Effects
  <2> DEFINE g == [n \in 0 .. m + 1 |-> To(f, n)]
  <2>3. \A n \in 0 .. m : g[n] = f[n]
    <3> HIDE DEF To
    <3> QED BY <2>2
  <2>4. \A n \in 0 .. m + 1 : To(f, n) = To(g, n)
    <3> SUFFICES ASSUME NEW n \in 0 .. m + 1
                 PROVE  n # 0 => f[n - 1] = g[n - 1]
      OBVIOUS
    <3>1. n # 0 => n - 1 \in 0 .. m
      OBVIOUS
    <3> HIDE DEF g
    <3> QED BY <2>3, <3>1
  <2>5. g = [n \in 0 .. m + 1 |-> To(g, n)]
    <3>1. g = [n \in 0 .. m + 1 |-> To(f, n)]
      OBVIOUS
    <3> HIDE DEF g, To
    <3> QED BY <2>4, <3>1
  <2>6. Effects(g, m + 1, was, uses)
    <3> HIDE DEF g
    <3> QED BY <2>5 DEF Effects
  <2> QED BY <2>6
<1> HIDE DEF S
<1>3. N \in S
  BY <1>1, <1>2, CountUp
<1> QED BY <1>3 DEF S

(* s is a beginning of t. *)
Begins(s, t) ==
  Len(s) \in Nat /\ Len(t) \in Nat /\ Len(s) <= Len(t) /\ \A m \in 1 .. Len(s) : s[m] = t[m]

(* What a sequence of uses does is what any beginning of it does, followed *)
(* by the rest one by one.                                                 *)
LEMMA UsesSoFar ==
  ASSUME NEW was, NEW s, NEW t, Begins(s, t)
  PROVE  \E g : /\ g[Len(s)] = AfterUses(was, s) /\ g[Len(t)] = AfterUses(was, t)
                /\ g[0] = was /\ \A m \in 1 .. Len(t) : g[m] = Effect(g[m - 1], t[m])
<1>0. Len(s) \in Nat /\ Len(t) \in Nat /\ Len(s) <= Len(t) /\ \A m \in 1 .. Len(s) : s[m] = t[m]
  BY DEF Begins
<1>1. ASSUME NEW u, Len(u) \in Nat
      PROVE  \E f : /\ AfterUses(was, u) = f[Len(u)] /\ f[0] = was
                    /\ \A m \in 1 .. Len(u) : f[m] = Effect(f[m - 1], u[m])
  <2> DEFINE f == CHOOSE f : f = [m \in 0 .. Len(u) |-> IF m = 0 THEN was ELSE Effect(f[m - 1], u[m])]
  <2>1. AfterUses(was, u) = f[Len(u)]
    BY DEF AfterUses
  <2>2. Effects(f, Len(u), was, u)
    BY <1>1, EffectsExist DEF Effects
  <2> HIDE DEF f
  <2>3. \A m \in 0 .. Len(u) : f[m] = IF m = 0 THEN was ELSE Effect(f[m - 1], u[m])
    BY <2>2 DEF Effects
  <2>4. f[0] = was /\ \A m \in 1 .. Len(u) : f[m] = Effect(f[m - 1], u[m])
    BY <1>1, <2>3
  <2> QED BY <2>1, <2>4
<1>2. PICK f : /\ AfterUses(was, s) = f[Len(s)] /\ f[0] = was
               /\ \A m \in 1 .. Len(s) : f[m] = Effect(f[m - 1], s[m])
  BY <1>0, <1>1
<1>3. PICK g : /\ AfterUses(was, t) = g[Len(t)] /\ g[0] = was
               /\ \A m \in 1 .. Len(t) : g[m] = Effect(g[m - 1], t[m])
  BY <1>0, <1>1
<1> DEFINE S == {m \in 0 .. Len(s) : f[m] = g[m]}
<1>4. 0 \in S
  BY <1>0, <1>2, <1>3
<1>5. ASSUME NEW m \in 0 .. Len(s) - 1, m \in S
      PROVE  m + 1 \in S
  <2>1. m + 1 \in 1 .. Len(s) /\ m + 1 \in 1 .. Len(t) /\ (m + 1) - 1 = m /\ m + 1 \in 0 .. Len(s)
    BY <1>0
  <2>2. f[m] = g[m] /\ s[m + 1] = t[m + 1]
    BY <1>0, <1>5, <2>1
  <2>3. f[m + 1] = g[m + 1]
    BY <1>2, <1>3, <2>1, <2>2
  <2> QED BY <2>1, <2>3
<1> HIDE DEF S
<1>6. \A m \in 0 .. Len(s) : m \in S
  BY <1>0, <1>4, <1>5, CountUp
<1>7. f[Len(s)] = g[Len(s)]
  BY <1>0, <1>6 DEF S
<1> QED BY <1>2, <1>3, <1>7

(* No use does nothing. *)
LEMMA NoUses ==
  ASSUME NEW was, NEW uses, Len(uses) = 0
  PROVE  AfterUses(was, uses) = was
<1>1. Begins(uses, uses)
  BY DEF Begins
<1> QED BY <1>1, UsesSoFar

(* One use more. *)
LEMMA OneUseMore ==
  ASSUME NEW was, NEW s, NEW t, Begins(s, t)
  PROVE  Len(t) = Len(s) + 1 => AfterUses(was, t) = Effect(AfterUses(was, s), t[Len(t)])
<1>1. PICK g : /\ g[Len(s)] = AfterUses(was, s) /\ g[Len(t)] = AfterUses(was, t)
               /\ g[0] = was /\ \A m \in 1 .. Len(t) : g[m] = Effect(g[m - 1], t[m])
  BY UsesSoFar
<1>2. Len(t) = Len(s) + 1 => Len(t) \in 1 .. Len(t) /\ Len(t) - 1 = Len(s)
  BY DEF Begins
<1> QED BY <1>1, <1>2

(* Nothing is done behind an exception or the end of the process.          *)
LEMMA NothingBehindTheEnd ==
  ASSUME NEW was, NEW s, NEW t, Begins(s, t), AfterUses(was, s).status # "parse"
  PROVE  AfterUses(was, t) = AfterUses(was, s)
<1>1. PICK g : /\ g[Len(s)] = AfterUses(was, s) /\ g[Len(t)] = AfterUses(was, t)
               /\ g[0] = was /\ \A m \in 1 .. Len(t) : g[m] = Effect(g[m - 1], t[m])
  BY UsesSoFar
<1> DEFINE D == Len(t) - Len(s)
           S == {m \in 0 .. D : g[Len(s) + m] = g[Len(s)]}
<1>2. D \in Nat /\ Len(s) + D = Len(t) /\ Len(s) \in Nat
  BY DEF Begins
<1> HIDE DEF D
<1>3. 0 \in S
  BY <1>2
<1>4. ASSUME NEW m \in 0 .. D - 1, m \in S
      PROVE  m + 1 \in S
  <2>1. Len(s) + (m + 1) \in 1 .. Len(t) /\ (Len(s) + (m + 1)) - 1 = Len(s) + m /\ m + 1 \in 0 .. D
    BY <1>2
  <2>2. g[Len(s) + (m + 1)] = Effect(g[Len(s) + m], t[Len(s) + (m + 1)])
    BY <1>1, <2>1
  <2>3. g[Len(s) + m] = g[Len(s)] /\ g[Len(s) + m].status # "parse"
    BY <1>1, <1>4
  <2>4. g[Len(s) + (m + 1)] = g[Len(s) + m]
    BY <2>2, <2>3 DEF Effect
  <2> QED BY <2>1, <2>3, <2>4
<1> HIDE DEF S
<1>5. \A m \in 0 .. D : m \in S
  BY <1>2, <1>3, <1>4, CountUp
<1>6. D \in 0 .. D
  BY <1>2
<1> QED BY <1>1, <1>2, <1>5, <1>6 DEF S

-----------------------------------------------------------------------------
(* What the words of argv do, one after the other. *)
Outcomes(f, N, was, uses) ==
  f = [n \in 0 .. N |-> IF n = 0 THEN was ELSE AfterUses(f[n - 1], uses[n])]

(* There is such a function. *)
LEMMA OutcomesExist ==
  ASSUME NEW N \in Nat, NEW was, NEW uses
  PROVE  \E f : Outcomes(f, N, was, uses)
<1> DEFINE To(f, n) == IF n = 0 THEN was ELSE AfterUses(f[n - 1], uses[n])
           S == {m \in 0 .. N : \E f : Outcomes(f, m, was, uses)}
<1>1. 0 \in S
  <2> DEFINE f == [n \in 0 .. 0 |-> was]
  <2>1. Outcomes(f, 0, was, uses)
    BY DEF Outcomes
  <2> QED BY <2>1
<1>2. ASSUME NEW m \in 0 .. N - 1, m \in S
      PROVE  m + 1 \in S
  <2>1. PICK f : Outcomes(f, m, was, uses)
    BY <1>2
  <2>2. \A n \in 0 .. m : f[n] = To(f, n)
    BY <2>1 DEF Outcomes
  <2> DEFINE g == [n \in 0 .. m + 1 |-> To(f, n)]
  <2>3. \A n \in 0 .. m : g[n] = f[n]
    <3> HIDE DEF To
    <3> QED BY <2>2
  <2>4. \A n \in 0 .. m + 1 : To(f, n) = To(g, n)
    <3> SUFFICES ASSUME NEW n \in 0 .. m + 1
                 PROVE  n # 0 => f[n - 1] = g[n - 1]
      OBVIOUS
    <3>1. n # 0 => n - 1 \in 0 .. m
      OBVIOUS
    <3> HIDE DEF g
    <3> QED BY <2>3, <3>1
  <2>5. g = [n \in 0 .. m + 1 |-> To(g, n)]
    <3>1. g = [n \in 0 .. m + 1 |-> To(f, n)]
      OBVIOUS
    <3> HIDE DEF g, To
    <3> QED BY <2>4, <3>1
  <2>6. Outcomes(g, m + 1, was, uses)
    <3> HIDE DEF g
    <3> QED BY <2>5 DEF Outcomes
  <2> QED BY <2>6
<1> HIDE DEF S
<1>3. N \in S
  BY <1>1, <1>2, CountUp
<1> QED BY <1>3 DEF S

AtStart == [stored |-> start[1], mode |-> start[2], status |-> "parse"]

(* The outcome of the words up to a place, by that up to the place before. *)
LEMMA OutcomeByTheWordBefore ==
  Len(argv) \in Nat =>
    /\ OutcomeTo[0] = AtStart
    /\ \A n \in 1 .. Len(argv) : OutcomeTo[n] = AfterUses(OutcomeTo[n - 1], UsesOf(n))
<1> SUFFICES ASSUME Len(argv) \in Nat
             PROVE  /\ OutcomeTo[0] = AtStart
                    /\ \A n \in 1 .. Len(argv) : OutcomeTo[n] = AfterUses(OutcomeTo[n - 1], UsesOf(n))
  OBVIOUS
<1> DEFINE N == Len(argv)
           U == [n \in 1 .. N |-> UsesOf(n)]
           To(f, n) == IF n = 0 THEN AtStart ELSE AfterUses(f[n - 1], UsesOf(n))
<1>1. ASSUME NEW f
      PROVE  Outcomes(f, N, AtStart, U) <=> f = [n \in 0 .. N |-> To(f, n)]
  <2>1. \A n \in 0 .. N : (IF n = 0 THEN AtStart ELSE AfterUses(f[n - 1], U[n])) = To(f, n)
    OBVIOUS
  <2> HIDE DEF U, To
  <2> QED BY <2>1 DEF Outcomes
<1>2. \E f : Outcomes(f, N, AtStart, U)
  <2> HIDE DEF N, U
  <2> QED BY OutcomesExist DEF N
<1>3. OutcomeTo = CHOOSE f : f = [n \in 0 .. N |-> To(f, n)]
  BY DEF OutcomeTo, AtStart
<1>4. OutcomeTo = [n \in 0 .. N |-> To(OutcomeTo, n)]
  <2> HIDE DEF N, U, To
  <2> QED BY <1>1, <1>2, <1>3
<1>5. \A n \in 0 .. N : OutcomeTo[n] = To(OutcomeTo, n)
  <2> HIDE DEF To
  <2> QED BY <1>4
<1> QED BY <1>5

(* As long as argv, the registry and what parse() began with stay, so does *)
(* the outcome.                                                            *)
LEMMA SameOutcome ==
  ASSUME Len(argv) \in Nat, UNCHANGED <<argv, opts, opt_list, help_list, ignore, start>>
  PROVE  /\ Outcome' = Outcome
         /\ \A n \in 0 .. Len(argv) : OutcomeTo[n]' = OutcomeTo[n]
         /\ \A was, uses : AfterUses(was, uses)' = AfterUses(was, uses)
<1>1. \A was, uses : AfterUses(was, uses)' = AfterUses(was, uses)
  BY DEF AfterUses, Effect, Before, Config, Helps
<1>2. ValueWords' = ValueWords
  BY SameReading
<1>3. \A n : UsesOf(n)' = UsesOf(n)
  BY <1>2 DEF UsesOf, AwaitsValue, IsShort, IsWord, IsLong, Stop, FindKey, FindName, Find, SelectInSeq,
         TakesValue, NeedsValue, Config, LongName, LongValue, EqualSign
<1> DEFINE N == Len(argv)
           S == {n \in 0 .. N : OutcomeTo'[n] = OutcomeTo[n]}
<1>4. /\ OutcomeTo[0] = AtStart
      /\ \A n \in 1 .. N : OutcomeTo[n] = AfterUses(OutcomeTo[n - 1], UsesOf(n))
  BY OutcomeByTheWordBefore
<1>5. /\ OutcomeTo'[0] = AtStart
      /\ \A n \in 1 .. N : OutcomeTo'[n] = AfterUses(OutcomeTo'[n - 1], UsesOf(n))
  <2>1. (Len(argv) \in Nat =>
           /\ OutcomeTo[0] = AtStart
           /\ \A n \in 1 .. Len(argv) : OutcomeTo[n] = AfterUses(OutcomeTo[n - 1], UsesOf(n)))'
    BY OutcomeByTheWordBefore, PTL
  <2>2. AtStart' = AtStart
    BY DEF AtStart
  <2>3. \A n \in 1 .. N : OutcomeTo'[n] = AfterUses(OutcomeTo[n - 1], UsesOf(n))'
    BY <2>1
  <2>4. ASSUME NEW n \in 1 .. N
        PROVE  AfterUses(OutcomeTo[n - 1], UsesOf(n))' = AfterUses(OutcomeTo'[n - 1], UsesOf(n))
    <3>1. UsesOf(n)' = UsesOf(n)
      BY <1>3
    <3> QED BY <3>1 DEF AfterUses, Effect, Before, Config, Helps
  <2> QED BY <2>1, <2>2, <2>3, <2>4
<1>6. N \in Nat
  OBVIOUS
<1> HIDE DEF N
<1>7. 0 \in S
  BY <1>4, <1>5, <1>6
<1>8. ASSUME NEW m \in 0 .. N - 1, m \in S
      PROVE  m + 1 \in S
  <2>1. m + 1 \in 1 .. N /\ (m + 1) - 1 = m /\ m + 1 \in 0 .. N
    BY <1>6
  <2>2. OutcomeTo'[m + 1] = OutcomeTo[m + 1]
    BY <1>4, <1>5, <1>8, <2>1
  <2> QED BY <2>1, <2>2
<1>9. \A n \in 0 .. N : OutcomeTo'[n] = OutcomeTo[n]
  <2> HIDE DEF S
  <2>1. \A n \in 0 .. N : n \in S
    BY <1>6, <1>7, <1>8, CountUp
  <2> QED BY <2>1 DEF S
<1>10. Outcome' = Outcome
  BY <1>6, <1>9 DEF Outcome, N
<1> QED BY <1>1, <1>9, <1>10 DEF N
-----------------------------------------------------------------------------
(* What has been done, and what the words before the one that is read and  *)
(* the characters before the one that is read have done.                   *)
Now == [stored |-> stored, mode |-> mode, status |-> status]

FlagUse(n, m) == [opt |-> FindKey(argv[n][m + 1]), given |-> Absent]
FlagUses(n, count) == [m \in 1 .. count |-> FlagUse(n, m)]

DoneInv ==
  /\ status = "parse" => Now = AfterUses(OutcomeTo[i - 1], FlagUses(i, k - 2))
  /\ status = "parse" /\ (i > Len(argv) \/ ~IsShort(argv[i]) \/ Len(argv[i]) < 2) => k = 2
  /\ status \in {"error", "exit"} => Now = Outcome
  /\ status = "done" => [Now EXCEPT !.status = "parse"] = Outcome

(* What an option does to the variables of the client is its effect.       *)
LEMMA UseIsEffect ==
  ASSUME status = "parse", NEW o, o # 0, NEW given, Use(o, given)
  PROVE  Now' = Effect(Now, [opt |-> o, given |-> given])
BY DEF Now, Use, Effect

(* And so is what an unknown one does. *)
LEMMA UnknownIsEffect ==
  ASSUME status = "parse", NEW given, Unknown
  PROVE  Now' = Effect(Now, [opt |-> 0, given |-> given])
BY DEF Now, Unknown, Effect, effects

(* An effect behind an exception or the end of the process is none. *)
LEMMA OutcomeSticks ==
  ASSUME Len(argv) \in Nat, NEW n \in 0 .. Len(argv), OutcomeTo[n].status # "parse",
         \A m \in 1 .. Len(argv) : Len(UsesOf(m)) \in Nat
  PROVE  Outcome = OutcomeTo[n]
<1> DEFINE D == Len(argv) - n
           S == {m \in 0 .. D : OutcomeTo[n + m] = OutcomeTo[n]}
<1>1. D \in Nat /\ n + D = Len(argv) /\ n \in Nat
  OBVIOUS
<1> HIDE DEF D
<1>2. 0 \in S
  BY <1>1
<1>3. ASSUME NEW m \in 0 .. D - 1, m \in S
      PROVE  m + 1 \in S
  <2>1. n + (m + 1) \in 1 .. Len(argv) /\ (n + (m + 1)) - 1 = n + m /\ m + 1 \in 0 .. D
    BY <1>1
  <2> DEFINE was == OutcomeTo[n + m]
             uses == UsesOf(n + (m + 1))
  <2>2. OutcomeTo[n + (m + 1)] = AfterUses(was, uses)
    BY <2>1, OutcomeByTheWordBefore
  <2>3. was = OutcomeTo[n] /\ was.status # "parse"
    BY <1>3
  <2>4. Len(uses) \in Nat /\ Len(<<>>) = 0
    BY <2>1
  <2> HIDE DEF was, uses
  <2>5. AfterUses(was, <<>>) = was
    BY <2>4, NoUses
  <2>6. Begins(<<>>, uses)
    BY <2>4 DEF Begins
  <2>7. AfterUses(was, uses) = was
    BY <2>3, <2>5, <2>6, NothingBehindTheEnd
  <2> QED BY <2>1, <2>2, <2>3, <2>7
<1> HIDE DEF S
<1>4. \A m \in 0 .. D : m \in S
  BY <1>1, <1>2, <1>3, CountUp
<1>5. D \in 0 .. D
  BY <1>1
<1> QED BY <1>1, <1>4, <1>5 DEF S, Outcome

(* The uses of a word of argv that is a cluster, by its characters.        *)
LEMMA UsesOfCluster ==
  ASSUME argv \in Seq(Tokens), NEW n \in 1 .. Len(argv), n \notin ValueWords, IsShort(argv[n]),
         Stop(argv[n]) \in Nat, Stop(argv[n]) >= 2
  PROVE  LET token == argv[n]
             s     == Stop(token)
             value == IF s < Len(token) THEN SubSeq(token, s + 1, Len(token))
                      ELSE IF AwaitsValue(token) /\ n < Len(argv) THEN argv[n + 1] ELSE Absent
         IN  /\ Len(UsesOf(n)) = IF s > Len(token) THEN s - 2 ELSE s - 1
             /\ \A m \in 1 .. s - 2 : UsesOf(n)[m] = FlagUse(n, m)
             /\ s <= Len(token) => UsesOf(n)[s - 1] = [opt |-> FindKey(token[s]), given |-> value]
<1> DEFINE token == argv[n]
           s     == Stop(token)
           value == IF s < Len(token) THEN SubSeq(token, s + 1, Len(token))
                    ELSE IF AwaitsValue(token) /\ n < Len(argv) THEN argv[n + 1] ELSE Absent
           flags == [m \in 1 .. s - 2 |-> FlagUse(n, m)]
           last  == [opt |-> FindKey(token[s]), given |-> value]
           U     == {FlagUse(n, m) : m \in 1 .. s - 2} \cup {last}
<1>1. s \in Nat /\ s >= 2 /\ Len(token) \in Nat
  <2>1. token \in Seq(STRING)
    BY CatalogueAssumption
  <2> QED BY <2>1
<1>2. UsesOf(n) = flags \o IF s > Len(token) THEN <<>> ELSE <<last>>
  BY DEF UsesOf, FlagUse, IsShort
<1> HIDE DEF token, s, value, last
<1>3. flags \in Seq(U) /\ Len(flags) = s - 2 /\ \A m \in 1 .. s - 2 : flags[m] = FlagUse(n, m)
  BY <1>1
<1>4. last \in U
  OBVIOUS
<1> HIDE DEF flags, U
<1>5. CASE s > Len(token)
  <2>1. UsesOf(n) = flags
    BY <1>2, <1>3, <1>5
  <2> QED BY <1>1, <1>3, <1>5, <2>1 DEF token, s, value, last
<1>6. CASE s <= Len(token)
  <2> DEFINE all == flags \o <<last>>
  <2>1. UsesOf(n) = all
    BY <1>1, <1>2, <1>6
  <2>2. <<last>> \in Seq(U) /\ Len(<<last>>) = 1 /\ <<last>>[1] = last
    BY <1>4
  <2>3. /\ Len(all) = Len(flags) + 1
        /\ \A m \in 1 .. Len(flags) + 1 : all[m] = IF m <= Len(flags) THEN flags[m] ELSE <<last>>[m - Len(flags)]
    BY <1>3, <2>2, ConcatProperties
  <2>4. Len(all) = s - 1
    BY <1>1, <1>3, <2>3
  <2>5. \A m \in 1 .. s - 2 : all[m] = FlagUse(n, m)
    BY <1>1, <1>3, <2>3
  <2>6. all[s - 1] = last
    <3>1. s - 1 \in 1 .. Len(flags) + 1 /\ ~(s - 1 <= Len(flags)) /\ (s - 1) - Len(flags) = 1
      BY <1>1, <1>3
    <3> QED BY <2>2, <2>3, <3>1
  <2> HIDE DEF all
  <2>7. ~(s > Len(token))
    BY <1>1, <1>6
  <2> QED BY <2>1, <2>4, <2>5, <2>6, <2>7 DEF token, s, value, last
<1> QED BY <1>1, <1>5, <1>6

(* A cluster ends at one of its characters or behind the last one.         *)
LEMMA StopInside ==
  ASSUME NEW token \in Seq(STRING), IsShort(token)
  PROVE  Stop(token) \in 2 .. Len(token) + 1 /\ (Stop(token) <= Len(token) => Ends(token[Stop(token)]))
<1> DEFINE I == {m \in 2 .. Len(token) : FindKey(token[m]) = 0 \/ TakesValue(FindKey(token[m]))}
                  \cup {Len(token) + 1}
<1>1. Len(token) \in Nat /\ Len(token) >= 1
  BY DEF IsShort, IsWord
<1>2. I \subseteq Nat /\ I # {} /\ Stop(token) = Min(I)
  BY <1>1 DEF Stop
<1>3. \A m \in I : m \in 2 .. Len(token) + 1 /\ (m <= Len(token) => Ends(token[m]))
  BY <1>1 DEF Ends
<1> HIDE DEF I
<1>4. Min(I) \in I
  BY <1>2, LeastNumber
<1> QED BY <1>2, <1>3, <1>4

(* The uses of the other words. *)
LEMMA UsesOfWord ==
  ASSUME argv \in Seq(Tokens), NEW n \in 1 .. Len(argv)
  PROVE  /\ Len(UsesOf(n)) \in Nat
         /\ n \in ValueWords \/ IsWord(argv[n]) => UsesOf(n) = <<>>
         /\ n \notin ValueWords /\ IsLong(argv[n]) =>
              UsesOf(n) = <<[opt |-> FindName(LongName(argv[n])), given |-> LongValue(argv[n])]>>
<1>1. n \in ValueWords \/ IsWord(argv[n]) => UsesOf(n) = <<>>
  BY DEF UsesOf, IsLong, IsShort
<1>2. n \notin ValueWords /\ IsLong(argv[n]) =>
        UsesOf(n) = <<[opt |-> FindName(LongName(argv[n])), given |-> LongValue(argv[n])]>>
  BY DEF UsesOf, IsLong, IsShort
<1>3. CASE n \notin ValueWords /\ IsShort(argv[n])
  <2>1. argv[n] \in Seq(STRING)
    BY CatalogueAssumption
  <2>2. /\ Stop(argv[n]) \in 2 .. Len(argv[n]) + 1 /\ Len(argv[n]) \in Nat
        /\ Stop(argv[n]) \in Nat /\ Stop(argv[n]) >= 2
    BY <1>3, <2>1, StopInside
  <2>3. Len(UsesOf(n)) = IF Stop(argv[n]) > Len(argv[n]) THEN Stop(argv[n]) - 2 ELSE Stop(argv[n]) - 1
    BY <1>3, <2>2, UsesOfCluster
  <2>4. Len(UsesOf(n)) \in Nat
    BY <2>2, <2>3
  <2> QED BY <1>1, <1>2, <2>4
<1>4. CASE n \in ValueWords \/ IsWord(argv[n])
  BY <1>1, <1>2, <1>4
<1>5. CASE n \notin ValueWords /\ IsLong(argv[n])
  <2>1. Len(UsesOf(n)) = 1
    BY <1>2, <1>5
  <2> QED BY <1>1, <1>2, <2>1
<1> QED BY <1>3, <1>4, <1>5 DEF IsShort

(* What a step leaves alone.                                               *)
Kept == UNCHANGED <<argv, opts, opt_list, help_list, ignore, start>>

(* To a word, with the outcome of all words before it.                     *)
LEMMA GoesToWordWithOutcome ==
  ASSUME argv \in Seq(Tokens), Kept, NEW n \in 1 .. Len(argv) + 1, ToToken(n),
         Now' = OutcomeTo[n - 1], status' \in {"parse", "error", "exit"}
  PROVE  DoneInv'
<1>1. /\ Len(argv) \in Nat /\ n - 1 \in 0 .. Len(argv) /\ n \in Nat
      /\ \A m \in 1 .. Len(argv) : Len(UsesOf(m)) \in Nat
  <2>1. Len(argv) \in Nat
    OBVIOUS
  <2> QED BY <2>1, UsesOfWord
<1>2. /\ UNCHANGED <<argv, opts, opt_list, help_list, ignore, start>>
      /\ Outcome' = Outcome /\ \A m \in 0 .. Len(argv) : OutcomeTo[m]' = OutcomeTo[m]
  BY <1>1, SameOutcome DEF Kept
<1>3. i' = n /\ k' = 2
  BY DEF ToToken
<1>4. ASSUME status' = "parse"
      PROVE  Now' = AfterUses(OutcomeTo[i - 1], FlagUses(i, k - 2))'
  <2>1. OutcomeTo[i - 1]' = OutcomeTo[n - 1]
    <3>1. OutcomeTo'[n - 1] = OutcomeTo[n - 1]
      BY <1>1, <1>2
    <3> QED BY <1>3, <3>1
  <2>2. Len(FlagUses(i, k - 2)') = 0
    BY <1>3 DEF FlagUses
  <2> DEFINE was == OutcomeTo[n - 1]
             uses == FlagUses(i, k - 2)'
  <2>3. AfterUses(was, uses) = was
    <3> HIDE DEF was
    <3> QED BY <2>2, NoUses
  <2>4. AfterUses(OutcomeTo[i - 1], FlagUses(i, k - 2))' = AfterUses(was, uses)
    <3>1. OutcomeTo'[i' - 1] = was
      BY <2>1
    <3> QED BY <1>2, <3>1 DEF AfterUses, Effect, Before, Config, Helps
  <2> QED BY <2>3, <2>4
<1>5. ASSUME status' \in {"error", "exit"}
      PROVE  Now' = Outcome'
  <2>1. OutcomeTo[n - 1].status # "parse"
    <3>1. Now'.status = status'
      BY DEF Now
    <3> QED BY <1>5, <3>1
  <2> QED BY <1>1, <1>2, <2>1, OutcomeSticks
<1> QED BY <1>3, <1>4, <1>5 DEF DoneInv
-----------------------------------------------------------------------------
(* While parse() reads a word.                                             *)
LEMMA AtWordOfArgv ==
  ASSUME CursorInv, ReadingInv, Reading
  PROVE  /\ argv \in Seq(Tokens) /\ i \in 1 .. Len(argv) /\ Len(argv) \in Nat
         /\ Token = argv[i] /\ Token \in Seq(STRING) /\ Len(Token) \in Nat
         /\ status = "parse" /\ i \notin ValueWords
         /\ OutcomeTo[i] = AfterUses(OutcomeTo[i - 1], UsesOf(i))
<1>1. argv \in Seq(Tokens) /\ i \in 1 .. Len(argv) /\ Len(argv) \in Nat /\ Token = argv[i]
  BY CursorAtWord DEF CursorInv, Token
<1>2. Token \in Seq(STRING) /\ Len(Token) \in Nat
  <2>1. Token \in Seq(STRING)
    BY <1>1, CatalogueAssumption
  <2> QED BY <2>1
<1>3. status = "parse" /\ i \notin ValueWords
  BY <1>1 DEF ReadingInv, AtWord, Reading
<1> QED BY <1>1, <1>2, <1>3, OutcomeByTheWordBefore

(* While it reads a cluster: it has done the uses of the characters before *)
(* the one that it reads, and they are the first of the word's.            *)
LEMMA AtClusterOfArgv ==
  ASSUME CursorInv, ReadingInv, DoneInv, Reading, IsShort(Token)
  PROVE  /\ Stop(Token) \in 2 .. Len(Token) + 1 /\ k \in 2 .. Stop(Token)
         /\ Now = AfterUses(OutcomeTo[i - 1], FlagUses(i, k - 2))
         /\ \A c \in 0 .. Stop(Token) - 2 : Begins(FlagUses(i, c), UsesOf(i)) /\ Len(FlagUses(i, c)) = c
<1>1. /\ argv \in Seq(Tokens) /\ i \in 1 .. Len(argv) /\ Len(argv) \in Nat
      /\ Token = argv[i] /\ Token \in Seq(STRING) /\ Len(Token) \in Nat
      /\ status = "parse" /\ i \notin ValueWords
  BY AtWordOfArgv
<1>2. Stop(Token) \in 2 .. Len(Token) + 1 /\ (Stop(Token) <= Len(Token) => Ends(Token[Stop(Token)]))
  BY <1>1, StopInside
<1> DEFINE s == Stop(Token)
<1>3. k \in 2 .. s
  <2>1. k \in Nat /\ k >= 2 /\ (Len(Token) > 1 => k <= Len(Token) + 1) /\ (Len(Token) < 2 => k = 2)
    BY <1>1 DEF CursorInv, DoneInv
  <2>2. \A m \in 2 .. k - 1 : ~Ends(Token[m])
    BY <1>1 DEF ReadingInv, InCluster
  <2>3. s \in 2 .. Len(Token) + 1 /\ (s <= Len(Token) => Ends(Token[s]))
    BY <1>2
  <2> HIDE DEF s
  <2>4. s < k => s \in 2 .. k - 1 /\ s <= Len(Token)
    BY <1>1, <2>1, <2>3
  <2>5. ~(s < k)
    BY <2>2, <2>3, <2>4
  <2> QED BY <1>1, <2>1, <2>3, <2>5
<1>4. Now = AfterUses(OutcomeTo[i - 1], FlagUses(i, k - 2))
  BY <1>1 DEF DoneInv
<1>5. ASSUME NEW c \in 0 .. s - 2
      PROVE  Begins(FlagUses(i, c), UsesOf(i)) /\ Len(FlagUses(i, c)) = c
  <2>1. s \in Nat /\ s >= 2 /\ c \in Nat
    BY <1>1, <1>2
  <2>2. Len(FlagUses(i, c)) = c /\ \A m \in 1 .. c : FlagUses(i, c)[m] = FlagUse(i, m)
    <3> HIDE DEF s
    <3> QED BY <2>1 DEF FlagUses
  <2>3. /\ Len(UsesOf(i)) = IF s > Len(Token) THEN s - 2 ELSE s - 1
        /\ \A m \in 1 .. s - 2 : UsesOf(i)[m] = FlagUse(i, m)
    BY <1>1, <2>1, UsesOfCluster
  <2> HIDE DEF s
  <2>4. Len(UsesOf(i)) \in Nat /\ c <= Len(UsesOf(i)) /\ \A m \in 1 .. c : m \in 1 .. s - 2
    BY <1>1, <2>1, <2>3
  <2> QED BY <2>1, <2>2, <2>3, <2>4 DEF Begins
<1> QED BY <1>2, <1>3, <1>4, <1>5

(* The last use of a cluster.                                              *)
LEMMA LastUseOfCluster ==
  ASSUME CursorInv, ReadingInv, DoneInv, Reading, IsShort(Token),
         k <= Len(Token), Stop(Token) = k, NEW given,
         given = IF k < Len(Token) THEN Rest
                 ELSE IF AwaitsValue(Token) /\ i < Len(argv) THEN argv[i + 1] ELSE Absent,
         Now' = Effect(Now, [opt |-> Opt, given |-> given])
  PROVE  Now' = OutcomeTo[i]
<1>1. /\ argv \in Seq(Tokens) /\ i \in 1 .. Len(argv) /\ Token = argv[i] /\ Len(Token) \in Nat
      /\ i \notin ValueWords /\ OutcomeTo[i] = AfterUses(OutcomeTo[i - 1], UsesOf(i))
  BY AtWordOfArgv
<1>2. /\ k \in Nat /\ k >= 2 /\ k - 2 \in 0 .. Stop(Token) - 2
      /\ Now = AfterUses(OutcomeTo[i - 1], FlagUses(i, k - 2))
      /\ Begins(FlagUses(i, k - 2), UsesOf(i)) /\ Len(FlagUses(i, k - 2)) = k - 2
  <2>1. /\ k \in 2 .. Stop(Token) /\ Stop(Token) \in 2 .. Len(Token) + 1
        /\ Now = AfterUses(OutcomeTo[i - 1], FlagUses(i, k - 2))
        /\ \A c \in 0 .. Stop(Token) - 2 : Begins(FlagUses(i, c), UsesOf(i)) /\ Len(FlagUses(i, c)) = c
    BY AtClusterOfArgv
  <2>2. k \in Nat /\ k >= 2 /\ k - 2 \in 0 .. Stop(Token) - 2
    BY <1>1, <2>1
  <2> QED BY <2>1, <2>2
<1>3. Len(UsesOf(i)) = k - 1 /\ UsesOf(i)[k - 1] = [opt |-> Opt, given |-> given]
  <2>1. /\ Len(UsesOf(i)) = IF k > Len(Token) THEN k - 2 ELSE k - 1
        /\ k <= Len(Token) => UsesOf(i)[k - 1] = [opt |-> FindKey(Token[k]), given |-> given]
    BY <1>1, <1>2, UsesOfCluster DEF Rest
  <2> QED BY <1>1, <1>2, <2>1 DEF Opt
<1> DEFINE was == OutcomeTo[i - 1]
           s == FlagUses(i, k - 2)
           t == UsesOf(i)
<1>4. Begins(s, t) /\ Len(t) = Len(s) + 1 /\ Now = AfterUses(was, s) /\ OutcomeTo[i] = AfterUses(was, t)
      /\ t[Len(t)] = [opt |-> Opt, given |-> given]
  BY <1>1, <1>2, <1>3
<1> HIDE DEF was, s, t
<1>5. AfterUses(was, t) = Effect(AfterUses(was, s), t[Len(t)])
  BY <1>4, OneUseMore
<1> QED BY <1>4, <1>5
-----------------------------------------------------------------------------
(* A step that comes to the end of a word has done what the word does.     *)
LEMMA WordIsDone ==
  ASSUME RegistryInv, CursorInv, EffectsInv, ReadingInv, DoneInv, Reading,
         TakeWord \/ LongOption \/ UnknownKey \/ AttachedValue \/ NextValue \/ NoValue \/ EndOfCluster
  PROVE  Now' = OutcomeTo[i]
<1>1. /\ argv \in Seq(Tokens) /\ i \in 1 .. Len(argv) /\ Len(argv) \in Nat
      /\ Token = argv[i] /\ Token \in Seq(STRING) /\ Len(Token) \in Nat
      /\ status = "parse" /\ i \notin ValueWords
      /\ OutcomeTo[i] = AfterUses(OutcomeTo[i - 1], UsesOf(i))
  BY AtWordOfArgv
<1> DEFINE was == OutcomeTo[i - 1]
<1>2. ASSUME ~IsShort(Token)
      PROVE  Now = was
  <2>1. k = 2 /\ Now = AfterUses(was, FlagUses(i, k - 2))
    BY <1>1, <1>2 DEF DoneInv
  <2>2. Len(FlagUses(i, k - 2)) = 0
    BY <2>1 DEF FlagUses
  <2> HIDE DEF was
  <2> QED BY <2>1, <2>2, NoUses
<1>3. CASE TakeWord
  <2>1. IsWord(Token) /\ ~IsShort(Token) /\ Now' = Now
    BY <1>3 DEF TakeWord, IsShort, Now, effects
  <2>2. UsesOf(i) = <<>> /\ Len(<<>>) = 0
    BY <1>1, <2>1, UsesOfWord
  <2>3. AfterUses(was, UsesOf(i)) = was
    <3> HIDE DEF was
    <3> QED BY <2>2, NoUses
  <2> QED BY <1>1, <1>2, <2>1, <2>3
<1>4. CASE LongOption
  <2> DEFINE u == [opt |-> FindName(LongName(Token)), given |-> LongValue(Token)]
  <2>1. IsLong(Token) /\ ~IsShort(Token)
    BY <1>4 DEF LongOption, IsShort
  <2>2. Now' = Effect(Now, u)
    <3>1. CASE FindName(LongName(Token)) = 0
      BY <1>1, <1>4, <3>1, UnknownIsEffect DEF LongOption
    <3>2. CASE FindName(LongName(Token)) # 0
      BY <1>1, <1>4, <3>2, UseIsEffect DEF LongOption
    <3> QED BY <3>1, <3>2
  <2>3. UsesOf(i) = <<u>>
    BY <1>1, <2>1, UsesOfWord
  <2> HIDE DEF u, was
  <2>4. Begins(<<>>, <<u>>) /\ Len(<<>>) = 0 /\ Len(<<u>>) = 1 /\ <<u>>[1] = u
    BY DEF Begins
  <2>5. AfterUses(was, <<u>>) = Effect(AfterUses(was, <<>>), u)
    <3>1. Len(<<u>>) = Len(<<>>) + 1 /\ <<u>>[Len(<<u>>)] = u
      BY <2>4
    <3> QED BY <2>4, <3>1, OneUseMore
  <2>6. AfterUses(was, <<>>) = was
    BY <2>4, NoUses
  <2> QED BY <1>1, <1>2, <2>1, <2>2, <2>3, <2>5, <2>6 DEF was
<1>5. CASE UnknownKey
  <2>1. k <= Len(Token) /\ Opt = 0 /\ IsShort(Token) /\ Unknown
    BY <1>5 DEF UnknownKey, ReadingKey
  <2>2. Stop(Token) = k
    BY <2>1, StopOfToken DEF ReadingInv, Ends, Opt
  <2> DEFINE given == IF k < Len(Token) THEN Rest
                      ELSE IF AwaitsValue(Token) /\ i < Len(argv) THEN argv[i + 1] ELSE Absent
  <2>3. Now' = Effect(Now, [opt |-> Opt, given |-> given])
    <3> HIDE DEF given
    <3> QED BY <1>1, <2>1, UnknownIsEffect
  <2> QED BY <2>1, <2>2, <2>3, LastUseOfCluster
<1>6. ASSUME NEW given, ReadingValue, Use(Opt, given), Stop(Token) = k =>
               given = IF k < Len(Token) THEN Rest
                       ELSE IF AwaitsValue(Token) /\ i < Len(argv) THEN argv[i + 1] ELSE Absent
      PROVE  Now' = OutcomeTo[i]
  <2>1. k <= Len(Token) /\ Opt # 0 /\ TakesValue(Opt) /\ IsShort(Token)
    BY <1>6 DEF ReadingValue, ReadingKey
  <2>2. Stop(Token) = k
    BY <2>1, StopOfToken DEF ReadingInv, Ends, Opt
  <2>3. Now' = Effect(Now, [opt |-> Opt, given |-> given])
    BY <1>1, <1>6, <2>1, UseIsEffect
  <2> QED BY <1>6, <2>1, <2>2, <2>3, LastUseOfCluster
<1>7. k \in Nat
  BY DEF CursorInv
<1>8. ASSUME k <= Len(Token)
      PROVE  Rest = <<>> <=> k = Len(Token)
  <2>1. k = Len(Token) => Rest = <<>>
    BY <1>1, <1>7 DEF Rest
  <2>2. Len(Rest) = Len(Token) - k
    BY <1>1, <1>7, <1>8 DEF Rest
  <2>3. Rest = <<>> => Len(Rest) = 0
    OBVIOUS
  <2> QED BY <1>1, <1>7, <2>1, <2>2, <2>3
<1>9. CASE AttachedValue
  <2>1. ReadingValue /\ k <= Len(Token) /\ Rest # <<>> /\ Use(Opt, Rest)
    BY <1>9 DEF AttachedValue, UseLast, ReadingValue, ReadingKey
  <2>2. k < Len(Token)
    BY <1>1, <1>7, <1>8, <2>1
  <2> QED BY <1>6, <2>1, <2>2
<1>10. CASE NextValue
  <2>1. ReadingValue /\ Use(Opt, argv[i + 1]) /\ i < Len(argv)
    BY <1>10 DEF NextValue, UseLast
  <2>2. AwaitsValue(Token) /\ k = Len(Token)
    BY <1>10, NextWordIsItsValue DEF ReadingInv
  <2>3. ~(k < Len(Token))
    BY <1>1, <2>2
  <2> QED BY <1>6, <2>1, <2>2, <2>3
<1>11. CASE NoValue
  <2>1. ReadingValue /\ k <= Len(Token) /\ Rest = <<>> /\ Use(Opt, Absent) /\ (NeedsValue(Opt) => i = Len(argv))
    BY <1>11 DEF NoValue, UseLast, ReadingValue, ReadingKey
  <2>2. k = Len(Token) /\ ~(k < Len(Token))
    BY <1>1, <1>8, <2>1
  <2>3. AwaitsValue(Token) => NeedsValue(Opt)
    BY <2>2 DEF AwaitsValue, Opt
  <2>4. ~(AwaitsValue(Token) /\ i < Len(argv))
    BY <1>1, <2>1, <2>3
  <2> QED BY <1>6, <2>1, <2>2, <2>4
<1>12. CASE EndOfCluster
  <2>1. k > Len(Token) /\ IsShort(Token) /\ Now' = Now
    BY <1>12 DEF EndOfCluster, Now, effects
  <2>2. Stop(Token) = Len(Token) + 1
    BY <2>1, StopOfToken DEF ReadingInv
  <2>3. /\ k \in 2 .. Stop(Token) /\ Now = AfterUses(was, FlagUses(i, k - 2))
        /\ \A c \in 0 .. Stop(Token) - 2 : Begins(FlagUses(i, c), UsesOf(i)) /\ Len(FlagUses(i, c)) = c
    BY <2>1, AtClusterOfArgv
  <2>4. k = Len(Token) + 1 /\ k - 2 \in 0 .. Stop(Token) - 2
    BY <1>1, <2>1, <2>2, <2>3
  <2>5. Len(UsesOf(i)) = k - 2
    <3>1. Stop(argv[i]) \in Nat /\ Stop(argv[i]) >= 2 /\ IsShort(argv[i]) /\ Stop(Token) > Len(Token)
      BY <1>1, <2>1, <2>2, <2>3, <2>4
    <3>2. Len(UsesOf(i)) = Stop(Token) - 2
      BY <1>1, <3>1, UsesOfCluster
    <3> QED BY <2>2, <2>4, <3>2
  <2> DEFINE s == FlagUses(i, k - 2)
             t == UsesOf(i)
  <2>6. Begins(s, t) /\ Len(s) = Len(t) /\ Now = AfterUses(was, s)
    BY <2>3, <2>4, <2>5
  <2> HIDE DEF s, t, was
  <2>7. AfterUses(was, s) = AfterUses(was, t)
    BY <2>6, UsesSoFar
  <2> QED BY <1>1, <2>1, <2>6, <2>7 DEF s, t, was
<1> QED BY <1>3, <1>4, <1>5, <1>9, <1>10, <1>11, <1>12
-----------------------------------------------------------------------------
(* One character more of a cluster.                                        *)
LEMMA FlagIsDone ==
  ASSUME RegistryInv, CursorInv, EffectsInv, ReadingInv, DoneInv, Flag
  PROVE  /\ k - 1 \in 0 .. Stop(Token) - 2
         /\ Now' = AfterUses(OutcomeTo[i - 1], FlagUses(i, k - 1))
<1>1. Reading /\ IsShort(Token) /\ k <= Len(Token) /\ Opt # 0 /\ ~TakesValue(Opt) /\ Use(Opt, Absent)
  BY DEF Flag, ReadingKey
<1>2. /\ argv \in Seq(Tokens) /\ i \in 1 .. Len(argv) /\ Token = argv[i]
      /\ Token \in Seq(STRING) /\ Len(Token) \in Nat /\ status = "parse"
  BY <1>1, AtWordOfArgv
<1>3. /\ Stop(Token) \in 2 .. Len(Token) + 1 /\ k \in 2 .. Stop(Token)
      /\ Now = AfterUses(OutcomeTo[i - 1], FlagUses(i, k - 2))
      /\ \A c \in 0 .. Stop(Token) - 2 : Begins(FlagUses(i, c), UsesOf(i)) /\ Len(FlagUses(i, c)) = c
  BY <1>1, AtClusterOfArgv
<1>4. Stop(Token) # k
  <2>1. Stop(Token) <= Len(Token) => Ends(Token[Stop(Token)])
    BY <1>1, <1>2, StopInside
  <2>2. ~Ends(Token[k])
    BY <1>1 DEF Ends, Opt
  <2> QED BY <1>1, <2>1, <2>2
<1>5. k \in Nat /\ k - 2 \in 0 .. Stop(Token) - 2 /\ k - 1 \in 0 .. Stop(Token) - 2 /\ (k - 1) - 1 = k - 2
  BY <1>2, <1>3, <1>4
<1>6. Now' = Effect(Now, FlagUse(i, k - 1))
  <2>1. FlagUse(i, k - 1) = [opt |-> Opt, given |-> Absent]
    <3>1. (k - 1) + 1 = k
      BY <1>5
    <3> QED BY <1>2, <3>1 DEF FlagUse, Opt
  <2> QED BY <1>1, <1>2, <2>1, UseIsEffect
<1> DEFINE was == OutcomeTo[i - 1]
           s == FlagUses(i, k - 2)
           t == FlagUses(i, k - 1)
<1>7. Len(s) = k - 2 /\ Len(t) = k - 1 /\ t[k - 1] = FlagUse(i, k - 1)
  <2>1. Len(s) = k - 2 /\ Len(t) = k - 1
    BY <1>3, <1>5
  <2>2. k - 1 \in 1 .. k - 1
    BY <1>2, <1>3
  <2> QED BY <2>1, <2>2 DEF FlagUses
<1>8. Begins(s, t)
  <2>1. \A m \in 1 .. k - 2 : m \in 1 .. k - 1 /\ s[m] = t[m]
    BY <1>2, <1>3 DEF FlagUses
  <2> HIDE DEF s, t
  <2> QED BY <1>5, <1>7, <2>1 DEF Begins
<1>9. AfterUses(was, t) = Effect(AfterUses(was, s), t[Len(t)])
  <2> HIDE DEF s, t, was
  <2>1. Len(t) = Len(s) + 1
    BY <1>5, <1>7
  <2> QED BY <1>8, <2>1, OneUseMore
<1> QED BY <1>3, <1>5, <1>6, <1>7, <1>9

(* And the next character or the exception follows.                        *)
LEMMA FlagKeepsDone ==
  ASSUME RegistryInv, CursorInv, EffectsInv, ReadingInv, DoneInv, Flag
  PROVE  DoneInv'
<1>1. /\ Reading /\ IsShort(Token) /\ k <= Len(Token)
      /\ i' = i /\ k' = k + 1 /\ Kept
  BY DEF Flag, ReadingKey, registry, call, Kept
<1>2. /\ argv \in Seq(Tokens) /\ i \in 1 .. Len(argv) /\ Token = argv[i] /\ Len(Token) \in Nat
      /\ Len(argv) \in Nat
      /\ OutcomeTo[i] = AfterUses(OutcomeTo[i - 1], UsesOf(i))
  BY <1>1, AtWordOfArgv
<1>3. k - 1 \in 0 .. Stop(Token) - 2 /\ Now' = AfterUses(OutcomeTo[i - 1], FlagUses(i, k - 1))
  BY FlagIsDone
<1>4. k \in Nat /\ k >= 2 /\ status' \in {"parse", "error", "exit"}
  BY OptionStepKeepsEffects DEF CursorInv
<1>5. /\ Outcome' = Outcome
      /\ \A n \in 0 .. Len(argv) : OutcomeTo[n]' = OutcomeTo[n]
  BY <1>1, <1>2, SameOutcome DEF Kept
<1>6. AfterUses(OutcomeTo[i - 1], FlagUses(i, k - 2))' = AfterUses(OutcomeTo[i - 1], FlagUses(i, k - 1))
  <2>1. OutcomeTo'[i' - 1] = OutcomeTo[i - 1]
    <3>1. i - 1 \in 0 .. Len(argv)
      BY <1>2
    <3>2. OutcomeTo'[i - 1] = OutcomeTo[i - 1]
      BY <1>5, <3>1
    <3> QED BY <1>1, <3>2
  <2>2. FlagUses(i, k - 2)' = FlagUses(i, k - 1)
    <3>1. k' - 2 = k - 1 /\ i' = i /\ UNCHANGED <<argv, opts, opt_list>>
      BY <1>1, <1>4 DEF Kept
    <3>2. \A c : FindKey(c)' = FindKey(c)
      BY <3>1 DEF FindKey, Find, SelectInSeq, Config
    <3>3. \A m : FlagUse(i, m)' = FlagUse(i, m)
      BY <3>1, <3>2 DEF FlagUse
    <3> QED BY <3>1, <3>3 DEF FlagUses
  <2> DEFINE was == OutcomeTo[i - 1]
             uses == FlagUses(i, k - 2)'
  <2>3. AfterUses(OutcomeTo[i - 1], FlagUses(i, k - 2))' = AfterUses(was, uses)
    <3>1. UNCHANGED <<argv, opts, opt_list, help_list, ignore, start>>
      BY <1>1 DEF Kept
    <3>2. OutcomeTo'[i' - 1] = was
      BY <2>1
    <3> QED BY <3>1, <3>2 DEF AfterUses, Effect, Before, Config, Helps
  <2> QED BY <2>2, <2>3
<1>7. status' = "parse" => ~((i > Len(argv) \/ ~IsShort(argv[i]) \/ Len(argv[i]) < 2)')
  <2>1. UNCHANGED <<argv, i>>
    BY <1>1 DEF Kept
  <2>2. IsShort(argv[i])' = IsShort(argv[i])
    BY <2>1 DEF IsShort, IsWord, IsLong
  <2> QED BY <1>1, <1>2, <1>4, <2>1, <2>2
<1>8. ASSUME status' \in {"error", "exit"}
      PROVE  Now' = Outcome'
  <2> DEFINE was == OutcomeTo[i - 1]
             s == FlagUses(i, k - 1)
             t == UsesOf(i)
  <2>1. Begins(s, t)
    BY <1>1, <1>3, AtClusterOfArgv
  <2>2. AfterUses(was, s) = Now' /\ Now'.status # "parse"
    BY <1>3, <1>8 DEF Now
  <2> HIDE DEF s, t, was
  <2>3. AfterUses(was, t) = Now'
    BY <2>1, <2>2, NothingBehindTheEnd
  <2>4. OutcomeTo[i] = Now' /\ OutcomeTo[i].status # "parse"
    BY <1>2, <2>2, <2>3 DEF t, was
  <2>5. i \in 0 .. Len(argv) /\ \A m \in 1 .. Len(argv) : Len(UsesOf(m)) \in Nat
    BY <1>2, UsesOfWord
  <2>6. Outcome = OutcomeTo[i]
    BY <1>2, <2>4, <2>5, OutcomeSticks
  <2> QED BY <1>5, <2>4, <2>6
<1>9. status' = "parse" => Now' = AfterUses(OutcomeTo[i - 1], FlagUses(i, k - 2))'
  BY <1>3, <1>6
<1> QED BY <1>4, <1>7, <1>8, <1>9 DEF DoneInv

(* Each step of parse() keeps what has been done.                          *)
LEMMA StepKeepsDone ==
  ASSUME RegistryInv, CursorInv, EffectsInv, ReadingInv, DoneInv, ParseStep
  PROVE  DoneInv'
<1>1. CASE TakeWord \/ LongOption \/ UnknownKey \/ AttachedValue \/ NoValue \/ EndOfCluster
  <2>1. Reading /\ ToToken(i + 1) /\ Kept
    BY <1>1 DEF LongOption, UnknownKey, AttachedValue, NoValue, EndOfCluster, TakeWord, UseLast,
                ReadingValue, ReadingKey, registry, call, Kept
  <2>2. argv \in Seq(Tokens) /\ i \in 1 .. Len(argv) /\ Len(argv) \in Nat /\ status = "parse"
    BY <2>1, AtWordOfArgv
  <2>3. Now' = OutcomeTo[i]
    BY <1>1, <2>1, WordIsDone
  <2>4. status' \in {"parse", "error", "exit"}
    <3>1. CASE TakeWord \/ EndOfCluster
      BY <2>2, <3>1 DEF TakeWord, EndOfCluster
    <3> QED BY <1>1, <3>1, OptionStepKeepsEffects
  <2>5. i + 1 \in 1 .. Len(argv) + 1 /\ (i + 1) - 1 = i
    BY <2>2
  <2> QED BY <2>1, <2>2, <2>3, <2>4, <2>5, GoesToWordWithOutcome
<1>2. CASE NextValue
  <2>1. Reading /\ ToToken(i + 2) /\ Kept
    BY <1>2 DEF NextValue, UseLast, ReadingValue, ReadingKey, registry, call, Kept
  <2>2. argv \in Seq(Tokens) /\ i \in 1 .. Len(argv) /\ Len(argv) \in Nat
    BY <2>1, AtWordOfArgv
  <2>3. i + 1 \in 1 .. Len(argv) /\ i + 1 \in ValueWords
    BY <1>2, NextWordIsItsValue DEF ReadingInv
  <2>4. i + 2 \in 1 .. Len(argv) + 1 /\ (i + 2) - 1 = i + 1 /\ (i + 1) - 1 = i
    BY <2>2, <2>3
  <2> DEFINE was == OutcomeTo[i]
             uses == UsesOf(i + 1)
  <2>5. OutcomeTo[i + 1] = AfterUses(was, uses)
    BY <2>2, <2>3, <2>4, OutcomeByTheWordBefore
  <2>6. Len(uses) = 0
    <3>1. uses = <<>>
      BY <2>2, <2>3, UsesOfWord
    <3> QED BY <3>1
  <2>7. Now' = was
    BY <1>2, <2>1, WordIsDone
  <2>8. Now' = OutcomeTo[i + 1]
    <3> HIDE DEF was, uses
    <3> QED BY <2>5, <2>6, <2>7, NoUses
  <2>9. status' \in {"parse", "error", "exit"}
    BY <1>2, OptionStepKeepsEffects
  <2> QED BY <2>1, <2>2, <2>4, <2>8, <2>9, GoesToWordWithOutcome
<1>3. CASE Flag
  BY <1>3, FlagKeepsDone
<1>4. CASE Finish
  <2>1. status = "parse" /\ status' = "done" /\ i > Len(argv) /\ UNCHANGED effects /\ Kept
    BY <1>4 DEF Finish, registry, call, Kept
  <2>2. argv \in Seq(Tokens) /\ Len(argv) \in Nat /\ i - 1 = Len(argv)
    BY <2>1 DEF CursorInv
  <2>3. k = 2 /\ Now = AfterUses(OutcomeTo[i - 1], FlagUses(i, k - 2))
    BY <2>1 DEF DoneInv
  <2>4. Now = Outcome
    <3> DEFINE was == OutcomeTo[i - 1]
               uses == FlagUses(i, k - 2)
    <3>1. Len(uses) = 0
      BY <2>3 DEF FlagUses
    <3>2. was = Outcome /\ Now = AfterUses(was, uses)
      BY <2>2, <2>3 DEF Outcome
    <3> HIDE DEF was, uses
    <3> QED BY <3>1, <3>2, NoUses
  <2>5. Outcome' = Outcome
    BY <2>1, <2>2, SameOutcome DEF Kept
  <2>6. [Now' EXCEPT !.status = "parse"] = Now
    BY <2>1 DEF Now, effects
  <2> QED BY <2>1, <2>4, <2>5, <2>6 DEF DoneInv
<1>5. CASE Return
  BY <1>5 DEF Return, DoneInv
<1> QED BY <1>1, <1>2, <1>3, <1>4, <1>5 DEF ParseStep

(* No word has no effect.                                                  *)
LEMMA NothingAtFirst ==
  argv \in Seq(Tokens) => OutcomeTo[0] = AtStart
<1> SUFFICES ASSUME argv \in Seq(Tokens)
             PROVE  OutcomeTo[0] = AtStart
  OBVIOUS
<1>1. Len(argv) \in Nat
  OBVIOUS
<1> QED BY <1>1, OutcomeByTheWordBefore

(* And neither has a cluster of which nothing is read. *)
LEMMA NoCharacterYet ==
  Len(FlagUses(i, k - 2)) = 0 => AfterUses(OutcomeTo[i - 1], FlagUses(i, k - 2)) = OutcomeTo[i - 1]
BY NoUses

(* It begins with the variables as they are.                               *)
LEMMA ParseBeginsUndone ==
  ASSUME Parse
  PROVE  DoneInv'
<1>1. (argv \in Seq(Tokens) => OutcomeTo[0] = AtStart)'
  BY NothingAtFirst, PTL
<1>2. argv' \in Seq(Tokens)
  BY ParseBegins DEF CursorInv
<1>3. i' = 1 /\ k' = 2 /\ status' = "parse" /\ UNCHANGED effects /\ start' = effects
  BY DEF Parse
<1> DEFINE was == Now'
           uses == FlagUses(i, k - 2)'
<1>4. OutcomeTo'[i' - 1] = was
  <2>1. OutcomeTo'[0] = AtStart'
    BY <1>1, <1>2
  <2>2. AtStart' = Now'
    BY <1>3 DEF AtStart, Now, effects
  <2>3. i' - 1 = 0
    BY <1>3
  <2> QED BY <2>1, <2>2, <2>3
<1>5. Len(uses) = 0
  BY <1>3 DEF FlagUses
<1>6. AfterUses(OutcomeTo[i - 1], FlagUses(i, k - 2))' = Now'
  <2>1. (Len(FlagUses(i, k - 2)) = 0 =>
           AfterUses(OutcomeTo[i - 1], FlagUses(i, k - 2)) = OutcomeTo[i - 1])'
    BY NoCharacterYet, PTL
  <2> QED BY <1>4, <1>5, <2>1
<1> QED BY <1>3, <1>6 DEF DoneInv

(* Every step keeps what has been done.                                    *)
LEMMA NextKeepsDone ==
  ASSUME IInv, ReadingInv, DoneInv, [Next]_vars
  PROVE  DoneInv'
<1>1. CASE Register
  <2>1. status' = "idle"
    BY <1>1 DEF Register, AddOpt, AddHelp, RemoveKey, RemoveName, RemoveAll, Registering
  <2> QED BY <2>1 DEF DoneInv
<1>2. CASE Parse
  BY <1>2, ParseBeginsUndone
<1>3. CASE ParseStep
  BY <1>3, StepKeepsDone DEF IInv
<1>4. CASE UNCHANGED vars
  <2>1. Kept /\ UNCHANGED <<stored, mode, i, k, status>>
    BY <1>4 DEF vars, registry, effects, call, Kept
  <2>2. Len(argv) \in Nat /\ i - 1 \in 0 .. Len(argv)
    BY DEF IInv, CursorInv
  <2>3. Outcome' = Outcome /\ OutcomeTo'[i - 1] = OutcomeTo[i - 1]
    BY <2>1, <2>2, SameOutcome DEF Kept
  <2>4. FlagUses(i, k - 2)' = FlagUses(i, k - 2)
    <3>1. \A c : FindKey(c)' = FindKey(c)
      BY <2>1 DEF FindKey, Find, SelectInSeq, Config, Kept
    <3>2. \A m : FlagUse(i, m)' = FlagUse(i, m)
      BY <2>1, <3>1 DEF FlagUse, Kept
    <3> QED BY <2>1, <3>2 DEF FlagUses
  <2> DEFINE was == OutcomeTo[i - 1]
             uses == FlagUses(i, k - 2)'
  <2>5. AfterUses(OutcomeTo[i - 1], FlagUses(i, k - 2))' = AfterUses(was, uses)
    <3>1. UNCHANGED <<argv, opts, opt_list, help_list, ignore, start>>
      BY <2>1 DEF Kept
    <3>2. OutcomeTo'[i' - 1] = was
      BY <2>1, <2>3
    <3> QED BY <3>1, <3>2 DEF AfterUses, Effect, Before, Config, Helps
  <2>6. Now' = Now
    BY <2>1 DEF Now
  <2>7. status' = "parse" /\ (i > Len(argv) \/ ~IsShort(argv[i]) \/ Len(argv[i]) < 2)' => k' = 2
    <3>1. UNCHANGED argv
      BY <2>1 DEF Kept
    <3>2. IsShort(argv[i])' <=> IsShort(argv[i])
      BY <2>1, <3>1 DEF IsShort, IsWord, IsLong
    <3> QED BY <2>1, <3>1, <3>2 DEF DoneInv
  <2>8. status' = "parse" => Now' = AfterUses(OutcomeTo[i - 1], FlagUses(i, k - 2))'
    BY <2>1, <2>4, <2>5, <2>6 DEF DoneInv
  <2>9. /\ status' \in {"error", "exit"} => Now' = Outcome'
        /\ status' = "done" => [Now' EXCEPT !.status = "parse"] = Outcome'
    BY <2>1, <2>3, <2>6 DEF DoneInv
  <2> QED BY <2>7, <2>8, <2>9 DEF DoneInv
<1> QED BY <1>1, <1>2, <1>3, <1>4 DEF Next, Exit

(* parse() uses the options that argv names, with the values that belong   *)
(* to them, in the order of argv, and nothing behind an exception or the   *)
(* end of the process, whatever the options and the arguments are.         *)
THEOREM EffectsAreTheUses == Spec => []EffectsAsRead
<1>1. Init => ReadingInv /\ DoneInv
  BY DEF Init, ReadingInv, AtWord, InCluster, Collected, AtEnd, DoneInv
<1>2. IInv /\ ReadingInv /\ DoneInv /\ [Next]_vars => ReadingInv' /\ DoneInv'
  BY NextReadingInv, NextKeepsDone
<1>3. DoneInv => EffectsAsRead
  <2> SUFFICES ASSUME DoneInv, status \in {"done", "error", "exit"}
               PROVE  Now = [Outcome EXCEPT !.status = IF @ = "parse" THEN "done" ELSE @]
    BY DEF EffectsAsRead, Now
  <2>1. CASE status = "done"
    <3>1. Outcome = [Now EXCEPT !.status = "parse"]
      BY <2>1 DEF DoneInv
    <3>2. Outcome = [stored |-> stored, mode |-> mode, status |-> "parse"]
      BY <3>1 DEF Now
    <3> QED BY <2>1, <3>2 DEF Now
  <2>2. CASE status \in {"error", "exit"}
    <3>1. Outcome = Now
      BY <2>2 DEF DoneInv
    <3> QED BY <2>2, <3>1 DEF Now
  <2> QED BY <2>1, <2>2
<1> QED BY <1>1, <1>2, <1>3, RegistryAndCursors, PTL DEF Spec
-----------------------------------------------------------------------------
Comma == ","

(* Where a piece that begins at s ends. *)
Ending(str, least, s) == {e \in s - 1 + least .. Len(str) : e = Len(str) \/ str[e + 1] = ","}
PieceEnd(str, s) == Min(Ending(str, 1, s))

(* It is the first place from s on with a comma behind it, or the end.     *)
LEMMA EndOfPiece ==
  ASSUME NEW C, NEW str \in Seq(C), NEW s \in 1 .. Len(str)
  PROVE  /\ PieceEnd(str, s) \in s .. Len(str)
         /\ PieceEnd(str, s) = Len(str) \/ str[PieceEnd(str, s) + 1] = Comma
         /\ \A e \in s .. Len(str) :
              (e = Len(str) \/ str[e + 1] = Comma) /\ (\A d \in s .. e - 1 : str[d + 1] # Comma)
                => PieceEnd(str, s) = e
         /\ \A d \in s .. PieceEnd(str, s) - 1 : str[d + 1] # Comma
<1> DEFINE I == Ending(str, 1, s)
           N == Len(str)
           Ended(e) == e = N \/ str[e + 1] = Comma
<1>1. N \in Nat /\ s \in 1 .. N /\ s - 1 + 1 = s
  OBVIOUS
<1>2. I = {e \in s .. N : Ended(e)}
  <2>1. I = {e \in s - 1 + 1 .. N : Ended(e)}
    BY Zenon DEF Ending, Comma
  <2> HIDE DEF I, Ended
  <2> QED BY <1>1, <2>1
<1>3. Ended(N) /\ \A e : e # N => (Ended(e) <=> str[e + 1] = Comma)
  OBVIOUS
<1>4. PieceEnd(str, s) = Min(I)
  BY DEF PieceEnd
<1> DEFINE x == PieceEnd(str, s)
<1> HIDE DEF I, N, Ended, x
<1>5. I \subseteq Nat /\ N \in I
  <2>1. I \subseteq s .. N
    BY <1>2
  <2>2. s .. N \subseteq Nat /\ N \in s .. N
    BY <1>1
  <2> QED BY <1>2, <1>3, <2>1, <2>2
<1>6. x \in I /\ \A n \in I : x <= n
  BY <1>4, <1>5, LeastNumber DEF x
<1>7. x \in s .. N /\ Ended(x)
  BY <1>2, <1>6
<1>8. ASSUME NEW d \in s .. x - 1
      PROVE  str[d + 1] # Comma
  <2>1. d \in s .. N /\ ~(x <= d) /\ d # N
    BY <1>1, <1>7
  <2> QED BY <1>2, <1>3, <1>6, <2>1
<1>9. ASSUME NEW e \in s .. N, Ended(e), \A d \in s .. e - 1 : str[d + 1] # Comma
      PROVE  x = e
  <2>1. e \in I
    BY <1>2, <1>9
  <2>2. x <= e
    BY <1>6, <2>1
  <2>3. x < e => x \in s .. e - 1 /\ x # N
    BY <1>1, <1>7
  <2>4. ~(x < e)
    BY <1>3, <1>7, <1>9, <2>3
  <2> QED BY <1>1, <1>7, <2>2, <2>4
<1> QED BY <1>7, <1>8, <1>9 DEF x, N, Ended

(* The pieces of a string, from each of its characters on. *)
Cut(f, str) ==
  \A s \in 1 .. Len(str) + 2 :
    f[s] = IF s > Len(str) THEN <<>> ELSE <<SubSeq(str, s, PieceEnd(str, s))>> \o f[PieceEnd(str, s) + 2]

(* The pieces from a character on are the one there and those behind its   *)
(* end and a comma.                                                        *)
LEMMA PiecesOneByOne ==
  ASSUME NEW C, NEW str \in Seq(C)
  PROVE  \E f : Pieces(str, 1) = f[1] /\ Cut(f, str)
<1> DEFINE N == Len(str)
           E == [s \in 1 .. N |-> PieceEnd(str, s)]
           P == [s \in 1 .. N |-> SubSeq(str, s, PieceEnd(str, s))]
           To(f, s) == IF s > N THEN <<>> ELSE <<SubSeq(str, s, PieceEnd(str, s))>> \o f[PieceEnd(str, s) + 2]
           from == CHOOSE f : f = [s \in 1 .. N + 2 |-> To(f, s)]
<1>1. Pieces(str, 1) = from[1]
  BY DEF Pieces, PieceEnd, Ending
<1>2. N \in Nat
  OBVIOUS
<1>3. \A s \in 1 .. N : E[s] \in s - 1 .. N
  <2> SUFFICES ASSUME NEW s \in 1 .. N
               PROVE  PieceEnd(str, s) \in s - 1 .. N
    OBVIOUS
  <2>1. PieceEnd(str, s) \in s .. N
    BY EndOfPiece
  <2> HIDE DEF N
  <2> QED BY <1>2, <2>1
<1>8. \A s \in 1 .. N : E[s] = PieceEnd(str, s) /\ P[s] = SubSeq(str, s, PieceEnd(str, s))
  OBVIOUS
<1> HIDE DEF E, P
<1>4. ASSUME NEW f
      PROVE  PiecesFrom(f, N, E, P) <=> f = [s \in 1 .. N + 2 |-> To(f, s)]
  <2>1. \A s \in 1 .. N + 2 : (IF s > N THEN <<>> ELSE <<P[s]>> \o f[E[s] + 2]) = To(f, s)
    <3> SUFFICES ASSUME NEW s \in 1 .. N + 2
                 PROVE  (IF s > N THEN <<>> ELSE <<P[s]>> \o f[E[s] + 2]) = To(f, s)
      OBVIOUS
    <3>1. CASE s > N
      BY <3>1
    <3>2. CASE ~(s > N)
      <4>1. s \in 1 .. N
        <5> HIDE DEF N
        <5> QED BY <1>2, <3>2
      <4>2. E[s] = PieceEnd(str, s) /\ P[s] = SubSeq(str, s, PieceEnd(str, s))
        BY <1>8, <4>1
      <4> QED BY <4>2
    <3> QED BY <3>1, <3>2
  <2> HIDE DEF N, E, P, To
  <2> QED BY <2>1 DEF PiecesFrom
<1>5. \E f : PiecesFrom(f, N, E, P)
  <2> HIDE DEF N, E, P
  <2> QED BY <1>2, <1>3, PiecesExist
<1>6. from = [s \in 1 .. N + 2 |-> To(from, s)]
  <2> HIDE DEF N, E, P, To
  <2> QED BY <1>4, <1>5
<1>7. \A s \in 1 .. N + 2 : from[s] = To(from, s)
  <2> HIDE DEF from, To
  <2> QED BY <1>6
<1> QED BY <1>1, <1>7 DEF Cut

(* Two texts with something in between. *)
LEMMA JointText ==
  ASSUME NEW S, NEW a \in Seq(S), NEW c \in S, NEW b \in Seq(S), NEW ab, ab = a \o <<c>> \o b
  PROVE  /\ ab \in Seq(S) /\ Len(a) \in Nat /\ Len(b) \in Nat
         /\ Len(ab) = Len(a) + 1 + Len(b)
         /\ \A n \in 1 .. Len(a) : ab[n] = a[n]
         /\ ab[Len(a) + 1] = c
         /\ \A n \in 1 .. Len(b) : ab[Len(a) + 1 + n] = b[n]
         /\ \A s, e \in 1 .. Len(a) : SubSeq(ab, s, e) = SubSeq(a, s, e)
         /\ \A s, e \in 1 .. Len(b) : SubSeq(ab, Len(a) + 1 + s, Len(a) + 1 + e) = SubSeq(b, s, e)
<1> DEFINE ac == a \o <<c>>
<1>1. <<c>> \in Seq(S) /\ Len(<<c>>) = 1 /\ <<c>>[1] = c /\ Len(a) \in Nat /\ Len(b) \in Nat
  OBVIOUS
<1>2. ac \in Seq(S) /\ Len(ac) = Len(a) + 1
  BY <1>1, ConcatProperties
<1>3. \A n \in 1 .. Len(a) : ac[n] = a[n]
  BY <1>1, ConcatProperties
<1>4. ac[Len(a) + 1] = c
  BY <1>1, <1>2, ConcatProperties
<1>5. \A s, e \in 1 .. Len(a) : SubSeq(ac, s, e) = SubSeq(a, s, e)
  BY <1>1, SubSeqOfConcat1
<1> HIDE DEF ac
<1>6. ab = ac \o b
  BY DEF ac
<1>7. /\ ab \in Seq(S) /\ Len(ab) = Len(a) + 1 + Len(b)
      /\ \A n \in 1 .. Len(ac) + Len(b) : ab[n] = IF n <= Len(ac) THEN ac[n] ELSE b[n - Len(ac)]
  BY <1>2, <1>6, ConcatProperties
<1>8. /\ \A n \in 1 .. Len(a) : ab[n] = a[n]
      /\ ab[Len(a) + 1] = c
  BY <1>1, <1>2, <1>3, <1>4, <1>7
<1>9. ASSUME NEW n \in 1 .. Len(b)
      PROVE  ab[Len(a) + 1 + n] = b[n]
  <2>1. /\ Len(a) + 1 + n \in 1 .. Len(ac) + Len(b) /\ ~(Len(a) + 1 + n <= Len(ac))
        /\ Len(a) + 1 + n - Len(ac) = n
    BY <1>1, <1>2
  <2> QED BY <1>7, <2>1
<1>10. ASSUME NEW s \in 1 .. Len(a), NEW e \in 1 .. Len(a)
       PROVE  SubSeq(ab, s, e) = SubSeq(a, s, e)
  <2>1. s \in 1 .. Len(ac) /\ e \in 1 .. Len(ac)
    BY <1>1, <1>2
  <2>2. SubSeq(ac \o b, s, e) = SubSeq(ac, s, e)
    BY <1>2, <2>1, SubSeqOfConcat1
  <2> QED BY <1>5, <1>6, <2>2
<1>11. ASSUME NEW s \in 1 .. Len(b), NEW e \in 1 .. Len(b)
       PROVE  SubSeq(ab, Len(a) + 1 + s, Len(a) + 1 + e) = SubSeq(b, s, e)
  <2> DEFINE m == Len(a) + 1 + s
             n == Len(a) + 1 + e
  <2>1. /\ m \in Len(ac) + 1 .. Len(ac) + Len(b) /\ n \in Len(ac) + 1 .. Len(ac) + Len(b)
        /\ m - Len(ac) = s /\ n - Len(ac) = e
    BY <1>1, <1>2
  <2> HIDE DEF m, n
  <2>2. SubSeq(ac \o b, m, n) = SubSeq(b, m - Len(ac), n - Len(ac))
    BY <1>2, <2>1, SubSeqOfConcat2
  <2> QED BY <1>6, <2>1, <2>2 DEF m, n
<1> QED BY <1>1, <1>7, <1>8, <1>9, <1>10, <1>11

(* Counting down: what holds of a number if it holds of all behind it,     *)
(* holds of all.                                                           *)
LEMMA CountDown ==
  ASSUME NEW N \in Nat, NEW S, \A s \in 1 .. N : (\A t \in s + 1 .. N : t \in S) => s \in S
  PROVE  \A s \in 1 .. N : s \in S
<1> DEFINE T == {m \in 0 .. N : \A t \in N - m + 1 .. N : t \in S}
<1>1. 0 \in T
  OBVIOUS
<1>2. ASSUME NEW m \in 0 .. N - 1, m \in T
      PROVE  m + 1 \in T
  <2> DEFINE s == N - m
  <2>1. s \in 1 .. N /\ \A t \in s + 1 .. N : t \in S
    BY <1>2
  <2>2. s \in S
    <3> HIDE DEF s
    <3> QED BY <2>1
  <2>3. \A t \in N - (m + 1) + 1 .. N : t = s \/ t \in s + 1 .. N
    OBVIOUS
  <2>4. m + 1 \in 0 .. N /\ \A t \in N - (m + 1) + 1 .. N : t \in S
    <3> HIDE DEF s
    <3> QED BY <2>1, <2>2, <2>3
  <2> QED BY <2>4
<1> HIDE DEF T
<1>3. N \in T
  BY <1>1, <1>2, CountUp
<1>4. \A s \in 1 .. N : s \in N - N + 1 .. N
  OBVIOUS
<1> QED BY <1>3, <1>4 DEF T

(* The one at a character, and those behind it. *)
LEMMA CutAt ==
  ASSUME NEW C, NEW str \in Seq(C), NEW f, Cut(f, str), NEW s \in 1 .. Len(str) + 2
  PROVE  /\ s > Len(str) => f[s] = <<>>
         /\ ~(s > Len(str)) => f[s] = <<SubSeq(str, s, PieceEnd(str, s))>> \o f[PieceEnd(str, s) + 2]
<1>1. f[s] = IF s > Len(str) THEN <<>> ELSE <<SubSeq(str, s, PieceEnd(str, s))>> \o f[PieceEnd(str, s) + 2]
  BY Zenon DEF Cut
<1> QED BY Zenon, <1>1

(* They are strings. *)
LEMMA PiecesAreStrings ==
  ASSUME NEW C, NEW str \in Seq(C), NEW f, Cut(f, str)
  PROVE  \A s \in 1 .. Len(str) + 2 : f[s] \in Seq(Seq(C))
<1> DEFINE N == Len(str)
           Q == Seq(C)
           S == {s \in 1 .. N + 2 : f[s] \in Seq(Q)}
<1>1. N \in Nat
  OBVIOUS
<1> HIDE DEF Q
<1>2. ASSUME NEW s \in 1 .. N + 2, \A t \in s + 1 .. N + 2 : t \in S
      PROVE  s \in S
  <2> DEFINE e == PieceEnd(str, s)
  <2>1. CASE s > N
    <3>1. f[s] = <<>>
      BY <2>1, CutAt
    <3>2. <<>> \in Seq(Q)
      OBVIOUS
    <3> HIDE DEF N
    <3> QED BY <3>1, <3>2
  <2>2. CASE s <= N
    <3>1. e \in s .. N /\ s \in 1 .. N
      <4>1. s \in 1 .. N
        BY <1>1, <2>2
      <4> QED BY <4>1, EndOfPiece
    <3>2. f[s] = <<SubSeq(str, s, e)>> \o f[e + 2]
      <4>1. ~(s > N)
        BY <1>1, <2>2
      <4> QED BY <4>1, CutAt
    <3> HIDE DEF e, N
    <3>3. e + 2 \in s + 1 .. N + 2 /\ e \in 1 .. Len(str) /\ s \in 1 .. Len(str)
      BY <1>1, <3>1 DEF N
    <3>4. f[e + 2] \in Seq(Q)
      BY <1>2, <3>3
    <3>5. SubSeq(str, s, e) \in Q
      BY <3>3, SubSeqProperties DEF Q
    <3>6. f[s] \in Seq(Q)
      BY <3>2, <3>4, <3>5, OneMore
    <3> QED BY <3>6
  <2> QED BY <1>1, <2>1, <2>2
<1>3. N + 2 \in Nat
  BY <1>1
<1> HIDE DEF S, N
<1>4. \A s \in 1 .. N + 2 : s \in S
  BY <1>2, <1>3, CountDown
<1> QED BY <1>4 DEF S, N, Q

(* ab is the list a, whose last element is not empty, with the list b      *)
(* behind it.                                                              *)
Together(C, a, b, ab) ==
  a \in Seq(C) /\ b \in Seq(C) /\ Comma \in C /\ a # <<>> /\ Last(a) # Comma /\ ab = a \o <<Comma>> \o b

(* A string, a comma that does not end in an empty piece, and another one: *)
(* the pieces of the one and then those of the other.                      *)
LEMMA PiecesOfBoth ==
  ASSUME NEW C, NEW a, NEW b, NEW ab, Together(C, a, b, ab)
  PROVE  /\ Pieces(ab, 1) = Pieces(a, 1) \o Pieces(b, 1)
         /\ Pieces(a, 1) \in Seq(Seq(C)) /\ Pieces(b, 1) \in Seq(Seq(C))
<1> DEFINE N == Len(a)
           M == Len(b)
           Q == Seq(C)
<1>12. /\ a \in Seq(C) /\ b \in Seq(C) /\ Comma \in C /\ a # <<>> /\ Last(a) # Comma
       /\ ab = a \o <<Comma>> \o b
  BY DEF Together
<1>1. /\ ab \in Seq(C) /\ N \in Nat /\ M \in Nat /\ Len(ab) = N + 1 + M
      /\ \A n \in 1 .. N : ab[n] = a[n]
      /\ ab[N + 1] = Comma
      /\ \A n \in 1 .. M : ab[N + 1 + n] = b[n]
      /\ \A s, e \in 1 .. N : SubSeq(ab, s, e) = SubSeq(a, s, e)
      /\ \A s, e \in 1 .. M : SubSeq(ab, N + 1 + s, N + 1 + e) = SubSeq(b, s, e)
  BY <1>12, JointText
<1>2. N >= 1 /\ a[N] # Comma
  <2>1. N # 0
    BY <1>1, <1>12
  <2> QED BY <1>1, <1>12, <2>1 DEF Last
<1>3. ASSUME NEW s \in 1 .. N
      PROVE  /\ PieceEnd(ab, s) = PieceEnd(a, s) /\ PieceEnd(a, s) \in s .. N /\ PieceEnd(a, s) # N - 1
  <2> DEFINE e == PieceEnd(a, s)
  <2>1. /\ e \in s .. N /\ (e = N \/ a[e + 1] = Comma) /\ \A d \in s .. e - 1 : a[d + 1] # Comma
    BY EndOfPiece, <1>12
  <2> HIDE DEF e, N, M
  <2>2. e \in s .. N + 1 + M /\ s \in 1 .. N + 1 + M /\ (e = N \/ e + 1 \in 1 .. N)
    BY <1>1, <2>1
  <2>3. ab[e + 1] = Comma
    BY <1>1, <2>1, <2>2
  <2>4. \A d \in s .. e - 1 : ab[d + 1] # Comma
    <3> SUFFICES ASSUME NEW d \in s .. e - 1
                 PROVE  ab[d + 1] # Comma
      OBVIOUS
    <3>1. d + 1 \in 1 .. N
      BY <1>1, <2>1
    <3> QED BY <1>1, <2>1, <3>1
  <2>5. PieceEnd(ab, s) = e
    <3>1. s \in 1 .. Len(ab) /\ e \in s .. Len(ab)
      BY <1>1, <2>2
    <3> QED BY <1>1, <2>3, <2>4, <3>1, EndOfPiece, <1>12
  <2>6. e # N - 1
    <3> SUFFICES ASSUME e = N - 1
                 PROVE  FALSE
      OBVIOUS
    <3>1. e + 1 = N /\ e # N
      BY <1>1
    <3> QED BY <1>2, <2>1, <3>1
  <2> QED BY <2>1, <2>5, <2>6 DEF e
<1>4. ASSUME NEW s \in 1 .. M
      PROVE  PieceEnd(ab, N + 1 + s) = N + 1 + PieceEnd(b, s) /\ PieceEnd(b, s) \in s .. M
  <2> DEFINE e == PieceEnd(b, s)
             x == N + 1 + e
             y == N + 1 + s
  <2>1. /\ e \in s .. M /\ (e = M \/ b[e + 1] = Comma) /\ \A d \in s .. e - 1 : b[d + 1] # Comma
    BY EndOfPiece, <1>12
  <2> HIDE DEF e, N, M
  <2>2. x \in y .. N + 1 + M /\ y \in 1 .. N + 1 + M /\ (e = M => x = N + 1 + M)
    BY <1>1, <2>1
  <2>3. x = Len(ab) \/ ab[x + 1] = Comma
    <3>1. CASE e = M
      BY <1>1, <2>2, <3>1
    <3>2. CASE e # M
      <4>1. e + 1 \in 1 .. M /\ N + 1 + (e + 1) = x + 1
        BY <1>1, <2>1, <3>2
      <4> QED BY <1>1, <2>1, <3>2, <4>1
    <3> QED BY <3>1, <3>2
  <2>4. \A d \in y .. x - 1 : ab[d + 1] # Comma
    <3> SUFFICES ASSUME NEW d \in y .. x - 1
                 PROVE  ab[d + 1] # Comma
      OBVIOUS
    <3> DEFINE c == d - (N + 1)
    <3>1. c \in s .. e - 1 /\ c + 1 \in 1 .. M /\ N + 1 + (c + 1) = d + 1
      BY <1>1, <2>1
    <3> HIDE DEF c
    <3> QED BY <1>1, <2>1, <3>1
  <2>5. PieceEnd(ab, y) = x
    <3> HIDE DEF x, y
    <3>1. y \in 1 .. Len(ab) /\ x \in y .. Len(ab)
      BY <1>1, <2>2
    <3> QED BY <1>1, <2>3, <2>4, <3>1, EndOfPiece, <1>12
  <2> QED BY <2>1, <2>5 DEF e
<1>5. PICK f : Pieces(ab, 1) = f[1] /\ Cut(f, ab)
  <2>1. ab \in Seq(C)
    BY <1>1
  <2> QED BY <2>1, PiecesOneByOne, <1>12
<1>6. PICK g : Pieces(a, 1) = g[1] /\ Cut(g, a)
  BY PiecesOneByOne, <1>12
<1>7. PICK h : Pieces(b, 1) = h[1] /\ Cut(h, b)
  BY PiecesOneByOne, <1>12
<1>8. ASSUME NEW s \in 1 .. M + 2
      PROVE  f[N + 1 + s] = h[s]
  <2> DEFINE S == {n \in 1 .. M + 2 : f[N + 1 + n] = h[n]}
  <2>1. M + 2 \in Nat
    BY <1>1
  <2>2. ASSUME NEW n \in 1 .. M + 2, \A t \in n + 1 .. M + 2 : t \in S
        PROVE  n \in S
    <3> DEFINE y == N + 1 + n
    <3>1. y \in 1 .. Len(ab) + 2 /\ (y > Len(ab) <=> n > M)
      BY <1>1
    <3>2. CASE n > M
      <4>1. f[y] = <<>> /\ h[n] = <<>>
        BY <1>5, <1>7, <3>1, <3>2 DEF Cut
      <4> QED BY <4>1
    <3>3. CASE n <= M
      <4> DEFINE e == PieceEnd(b, n)
      <4>1. n \in 1 .. M
        BY <1>1, <3>3
      <4>2. PieceEnd(ab, y) = N + 1 + e /\ e \in n .. M
        BY <1>4, <4>1
      <4>3. f[y] = <<SubSeq(ab, y, N + 1 + e)>> \o f[(N + 1 + e) + 2]
        <5>1. ~(y > Len(ab))
          BY <1>1, <3>1, <3>3
        <5> HIDE DEF e, y
        <5> QED BY <1>5, <3>1, <4>2, <5>1 DEF Cut
      <4>4. h[n] = <<SubSeq(b, n, e)>> \o h[e + 2]
        <5>1. ~(n > M)
          BY <1>1, <3>3
        <5> QED BY <1>7, <5>1, CutAt, <1>12
      <4> HIDE DEF e
      <4>5. e + 2 \in n + 1 .. M + 2 /\ e \in 1 .. M /\ (N + 1 + e) + 2 = N + 1 + (e + 2)
        BY <1>1, <4>1, <4>2
      <4>6. f[N + 1 + (e + 2)] = h[e + 2]
        <5> HIDE DEF N, M
        <5> QED BY <2>2, <4>5
      <4>7. SubSeq(ab, y, N + 1 + e) = SubSeq(b, n, e)
        BY <1>1, <4>1, <4>5
      <4>8. f[y] = h[n]
        <5> HIDE DEF N, M, y
        <5> QED BY <4>3, <4>4, <4>5, <4>6, <4>7
      <4> QED BY <4>8
    <3> QED BY <1>1, <3>2, <3>3
  <2> HIDE DEF S, N, M
  <2>3. \A n \in 1 .. M + 2 : n \in S
    BY <2>1, <2>2, CountDown
  <2> QED BY <2>3 DEF S
<1>9. h[1] \in Seq(Q) /\ \A s \in 1 .. N + 2 : g[s] \in Seq(Q)
  <2>1. 1 \in 1 .. M + 2
    BY <1>1
  <2> QED BY <1>6, <1>7, <2>1, PiecesAreStrings, <1>12
<1> HIDE DEF Q
<1>10. \A s \in 1 .. N + 2 : s # N + 1 => f[s] = g[s] \o h[1]
  <2> DEFINE S == {n \in 1 .. N + 2 : n # N + 1 => f[n] = g[n] \o h[1]}
  <2>1. N + 2 \in Nat
    BY <1>1
  <2>2. ASSUME NEW n \in 1 .. N + 2, \A t \in n + 1 .. N + 2 : t \in S
        PROVE  n \in S
    <3>1. CASE n = N + 2
      <4>1. g[n] = <<>>
        <5>1. n > N
          BY <1>1, <3>1
        <5> QED BY <1>6, <5>1, CutAt, <1>12
      <4>2. f[n] = h[1]
        <5>1. N + 1 + 1 = N + 2 /\ 1 \in 1 .. M + 2
          BY <1>1
        <5> HIDE DEF N, M
        <5> QED BY <1>8, <3>1, <5>1
      <4>3. <<>> \o h[1] = h[1]
        BY <1>9, ConcatEmptySeq
      <4> QED BY <4>1, <4>2, <4>3
    <3>2. CASE n <= N
      <4> DEFINE e == PieceEnd(a, n)
      <4>1. n \in 1 .. N
        BY <1>1, <3>2
      <4>2. PieceEnd(ab, n) = e /\ e \in n .. N /\ e # N - 1
        BY <1>3, <4>1
      <4>3. f[n] = <<SubSeq(ab, n, e)>> \o f[e + 2]
        <5>1. n \in 1 .. Len(ab) + 2 /\ ~(n > Len(ab))
          BY <1>1, <4>1
        <5> HIDE DEF e
        <5> QED BY <1>5, <4>2, <5>1 DEF Cut
      <4>4. g[n] = <<SubSeq(a, n, e)>> \o g[e + 2]
        <5>1. ~(n > N)
          BY <1>1, <3>2
        <5> QED BY <1>6, <5>1, CutAt, <1>12
      <4> HIDE DEF e
      <4>5. e + 2 \in n + 1 .. N + 2 /\ e \in 1 .. N /\ e + 2 # N + 1 /\ e + 2 \in 1 .. N + 2
        <5> HIDE DEF N, M
        <5> QED BY <1>1, <4>1, <4>2
      <4>6. f[e + 2] = g[e + 2] \o h[1]
        <5> HIDE DEF N, M
        <5> QED BY <2>2, <4>5
      <4>7. SubSeq(ab, n, e) = SubSeq(a, n, e) /\ SubSeq(a, n, e) \in Q
        <5>1. SubSeq(a, n, e) \in Q
          BY <4>1, <4>5, SubSeqProperties, <1>12 DEF Q
        <5> QED BY <1>1, <4>1, <4>5, <5>1
      <4>8. g[e + 2] \in Seq(Q)
        BY <1>9, <4>5
      <4> DEFINE p == <<SubSeq(a, n, e)>>
                 q == g[e + 2]
                 r == h[1]
      <4>9. p \in Seq(Q)
        BY <4>7
      <4>10. f[n] = p \o (q \o r) /\ g[n] = p \o q
        BY <4>3, <4>4, <4>6, <4>7
      <4> HIDE DEF p, q, r
      <4>11. (p \o q) \o r = p \o (q \o r)
        <5>1. q \in Seq(Q) /\ r \in Seq(Q)
          BY <1>9, <4>8 DEF q, r
        <5> QED BY <4>9, <5>1, ConcatAssociative
      <4> QED BY <4>10, <4>11 DEF r
    <3>3. CASE n = N + 1
      BY <3>3
    <3>4. n = N + 2 \/ n <= N \/ n = N + 1
      BY <1>1
    <3> QED BY <3>1, <3>2, <3>3, <3>4
  <2> HIDE DEF S, N, M
  <2>3. \A n \in 1 .. N + 2 : n \in S
    BY <2>1, <2>2, CountDown
  <2> QED BY <2>3 DEF S
<1>11. 1 \in 1 .. N + 2 /\ 1 # N + 1
  BY <1>1, <1>2
<1> QED BY <1>5, <1>6, <1>7, <1>9, <1>10, <1>11 DEF Q
-----------------------------------------------------------------------------
(* v[n] is what the first n elements of a list of elements leave. *)
Does(v, st, str, p) ==
  v[0] = st /\ v[Len(p)] = SetSub(st, str) /\ \A n \in 1 .. Len(p) : v[n] = SetElement(v[n - 1], p[n])

(* A list of elements does what its pieces do one after the other.         *)
LEMMA ElementByElement ==
  ASSUME NEW st, NEW str, Len(Pieces(str, 1)) \in Nat
  PROVE  \E v : Does(v, st, str, Pieces(str, 1))
<1> DEFINE p == Pieces(str, 1)
           v == CHOOSE f : f = [n \in 0 .. Len(p) |-> IF n = 0 THEN st ELSE SetElement(f[n - 1], p[n])]
<1>1. SetSub(st, str) = v[Len(p)]
  BY DEF SetSub
<1>2. Afters(v, st, p)
  <2>1. Len(p) \in Nat
    OBVIOUS
  <2> HIDE DEF p
  <2> QED BY <2>1, AftersExist DEF Afters
<1> HIDE DEF v
<1>3. \A n \in 0 .. Len(p) : v[n] = IF n = 0 THEN st ELSE SetElement(v[n - 1], p[n])
  BY <1>2 DEF Afters
<1>4. v[0] = st /\ \A n \in 1 .. Len(p) : v[n] = SetElement(v[n - 1], p[n])
  BY <1>3
<1> QED BY <1>1, <1>4 DEF Does

(* The elements of one list behind those of another.                       *)
LEMMA SubOfBoth ==
  ASSUME NEW C, NEW a, NEW b, NEW ab, Together(C, a, b, ab), NEW st
  PROVE  SetSub(st, ab) = SetSub(SetSub(st, a), b)
<1> DEFINE p == Pieces(a, 1)
           q == Pieces(b, 1)
           r == Pieces(ab, 1)
           Q == Seq(C)
<1>1. r = p \o q /\ p \in Seq(Q) /\ q \in Seq(Q)
  BY PiecesOfBoth
<1> HIDE DEF Q
<1>2. Len(p) \in Nat /\ Len(q) \in Nat
  <2> HIDE DEF p, q
  <2> QED BY <1>1
<1>3. /\ Len(r) = Len(p) + Len(q) /\ Len(r) \in Nat
      /\ \A n \in 1 .. Len(p) + Len(q) : r[n] = IF n <= Len(p) THEN p[n] ELSE q[n - Len(p)]
  <2> HIDE DEF p, q, r
  <2>1. Len(r) = Len(p) + Len(q)
    BY <1>1, ConcatProperties
  <2> QED BY <1>1, <1>2, <2>1, ConcatProperties
<1> DEFINE half == SetSub(st, a)
<1>4. PICK x : Does(x, st, a, p)
  BY <1>2, ElementByElement
<1>5. PICK y : Does(y, half, b, q)
  <2> HIDE DEF half
  <2> QED BY <1>2, ElementByElement
<1>6. PICK v : Does(v, st, ab, r)
  BY <1>3, ElementByElement
<1> USE DEF Does
<1> HIDE DEF p, q, r, half
<1>7. v[Len(p)] = x[Len(p)]
  <2> DEFINE S == {n \in 0 .. Len(p) : v[n] = x[n]}
  <2>1. 0 \in S
    BY <1>2, <1>4, <1>6
  <2>2. ASSUME NEW m \in 0 .. Len(p) - 1, m \in S
        PROVE  m + 1 \in S
    <3>1. /\ m + 1 \in 1 .. Len(p) /\ m + 1 \in 1 .. Len(r) /\ (m + 1) - 1 = m /\ m + 1 \in 0 .. Len(p)
          /\ r[m + 1] = p[m + 1]
      BY <1>2, <1>3
    <3>2. v[m + 1] = SetElement(v[m], r[m + 1]) /\ x[m + 1] = SetElement(x[m], p[m + 1])
      BY <1>4, <1>6, <3>1
    <3>3. v[m] = x[m]
      BY <2>2
    <3> QED BY <3>1, <3>2, <3>3
  <2> HIDE DEF S
  <2>3. \A m \in 0 .. Len(p) : m \in S
    BY <1>2, <2>1, <2>2, CountUp
  <2>4. Len(p) \in 0 .. Len(p)
    BY <1>2
  <2> QED BY <2>3, <2>4 DEF S
<1>8. v[Len(p) + Len(q)] = y[Len(q)]
  <2> DEFINE S == {n \in 0 .. Len(q) : v[Len(p) + n] = y[n]}
  <2>1. 0 \in S
    <3>1. Len(p) + 0 = Len(p) /\ 0 \in 0 .. Len(q)
      BY <1>2
    <3>2. v[Len(p)] = y[0]
      BY <1>4, <1>5, <1>7 DEF half
    <3> QED BY <3>1, <3>2
  <2>2. ASSUME NEW m \in 0 .. Len(q) - 1, m \in S
        PROVE  m + 1 \in S
    <3> DEFINE n == Len(p) + (m + 1)
    <3>1. /\ m + 1 \in 1 .. Len(q) /\ n \in 1 .. Len(r) /\ (m + 1) - 1 = m /\ m + 1 \in 0 .. Len(q)
          /\ n - 1 = Len(p) + m /\ r[n] = q[m + 1]
      <4>1. n \in 1 .. Len(p) + Len(q) /\ ~(n <= Len(p)) /\ n - Len(p) = m + 1
        BY <1>2
      <4> HIDE DEF n
      <4>2. r[n] = q[m + 1]
        BY <1>3, <4>1
      <4> QED BY <1>2, <1>3, <4>1, <4>2 DEF n
    <3> HIDE DEF n
    <3>2. v[n] = SetElement(v[Len(p) + m], r[n]) /\ y[m + 1] = SetElement(y[m], q[m + 1])
      BY <1>5, <1>6, <3>1
    <3>3. v[Len(p) + m] = y[m]
      BY <2>2
    <3>4. v[n] = y[m + 1]
      BY <3>1, <3>2, <3>3
    <3> QED BY <3>1, <3>4 DEF n
  <2> HIDE DEF S
  <2>3. \A m \in 0 .. Len(q) : m \in S
    BY <1>2, <2>1, <2>2, CountUp
  <2>4. Len(q) \in 0 .. Len(q)
    BY <1>2
  <2> QED BY <2>3, <2>4 DEF S
<1> QED BY <1>3, <1>5, <1>6, <1>8 DEF half

(* The value of a long option is made of characters.                       *)
LEMMA LongValueIsText ==
  ASSUME NEW token \in Seq(STRING), EqualSign(token) # 0
  PROVE  LongValue(token) \in Seq(STRING)
<1> DEFINE I == {n \in 1 .. Len(token) : token[n] = "="}
<1>1. EqualSign(token) \in Nat
  <2>1. EqualSign(token) = IF I # {} THEN Min(I) ELSE 0
    BY DEF EqualSign, SelectInSeq
  <2>2. I \subseteq Nat
    OBVIOUS
  <2> HIDE DEF I
  <2>3. I # {} => Min(I) \in Nat
    BY <2>2, LeastNumber
  <2> QED BY <2>1, <2>3
<1>2. ASSUME NEW m \in Nat
      PROVE  SubSeq(token, m + 1, Len(token)) \in Seq(STRING)
  OBVIOUS
<1> QED BY <1>1, <1>2 DEF LongValue

(* A list of elements for a SubParser does what its elements do one by     *)
(* one, whatever the elements, the options of the SubParser and the state  *)
(* of the client's variables are.                                          *)
THEOREM ElementsAreOneByOne == Spec => []ElementsOneByOne
<1>1. ASSUME NEW a \in Seq(STRING), NEW b \in Seq(STRING), a # <<>>, Last(a) # Comma, NEW st
      PROVE  SetSub(st, a \o <<Comma>> \o b) = SetSub(SetSub(st, a), b)
  <2> DEFINE C == STRING \cup {Comma}
  <2>1. ASSUME NEW s \in Seq(STRING)
        PROVE  s \in Seq(C)
    <3>1. Len(s) \in Nat /\ s = [n \in 1 .. Len(s) |-> s[n]] /\ \A n \in 1 .. Len(s) : s[n] \in C
      OBVIOUS
    <3> HIDE DEF C
    <3> QED BY <3>1
  <2>2. a \in Seq(C) /\ b \in Seq(C) /\ Comma \in C
    BY <2>1
  <2> HIDE DEF C
  <2>3. Together(C, a, b, a \o <<Comma>> \o b)
    BY <1>1, <2>2 DEF Together
  <2> QED BY <2>3, SubOfBoth
<1>2. ASSUME NEW strings, strings = {LongValue(token) : token \in {t \in Tokens : EqualSign(t) # 0}}
      PROVE  \A a \in strings \cup {<<>>} : a \in Seq(STRING)
  <2>1. \A token \in Tokens : EqualSign(token) # 0 => LongValue(token) \in Seq(STRING)
    BY LongValueIsText, CatalogueAssumption
  <2>2. <<>> \in Seq(STRING)
    OBVIOUS
  <2> QED BY <1>2, <2>1, <2>2
<1>3. ASSUME NEW st, NEW strings, strings = {LongValue(token) : token \in {t \in Tokens : EqualSign(t) # 0}},
             NEW a \in strings \cup {<<>>}, NEW b \in strings \cup {<<>>}
      PROVE  a # <<>> /\ Last(a) # Comma => SetSub(st, a \o <<Comma>> \o b) = SetSub(SetSub(st, a), b)
  <2>1. a \in Seq(STRING) /\ b \in Seq(STRING)
    BY <1>2, <1>3
  <2> QED BY <1>1, <2>1
<1>4. ElementsOneByOne
  <2> DEFINE strings == {LongValue(token) : token \in {t \in Tokens : EqualSign(t) # 0}}
  <2>1. ASSUME NEW st
        PROVE  \A a, b \in strings \cup {<<>>} :
                 a # <<>> /\ Last(a) # Comma => SetSub(st, a \o <<Comma>> \o b) = SetSub(SetSub(st, a), b)
    <3> HIDE DEF strings
    <3>1. strings = {LongValue(token) : token \in {t \in Tokens : EqualSign(t) # 0}}
      BY DEF strings
    <3> QED BY <1>3, <3>1
  <2>2. ASSUME NEW st
        PROVE  \A a, b \in strings \cup {<<>>} :
                 a # <<>> /\ Last(a) # "," => SetSub(st, a \o <<",">> \o b) = SetSub(SetSub(st, a), b)
    BY Zenon, <2>1 DEF Comma
  <2> QED BY Zenon, <2>2 DEF ElementsOneByOne
<1> QED BY <1>4, PTL
=============================================================================
