----------------------- MODULE PrintfToStreamProofs -----------------------
(***************************************************************************)
(* Theorems about PrintfToStream:                                          *)
(*                                                                         *)
(*   NumbersFitTheBuffer  no number overruns print_buf.                    *)
(*   NumbersReadBack      %d, %u, %x and %X print what reads back as their *)
(*                        argument, unless the zero flag stands together   *)
(*                        with `-' or `+'.                                 *)
(*   DirectivesKeepApart  the directives of one format, in any number,     *)
(*                        print what they print alone, a %f without a      *)
(*                        point with the decimals that are left to it.     *)
(*   TextIsCounted        type correctness: bytes are written, and they    *)
(*                        are counted.                                     *)
(*                                                                         *)
(* The first two rest on what the digits of a number are, by induction     *)
(* over the number: no more than N of them below 10^N, and the number      *)
(* reads back from them.  The others rest on the reading of a format: the  *)
(* predicate Apart says what a format prints in every context, and is kept *)
(* when one format is put behind another.                                  *)
(***************************************************************************)
EXTENDS PrintfToStream, FiniteSetTheorems, WellFoundedInduction, SequenceTheorems, TLAPS

(* Counting up: what holds of 0 and of the number behind each for which it *)
(* does, holds of all.                                                     *)
LEMMA CountUp ==
  ASSUME NEW N \in Nat, NEW S, 0 \in S, \A m \in 0 .. N - 1 : m \in S => m + 1 \in S
  PROVE  \A m \in 0 .. N : m \in S
<1> DEFINE Bad  == {m \in 0 .. N : m \notin S}
           Less == {ss \in Nat \X Nat : ss[1] < ss[2]}
<1>1. SUFFICES ASSUME Bad # {}
               PROVE  FALSE
  OBVIOUS
<1>2. Bad \subseteq Nat
  OBVIOUS
<1>3. IsWellFoundedOn(Less, Nat)
  BY NatLessThanWellFounded DEF OpToRel
<1>4. PICK d \in Bad : \A n \in Bad : ~(<<n, d>> \in Less)
  <2> HIDE DEF Less, Bad
  <2> QED BY <1>1, <1>2, <1>3, WFMin
<1>5. d # 0 /\ d - 1 \in 0 .. N - 1 /\ d \notin S /\ (d - 1) + 1 = d
  BY <1>4
<1>6. d - 1 \notin Bad
  <2>1. <<d - 1, d>> \in Less
    BY <1>5
  <2> HIDE DEF Less
  <2> QED BY <1>4, <2>1
<1> QED BY <1>5, <1>6

(* A function on 0 .. N whose value at n > 0 is G[n] of its value at some  *)
(* smaller number P[n] exists.                                             *)
Recursive(f, N, a, P, G) == f = [n \in 0 .. N |-> IF n = 0 THEN a ELSE G[n][f[P[n]]]]

LEMMA RecursionExists ==
  ASSUME NEW N \in Nat, NEW X, NEW a \in X, NEW P, NEW G,
         \A n \in 1 .. N : P[n] \in 0 .. n - 1 /\ \A x \in X : G[n][x] \in X
  PROVE  \E f \in [0 .. N -> X] : Recursive(f, N, a, P, G)
<1> DEFINE To(f, n) == IF n = 0 THEN a ELSE G[n][f[P[n]]]
           S == {m \in 0 .. N : \E f \in [0 .. m -> X] : Recursive(f, m, a, P, G)}
<1>1. 0 \in S
  <2> DEFINE f == [n \in 0 .. 0 |-> a]
  <2>1. f \in [0 .. 0 -> X] /\ Recursive(f, 0, a, P, G)
    BY DEF Recursive
  <2> QED BY <2>1
<1>2. ASSUME NEW m \in 0 .. N - 1, m \in S
      PROVE  m + 1 \in S
  <2>1. PICK f \in [0 .. m -> X] : Recursive(f, m, a, P, G)
    BY <1>2
  <2>2. \A n \in 0 .. m : f[n] = To(f, n)
    BY <2>1 DEF Recursive
  <2> DEFINE g == [n \in 0 .. m + 1 |-> To(f, n)]
  <2>3. \A n \in 0 .. m : g[n] = f[n]
    <3> HIDE DEF To
    <3> QED BY <2>2
  <2>4. \A n \in 0 .. m + 1 : n # 0 => P[n] \in 0 .. m
    OBVIOUS
  <2>5. \A n \in 0 .. m + 1 : To(f, n) = To(g, n)
    <3> SUFFICES ASSUME NEW n \in 0 .. m + 1
                 PROVE  n # 0 => f[P[n]] = g[P[n]]
      OBVIOUS
    <3> HIDE DEF g
    <3> QED BY <2>3, <2>4
  <2>6. g = [n \in 0 .. m + 1 |-> To(g, n)]
    <3>1. g = [n \in 0 .. m + 1 |-> To(f, n)]
      OBVIOUS
    <3> HIDE DEF g, To
    <3> QED BY <2>5, <3>1
  <2>7. \A n \in 0 .. m + 1 : To(f, n) \in X
    BY <2>4
  <2>8. g \in [0 .. m + 1 -> X] /\ Recursive(g, m + 1, a, P, G)
    <3>1. g \in [0 .. m + 1 -> X]
      <4> HIDE DEF To
      <4> QED BY <2>7
    <3> HIDE DEF g
    <3> QED BY <2>6, <3>1 DEF Recursive
  <2> HIDE DEF g
  <2>9. m + 1 \in 0 .. N
    OBVIOUS
  <2> QED BY <2>8, <2>9
<1> HIDE DEF S
<1>3. N \in S
  BY <1>1, <1>2, CountUp
<1> QED BY <1>3 DEF S
-----------------------------------------------------------------------------
(* Powers, by the power before. *)
LEMMA PowerTable ==
  ASSUME NEW base \in Nat, NEW N \in Nat
  PROVE  \E p \in [0 .. N -> Nat] :
           /\ p[0] = 1 /\ \A m \in 1 .. N : p[m] = base * p[m - 1]
           /\ \A m \in 0 .. N : p[m] = Power(base, m)
<1> DEFINE P(n) == [m \in 1 .. n |-> m - 1]
           G(n) == [m \in 1 .. n |-> [x \in Nat |-> base * x]]
           Powers(f, n) == f = [m \in 0 .. n |-> IF m = 0 THEN 1 ELSE base * f[m - 1]]
<1>1. ASSUME NEW n \in Nat
      PROVE  \A m \in 1 .. n : P(n)[m] \in 0 .. m - 1 /\ \A x \in Nat : G(n)[m][x] = base * x /\ G(n)[m][x] \in Nat
  OBVIOUS
<1>2. ASSUME NEW n \in Nat
      PROVE  \E f \in [0 .. n -> Nat] : Recursive(f, n, 1, P(n), G(n))
  <2> HIDE DEF P, G
  <2> QED BY <1>1, RecursionExists
<1>3. ASSUME NEW n \in Nat, NEW f \in [0 .. n -> Nat], Recursive(f, n, 1, P(n), G(n))
      PROVE  Powers(f, n)
  <2>1. \A m \in 0 .. n : (IF m = 0 THEN 1 ELSE G(n)[m][f[P(n)[m]]]) = IF m = 0 THEN 1 ELSE base * f[m - 1]
    OBVIOUS
  <2>2. f = [m \in 0 .. n |-> IF m = 0 THEN 1 ELSE G(n)[m][f[P(n)[m]]]]
    BY <1>3 DEF Recursive
  <2> HIDE DEF P, G
  <2> QED BY <2>1, <2>2
<1> HIDE DEF P, G
<1>4. ASSUME NEW n \in Nat, NEW f, NEW g, Powers(f, n), g \in [0 .. N -> Nat], Powers(g, N), n <= N
      PROVE  f[n] = g[n]
  <2> DEFINE S == {m \in 0 .. n : f[m] = g[m]}
  <2>1. 0 \in S
    BY <1>4
  <2>2. ASSUME NEW m \in 0 .. n - 1, m \in S
        PROVE  m + 1 \in S
    <3>1. f[m + 1] = base * f[m] /\ g[m + 1] = base * g[m]
      BY <1>4
    <3> QED BY <3>1, <2>2
  <2>3. n \in S
    <3> HIDE DEF S
    <3> QED BY <2>1, <2>2, CountUp
  <2> QED BY <2>3
<1>5. PICK p \in [0 .. N -> Nat] : Powers(p, N)
  BY <1>2, <1>3
<1>6. ASSUME NEW n \in Nat
      PROVE  \E f : Powers(f, n)
  <2>1. PICK f \in [0 .. n -> Nat] : Recursive(f, n, 1, P(n), G(n))
    BY <1>2
  <2> HIDE DEF Powers
  <2> QED BY <1>3, <2>1
<1>7. ASSUME NEW n \in 0 .. N
      PROVE  p[n] = Power(base, n)
  <2> DEFINE q == CHOOSE f : Powers(f, n)
  <2>1. Powers(q, n)
    <3> HIDE DEF Powers
    <3> QED BY <1>6
  <2>2. q[n] = Power(base, n)
    BY DEF Power
  <2> HIDE DEF q, Powers
  <2> QED BY <2>1, <2>2, <1>4, <1>5
<1> QED BY <1>5, <1>7

(* Cutting off the last digit. *)
IsBase(base)     == base \in {10, 16}
IsLetter(letter) == letter \in {65, 97}
Higher(u, base)  == u \div base
Lowest(u, base)  == u % base

LEMMA LastDigit ==
  ASSUME NEW base, IsBase(base), NEW n \in Nat
  PROVE  /\ Higher(n, base) \in 0 .. n /\ Lowest(n, base) \in 0 .. base - 1 /\ Lowest(n, base) \in 0 .. 15
         /\ 10 * Higher(n, base) <= n
         /\ n > 0 => Higher(n, base) \in 0 .. n - 1
<1>1. CASE base = 10
  <2>1. /\ n \div 10 \in 0 .. n /\ n % 10 \in 0 .. 10 - 1 /\ n % 10 \in 0 .. 15
        /\ 10 * (n \div 10) <= n
        /\ n > 0 => n \div 10 \in 0 .. n - 1
    OBVIOUS
  <2> QED BY ONLY <1>1, <2>1 DEF Higher, Lowest
<1>2. CASE base = 16
  <2>1. /\ n \div 16 \in 0 .. n /\ n % 16 \in 0 .. 16 - 1 /\ n % 16 \in 0 .. 15
        /\ 10 * (n \div 16) <= n
        /\ n > 0 => n \div 16 \in 0 .. n - 1
    OBVIOUS
  <2> QED BY ONLY <1>2, <2>1 DEF Higher, Lowest
<1> QED BY <1>1, <1>2 DEF IsBase

(* The character of a digit. *)
LEMMA DigitCharFits ==
  ASSUME NEW t \in 0 .. 15, NEW letterBase, IsLetter(letterBase)
  PROVE  /\ DigitChar(t, letterBase) \in Int
         /\ DigitChar(t, letterBase) \in 48 .. 57 \cup letterBase .. letterBase + 5
         /\ t < 10 => DigitChar(t, letterBase) = 48 + t
<1>1. DigitChar(t, letterBase) = IF t >= 10 THEN t + letterBase - 10 ELSE t + 48
  BY DEF DigitChar, Zero
<1>2. CASE letterBase = 65
  BY <1>1, <1>2
<1>3. CASE letterBase = 97
  BY <1>1, <1>3
<1> QED BY <1>2, <1>3 DEF IsLetter

(* A sequence for each number, made from the one of a smaller number by    *)
(* appending.                                                              *)
Appending(f, n, P, C) == f = [m \in 0 .. n |-> IF m = 0 THEN <<>> ELSE Append(f[P[m]], C[m])]

Appended(n, P, C) == (CHOOSE f : Appending(f, n, P, C))[n]
Appendable(N, P, C) == \A m \in 1 .. N : P[m] \in 0 .. m - 1 /\ C[m] \in Int

AppendTable(d, N, P, C) ==
  /\ d \in [0 .. N -> Seq(Int)]
  /\ d[0] = <<>> /\ \A m \in 1 .. N : d[m] = Append(d[P[m]], C[m])
  /\ \A n \in 0 .. N : d[n] = Appended(n, P, C)

LEMMA AppendingTable ==
  ASSUME NEW N \in Nat, NEW P, NEW C, Appendable(N, P, C)
  PROVE  \E d : AppendTable(d, N, P, C)
<1> DEFINE G == [m \in 1 .. N |-> [x \in Seq(Int) |-> Append(x, C[m])]]
<1> USE DEF Appendable
<1>1. \A m \in 1 .. N : \A x \in Seq(Int) : G[m][x] = Append(x, C[m]) /\ G[m][x] \in Seq(Int)
  OBVIOUS
<1> HIDE DEF G
<1>2. ASSUME NEW n \in 0 .. N
      PROVE  \E f \in [0 .. n -> Seq(Int)] : Appending(f, n, P, C)
  <2>1. <<>> \in Seq(Int)
    OBVIOUS
  <2>2. n \in Nat /\ \A m \in 1 .. n : P[m] \in 0 .. m - 1 /\ \A x \in Seq(Int) : G[m][x] \in Seq(Int)
    BY <1>1
  <2>3. PICK f \in [0 .. n -> Seq(Int)] : Recursive(f, n, <<>>, P, G)
    BY <2>1, <2>2, RecursionExists
  <2>4. ASSUME NEW m \in 0 .. n
        PROVE  (IF m = 0 THEN <<>> ELSE G[m][f[P[m]]]) = IF m = 0 THEN <<>> ELSE Append(f[P[m]], C[m])
    <3>1. m # 0 => m \in 1 .. N /\ f[P[m]] \in Seq(Int)
      OBVIOUS
    <3> QED BY <3>1, <1>1
  <2>5. f = [m \in 0 .. n |-> IF m = 0 THEN <<>> ELSE G[m][f[P[m]]]]
    BY <2>3 DEF Recursive
  <2>6. Appending(f, n, P, C)
    BY <2>4, <2>5 DEF Appending
  <2> QED BY <2>6
<1>3. PICK d \in [0 .. N -> Seq(Int)] : Appending(d, N, P, C)
  BY <1>2
<1>4. ASSUME NEW n \in 0 .. N, NEW f, Appending(f, n, P, C)
      PROVE  f[n] = d[n]
  <2> DEFINE S == {m \in 0 .. n : \A k \in 0 .. m : f[k] = d[k]}
  <2>1. 0 \in S
    BY <1>3, <1>4 DEF Appending
  <2>2. ASSUME NEW m \in 0 .. n - 1, m \in S
        PROVE  m + 1 \in S
    <3>1. P[m + 1] \in 0 .. m
      OBVIOUS
    <3>2. f[P[m + 1]] = d[P[m + 1]]
      BY <2>2, <3>1
    <3>3. m + 1 \in 0 .. n /\ m + 1 \in 0 .. N /\ m + 1 # 0
      OBVIOUS
    <3>4. f[m + 1] = Append(f[P[m + 1]], C[m + 1])
      BY ONLY <3>3, <1>4 DEF Appending
    <3>5. d[m + 1] = Append(d[P[m + 1]], C[m + 1])
      BY ONLY <3>3, <1>3 DEF Appending
    <3>6. \A k \in 0 .. m + 1 : k = m + 1 \/ k \in 0 .. m
      OBVIOUS
    <3>7. f[m + 1] = d[m + 1]
      BY <3>2, <3>4, <3>5
    <3> QED BY <2>2, <3>3, <3>6, <3>7
  <2>3. n \in S
    <3>1. n \in Nat
      OBVIOUS
    <3>2. \A m \in 0 .. n - 1 : m \in S => m + 1 \in S
      BY <2>2
    <3> HIDE DEF S
    <3>3. \A m \in 0 .. n : m \in S
      BY ONLY <2>1, <3>1, <3>2, CountUp
    <3> QED BY <3>1, <3>3
  <2> QED BY <2>3
<1>5. ASSUME NEW n \in 0 .. N
      PROVE  d[n] = Appended(n, P, C)
  <2>1. PICK f : Appending(f, n, P, C)
    BY <1>2
  <2>2. Appending(CHOOSE g : Appending(g, n, P, C), n, P, C)
    BY <2>1
  <2> QED BY <2>2, <1>4 DEF Appended
<1>6. d[0] = <<>>
  BY <1>3 DEF Appending
<1>7. ASSUME NEW m \in 1 .. N
      PROVE  d[m] = Append(d[P[m]], C[m])
  <2>1. m \in 0 .. N /\ m # 0
    OBVIOUS
  <2> QED BY <1>3, <2>1 DEF Appending
<1>8. AppendTable(d, N, P, C)
  BY <1>3, <1>5, <1>6, <1>7 DEF AppendTable
<1> QED BY <1>8

(* Numerals, by the numeral without the last digit. *)
LEMMA DigitsTable ==
  ASSUME NEW base, IsBase(base), NEW letterBase, IsLetter(letterBase), NEW N \in Nat
  PROVE  \E d \in [0 .. N -> Seq(Int)] :
           /\ d[0] = <<>>
           /\ \A m \in 1 .. N : d[m] = Append(d[Higher(m, base)], DigitChar(Lowest(m, base), letterBase))
           /\ \A m \in 0 .. N : d[m] = Digits(m, base, letterBase)
<1>0. PICK P, C : /\ P = [m \in 1 .. N |-> Higher(m, base)]
                 /\ C = [m \in 1 .. N |-> DigitChar(Lowest(m, base), letterBase)]
  OBVIOUS
<1>1. ASSUME NEW m \in 1 .. N
      PROVE  P[m] \in 0 .. m - 1 /\ C[m] \in Int /\ P[m] = Higher(m, base) /\ C[m] = DigitChar(Lowest(m, base), letterBase)
  <2>1. Lowest(m, base) \in 0 .. 15 /\ Higher(m, base) \in 0 .. m - 1
    BY LastDigit
  <2> QED BY <2>1, <1>0, DigitCharFits
<1>2. PICK d : AppendTable(d, N, P, C)
  <2>1. Appendable(N, P, C)
    BY <1>1 DEF Appendable
  <2> QED BY <2>1, AppendingTable
<1>3. ASSUME NEW n \in 0 .. N
      PROVE  d[n] = Digits(n, base, letterBase)
  <2>1. ASSUME NEW f
        PROVE  Appending(f, n, P, C)
                 <=> f = [m \in 0 .. n |-> IF m = 0 THEN <<>>
                                           ELSE Append(f[Higher(m, base)], DigitChar(Lowest(m, base), letterBase))]
    <3>1. ASSUME NEW m \in 0 .. n
          PROVE  (IF m = 0 THEN <<>> ELSE Append(f[Higher(m, base)], DigitChar(Lowest(m, base), letterBase)))
                   = IF m = 0 THEN <<>> ELSE Append(f[P[m]], C[m])
      <4>1. m # 0 => m \in 1 .. N
        OBVIOUS
      <4> QED BY <4>1, <1>1
    <3>2. [m \in 0 .. n |-> IF m = 0 THEN <<>> ELSE Append(f[Higher(m, base)], DigitChar(Lowest(m, base), letterBase))]
            = [m \in 0 .. n |-> IF m = 0 THEN <<>> ELSE Append(f[P[m]], C[m])]
      BY <3>1
    <3> QED BY <3>2 DEF Appending
  <2>2. (CHOOSE f : Appending(f, n, P, C))
          = CHOOSE f : f = [m \in 0 .. n |-> IF m = 0 THEN <<>>
                                             ELSE Append(f[Higher(m, base)], DigitChar(Lowest(m, base), letterBase))]
    BY <2>1
  <2>3. Appended(n, P, C) = Digits(n, base, letterBase)
    BY <2>2 DEF Appended, Digits, Higher, Lowest
  <2> QED BY <1>2, <2>3 DEF AppendTable
<1>4. ASSUME NEW m \in 1 .. N
      PROVE  d[m] = Append(d[Higher(m, base)], DigitChar(Lowest(m, base), letterBase))
  <2>1. d[m] = Append(d[P[m]], C[m])
    BY <1>2 DEF AppendTable
  <2> QED BY <1>1, <2>1
<1>5. d \in [0 .. N -> Seq(Int)] /\ d[0] = <<>>
  BY <1>2 DEF AppendTable
<1> QED BY <1>3, <1>4, <1>5

(* The digits of a number, by those of the number without its last digit. *)
LEMMA DigitsUp ==
  ASSUME NEW base, IsBase(base), NEW letterBase, IsLetter(letterBase), NEW u \in Nat
  PROVE  /\ Digits(u, base, letterBase) \in Seq(Int)
         /\ Digits(0, base, letterBase) = <<>>
         /\ u > 0 => Digits(u, base, letterBase)
                       = Append(Digits(Higher(u, base), base, letterBase), DigitChar(Lowest(u, base), letterBase))
<1> DEFINE D(m) == Digits(m, base, letterBase)
<1>1. PICK d \in [0 .. u -> Seq(Int)] :
         /\ d[0] = <<>>
         /\ \A m \in 1 .. u : d[m] = Append(d[Higher(m, base)], DigitChar(Lowest(m, base), letterBase))
         /\ \A m \in 0 .. u : d[m] = D(m)
  BY DigitsTable
<1>2. 0 \in 0 .. u /\ u \in 0 .. u /\ Higher(u, base) \in 0 .. u
  BY LastDigit
<1> HIDE DEF D
<1>3. d[u] = D(u) /\ d[0] = D(0) /\ d[Higher(u, base)] = D(Higher(u, base))
  BY <1>1, <1>2
<1>4. u > 0 => d[u] = Append(d[Higher(u, base)], DigitChar(Lowest(u, base), letterBase))
  BY <1>1
<1>5. D(u) \in Seq(Int) /\ D(0) = <<>>
  BY <1>1, <1>2, <1>3
<1>6. u > 0 => D(u) = Append(D(Higher(u, base)), DigitChar(Lowest(u, base), letterBase))
  BY <1>3, <1>4
<1> QED BY <1>5, <1>6 DEF D

(* Powers, by the one before. *)
LEMMA PowerUp ==
  ASSUME NEW base \in Nat, NEW n \in Nat
  PROVE  /\ Power(base, n) \in Nat /\ Power(base, 0) = 1
         /\ Power(base, n + 1) = base * Power(base, n)
<1>1. PICK p \in [0 .. n + 1 -> Nat] :
           /\ p[0] = 1 /\ \A m \in 1 .. n + 1 : p[m] = base * p[m - 1]
           /\ \A m \in 0 .. n + 1 : p[m] = Power(base, m)
  <2> DEFINE N == n + 1
  <2>1. N \in Nat
    OBVIOUS
  <2> HIDE DEF N
  <2>2. \E p \in [0 .. N -> Nat] :
           /\ p[0] = 1 /\ \A m \in 1 .. N : p[m] = base * p[m - 1]
           /\ \A m \in 0 .. N : p[m] = Power(base, m)
    BY <2>1, PowerTable
  <2> QED BY <2>2 DEF N
<1>2. p[n + 1] = base * p[(n + 1) - 1] /\ (n + 1) - 1 = n
  BY <1>1
<1> QED BY <1>1, <1>2

(* What is less than the n-th power of ten has at most n digits, in either *)
(* base.                                                                   *)
LEMMA DigitsFit ==
  ASSUME NEW base, IsBase(base), NEW letterBase, IsLetter(letterBase), NEW N \in Nat
  PROVE  \A u \in Nat : u < Power(10, N) => Len(Digits(u, base, letterBase)) <= N
<1> DEFINE S == {n \in 0 .. N : \A u \in Nat : u < Power(10, n) => Len(Digits(u, base, letterBase)) <= n}
<1>0. Digits(0, base, letterBase) = <<>>
  BY DigitsUp
<1>a. ASSUME NEW u \in Nat, u > 0
      PROVE  Digits(u, base, letterBase)
               = Append(Digits(Higher(u, base), base, letterBase), DigitChar(Lowest(u, base), letterBase))
  BY <1>a, DigitsUp
<1>1. 0 \in S
  <2>1. Power(10, 0) = 1 /\ Digits(0, base, letterBase) = <<>>
    BY <1>0, PowerUp
  <2>2. ASSUME NEW u \in Nat, u < Power(10, 0)
        PROVE  Len(Digits(u, base, letterBase)) <= 0
    <3>1. u = 0
      BY <2>1, <2>2
    <3> QED BY <2>1, <3>1
  <2> QED BY <2>2
<1>2. ASSUME NEW n \in 0 .. N - 1, n \in S
      PROVE  n + 1 \in S
  <2>1. Power(10, n + 1) = 10 * Power(10, n) /\ Power(10, n) \in Nat
    BY PowerUp
  <2>2. ASSUME NEW u \in Nat, u < Power(10, n + 1)
        PROVE  Len(Digits(u, base, letterBase)) <= n + 1
    <3> DEFINE q == Higher(u, base)
               D == Digits(u, base, letterBase)
               E == Digits(q, base, letterBase)
               c == DigitChar(Lowest(u, base), letterBase)
    <3>1. /\ q \in Nat /\ 10 * q <= u
      BY LastDigit
    <3>2. Len(E) <= n /\ E \in Seq(Int)
      <4>1. q < Power(10, n)
        <5> HIDE DEF q
        <5> QED BY <2>1, <2>2, <3>1
      <4>2. E \in Seq(Int)
        BY <3>1, DigitsUp
      <4> HIDE DEF q
      <4> QED BY <4>1, <4>2, <3>1, <1>2
    <3>3. /\ u > 0 => D = Append(E, c)
          /\ u = 0 => D = <<>>
      <4>1. u > 0 => D = Append(E, c)
        BY <1>a
      <4>2. u = 0 => D = <<>>
        BY <1>0
      <4> QED BY <4>1, <4>2
    <3> HIDE DEF D, E, c, q
    <3>4. Len(Append(E, c)) = Len(E) + 1 /\ Len(E) \in Nat
      BY <3>2
    <3>5. Len(D) <= n + 1
      BY <3>2, <3>3, <3>4
    <3> QED BY <3>5 DEF D
  <2>3. n + 1 \in 0 .. N
    OBVIOUS
  <2> QED BY <2>2, <2>3
<1>3. N \in S
  <2> HIDE DEF S
  <2> QED BY <1>1, <1>2, CountUp
<1> QED BY <1>3

(* The values of the beginnings of a text exist. *)
LEMMA NumberExists ==
  ASSUME NEW N \in Nat, NEW t \in Seq(Int), NEW base \in Int, N <= Len(t)
  PROVE  \E f \in [0 .. N -> Int] :
           f = [n \in 0 .. N |-> IF n = 0 THEN 0 ELSE f[n - 1] * base + DigitOf(t[n])]
<1> DEFINE P == [m \in 1 .. N |-> m - 1]
           C(m) == DigitOf(t[m])
           G == [m \in 1 .. N |-> [x \in Int |-> x * base + C(m)]]
<1>0. \A m \in 1 .. N : C(m) \in Int
  <2> SUFFICES ASSUME NEW m \in 1 .. N
               PROVE  C(m) \in Int
    OBVIOUS
  <2>1. t[m] \in Int
    OBVIOUS
  <2> QED BY <2>1 DEF DigitOf
<1> HIDE DEF C
<1>1. \A m \in 1 .. N : P[m] \in 0 .. m - 1 /\ P[m] = m - 1 /\ \A x \in Int : G[m][x] = x * base + C(m) /\ G[m][x] \in Int
  BY <1>0
<1> HIDE DEF P, G
<1>2. PICK f \in [0 .. N -> Int] : Recursive(f, N, 0, P, G)
  <2>1. \A m \in 1 .. N : P[m] \in 0 .. m - 1 /\ \A x \in Int : G[m][x] \in Int
    BY <1>1
  <2>2. 0 \in Int
    OBVIOUS
  <2> QED BY <2>1, <2>2, RecursionExists
<1>3. ASSUME NEW n \in 0 .. N
      PROVE  (IF n = 0 THEN 0 ELSE G[n][f[P[n]]]) = IF n = 0 THEN 0 ELSE f[n - 1] * base + C(n)
  <2>1. n # 0 => n \in 1 .. N /\ n - 1 \in 0 .. N
    OBVIOUS
  <2>2. n # 0 => f[n - 1] \in Int
    BY <2>1
  <2> QED BY <2>1, <2>2, <1>1
<1>4. f = [n \in 0 .. N |-> IF n = 0 THEN 0 ELSE G[n][f[P[n]]]]
  BY <1>2 DEF Recursive
<1>5. f = [n \in 0 .. N |-> IF n = 0 THEN 0 ELSE f[n - 1] * base + C(n)]
  BY <1>3, <1>4
<1> QED BY <1>5 DEF C

(* What a numeral says, by the numeral without the last digit. *)
LEMMA NumberUp ==
  ASSUME NEW t \in Seq(Int), NEW c \in Int, NEW base \in Int
  PROVE  /\ Number(t, base) \in Int
         /\ Number(<<>>, base) = 0
         /\ Number(Append(t, c), base) = Number(t, base) * base + DigitOf(c)
<1> DEFINE Counts(f, n, s) == f = [m \in 0 .. n |-> IF m = 0 THEN 0 ELSE f[m - 1] * base + DigitOf(s[m])]
           Count(s) == CHOOSE f : Counts(f, Len(s), s)
<1>1. ASSUME NEW s \in Seq(Int)
      PROVE  Number(s, base) = Count(s)[Len(s)] /\ Counts(Count(s), Len(s), s) /\ Number(s, base) \in Int
  <2> DEFINE N == Len(s)
  <2>0. N \in Nat /\ N <= Len(s)
    OBVIOUS
  <2>1. \E f \in [0 .. N -> Int] : Counts(f, N, s)
    <3> HIDE DEF N
    <3> QED BY <2>0, NumberExists
  <2>2. Number(s, base) = Count(s)[N]
    BY DEF Number
  <2> HIDE DEF Counts
  <2>3. Counts(Count(s), N, s)
    BY <2>1
  <2>4. PICK g \in [0 .. N -> Int] : Counts(g, N, s)
    BY <2>1
  <2> DEFINE f == Count(s)
             S == {m \in 0 .. N : f[m] = g[m]}
  <2>a. Counts(f, N, s)
    BY <2>3
  <2> HIDE DEF f
  <2> USE DEF Counts
  <2>5. 0 \in S
    <3>1. f[0] = 0
      BY <2>0, <2>a
    <3>2. g[0] = 0
      BY <2>0, <2>4
    <3> QED BY <2>0, <3>1, <3>2
  <2>6. ASSUME NEW m \in 0 .. N - 1, m \in S
        PROVE  m + 1 \in S
    <3>1. m + 1 \in 0 .. N /\ m + 1 # 0 /\ (m + 1) - 1 = m
      BY <2>0
    <3>2. f[m + 1] = f[m] * base + DigitOf(s[m + 1])
      BY <3>1, <2>a
    <3>3. g[m + 1] = g[m] * base + DigitOf(s[m + 1])
      BY <3>1, <2>4
    <3> QED BY <3>1, <3>2, <3>3, <2>6
  <2>7. f[N] = g[N] /\ g[N] \in Int
    <3>1. \A m \in 0 .. N - 1 : m \in S => m + 1 \in S
      BY <2>6
    <3> HIDE DEF S, N
    <3>2. \A m \in 0 .. N : m \in S
      BY <2>0, <2>5, <3>1, CountUp
    <3> QED BY <2>0, <3>2 DEF S
  <2> QED BY <2>2, <2>3, <2>7 DEF f
<1>2. Number(<<>>, base) = 0
  <2> DEFINE e == <<>>
             f == Count(e)
  <2>1. e \in Seq(Int) /\ Len(e) = 0
    OBVIOUS
  <2>2. Number(e, base) = f[0] /\ Counts(f, 0, e)
    <3> HIDE DEF Counts, e
    <3> QED BY <2>1, <1>1
  <2> HIDE DEF f
  <2>3. f[0] = 0
    BY <2>2
  <2> QED BY <2>2, <2>3
<1> DEFINE u == Append(t, c)
           n == Len(t)
           f == Count(t)
           g == Count(u)
<1>3. u \in Seq(Int) /\ n \in Nat /\ Len(u) = n + 1 /\ u[n + 1] = c /\ \A m \in 1 .. n : u[m] = t[m]
  BY AppendProperties
<1> HIDE DEF u
<1>4. Number(t, base) = f[n] /\ Counts(f, n, t) /\ Number(u, base) = g[n + 1] /\ Counts(g, n + 1, u)
  <2> HIDE DEF Counts
  <2> QED BY <1>1, <1>3
<1> HIDE DEF f, g, n
<1> DEFINE S == {m \in 0 .. n : f[m] = g[m]}
<1>5. 0 \in S
  BY <1>3, <1>4
<1>6. ASSUME NEW m \in 0 .. n - 1, m \in S
      PROVE  m + 1 \in S
  <2>1. m + 1 \in 0 .. n /\ m + 1 \in 1 .. n /\ m + 1 \in 0 .. n + 1 /\ m + 1 # 0 /\ (m + 1) - 1 = m
    BY <1>3
  <2>2. f[m + 1] = f[m] * base + DigitOf(t[m + 1])
    BY <2>1, <1>4
  <2>3. g[m + 1] = g[m] * base + DigitOf(u[m + 1])
    BY <2>1, <1>4
  <2> QED BY <2>1, <2>2, <2>3, <1>3, <1>6
<1>7. f[n] = g[n]
  <2>1. \A m \in 0 .. n - 1 : m \in S => m + 1 \in S
    BY <1>6
  <2> HIDE DEF S
  <2>2. \A m \in 0 .. n : m \in S
    BY <1>3, <1>5, <2>1, CountUp
  <2> QED BY <1>3, <2>2 DEF S
<1>8. g[n + 1] = g[n] * base + DigitOf(u[n + 1])
  <2>1. n + 1 \in 0 .. n + 1 /\ n + 1 # 0 /\ (n + 1) - 1 = n
    BY <1>3
  <2> QED BY <2>1, <1>4
<1>9. Number(u, base) = Number(t, base) * base + DigitOf(c)
  <2> HIDE DEF Counts
  <2> QED BY <1>3, <1>4, <1>7, <1>8
<1> QED BY <1>1, <1>2, <1>9 DEF u

(* A number is put together from its last digit and the others. *)
LEMMA DigitsTogether ==
  ASSUME NEW base, IsBase(base), NEW n \in Nat
  PROVE  Higher(n, base) * base + Lowest(n, base) = n
<1>1. CASE base = 10
  <2>1. (n \div 10) * 10 + (n % 10) = n
    OBVIOUS
  <2> QED BY ONLY <1>1, <2>1 DEF Higher, Lowest
<1>2. CASE base = 16
  <2>1. (n \div 16) * 16 + (n % 16) = n
    OBVIOUS
  <2> QED BY ONLY <1>2, <2>1 DEF Higher, Lowest
<1> QED BY <1>1, <1>2 DEF IsBase

NumeralChars(base, letter) == IF base = 10 THEN 48 .. 57 ELSE 48 .. 57 \cup letter .. letter + 5

(* A digit reads back from its character, and only 0 has the character of 0. *)
LEMMA DigitReadsBack ==
  ASSUME NEW base, IsBase(base), NEW letter, IsLetter(letter), NEW t \in 0 .. base - 1
  PROVE  /\ DigitChar(t, letter) \in NumeralChars(base, letter)
         /\ DigitOf(DigitChar(t, letter)) = t
         /\ t > 0 => DigitChar(t, letter) # Zero
<1>1. DigitChar(t, letter) = IF t >= 10 THEN t + letter - 10 ELSE t + 48
  BY DEF DigitChar, Zero
<1>2. base \in {10, 16} /\ letter \in {65, 97}
  BY DEF IsBase, IsLetter
<1>3. ASSUME base = 10
      PROVE  t \in 0 .. 9
  BY <1>3
<1>4. ASSUME base = 16
      PROVE  t \in 0 .. 15
  BY <1>4
<1>5. CASE t < 10
  <2>1. t \in 0 .. 9 /\ DigitChar(t, letter) = t + 48
    BY <1>1, <1>2, <1>3, <1>4, <1>5
  <2> QED BY <2>1 DEF NumeralChars, DigitOf, Zero
<1>6. CASE ~(t < 10)
  <2>1. t \in 10 .. 15 /\ base = 16
    BY <1>2, <1>3, <1>4, <1>6
  <2>2. CASE letter = 65
    <3>1. DigitChar(t, letter) = t + 55
      BY <1>1, <2>1, <2>2
    <3> QED BY ONLY <2>1, <2>2, <3>1 DEF NumeralChars, DigitOf, Zero
  <2>3. CASE letter = 97
    <3>1. DigitChar(t, letter) = t + 87
      BY <1>1, <2>1, <2>3
    <3> QED BY ONLY <2>1, <2>3, <3>1 DEF NumeralChars, DigitOf, Zero
  <2> QED BY <1>2, <2>2, <2>3
<1> QED BY <1>5, <1>6

(* A numeral reads back as its number, and does not begin with a zero.     *)
Faithful(u, base, letter) ==
  LET d == Digits(u, base, letter)
  IN /\ d \in Seq(Int)
     /\ Number(d, base) = u
     /\ \A m \in 1 .. Len(d) : d[m] \in NumeralChars(base, letter)
     /\ u > 0 => Len(d) > 0 /\ d[1] # Zero
     /\ u = 0 => d = <<>>

LEMMA FaithfulUp ==
  ASSUME NEW base, IsBase(base), NEW letter, IsLetter(letter), NEW u \in Nat, u > 0,
         Faithful(Higher(u, base), base, letter)
  PROVE  Faithful(u, base, letter)
<1> DEFINE h == Higher(u, base)
           t == Lowest(u, base)
           c == DigitChar(t, letter)
           e == Digits(h, base, letter)
           d == Digits(u, base, letter)
<1>1. h \in Nat /\ t \in 0 .. base - 1 /\ t \in 0 .. 15 /\ h * base + t = u
  BY LastDigit, DigitsTogether
<1>2. c \in NumeralChars(base, letter) /\ DigitOf(c) = t /\ (t > 0 => c # Zero) /\ c \in Int
  BY <1>1, DigitReadsBack, DigitCharFits
<1>3. d = Append(e, c) /\ d \in Seq(Int)
  BY DigitsUp
<1>4. /\ e \in Seq(Int) /\ Number(e, base) = h
      /\ \A m \in 1 .. Len(e) : e[m] \in NumeralChars(base, letter)
      /\ h > 0 => Len(e) > 0 /\ e[1] # Zero
      /\ h = 0 => e = <<>>
  BY DEF Faithful
<1> HIDE DEF h, t, c, e, d
<1>5. base \in Int
  BY DEF IsBase
<1>6. Number(d, base) = u
  <2>1. Number(Append(e, c), base) = Number(e, base) * base + DigitOf(c)
    BY <1>2, <1>4, <1>5, NumberUp
  <2> QED BY <1>1, <1>2, <1>3, <1>4, <2>1
<1>7. Len(d) = Len(e) + 1 /\ Len(e) \in Nat /\ d[Len(e) + 1] = c /\ \A m \in 1 .. Len(e) : d[m] = e[m]
  BY <1>2, <1>3, <1>4, AppendProperties
<1>8. \A m \in 1 .. Len(d) : d[m] \in NumeralChars(base, letter)
  BY <1>2, <1>4, <1>7
<1>9. d[1] # Zero
  <2>1. CASE h > 0
    BY <1>4, <1>7, <2>1
  <2>2. CASE h = 0
    <3>1. Len(e) = 0
      BY <1>4, <2>2
    <3>2. t = u
      <4>1. 0 * base + t = u
        BY <1>1, <2>2
      <4> QED BY <4>1, <1>1, <1>5
    <3> QED BY <1>2, <1>7, <3>1, <3>2
  <2> QED BY <1>1, <2>1, <2>2
<1> QED BY <1>3, <1>6, <1>7, <1>8, <1>9 DEF Faithful, d

(* Every number reads back from its digits. *)
LEMMA DigitsReadBack ==
  ASSUME NEW base, IsBase(base), NEW letter, IsLetter(letter), NEW N \in Nat
  PROVE  Faithful(N, base, letter)
<1> DEFINE S == {n \in 0 .. N : \A u \in 0 .. n : Faithful(u, base, letter)}
<1>1. Faithful(0, base, letter)
  <2>1. Digits(0, base, letter) = <<>>
    BY DigitsUp
  <2>2. Number(<<>>, base) = 0
    <3>1. base \in Int /\ <<>> \in Seq(Int) /\ 0 \in Int
      BY DEF IsBase
    <3> QED BY <3>1, NumberUp
  <2> DEFINE d == Digits(0, base, letter)
  <2>a. d = <<>>
    BY <2>1
  <2> HIDE DEF d
  <2>3. d = <<>> /\ d \in Seq(Int) /\ Len(d) = 0 /\ Number(d, base) = 0
    BY <2>a, <2>2
  <2>4. \A m \in 1 .. Len(d) : d[m] \in NumeralChars(base, letter)
    BY <2>3
  <2> QED BY <2>3, <2>4 DEF Faithful, d
<1>2. 0 \in S
  BY <1>1
<1>3. ASSUME NEW n \in 0 .. N - 1, n \in S
      PROVE  n + 1 \in S
  <2>1. Higher(n + 1, base) \in 0 .. n
    <3>1. n + 1 \in Nat /\ n + 1 > 0 /\ (n + 1) - 1 = n
      OBVIOUS
    <3> QED BY <3>1, LastDigit
  <2>2. Faithful(n + 1, base, letter)
    <3>1. Faithful(Higher(n + 1, base), base, letter)
      BY <1>3, <2>1
    <3>2. n + 1 \in Nat /\ n + 1 > 0
      OBVIOUS
    <3> QED BY <3>1, <3>2, FaithfulUp
  <2> QED BY <1>3, <2>2
<1>4. \A n \in 0 .. N - 1 : n \in S => n + 1 \in S
  BY <1>3
<1>5. N \in S
  <2> HIDE DEF S
  <2> QED BY <1>2, <1>4, CountUp
<1> QED BY <1>5
-----------------------------------------------------------------------------

(* Powers of two are natural numbers, and not 0. *)
LEMMA PowersOfTwo ==
  ASSUME NEW n \in Nat
  PROVE  Power(2, n) \in Nat /\ Power(2, n) > 0 /\ Power(2, n + 1) = 2 * Power(2, n) /\ Power(2, 0) = 1
<1> DEFINE S == {m \in 0 .. n : Power(2, m) > 0}
<1>1. \A m \in Nat : Power(2, m) \in Nat /\ Power(2, m + 1) = 2 * Power(2, m) /\ Power(2, 0) = 1
  BY PowerUp
<1>2. 0 \in S
  BY <1>1
<1>3. \A m \in 0 .. n - 1 : m \in S => m + 1 \in S
  BY <1>1
<1>4. n \in S
  <2> HIDE DEF S
  <2> QED BY <1>2, <1>3, CountUp
<1> QED BY <1>1, <1>4

(* A greater exponent has no smaller power. *)
LEMMA PowersGrow ==
  ASSUME NEW m \in Nat, NEW n \in Nat, m <= n
  PROVE  Power(2, m) <= Power(2, n)
<1> DEFINE S == {d \in 0 .. n - m : Power(2, m) <= Power(2, m + d)}
<1>1. 0 \in S
  <2>1. m + 0 = m /\ Power(2, m) \in Nat
    BY PowersOfTwo
  <2> QED BY <2>1
<1>2. ASSUME NEW d \in 0 .. (n - m) - 1, d \in S
      PROVE  d + 1 \in S
  <2>1. m + d \in Nat /\ m + (d + 1) = (m + d) + 1
    OBVIOUS
  <2>2. Power(2, m + d) \in Nat /\ Power(2, (m + d) + 1) = 2 * Power(2, m + d) /\ Power(2, m) \in Nat
    BY <2>1, PowersOfTwo
  <2> QED BY <1>2, <2>1, <2>2
<1>3. \A d \in 0 .. (n - m) - 1 : d \in S => d + 1 \in S
  BY <1>2
<1>4. n - m \in Nat
  OBVIOUS
<1>5. n - m \in S
  <2> HIDE DEF S
  <2> QED BY <1>1, <1>3, <1>4, CountUp
<1>6. m + (n - m) = n
  OBVIOUS
<1> QED BY <1>5, <1>6

(* What an unsigned integer can be. *)
LEMMA UnsignedRange ==
  ASSUME NEW i \in Int, NEW bits \in Nat
  PROVE  Unsigned(i, bits) \in 0 .. Power(2, bits) - 1
<1>1. Power(2, bits) \in Nat /\ Power(2, bits) > 0
  BY PowersOfTwo
<1>2. \A p \in Nat : p > 0 => i % p \in 0 .. p - 1
  OBVIOUS
<1> QED BY <1>1, <1>2 DEF Unsigned

(* The number whose digits are stored. *)
StoredNumber(i, base, sign, pad) ==
  IF IsNegative(i, base, sign, pad) THEN Unsigned(-Shown(i, pad), LongBits)
  ELSE Unsigned(i, IF "long" \in pad THEN LongBits ELSE IntBits)

LEMMA ShownIsInt ==
  ASSUME NEW i \in Int, NEW pad
  PROVE  Shown(i, pad) \in Int
<1>1. IntBits \in Nat /\ IntBits - 1 \in Nat
  BY BitsAssumption
<1>2. Unsigned(i, IntBits) \in 0 .. Power(2, IntBits) - 1 /\ Power(2, IntBits) \in Nat
  BY <1>1, UnsignedRange, PowersOfTwo
<1> QED BY <1>2 DEF Shown, Signed

(* The number whose digits are stored fits a long. *)
LEMMA StoredNumberRange ==
  ASSUME NEW i \in Int, NEW base, NEW sign, NEW pad
  PROVE  StoredNumber(i, base, sign, pad) \in Nat /\ StoredNumber(i, base, sign, pad) < Power(2, LongBits)
<1>1. IntBits \in Nat /\ LongBits \in Nat /\ IntBits <= LongBits
  BY BitsAssumption
<1>2. Power(2, IntBits) \in Nat /\ Power(2, LongBits) \in Nat /\ Power(2, IntBits) <= Power(2, LongBits)
  BY <1>1, PowersOfTwo, PowersGrow
<1>3. Shown(i, pad) \in Int /\ -Shown(i, pad) \in Int
  BY ShownIsInt
<1>4. \A j \in Int : Unsigned(j, IntBits) \in 0 .. Power(2, IntBits) - 1
                     /\ Unsigned(j, LongBits) \in 0 .. Power(2, LongBits) - 1
  BY <1>1, UnsignedRange
<1>5. \A j \in Int : Unsigned(j, IntBits) \in Nat /\ Unsigned(j, IntBits) < Power(2, LongBits)
                     /\ Unsigned(j, LongBits) \in Nat /\ Unsigned(j, LongBits) < Power(2, LongBits)
  BY <1>2, <1>4
<1> QED BY <1>3, <1>5 DEF StoredNumber

(* What stands in print_buf: a sign and digits. *)
LEMMA StoredText ==
  ASSUME NEW i \in Int, NEW base, IsBase(base), NEW sign, NEW width, NEW pad, NEW letter, IsLetter(letter)
  PROVE  /\ Stored(i, base, sign, width, pad, letter)
              = IF i = 0 THEN <<Zero>>
                ELSE Sign(i, base, sign, width, pad) \o Digits(StoredNumber(i, base, sign, pad), base, letter)
         /\ Sign(i, base, sign, width, pad) \in {<<>>, <<Minus>>, <<Plus>>}
         /\ Digits(StoredNumber(i, base, sign, pad), base, letter) \in Seq(Int)
<1>1. Digits(StoredNumber(i, base, sign, pad), base, letter) \in Seq(Int)
  BY StoredNumberRange, DigitsUp
<1>2. Sign(i, base, sign, width, pad) \in {<<>>, <<Minus>>, <<Plus>>}
  BY DEF Sign
<1>3. Stored(i, base, sign, width, pad, letter)
              = IF i = 0 THEN <<Zero>>
                ELSE Sign(i, base, sign, width, pad) \o Digits(StoredNumber(i, base, sign, pad), base, letter)
  BY DEF Stored, StoredNumber
<1> QED BY <1>1, <1>2, <1>3

(* It fits. *)
LEMMA StoredFits ==
  ASSUME NEW i \in Int, NEW base, IsBase(base), NEW sign, NEW width, NEW pad, NEW letter, IsLetter(letter)
  PROVE  Len(Stored(i, base, sign, width, pad, letter)) + 1 <= PRINT_BUF_LEN
<1> DEFINE s == Sign(i, base, sign, width, pad)
           u == StoredNumber(i, base, sign, pad)
           d == Digits(u, base, letter)
           L == PRINT_BUF_LEN - 2
           t == Stored(i, base, sign, width, pad, letter)
<1>1. PRINT_BUF_LEN \in Nat /\ L \in Nat /\ Power(2, LongBits) <= Power(10, L) /\ PRINT_BUF_LEN = L + 2
  BY BufferAssumption
<1>2. u \in Nat /\ u < Power(2, LongBits)
  BY StoredNumberRange
<1>3. Power(10, L) \in Nat /\ Power(2, LongBits) \in Nat
  <2>1. LongBits \in Nat
    BY BitsAssumption
  <2> HIDE DEF L
  <2> QED BY <1>1, <2>1, PowerUp
<1>4. t = (IF i = 0 THEN <<Zero>> ELSE s \o d) /\ s \in {<<>>, <<Minus>>, <<Plus>>} /\ d \in Seq(Int)
  BY StoredText
<1> HIDE DEF L, u, s, t
<1>5. u < Power(10, L)
  BY <1>1, <1>2, <1>3
<1>6. Len(d) <= L
  BY <1>1, <1>2, <1>5, DigitsFit
<1> HIDE DEF d
<1>7. CASE i = 0
  <2>1. t = <<Zero>>
    BY <1>4, <1>7
  <2>2. Len(t) = 1
    BY <2>1
  <2> QED BY <2>2, <1>1 DEF t
<1>8. CASE i # 0
  <2>1. t = s \o d
    BY <1>4, <1>8
  <2>2. s \in Seq(Int) /\ Len(s) <= 1
    <3>1. Minus \in Int /\ Plus \in Int
      BY DEF Minus, Plus
    <3>2. \A c \in Int : <<c>> \in Seq(Int) /\ Len(<<c>>) <= 1
      OBVIOUS
    <3>3. <<>> \in Seq(Int) /\ Len(<<>>) <= 1
      OBVIOUS
    <3> QED BY <1>4, <3>1, <3>2, <3>3
  <2>3. Len(t) = Len(s) + Len(d) /\ Len(s) \in Nat /\ Len(d) \in Nat
    <3>1. Len(s \o d) = Len(s) + Len(d)
      BY <2>2, <1>4, ConcatProperties
    <3> QED BY <2>1, <2>2, <1>4, <3>1
  <2>4. Len(t) + 1 <= PRINT_BUF_LEN
    BY <1>1, <1>6, <2>2, <2>3
  <2> QED BY <2>4 DEF t
<1> QED BY <1>7, <1>8
-----------------------------------------------------------------------------
(* The arguments are of their types. *)
LEMMA ArgsFit ==
  ASSUME NEW conv, NEW l \in BOOLEAN, NEW i \in Args(conv, l)
  PROVE  /\ i \in Int /\ Bits(l) \in Nat /\ Bits(l) > 0
         /\ conv = "u" => i \in 0 .. Power(2, Bits(l)) - 1
         /\ conv # "u" => i \in -Power(2, Bits(l) - 1) .. Power(2, Bits(l) - 1) - 1
<1>1. Bits(l) \in Nat /\ Bits(l) > 0 /\ Bits(l) - 1 \in Nat
  BY BitsAssumption DEF Bits
<1>2. Power(2, Bits(l) - 1) \in Nat
  BY <1>1, PowersOfTwo
<1>3. Least(l) \in Int /\ Most(l) \in Int
  BY <1>2 DEF Least, Most
<1>4. Edges(l) \subseteq Int /\ \A j \in Edges(l) : Least(l) <= j /\ j <= Most(l)
  <2>1. \A n \in Samples : n \in Int /\ -n \in Int
    BY SamplesAssumption
  <2>2. {-n : n \in Samples} \subseteq Int
    BY <2>1
  <2>3. Least(l) + 1 \in Int
    BY <1>3
  <2>4. Samples \cup {-n : n \in Samples} \cup {Least(l), Least(l) + 1, Most(l)} \subseteq Int
    BY <1>3, <2>1, <2>2, <2>3
  <2> QED BY <2>4 DEF Edges
<1>5. CASE conv = "u"
  <2>1. PICK j \in Edges(l) : i = Unsigned(j, Bits(l))
    BY <1>5 DEF Args
  <2>2. i \in 0 .. Power(2, Bits(l)) - 1
    BY <1>1, <1>4, <2>1, UnsignedRange
  <2> QED BY <1>1, <1>5, <2>2
<1>6. CASE conv # "u"
  <2>1. i \in Edges(l)
    BY <1>6 DEF Args
  <2>2. i \in Int /\ Least(l) <= i /\ i <= Most(l)
    BY <1>4, <2>1
  <2> QED BY <1>1, <1>2, <1>6, <2>2 DEF Least, Most
<1> QED BY <1>5, <1>6

(* What is printed in a step. *)
LEMMA OneCallAtATime ==
  ASSUME Next
  PROVE  \/ job' = none /\ out' = <<>> /\ result' = 0
         \/ /\ job'.kind = "number"
            /\ \E conv \in {"d", "x", "X", "u"}, l \in BOOLEAN, pad \in Pads, w \in Widths :
                 \E i \in Args(conv, l) : Printf("number", Directive(conv, l, pad, w, {}, i))
         \/ job'.kind \in {"double", "string", "char", "unknown", "mixed", "dump"}
<1>1. CASE PrintNumber
  BY <1>1 DEF PrintNumber, Printf
<1>2. CASE PrintDouble
  BY <1>2 DEF PrintDouble, Printf
<1>3. CASE PrintString
  BY <1>3 DEF PrintString, Printf
<1>4. CASE PrintChar
  BY <1>4 DEF PrintChar, Printf
<1>5. CASE PrintUnknown
  BY <1>5 DEF PrintUnknown, Printf
<1>6. CASE PrintMixed
  BY <1>6 DEF PrintMixed
<1>7. CASE Dump
  BY <1>7 DEF Dump
<1>8. CASE Return
  BY <1>8 DEF Return
<1> QED BY <1>1, <1>2, <1>3, <1>4, <1>5, <1>6, <1>7, <1>8 DEF Next

(* print_buf holds every number that printi() is asked for, with a sign    *)
(* and the final null.                                                     *)
THEOREM NumbersFitTheBuffer == Spec => []BufferFits
<1>1. Init => BufferFits
  BY DEF Init, BufferFits, none
<1>2. ASSUME NEW conv \in {"d", "x", "X", "u"}, NEW l \in BOOLEAN, NEW pad \in Pads, NEW w \in Widths,
             NEW i \in Args(conv, l), Printf("number", Directive(conv, l, pad, w, {}, i))
      PROVE  BufferFits'
  <2> DEFINE base   == IF conv \in {"d", "u"} THEN 10 ELSE 16
             letter == IF conv = "X" THEN 65 ELSE 97
             flags  == pad \cup IF l THEN {"long"} ELSE {}
             sign   == conv = "d"
  <2>1. i \in Int
    BY ArgsFit
  <2>2. IsBase(base) /\ IsLetter(letter)
    BY DEF IsBase, IsLetter
  <2>3. Len(Stored(i, base, sign, w, flags, letter)) + 1 <= PRINT_BUF_LEN
    <3> HIDE DEF base, letter, flags, sign
    <3> QED BY <2>1, <2>2, StoredFits
  <2>4. job' = [kind |-> "number", directive |-> Directive(conv, l, pad, w, {}, i)]
    BY <1>2 DEF Printf
  <2>5. /\ job'.directive.arg = i /\ job'.directive.conv = conv /\ job'.directive.long = l
        /\ job'.directive.pad = pad /\ job'.directive.width = w
    BY <2>4 DEF Directive
  <2> QED BY <2>3, <2>5 DEF BufferFits
<1>3. BufferFits /\ [Next]_vars => BufferFits'
  <2>1. CASE Next
    <3>1. CASE job' = none
      BY <3>1 DEF BufferFits
    <3>2. CASE job'.kind \in {"double", "string", "char", "unknown", "mixed", "dump"}
      BY <3>2 DEF BufferFits
    <3> QED BY <2>1, <1>2, <3>1, <3>2, OneCallAtATime
  <2>2. CASE UNCHANGED vars
    BY <2>2 DEF vars, BufferFits
  <2> QED BY <2>1, <2>2
<1> QED BY <1>1, <1>3, PTL DEF Spec
-----------------------------------------------------------------------------
(* The parser goes from s to r while it reads t. *)
Reads(s, t, r) ==
  \E g : g[0] = s /\ g[Len(t)] = r /\ \A n \in 1 .. Len(t) : g[n] = Read(g[n - 1], t[n])

LEMMA ReadNothing ==
  ASSUME NEW s
  PROVE  Reads(s, <<>>, s)
<1> DEFINE e == <<>>
<1>1. Len(e) = 0
  OBVIOUS
<1> HIDE DEF e
<1>2. Reads(s, e, s)
  <2> DEFINE g == [n \in 0 .. 0 |-> s]
  <2>1. g[0] = s /\ g[Len(e)] = s /\ \A n \in 1 .. Len(e) : g[n] = Read(g[n - 1], e[n])
    BY <1>1
  <2> QED BY <2>1 DEF Reads
<1> QED BY <1>2 DEF e

(* Reading one character. *)
LEMMA ReadOne ==
  ASSUME NEW s, NEW c
  PROVE  Reads(s, <<c>>, Read(s, c))
<1> DEFINE e == <<c>>
           g == [n \in 0 .. 1 |-> IF n = 0 THEN s ELSE Read(s, c)]
<1>1. Len(e) = 1 /\ e[1] = c
  OBVIOUS
<1>2. g[0] = s /\ g[1] = Read(s, c)
  OBVIOUS
<1> HIDE DEF e, g
<1>3. g[0] = s /\ g[Len(e)] = Read(s, c) /\ \A n \in 1 .. Len(e) : g[n] = Read(g[n - 1], e[n])
  BY <1>1, <1>2
<1>4. Reads(s, e, Read(s, c))
  BY <1>3 DEF Reads
<1> QED BY <1>4 DEF e

(* Reading one text behind the other. *)
LEMMA ReadBoth ==
  ASSUME NEW s, NEW r, NEW q, NEW t \in Seq(Int), NEW u \in Seq(Int), Reads(s, t, r), Reads(r, u, q)
  PROVE  Reads(s, t \o u, q)
<1> DEFINE m == Len(t)
           N == Len(t \o u)
           v == t \o u
<1>1. PICK g : g[0] = s /\ g[m] = r /\ \A n \in 1 .. m : g[n] = Read(g[n - 1], t[n])
  BY DEF Reads
<1>2. PICK h : h[0] = r /\ h[Len(u)] = q /\ \A n \in 1 .. Len(u) : h[n] = Read(h[n - 1], u[n])
  BY DEF Reads
<1> DEFINE f == [n \in 0 .. N |-> IF n <= m THEN g[n] ELSE h[n - m]]
<1>3. /\ m \in Nat /\ Len(u) \in Nat /\ N = m + Len(u)
      /\ \A n \in 1 .. m : v[n] = t[n]
      /\ \A n \in m + 1 .. N : v[n] = u[n - m]
  OBVIOUS
<1> HIDE DEF m, N, v
<1>4. f[0] = s /\ f[N] = q
  BY <1>1, <1>2, <1>3
<1>5. ASSUME NEW n \in 1 .. N
      PROVE  f[n] = Read(f[n - 1], v[n])
  <2>1. CASE n <= m
    <3>1. n \in 1 .. m /\ n \in 0 .. N /\ n - 1 \in 0 .. N /\ n - 1 <= m
      BY <1>3, <2>1
    <3>2. f[n] = g[n] /\ f[n - 1] = g[n - 1]
      BY <2>1, <3>1
    <3> HIDE DEF f
    <3> QED BY <1>1, <1>3, <3>1, <3>2
  <2>2. CASE n > m
    <3>1. n - m \in 1 .. Len(u) /\ n \in m + 1 .. N /\ n \in 0 .. N /\ n - 1 \in 0 .. N
          /\ (n - 1) - m = (n - m) - 1 /\ ~(n <= m)
      BY <1>3, <2>2
    <3>2. f[n] = h[n - m]
      BY <3>1
    <3>3. f[n - 1] = h[(n - m) - 1]
      <4>1. CASE n - 1 = m
        <5>1. (n - m) - 1 = 0 /\ n - 1 <= m
          BY <1>3, <4>1
        <5>2. f[n - 1] = g[m]
          BY <3>1, <4>1, <5>1
        <5> HIDE DEF f
        <5> QED BY <1>1, <1>2, <5>1, <5>2
      <4>2. CASE n - 1 > m
        <5>1. ~(n - 1 <= m)
          BY <1>3, <4>2
        <5> QED BY <3>1, <5>1
      <4> QED BY <1>3, <2>2, <4>1, <4>2
    <3>4. h[n - m] = Read(h[(n - m) - 1], u[n - m])
      BY <1>2, <3>1
    <3>5. v[n] = u[n - m]
      BY <1>3, <3>1
    <3> HIDE DEF f
    <3> QED BY <3>2, <3>3, <3>4, <3>5
  <2> QED BY <1>3, <2>1, <2>2
<1> HIDE DEF f
<1>6. Reads(s, v, q)
  BY <1>4, <1>5 DEF Reads, N, v
<1> QED BY <1>6 DEF v

(* vprintf() is what the parser comes to at the end of the format. *)
LEMMA VprintfReads ==
  ASSUME NEW t \in Seq(Int), NEW args, NEW r, Reads(Unread(args), t, r)
  PROVE  vprintf(t, args) = r
<1> DEFINE N == Len(t)
           Run(f) == f = [n \in 0 .. N |-> IF n = 0 THEN Unread(args) ELSE Read(f[n - 1], t[n])]
           q == CHOOSE f : Run(f)
<1>1. PICK g : g[0] = Unread(args) /\ g[N] = r /\ \A n \in 1 .. N : g[n] = Read(g[n - 1], t[n])
  BY DEF Reads
<1>2. N \in Nat
  OBVIOUS
<1>3. vprintf(t, args) = q[N]
  BY DEF vprintf
<1> HIDE DEF N
<1>4. \E f : Run(f)
  <2> DEFINE f == [n \in 0 .. N |-> g[n]]
  <2>1. \A n \in 0 .. N : f[n] = g[n]
    OBVIOUS
  <2> HIDE DEF f
  <2>2. \A n \in 0 .. N : g[n] = IF n = 0 THEN Unread(args) ELSE Read(f[n - 1], t[n])
    <3> SUFFICES ASSUME NEW n \in 0 .. N
                 PROVE  g[n] = IF n = 0 THEN Unread(args) ELSE Read(f[n - 1], t[n])
      OBVIOUS
    <3>1. n # 0 => n \in 1 .. N /\ n - 1 \in 0 .. N
      BY <1>2
    <3> QED BY <1>1, <2>1, <3>1
  <2>3. Run(f)
    BY <2>2 DEF f
  <2> QED BY <2>3
<1>5. Run(q)
  <2> HIDE DEF Run
  <2> QED BY <1>4
<1> HIDE DEF q
<1> DEFINE S == {n \in 0 .. N : q[n] = g[n]}
<1>6. 0 \in S
  BY <1>1, <1>2, <1>5
<1>7. ASSUME NEW n \in 0 .. N - 1, n \in S
      PROVE  n + 1 \in S
  <2>1. n + 1 \in 0 .. N /\ n + 1 \in 1 .. N /\ n + 1 # 0 /\ (n + 1) - 1 = n
    BY <1>2
  <2>2. q[n + 1] = Read(q[n], t[n + 1])
    BY <1>5, <2>1
  <2>3. g[n + 1] = Read(g[n], t[n + 1])
    BY <1>1, <2>1
  <2> QED BY <1>7, <2>1, <2>2, <2>3
<1>8. q[N] = g[N]
  <2>1. \A n \in 0 .. N - 1 : n \in S => n + 1 \in S
    BY <1>7
  <2> HIDE DEF S
  <2>2. \A n \in 0 .. N : n \in S
    BY <1>2, <1>6, <2>1, CountUp
  <2> QED BY <1>2, <2>2 DEF S
<1> QED BY <1>1, <1>3, <1>8
-----------------------------------------------------------------------------
(* A state of the parser. *)
Off == FALSE
On  == TRUE
Holds(v) == v

State(o, p, a, st, w, flags, l, post, dw) ==
  [out |-> o, pc |-> p, args |-> a, stage |-> st, width |-> w, pad |-> flags,
   isLong |-> l, post_decimal |-> post, dec_width |-> dw]

(* Changing one of its parts. *)
SetOut(s, b)   == [s EXCEPT !.out = b]
SetPc(s, b)    == [s EXCEPT !.pc = b]
SetArgs(s, b)  == [s EXCEPT !.args = b]
SetStage(s, b) == [s EXCEPT !.stage = b]
SetWidth(s, b) == [s EXCEPT !.width = b]
SetPad(s, b)   == [s EXCEPT !.pad = b]
SetLong(s, b)  == [s EXCEPT !.isLong = b]
SetPost(s, b)  == [s EXCEPT !.post_decimal = b]
SetDec(s, b)   == [s EXCEPT !.dec_width = b]

LEMMA OnePart ==
  ASSUME NEW o, NEW p, NEW a, NEW st, NEW w, NEW flags, NEW l, NEW post, NEW dw, NEW b
  PROVE  /\ SetOut(State(o, p, a, st, w, flags, l, post, dw), b) = State(b, p, a, st, w, flags, l, post, dw)
         /\ SetPc(State(o, p, a, st, w, flags, l, post, dw), b) = State(o, b, a, st, w, flags, l, post, dw)
         /\ SetArgs(State(o, p, a, st, w, flags, l, post, dw), b) = State(o, p, b, st, w, flags, l, post, dw)
         /\ SetStage(State(o, p, a, st, w, flags, l, post, dw), b) = State(o, p, a, b, w, flags, l, post, dw)
         /\ SetWidth(State(o, p, a, st, w, flags, l, post, dw), b) = State(o, p, a, st, b, flags, l, post, dw)
         /\ SetPad(State(o, p, a, st, w, flags, l, post, dw), b) = State(o, p, a, st, w, b, l, post, dw)
         /\ SetLong(State(o, p, a, st, w, flags, l, post, dw), b) = State(o, p, a, st, w, flags, b, post, dw)
         /\ SetPost(State(o, p, a, st, w, flags, l, post, dw), b) = State(o, p, a, st, w, flags, l, b, dw)
         /\ SetDec(State(o, p, a, st, w, flags, l, post, dw), b) = State(o, p, a, st, w, flags, l, post, b)
BY DEF State, SetOut, SetPc, SetArgs, SetStage, SetWidth, SetPad, SetLong, SetPost, SetDec

(* The parts of a state. *)
LEMMA PartsOfState ==
  ASSUME NEW o, NEW p, NEW a, NEW st, NEW w, NEW flags, NEW l, NEW post, NEW dw
  PROVE  /\ State(o, p, a, st, w, flags, l, post, dw).out = o
         /\ State(o, p, a, st, w, flags, l, post, dw).pc = p
         /\ State(o, p, a, st, w, flags, l, post, dw).args = a
         /\ State(o, p, a, st, w, flags, l, post, dw).stage = st
         /\ State(o, p, a, st, w, flags, l, post, dw).width = w
         /\ State(o, p, a, st, w, flags, l, post, dw).pad = flags
         /\ State(o, p, a, st, w, flags, l, post, dw).isLong = l
         /\ State(o, p, a, st, w, flags, l, post, dw).post_decimal = post
         /\ State(o, p, a, st, w, flags, l, post, dw).dec_width = dw
BY DEF State

(* What the parser does, part by part. *)
LEMMA PartByPart ==
  ASSUME NEW s, NEW t, NEW n
  PROVE  /\ Begin(s) = SetPost(SetLong(SetPad(SetWidth(SetStage(s, 1), 0), {}), FALSE), FALSE)
         /\ Put(s, t) = SetStage(SetPc(SetOut(s, s.out \o t), s.pc + Len(t)), 0)
         /\ Digit(s, n) = IF s.post_decimal THEN SetDec(SetStage(s, 4), 10 * s.dec_width + n)
                          ELSE SetWidth(SetStage(s, 4), 10 * s.width + n)
BY DEF Begin, Put, Digit, SetOut, SetPc, SetStage, SetWidth, SetPad, SetLong, SetPost, SetDec

(* n characters are counted behind those of t, when p were before. *)
Counted(n, p, t) == n = p + Len(t)

LEMMA PutText ==
  ASSUME NEW o, NEW p, NEW a, NEW st, NEW w, NEW flags, NEW l, NEW post, NEW dw, NEW t, NEW n, Counted(n, p, t)
  PROVE  Put(State(o, p, a, st, w, flags, l, post, dw), t) = State(o \o t, n, a, 0, w, flags, l, post, dw)
<1> DEFINE s == State(o, p, a, st, w, flags, l, post, dw)
<1>1. Put(s, t) = SetStage(SetPc(SetOut(s, s.out \o t), s.pc + Len(t)), 0)
  BY PartByPart
<1>2. s.out = o /\ s.pc = p
  BY PartsOfState
<1>3. SetOut(s, o \o t) = State(o \o t, p, a, st, w, flags, l, post, dw)
  BY OnePart
<1>4. SetPc(State(o \o t, p, a, st, w, flags, l, post, dw), n) = State(o \o t, n, a, st, w, flags, l, post, dw)
  BY OnePart
<1>5. SetStage(State(o \o t, n, a, st, w, flags, l, post, dw), 0) = State(o \o t, n, a, 0, w, flags, l, post, dw)
  BY OnePart
<1> HIDE DEF s
<1>6. Put(s, t) = SetStage(SetPc(SetOut(s, o \o t), n), 0)
  BY <1>1, <1>2, Zenon DEF Counted
<1>7. Put(s, t) = State(o \o t, n, a, 0, w, flags, l, post, dw)
  BY <1>3, <1>4, <1>5, <1>6
<1> QED BY <1>7 DEF s

(* One character, outside of a directive and at its start. *)
LEMMA PlainRead ==
  ASSUME NEW o, NEW p, NEW a, NEW w, NEW flags, NEW l, NEW post, NEW dw, NEW c \in Int, c # Percent,
         NEW n, Counted(n, p, <<c>>)
  PROVE  Read(State(o, p, a, 0, w, flags, l, post, dw), c) = State(o \o <<c>>, n, a, 0, w, flags, l, post, dw)
<1> DEFINE e == <<c>>
<1>1. Read(State(o, p, a, 0, w, flags, l, post, dw), c) = Put(State(o, p, a, 0, w, flags, l, post, dw), e)
  BY PartsOfState DEF Read
<1> HIDE DEF e
<1>2. Counted(n, p, e)
  BY DEF e
<1>3. Put(State(o, p, a, 0, w, flags, l, post, dw), e) = State(o \o e, n, a, 0, w, flags, l, post, dw)
  BY <1>2, PutText
<1> QED BY <1>1, <1>3 DEF e

(* `%' begins a directive. *)
LEMMA PercentRead ==
  ASSUME NEW o, NEW p, NEW a, NEW w, NEW flags, NEW l, NEW post, NEW dw
  PROVE  Read(State(o, p, a, 0, w, flags, l, post, dw), Percent)
           = State(o, p, a, 1, 0, {}, Off, Off, dw)
<1>1. Read(State(o, p, a, 0, w, flags, l, post, dw), Percent) = Begin(State(o, p, a, 0, w, flags, l, post, dw))
  BY PartsOfState DEF Read
<1> DEFINE s == State(o, p, a, 0, w, flags, l, post, dw)
           f == Off
           no == {}
<1>2. Begin(s) = SetPost(SetLong(SetPad(SetWidth(SetStage(s, 1), 0), no), f), f)
  BY PartByPart DEF Off
<1> HIDE DEF f, no
<1>3. SetStage(s, 1) = State(o, p, a, 1, w, flags, l, post, dw)
  BY OnePart
<1>4. SetWidth(State(o, p, a, 1, w, flags, l, post, dw), 0) = State(o, p, a, 1, 0, flags, l, post, dw)
  BY OnePart
<1>5. SetPad(State(o, p, a, 1, 0, flags, l, post, dw), no) = State(o, p, a, 1, 0, no, l, post, dw)
  BY OnePart
<1>6. SetLong(State(o, p, a, 1, 0, no, l, post, dw), f) = State(o, p, a, 1, 0, no, f, post, dw)
  BY OnePart
<1>7. SetPost(State(o, p, a, 1, 0, no, f, post, dw), f) = State(o, p, a, 1, 0, no, f, f, dw)
  BY OnePart
<1> HIDE DEF s
<1>8. Begin(s) = State(o, p, a, 1, 0, no, f, f, dw)
  BY <1>2, <1>3, <1>4, <1>5, <1>6, <1>7
<1> QED BY <1>1, <1>8 DEF s, f, no

(* One character, inside of a directive. *)
LEMMA FlagRead ==
  ASSUME NEW s
  PROVE  /\ s.stage = 1 => Read(s, Minus) = SetPad(SetStage(s, 2), s.pad \cup {"right"})
         /\ s.stage \in 1 .. 2 => Read(s, Plus) = SetPad(SetStage(s, 3), s.pad \cup {"plus"})
         /\ s.stage \in 1 .. 3 => Read(s, Zero) = SetPad(SetStage(s, 3), s.pad \cup {"zero"})
         /\ s.stage \in 1 .. 4 => Read(s, Point) = SetDec(SetPost(SetStage(s, 4), On), 0)
         /\ s.stage \in 1 .. 4 => Read(s, Code.l) = SetLong(SetStage(s, 5), On)
<1>1. s.stage = 1 => Read(s, Minus) = SetPad(SetStage(s, 2), s.pad \cup {"right"})
  BY DEF Read, Percent, Minus, SetPad, SetStage
<1>2. s.stage \in 1 .. 2 => Read(s, Plus) = SetPad(SetStage(s, 3), s.pad \cup {"plus"})
  BY DEF Read, Percent, Minus, Plus, SetPad, SetStage
<1>3. s.stage \in 1 .. 3 => Read(s, Zero) = SetPad(SetStage(s, 3), s.pad \cup {"zero"})
  BY DEF Read, Percent, Minus, Plus, Zero, SetPad, SetStage
<1>4. s.stage \in 1 .. 4 => Read(s, Point) = SetDec(SetPost(SetStage(s, 4), On), 0)
  BY DEF On, Read, Percent, Minus, Plus, Zero, Point, SetDec, SetPost, SetStage
<1>5. s.stage \in 1 .. 4 => Read(s, Code.l) = SetLong(SetStage(s, 5), On)
  <2>1. Code.l = 108
    BY DEF Code
  <2> QED BY <2>1 DEF On, Read, Percent, Minus, Plus, Zero, Point, SetLong, SetStage
<1> QED BY <1>1, <1>2, <1>3, <1>4, <1>5

(* `-' sets the flag for blanks on the right. *)
LEMMA MinusRead ==
  ASSUME NEW o, NEW p, NEW a, NEW w, NEW flags, NEW l, NEW post, NEW dw
  PROVE  Read(State(o, p, a, 1, w, flags, l, post, dw), Minus) = State(o, p, a, 2, w, flags \cup {"right"}, l, post, dw)
<1> DEFINE s == State(o, p, a, 1, w, flags, l, post, dw)
<1>1. s.stage = 1 /\ s.pad = flags
  BY PartsOfState
<1>2. SetStage(s, 2) = State(o, p, a, 2, w, flags, l, post, dw)
  BY OnePart
<1> HIDE DEF s
<1> DEFINE f == flags \cup {"right"}
<1>3. Read(s, Minus) = SetPad(SetStage(s, 2), f)
  BY <1>1, FlagRead
<1> HIDE DEF f
<1>4. Read(s, Minus) = State(o, p, a, 2, w, f, l, post, dw)
  BY <1>2, <1>3, OnePart
<1> HIDE DEF s
<1> USE DEF f
<1> QED BY <1>4 DEF s

(* `+' sets the flag for a plus. *)
LEMMA PlusRead ==
  ASSUME NEW o, NEW p, NEW a, NEW st \in 1 .. 2, NEW w, NEW flags, NEW l, NEW post, NEW dw
  PROVE  Read(State(o, p, a, st, w, flags, l, post, dw), Plus) = State(o, p, a, 3, w, flags \cup {"plus"}, l, post, dw)
<1> DEFINE s == State(o, p, a, st, w, flags, l, post, dw)
<1>1. s.stage = st /\ s.pad = flags
  BY PartsOfState
<1>2. SetStage(s, 3) = State(o, p, a, 3, w, flags, l, post, dw)
  BY OnePart
<1> HIDE DEF s
<1> DEFINE f == flags \cup {"plus"}
<1>3. Read(s, Plus) = SetPad(SetStage(s, 3), f)
  BY <1>1, FlagRead
<1> HIDE DEF f
<1>4. Read(s, Plus) = State(o, p, a, 3, w, f, l, post, dw)
  BY <1>2, <1>3, OnePart
<1> HIDE DEF s
<1> USE DEF f
<1> QED BY <1>4 DEF s

(* 0 sets the flag for zeros. *)
LEMMA ZeroRead ==
  ASSUME NEW o, NEW p, NEW a, NEW st \in 1 .. 3, NEW w, NEW flags, NEW l, NEW post, NEW dw
  PROVE  Read(State(o, p, a, st, w, flags, l, post, dw), Zero) = State(o, p, a, 3, w, flags \cup {"zero"}, l, post, dw)
<1> DEFINE s == State(o, p, a, st, w, flags, l, post, dw)
<1>1. s.stage = st /\ s.pad = flags
  BY PartsOfState
<1>2. SetStage(s, 3) = State(o, p, a, 3, w, flags, l, post, dw)
  BY OnePart
<1> HIDE DEF s
<1> DEFINE f == flags \cup {"zero"}
<1>3. Read(s, Zero) = SetPad(SetStage(s, 3), f)
  BY <1>1, FlagRead
<1> HIDE DEF f
<1>4. Read(s, Zero) = State(o, p, a, 3, w, f, l, post, dw)
  BY <1>2, <1>3, OnePart
<1> HIDE DEF s
<1> USE DEF f
<1> QED BY <1>4 DEF s

(* A point begins the decimals. *)
LEMMA PointRead ==
  ASSUME NEW o, NEW p, NEW a, NEW st \in 1 .. 4, NEW w, NEW flags, NEW l, NEW post, NEW dw
  PROVE  Read(State(o, p, a, st, w, flags, l, post, dw), Point) = State(o, p, a, 4, w, flags, l, On, 0)
<1> DEFINE s == State(o, p, a, st, w, flags, l, post, dw)
<1>1. s.stage = st /\ s.pad = flags
  BY PartsOfState
<1>2. SetStage(s, 4) = State(o, p, a, 4, w, flags, l, post, dw)
  BY OnePart
<1> HIDE DEF s
<1>3. Read(s, Point) = SetDec(SetPost(SetStage(s, 4), On), 0)
  BY <1>1, FlagRead
<1>4. Read(s, Point) = State(o, p, a, 4, w, flags, l, On, 0)
  <2>1. SetPost(SetStage(s, 4), On) = State(o, p, a, 4, w, flags, l, On, dw)
    BY <1>2, OnePart
  <2> QED BY <1>3, <2>1, OnePart
<1> QED BY <1>4 DEF s

(* `l' asks for a long. *)
LEMMA LongRead ==
  ASSUME NEW o, NEW p, NEW a, NEW st \in 1 .. 4, NEW w, NEW flags, NEW l, NEW post, NEW dw
  PROVE  Read(State(o, p, a, st, w, flags, l, post, dw), Code.l) = State(o, p, a, 5, w, flags, On, post, dw)
<1> DEFINE s == State(o, p, a, st, w, flags, l, post, dw)
<1>1. s.stage = st /\ s.pad = flags
  BY PartsOfState
<1>2. SetStage(s, 5) = State(o, p, a, 5, w, flags, l, post, dw)
  BY OnePart
<1> HIDE DEF s
<1>3. Read(s, Code.l) = SetLong(SetStage(s, 5), On)
  BY <1>1, FlagRead
<1>4. Read(s, Code.l) = State(o, p, a, 5, w, flags, On, post, dw)
  BY <1>2, <1>3, OnePart
<1> QED BY <1>4 DEF s

(* In stage st, c is the character of a digit t; x has it behind those of w. *)
DigitIn(st, c, t)  == st \in 1 .. 4 /\ t \in 0 .. 9 /\ (st = 4 \/ t # 0) /\ c = t + 48
Followed(x, w, t)  == x = 10 * w + t

LEMMA DigitRead ==
  ASSUME NEW o, NEW p, NEW a, NEW st, NEW w, NEW flags, NEW l, NEW post, NEW dw, NEW c, NEW t, DigitIn(st, c, t)
  PROVE  Read(State(o, p, a, st, w, flags, l, post, dw), c) = Digit(State(o, p, a, st, w, flags, l, post, dw), t)
<1>1. t + 48 \in 48 .. 57 /\ (t + 48) - 48 = t /\ (t # 0 => t + 48 # 48)
  BY DEF DigitIn
<1>2. c \in 48 .. 57 /\ c - 48 = t /\ (c = 48 => st = 4) /\ st \in 1 .. 4
  BY <1>1 DEF DigitIn
<1>3. c # Percent /\ c # Minus /\ c # Plus /\ c # Point /\ Zero = 48 /\ (c = Zero => st = 4)
  BY <1>2 DEF Percent, Minus, Plus, Point, Zero
<1> QED BY <1>2, <1>3, PartsOfState DEF Read

(* A digit in front of the point belongs to the width. *)
LEMMA WidthDigitRead ==
  ASSUME NEW o, NEW p, NEW a, NEW st, NEW w, NEW flags, NEW l, NEW dw, NEW c, NEW t, DigitIn(st, c, t),
         NEW x, Followed(x, w, t)
  PROVE  Read(State(o, p, a, st, w, flags, l, Off, dw), c) = State(o, p, a, 4, x, flags, l, Off, dw)
<1> DEFINE s == State(o, p, a, st, w, flags, l, Off, dw)
<1>1. s.post_decimal = Off /\ s.width = w
  BY PartsOfState
<1>2. ~Holds(Off)
  BY DEF Off, Holds
<1>3. SetStage(s, 4) = State(o, p, a, 4, w, flags, l, Off, dw)
  BY OnePart
<1>4. Read(s, c) = Digit(s, t)
  BY DigitRead
<1> HIDE DEF s
<1>5. Digit(s, t) = SetWidth(SetStage(s, 4), 10 * s.width + t)
  BY <1>1, <1>2, PartByPart, Zenon DEF Holds
<1>6. Read(s, c) = SetWidth(SetStage(s, 4), x)
  BY <1>1, <1>4, <1>5, Zenon DEF Followed
<1>7. SetWidth(SetStage(s, 4), x) = State(o, p, a, 4, x, flags, l, Off, dw)
  BY <1>3, OnePart
<1> QED BY <1>6, <1>7 DEF s

(* A digit behind the point belongs to the number of decimals. *)
LEMMA DecimalsDigitRead ==
  ASSUME NEW o, NEW p, NEW a, NEW st, NEW w, NEW flags, NEW l, NEW dw, NEW c, NEW t, DigitIn(st, c, t),
         NEW x, Followed(x, dw, t)
  PROVE  Read(State(o, p, a, st, w, flags, l, On, dw), c) = State(o, p, a, 4, w, flags, l, On, x)
<1> DEFINE s == State(o, p, a, st, w, flags, l, On, dw)
<1>1. s.post_decimal = On /\ s.dec_width = dw
  BY PartsOfState
<1>2. Holds(On)
  BY DEF On, Holds
<1>3. SetStage(s, 4) = State(o, p, a, 4, w, flags, l, On, dw)
  BY OnePart
<1>4. Read(s, c) = Digit(s, t)
  BY DigitRead
<1> HIDE DEF s
<1>5. Digit(s, t) = SetDec(SetStage(s, 4), 10 * s.dec_width + t)
  BY <1>1, <1>2, PartByPart, Zenon DEF Holds
<1>6. Read(s, c) = SetDec(SetStage(s, 4), x)
  BY <1>1, <1>4, <1>5, Zenon DEF Followed
<1>7. SetDec(SetStage(s, 4), x) = State(o, p, a, 4, w, flags, l, On, x)
  BY <1>3, OnePart
<1> QED BY <1>6, <1>7 DEF s

(* t is what conversion c prints in s. *)
IsText(t, s, c) == t = Text(s, c)

(* Printing t for the next argument leads from o, p and a to o1, p1 and a1. *)
Printing(o1, p1, a1, o, p, a, t) == o1 = o \o t /\ p1 = p + Len(t) /\ a1 = Tail(a)

LEMMA ConversionRead ==
  ASSUME NEW o, NEW p, NEW a, NEW st \in 1 .. 5, NEW w, NEW flags, NEW l, NEW post, NEW dw,
         NEW c, c \in Conversions, NEW t, IsText(t, State(o, p, a, st, w, flags, l, post, dw), c),
         NEW o1, NEW p1, NEW a1, Printing(o1, p1, a1, o, p, a, t)
  PROVE  Read(State(o, p, a, st, w, flags, l, post, dw), c) = State(o1, p1, a1, 0, w, flags, l, post, dw)
<1> DEFINE s == State(o, p, a, st, w, flags, l, post, dw)
<1>1. /\ c \notin 48 .. 57 /\ c # Percent /\ c # Minus /\ c # Plus /\ c # Zero /\ c # Point
      /\ c \notin {Code.t, Code.l}
  BY DEF Conversions, Code, Percent, Minus, Plus, Zero, Point
<1>2. Read(s, c) = Convert(s, c)
  BY <1>1, PartsOfState DEF Read
<1>3. Convert(s, c) = SetArgs(Put(s, t), Tail(Put(s, t).args))
  BY DEF Convert, SetArgs, IsText
<1>4. Put(s, t) = State(o1, p1, a, 0, w, flags, l, post, dw)
  <2>1. Counted(p1, p, t) /\ o1 = o \o t
    BY DEF Counted, Printing
  <2> QED BY <2>1, PutText
<1>5. State(o1, p1, a, 0, w, flags, l, post, dw).args = a
  BY PartsOfState
<1>6. SetArgs(State(o1, p1, a, 0, w, flags, l, post, dw), a1) = State(o1, p1, a1, 0, w, flags, l, post, dw)
  BY OnePart
<1>7. a1 = Tail(a)
  BY DEF Printing
<1> QED BY <1>2, <1>3, <1>4, <1>5, <1>6, <1>7

-----------------------------------------------------------------------------
(* Reading a directive.  A directive is read part by part, as it is spelled. *)

(* A numeral behind the flags, read as the width, and one behind the       *)
(* point, read as the number of decimals.                                  *)
NumeralRead(u) ==
  \A o, p, a, flags, l, w, dw : \A st \in 1 .. 4 :
    /\ Reads(State(o, p, a, st, 0, flags, l, Off, dw), Digits(u, 10, 97),
             State(o, p, a, 4, u, flags, l, Off, dw))
    /\ Reads(State(o, p, a, 4, w, flags, l, On, 0), Digits(u, 10, 97),
             State(o, p, a, 4, w, flags, l, On, u))

LEMMA NumeralReadUp ==
  ASSUME NEW u \in Nat, u > 0, Higher(u, 10) = 0 \/ NumeralRead(Higher(u, 10))
  PROVE  NumeralRead(u)
<1> DEFINE h == Higher(u, 10)
           t == Lowest(u, 10)
           e == Digits(h, 10, 97)
           c == t + 48
<1>1. IsBase(10) /\ IsLetter(97)
  BY DEF IsBase, IsLetter
<1>2. h \in Nat /\ t \in 0 .. 9 /\ t \in 0 .. 15 /\ 10 * h + t = u
  <2>1. h \in 0 .. u /\ t \in 0 .. 10 - 1 /\ h * 10 + t = u
    BY <1>1, LastDigit, DigitsTogether
  <2> HIDE DEF h, t
  <2> QED BY <2>1
<1>3. e \in Seq(Int) /\ Digits(u, 10, 97) = Append(e, c) /\ (h = 0 => e = <<>>)
  <2>1. DigitChar(t, 97) = c
    <3> HIDE DEF t
    <3> QED BY <1>2 DEF DigitChar, Zero
  <2>2. Digits(h, 10, 97) \in Seq(Int) /\ Digits(0, 10, 97) = <<>>
    <3> HIDE DEF h
    <3> QED BY <1>1, <1>2, DigitsUp
  <2>3. Digits(u, 10, 97) = Append(Digits(Higher(u, 10), 10, 97), DigitChar(Lowest(u, 10), 97))
    BY <1>1, DigitsUp
  <2> QED BY <2>1, <2>2, <2>3
<1>4. h = 0 \/ NumeralRead(h)
  OBVIOUS
<1> HIDE DEF h, t, e
<1>5. c \in Int /\ Followed(u, h, t) /\ \A z \in 1 .. 4 : z = 4 \/ t # 0 => DigitIn(z, c, t)
  BY <1>2 DEF DigitIn, Followed
<1> HIDE DEF c
<1>a. Append(e, c) = e \o <<c>> /\ <<c>> \in Seq(Int)
  BY <1>3, <1>5
<1>6. ASSUME NEW o, NEW p, NEW a, NEW flags, NEW l, NEW w, NEW dw, NEW st \in 1 .. 4
      PROVE  /\ Reads(State(o, p, a, st, 0, flags, l, Off, dw), e \o <<c>>,
                      State(o, p, a, 4, u, flags, l, Off, dw))
             /\ Reads(State(o, p, a, 4, w, flags, l, On, 0), e \o <<c>>,
                      State(o, p, a, 4, w, flags, l, On, u))
  <2>1. \E z \in 1 .. 4 : (z = 4 \/ t # 0)
           /\ Reads(State(o, p, a, st, 0, flags, l, Off, dw), e, State(o, p, a, z, h, flags, l, Off, dw))
    <3>1. CASE h = 0
      <4>1. t # 0
        BY <1>2, <3>1
      <4>2. Reads(State(o, p, a, st, 0, flags, l, Off, dw), <<>>, State(o, p, a, st, 0, flags, l, Off, dw))
        BY ReadNothing
      <4> QED BY <1>3, <3>1, <4>1, <4>2
    <3>2. CASE NumeralRead(h)
      <4>1. Reads(State(o, p, a, st, 0, flags, l, Off, dw), e, State(o, p, a, 4, h, flags, l, Off, dw))
        BY <3>2 DEF NumeralRead, e
      <4>2. 4 \in 1 .. 4
        OBVIOUS
      <4> QED BY <4>1, <4>2
    <3> QED BY <1>4, <3>1, <3>2
  <2>2. Reads(State(o, p, a, 4, w, flags, l, On, 0), e, State(o, p, a, 4, w, flags, l, On, h))
    <3>1. CASE h = 0
      <4>1. Reads(State(o, p, a, 4, w, flags, l, On, 0), <<>>, State(o, p, a, 4, w, flags, l, On, 0))
        BY ReadNothing
      <4> QED BY <1>3, <3>1, <4>1
    <3>2. CASE NumeralRead(h)
      <4>1. 4 \in 1 .. 4
        OBVIOUS
      <4> QED BY <3>2, <4>1 DEF NumeralRead, e
    <3> QED BY <1>4, <3>1, <3>2
  <2>3. PICK z \in 1 .. 4 : (z = 4 \/ t # 0)
           /\ Reads(State(o, p, a, st, 0, flags, l, Off, dw), e, State(o, p, a, z, h, flags, l, Off, dw))
    BY <2>1
  <2>4. Reads(State(o, p, a, z, h, flags, l, Off, dw), <<c>>, State(o, p, a, 4, u, flags, l, Off, dw))
    <3>1. DigitIn(z, c, t)
      BY <1>5, <2>3
    <3>2. Read(State(o, p, a, z, h, flags, l, Off, dw), c) = State(o, p, a, 4, u, flags, l, Off, dw)
      BY <1>5, <3>1, WidthDigitRead
    <3>3. Reads(State(o, p, a, z, h, flags, l, Off, dw), <<c>>, Read(State(o, p, a, z, h, flags, l, Off, dw), c))
      BY ReadOne
    <3> QED BY <3>2, <3>3
  <2>5. Reads(State(o, p, a, 4, w, flags, l, On, h), <<c>>, State(o, p, a, 4, w, flags, l, On, u))
    <3>1. 4 \in 1 .. 4 /\ DigitIn(4, c, t)
      BY <1>5
    <3>2. Read(State(o, p, a, 4, w, flags, l, On, h), c) = State(o, p, a, 4, w, flags, l, On, u)
      BY <1>5, <3>1, DecimalsDigitRead
    <3>3. Reads(State(o, p, a, 4, w, flags, l, On, h), <<c>>, Read(State(o, p, a, 4, w, flags, l, On, h), c))
      BY ReadOne
    <3> QED BY <3>2, <3>3
  <2> QED BY <1>3, <1>a, <2>2, <2>3, <2>4, <2>5, ReadBoth
<1>7. Digits(u, 10, 97) = e \o <<c>>
  BY <1>3, <1>a
<1> DEFINE D == e \o <<c>>
<1> HIDE DEF D
<1>8. ASSUME NEW o, NEW p, NEW a, NEW flags, NEW l, NEW w, NEW dw, NEW st \in 1 .. 4
      PROVE  /\ Reads(State(o, p, a, st, 0, flags, l, Off, dw), D, State(o, p, a, 4, u, flags, l, Off, dw))
             /\ Reads(State(o, p, a, 4, w, flags, l, On, 0), D, State(o, p, a, 4, w, flags, l, On, u))
  BY <1>6 DEF D
<1>9. Digits(u, 10, 97) = D
  BY <1>7 DEF D
<1> QED BY <1>8, <1>9 DEF NumeralRead

(* A numeral in a format is read as its number. *)
LEMMA NumeralsRead ==
  ASSUME NEW N \in Nat, N > 0
  PROVE  NumeralRead(N)
<1> DEFINE S == {n \in 0 .. N : \A u \in 1 .. n : NumeralRead(u)}
<1>1. 0 \in S
  OBVIOUS
<1>2. ASSUME NEW n \in 0 .. N - 1, n \in S
      PROVE  n + 1 \in S
  <2>1. Higher(n + 1, 10) \in 0 .. n
    <3>1. n + 1 \in Nat /\ n + 1 > 0 /\ (n + 1) - 1 = n /\ IsBase(10)
      BY DEF IsBase
    <3> QED BY <3>1, LastDigit
  <2>2. NumeralRead(n + 1)
    <3>1. Higher(n + 1, 10) = 0 \/ NumeralRead(Higher(n + 1, 10))
      BY <1>2, <2>1
    <3>2. n + 1 \in Nat /\ n + 1 > 0
      OBVIOUS
    <3> QED BY <3>1, <3>2, NumeralReadUp
  <2> QED BY <1>2, <2>2
<1>3. \A n \in 0 .. N - 1 : n \in S => n + 1 \in S
  BY <1>2
<1>4. N \in S
  <2> HIDE DEF S
  <2> QED BY <1>1, <1>3, CountUp
<1> QED BY <1>4
-----------------------------------------------------------------------------
(* The parts of a directive, one after the other. *)
LEMMA OneRead ==
  ASSUME NEW s, NEW c, NEW r, Read(s, c) = r
  PROVE  Reads(s, <<c>>, r)
BY ReadOne

(* Reading nothing. *)
LEMMA SamePlace ==
  ASSUME NEW s, NEW r, s = r
  PROVE  Reads(s, <<>>, r)
BY ReadNothing

RightText(pad) == IF "right" \in pad THEN <<Minus>> ELSE <<>>
PlusText(pad)  == IF "plus" \in pad THEN <<Plus>> ELSE <<>>
ZeroText(pad)  == IF "zero" \in pad THEN <<Zero>> ELSE <<>>

(* The flag for blanks on the right is read as it is spelled. *)
LEMMA RightPart ==
  ASSUME NEW o, NEW p, NEW a, NEW w, NEW l, NEW post, NEW dw, NEW pad
  PROVE  \E st \in 1 .. 2 :
           Reads(State(o, p, a, 1, w, {}, l, post, dw), RightText(pad),
                 State(o, p, a, st, w, pad \cap {"right"}, l, post, dw))
<1> DEFINE no == {}
           f == pad \cap {"right"}
<1>1. CASE "right" \in pad
  <2>1. Read(State(o, p, a, 1, w, no, l, post, dw), Minus) = State(o, p, a, 2, w, no \cup {"right"}, l, post, dw)
    <3>1. 1 \in 1 .. 5
      OBVIOUS
    <3> QED BY <3>1, MinusRead
  <2>2. no \cup {"right"} = f
    BY <1>1
  <2>3. RightText(pad) = <<Minus>>
    BY <1>1 DEF RightText
  <2>4. 2 \in 1 .. 2
    OBVIOUS
  <2> HIDE DEF no, f
  <2>5. Reads(State(o, p, a, 1, w, no, l, post, dw), RightText(pad), State(o, p, a, 2, w, f, l, post, dw))
    BY <2>1, <2>2, <2>3, OneRead
  <2> QED BY <2>4, <2>5 DEF f, no
<1>2. CASE "right" \notin pad
  <2>1. no = f
    BY <1>2
  <2>2. RightText(pad) = <<>>
    BY <1>2 DEF RightText
  <2>3. 1 \in 1 .. 2
    OBVIOUS
  <2> HIDE DEF no, f
  <2>4. Reads(State(o, p, a, 1, w, no, l, post, dw), RightText(pad), State(o, p, a, 1, w, f, l, post, dw))
    BY <2>1, <2>2, SamePlace
  <2> QED BY <2>3, <2>4 DEF f, no
<1> QED BY <1>1, <1>2

(* The flag for a plus is read as it is spelled. *)
LEMMA PlusPart ==
  ASSUME NEW o, NEW p, NEW a, NEW st \in 1 .. 2, NEW w, NEW l, NEW post, NEW dw, NEW pad
  PROVE  \E z \in 1 .. 3 :
           Reads(State(o, p, a, st, w, pad \cap {"right"}, l, post, dw), PlusText(pad),
                 State(o, p, a, z, w, pad \cap {"right", "plus"}, l, post, dw))
<1> DEFINE e == pad \cap {"right"}
           f == pad \cap {"right", "plus"}
<1>1. CASE "plus" \in pad
  <2>1. Read(State(o, p, a, st, w, e, l, post, dw), Plus) = State(o, p, a, 3, w, e \cup {"plus"}, l, post, dw)
    BY PlusRead
  <2>2. e \cup {"plus"} = f
    BY <1>1
  <2>3. PlusText(pad) = <<Plus>>
    BY <1>1 DEF PlusText
  <2>4. 3 \in 1 .. 3
    OBVIOUS
  <2> HIDE DEF e, f
  <2>5. Reads(State(o, p, a, st, w, e, l, post, dw), PlusText(pad), State(o, p, a, 3, w, f, l, post, dw))
    BY <2>1, <2>2, <2>3, OneRead
  <2> QED BY <2>4, <2>5 DEF e, f
<1>2. CASE "plus" \notin pad
  <2>1. e = f
    BY <1>2
  <2>2. PlusText(pad) = <<>>
    BY <1>2 DEF PlusText
  <2>3. st \in 1 .. 3
    OBVIOUS
  <2> HIDE DEF e, f
  <2>4. Reads(State(o, p, a, st, w, e, l, post, dw), PlusText(pad), State(o, p, a, st, w, f, l, post, dw))
    BY <2>1, <2>2, SamePlace
  <2> QED BY <2>3, <2>4 DEF e, f
<1> QED BY <1>1, <1>2

(* The flag for zeros is read as it is spelled. *)
LEMMA ZeroPart ==
  ASSUME NEW o, NEW p, NEW a, NEW st \in 1 .. 3, NEW w, NEW l, NEW post, NEW dw, NEW pad
  PROVE  \E z \in 1 .. 3 :
           Reads(State(o, p, a, st, w, pad \cap {"right", "plus"}, l, post, dw), ZeroText(pad),
                 State(o, p, a, z, w, pad \cap {"right", "plus", "zero"}, l, post, dw))
<1> DEFINE e == pad \cap {"right", "plus"}
           f == pad \cap {"right", "plus", "zero"}
<1>1. CASE "zero" \in pad
  <2>1. Read(State(o, p, a, st, w, e, l, post, dw), Zero) = State(o, p, a, 3, w, e \cup {"zero"}, l, post, dw)
    BY ZeroRead
  <2>2. e \cup {"zero"} = f
    BY <1>1
  <2>3. ZeroText(pad) = <<Zero>>
    BY <1>1 DEF ZeroText
  <2>4. 3 \in 1 .. 3
    OBVIOUS
  <2> HIDE DEF e, f
  <2>5. Reads(State(o, p, a, st, w, e, l, post, dw), ZeroText(pad), State(o, p, a, 3, w, f, l, post, dw))
    BY <2>1, <2>2, <2>3, OneRead
  <2> QED BY <2>4, <2>5 DEF e, f
<1>2. CASE "zero" \notin pad
  <2>1. e = f
    BY <1>2
  <2>2. ZeroText(pad) = <<>>
    BY <1>2 DEF ZeroText
  <2>3. st \in 1 .. 3
    OBVIOUS
  <2> HIDE DEF e, f
  <2>4. Reads(State(o, p, a, st, w, e, l, post, dw), ZeroText(pad), State(o, p, a, st, w, f, l, post, dw))
    BY <2>1, <2>2, SamePlace
  <2> QED BY <2>3, <2>4 DEF e, f
<1> QED BY <1>1, <1>2

WidthText(w)   == IF w = 0 THEN <<>> ELSE Numeral(w)
DecimalsText(dec) == IF dec = {} THEN <<>> ELSE <<Point>> \o Numeral(CHOOSE n \in dec : TRUE)
LongText(l)    == IF l THEN <<Code.l>> ELSE <<>>
Flagged(v)     == IF v THEN On ELSE Off

(* The width is read as it is spelled. *)
LEMMA WidthPart ==
  ASSUME NEW o, NEW p, NEW a, NEW st \in 1 .. 3, NEW w \in Nat, NEW flags, NEW l, NEW dw
  PROVE  /\ WidthText(w) \in Seq(Int)
         /\ \E z \in 1 .. 4 :
              Reads(State(o, p, a, st, 0, flags, l, Off, dw), WidthText(w), State(o, p, a, z, w, flags, l, Off, dw))
<1>1. CASE w = 0
  <2>1. WidthText(w) = <<>>
    BY <1>1 DEF WidthText
  <2>2. <<>> \in Seq(Int) /\ st \in 1 .. 4
    OBVIOUS
  <2>3. Reads(State(o, p, a, st, 0, flags, l, Off, dw), <<>>, State(o, p, a, st, w, flags, l, Off, dw))
    BY <1>1, SamePlace
  <2> QED BY <2>1, <2>2, <2>3
<1>2. CASE w > 0
  <2>1. WidthText(w) = Digits(w, 10, 97)
    BY <1>2 DEF WidthText, Numeral
  <2>2. Digits(w, 10, 97) \in Seq(Int)
    BY DigitsUp DEF IsBase, IsLetter
  <2>3. NumeralRead(w)
    BY <1>2, NumeralsRead
  <2>4. st \in 1 .. 4 /\ 4 \in 1 .. 4
    OBVIOUS
  <2>5. Reads(State(o, p, a, st, 0, flags, l, Off, dw), Digits(w, 10, 97), State(o, p, a, 4, w, flags, l, Off, dw))
    BY <2>3, <2>4 DEF NumeralRead
  <2> QED BY <2>1, <2>2, <2>4, <2>5
<1> QED BY <1>1, <1>2

(* The numeral of a number of decimals is read as that number. *)
LEMMA NumeralPart ==
  ASSUME NEW o, NEW p, NEW a, NEW w, NEW flags, NEW l, NEW n \in Nat
  PROVE  /\ Numeral(n) \in Seq(Int)
         /\ Reads(State(o, p, a, 4, w, flags, l, On, 0), Numeral(n), State(o, p, a, 4, w, flags, l, On, n))
<1>1. CASE n = 0
  <2>1. Numeral(n) = <<48>> /\ <<48>> \in Seq(Int)
    BY <1>1 DEF Numeral, Zero
  <2>2. DigitIn(4, 48, 0) /\ Followed(0, 0, 0)
    BY DEF DigitIn, Followed
  <2>3. Read(State(o, p, a, 4, w, flags, l, On, 0), 48) = State(o, p, a, 4, w, flags, l, On, 0)
    BY <2>2, DecimalsDigitRead
  <2>4. Reads(State(o, p, a, 4, w, flags, l, On, 0), <<48>>, State(o, p, a, 4, w, flags, l, On, 0))
    BY <2>3, OneRead
  <2> QED BY <1>1, <2>1, <2>4
<1>2. CASE n > 0
  <2>1. Numeral(n) = Digits(n, 10, 97)
    BY <1>2 DEF Numeral
  <2>2. Digits(n, 10, 97) \in Seq(Int)
    BY DigitsUp DEF IsBase, IsLetter
  <2>3. NumeralRead(n)
    BY <1>2, NumeralsRead
  <2>4. 4 \in 1 .. 4
    OBVIOUS
  <2>5. Reads(State(o, p, a, 4, w, flags, l, On, 0), Digits(n, 10, 97), State(o, p, a, 4, w, flags, l, On, n))
    BY <2>3, <2>4 DEF NumeralRead
  <2> QED BY <2>1, <2>2, <2>5
<1> QED BY <1>1, <1>2

(* The point and the number of decimals are read as they are spelled. *)
LEMMA DecimalsPart ==
  ASSUME NEW o, NEW p, NEW a, NEW st \in 1 .. 4, NEW w, NEW flags, NEW l, NEW dw, NEW n \in Nat
  PROVE  /\ DecimalsText({n}) \in Seq(Int)
         /\ Reads(State(o, p, a, st, w, flags, l, Off, dw), DecimalsText({n}),
                   State(o, p, a, 4, w, flags, l, On, n))
<1>1. DecimalsText({n}) = <<Point>> \o Numeral(n)
  <2>1. (CHOOSE k \in {n} : TRUE) = n
    OBVIOUS
  <2> QED BY <2>1 DEF DecimalsText
<1>2. <<Point>> \in Seq(Int)
  BY DEF Point
<1>3. Read(State(o, p, a, st, w, flags, l, Off, dw), Point) = State(o, p, a, 4, w, flags, l, On, 0)
  BY PointRead
<1>4. Reads(State(o, p, a, st, w, flags, l, Off, dw), <<Point>>, State(o, p, a, 4, w, flags, l, On, 0))
  BY <1>3, OneRead
<1>5. /\ Numeral(n) \in Seq(Int)
      /\ Reads(State(o, p, a, 4, w, flags, l, On, 0), Numeral(n), State(o, p, a, 4, w, flags, l, On, n))
  BY NumeralPart
<1>6. <<Point>> \o Numeral(n) \in Seq(Int)
  BY <1>2, <1>5
<1> QED BY <1>1, <1>2, <1>4, <1>5, <1>6, ReadBoth

(* The `l' is read as it is spelled. *)
LEMMA LongPart ==
  ASSUME NEW o, NEW p, NEW a, NEW st \in 1 .. 4, NEW w, NEW flags, NEW post, NEW dw, NEW long \in BOOLEAN
  PROVE  /\ LongText(long) \in Seq(Int)
         /\ \E z \in 1 .. 5 :
              Reads(State(o, p, a, st, w, flags, Off, post, dw), LongText(long),
                    State(o, p, a, z, w, flags, Flagged(long), post, dw))
<1>1. CASE long
  <2>1. LongText(long) = <<Code.l>> /\ Flagged(long) = On
    BY <1>1 DEF LongText, Flagged
  <2>2. <<Code.l>> \in Seq(Int) /\ 5 \in 1 .. 5
    BY DEF Code
  <2>3. Read(State(o, p, a, st, w, flags, Off, post, dw), Code.l) = State(o, p, a, 5, w, flags, On, post, dw)
    BY LongRead
  <2>4. Reads(State(o, p, a, st, w, flags, Off, post, dw), <<Code.l>>, State(o, p, a, 5, w, flags, On, post, dw))
    BY <2>3, OneRead
  <2> QED BY <2>1, <2>2, <2>4
<1>2. CASE ~long
  <2>1. LongText(long) = <<>> /\ Flagged(long) = Off
    BY <1>2 DEF LongText, Flagged
  <2>2. <<>> \in Seq(Int) /\ st \in 1 .. 5
    OBVIOUS
  <2>3. Reads(State(o, p, a, st, w, flags, Off, post, dw), <<>>, State(o, p, a, st, w, flags, Off, post, dw))
    BY ReadNothing
  <2> QED BY <2>1, <2>2, <2>3
<1> QED BY <1>1, <1>2

PostOf(dec)    == IF dec = {} THEN Off ELSE On
DecOf(dec, dw) == IF dec = {} THEN dw ELSE CHOOSE n \in dec : TRUE
IsDecimals(dec) == dec = {} \/ \E n \in Nat : dec = {n}

(* The decimals, if any. *)
LEMMA DecPart ==
  ASSUME NEW o, NEW p, NEW a, NEW st \in 1 .. 4, NEW w, NEW flags, NEW l, NEW dw, NEW dec, IsDecimals(dec)
  PROVE  /\ DecimalsText(dec) \in Seq(Int)
         /\ \E z \in 1 .. 4 :
              Reads(State(o, p, a, st, w, flags, l, Off, dw), DecimalsText(dec),
                    State(o, p, a, z, w, flags, l, PostOf(dec), DecOf(dec, dw)))
<1>1. CASE dec = {}
  <2>1. DecimalsText(dec) = <<>> /\ PostOf(dec) = Off /\ DecOf(dec, dw) = dw
    BY <1>1 DEF DecimalsText, PostOf, DecOf
  <2>2. <<>> \in Seq(Int)
    OBVIOUS
  <2>3. Reads(State(o, p, a, st, w, flags, l, Off, dw), <<>>, State(o, p, a, st, w, flags, l, Off, dw))
    BY ReadNothing
  <2> QED BY <2>1, <2>2, <2>3
<1>2. ASSUME NEW n \in Nat, dec = {n}
      PROVE  /\ DecimalsText(dec) \in Seq(Int)
             /\ \E z \in 1 .. 4 :
                  Reads(State(o, p, a, st, w, flags, l, Off, dw), DecimalsText(dec),
                        State(o, p, a, z, w, flags, l, PostOf(dec), DecOf(dec, dw)))
  <2>1. dec # {} /\ (CHOOSE k \in dec : TRUE) = n
    BY <1>2
  <2>2. PostOf(dec) = On /\ DecOf(dec, dw) = n
    BY <2>1 DEF PostOf, DecOf
  <2>3. /\ DecimalsText({n}) \in Seq(Int)
        /\ Reads(State(o, p, a, st, w, flags, l, Off, dw), DecimalsText({n}),
                  State(o, p, a, 4, w, flags, l, On, n))
    BY DecimalsPart
  <2>4. /\ DecimalsText(dec) \in Seq(Int)
        /\ Reads(State(o, p, a, st, w, flags, l, Off, dw), DecimalsText(dec),
                  State(o, p, a, 4, w, flags, l, PostOf(dec), DecOf(dec, dw)))
    BY <1>2, <2>2, <2>3, Zenon
  <2>5. 4 \in 1 .. 4
    OBVIOUS
  <2> QED BY <2>4, <2>5
<1> QED BY <1>1, <1>2 DEF IsDecimals

(* What stands in front of the conversion. *)
Prefix(long, pad, w, dec) ==
  <<Percent>> \o RightText(pad) \o PlusText(pad) \o ZeroText(pad) \o WidthText(w) \o DecimalsText(dec)
  \o LongText(long)

LEMMA SpelledInParts ==
  ASSUME NEW conv, NEW long, NEW pad, NEW w, NEW dec, NEW arg
  PROVE  Spelled(Directive(conv, long, pad, w, dec, arg)) = Prefix(long, pad, w, dec) \o <<Code[conv]>>
<1> DEFINE d == Directive(conv, long, pad, w, dec, arg)
<1>1. d.conv = conv /\ d.long = long /\ d.pad = pad /\ d.width = w /\ d.dec = dec
  BY DEF Directive
<1> HIDE DEF d
<1>2. Spelled(d) = <<Percent>> \o RightText(d.pad) \o PlusText(d.pad) \o ZeroText(d.pad) \o WidthText(d.width)
                   \o DecimalsText(d.dec) \o LongText(d.long) \o <<Code[d.conv]>>
  BY DEF Spelled, RightText, PlusText, ZeroText, WidthText, DecimalsText, LongText
<1>3. Spelled(d) = Prefix(long, pad, w, dec) \o <<Code[conv]>>
  BY <1>1, <1>2, Zenon DEF Prefix
<1> QED BY <1>3 DEF d

(* What stands in front of the conversion is read as it is spelled. *)
LEMMA PrefixReads ==
  ASSUME NEW o, NEW p, NEW a, NEW w0, NEW f0, NEW l0, NEW q0, NEW dw,
         NEW long \in BOOLEAN, NEW pad \in Pads, NEW w \in Nat, NEW dec, IsDecimals(dec)
  PROVE  /\ Prefix(long, pad, w, dec) \in Seq(Int)
         /\ \E z \in 1 .. 5 :
              Reads(State(o, p, a, 0, w0, f0, l0, q0, dw), Prefix(long, pad, w, dec),
                    State(o, p, a, z, w, pad, Flagged(long), PostOf(dec), DecOf(dec, dw)))
<1> DEFINE s0 == State(o, p, a, 0, w0, f0, l0, q0, dw)
           t1 == <<Percent>>
           t2 == t1 \o RightText(pad)
           t3 == t2 \o PlusText(pad)
           t4 == t3 \o ZeroText(pad)
           t5 == t4 \o WidthText(w)
           t6 == t5 \o DecimalsText(dec)
           t7 == t6 \o LongText(long)
<1>0. Prefix(long, pad, w, dec) = t7
  BY DEF Prefix
<1>1. t1 \in Seq(Int) /\ Reads(s0, t1, State(o, p, a, 1, 0, {}, Off, Off, dw))
  <2>1. Read(s0, Percent) = State(o, p, a, 1, 0, {}, Off, Off, dw)
    BY PercentRead
  <2>2. <<Percent>> \in Seq(Int)
    BY DEF Percent
  <2> QED BY <2>1, <2>2, OneRead
<1>2. RightText(pad) \in Seq(Int) /\ PlusText(pad) \in Seq(Int) /\ ZeroText(pad) \in Seq(Int)
  BY DEF RightText, PlusText, ZeroText, Minus, Plus, Zero
<1> HIDE DEF t1, s0
<1>3. PICK z2 \in 1 .. 2 : Reads(State(o, p, a, 1, 0, {}, Off, Off, dw), RightText(pad),
                                State(o, p, a, z2, 0, pad \cap {"right"}, Off, Off, dw))
  BY RightPart
<1>4. t2 \in Seq(Int) /\ Reads(s0, t2, State(o, p, a, z2, 0, pad \cap {"right"}, Off, Off, dw))
  BY <1>1, <1>2, <1>3, ReadBoth
<1> HIDE DEF t2
<1>5. PICK z3 \in 1 .. 3 : Reads(State(o, p, a, z2, 0, pad \cap {"right"}, Off, Off, dw), PlusText(pad),
                                State(o, p, a, z3, 0, pad \cap {"right", "plus"}, Off, Off, dw))
  BY PlusPart
<1>6. t3 \in Seq(Int) /\ Reads(s0, t3, State(o, p, a, z3, 0, pad \cap {"right", "plus"}, Off, Off, dw))
  BY <1>2, <1>4, <1>5, ReadBoth
<1> HIDE DEF t3
<1>7. PICK z4 \in 1 .. 3 : Reads(State(o, p, a, z3, 0, pad \cap {"right", "plus"}, Off, Off, dw), ZeroText(pad),
                                State(o, p, a, z4, 0, pad \cap {"right", "plus", "zero"}, Off, Off, dw))
  BY ZeroPart
<1> DEFINE f == pad \cap {"right", "plus", "zero"}
<1>8. f = pad
  BY DEF Pads
<1> HIDE DEF f
<1>9. t4 \in Seq(Int) /\ Reads(s0, t4, State(o, p, a, z4, 0, pad, Off, Off, dw))
  <2>1. Reads(State(o, p, a, z3, 0, pad \cap {"right", "plus"}, Off, Off, dw), ZeroText(pad),
              State(o, p, a, z4, 0, f, Off, Off, dw))
    BY <1>7 DEF f
  <2> QED BY <1>2, <1>6, <1>8, <2>1, ReadBoth
<1> HIDE DEF t4
<1>10. /\ WidthText(w) \in Seq(Int)
       /\ \E z \in 1 .. 4 : Reads(State(o, p, a, z4, 0, pad, Off, Off, dw), WidthText(w),
                                 State(o, p, a, z, w, pad, Off, Off, dw))
  BY WidthPart
<1>11. PICK z5 \in 1 .. 4 : Reads(State(o, p, a, z4, 0, pad, Off, Off, dw), WidthText(w),
                                 State(o, p, a, z5, w, pad, Off, Off, dw))
  BY <1>10
<1>12. t5 \in Seq(Int) /\ Reads(s0, t5, State(o, p, a, z5, w, pad, Off, Off, dw))
  BY <1>9, <1>10, <1>11, ReadBoth
<1> HIDE DEF t5
<1> DEFINE q == PostOf(dec)
           n == DecOf(dec, dw)
<1>13. /\ DecimalsText(dec) \in Seq(Int)
       /\ \E z \in 1 .. 4 : Reads(State(o, p, a, z5, w, pad, Off, Off, dw), DecimalsText(dec),
                                 State(o, p, a, z, w, pad, Off, q, n))
  BY DecPart
<1> HIDE DEF q, n
<1>14. PICK z6 \in 1 .. 4 : Reads(State(o, p, a, z5, w, pad, Off, Off, dw), DecimalsText(dec),
                                 State(o, p, a, z6, w, pad, Off, q, n))
  BY <1>13
<1>15. t6 \in Seq(Int) /\ Reads(s0, t6, State(o, p, a, z6, w, pad, Off, q, n))
  BY <1>12, <1>13, <1>14, ReadBoth
<1> HIDE DEF t6
<1>16. /\ LongText(long) \in Seq(Int)
       /\ \E z \in 1 .. 5 : Reads(State(o, p, a, z6, w, pad, Off, q, n), LongText(long),
                                 State(o, p, a, z, w, pad, Flagged(long), q, n))
  BY LongPart
<1>17. PICK z7 \in 1 .. 5 : Reads(State(o, p, a, z6, w, pad, Off, q, n), LongText(long),
                                 State(o, p, a, z7, w, pad, Flagged(long), q, n))
  BY <1>16
<1>18. t7 \in Seq(Int) /\ Reads(s0, t7, State(o, p, a, z7, w, pad, Flagged(long), q, n))
  BY <1>15, <1>16, <1>17, ReadBoth
<1> HIDE DEF t7
<1> QED BY <1>0, <1>18 DEF s0, q, n

-----------------------------------------------------------------------------
(* A whole directive. *)
LEMMA FirstArgument ==
  ASSUME NEW V, NEW arg \in V, NEW rest \in Seq(V)
  PROVE  Head(<<arg>> \o rest) = arg /\ Tail(<<arg>> \o rest) = rest
<1> DEFINE e == <<arg>>
           a == e \o rest
<1>1. e \in Seq(V) /\ Len(e) = 1 /\ e[1] = arg
  OBVIOUS
<1> HIDE DEF e
<1>2. /\ a \in Seq(V) /\ Len(a) = 1 + Len(rest) /\ Len(rest) \in Nat
      /\ a[1] = arg /\ \A n \in 1 .. Len(rest) : a[n + 1] = rest[n]
  <2>1. a \in Seq(V) /\ Len(a) = Len(e) + Len(rest)
        /\ \A i \in 1 .. Len(e) + Len(rest) : a[i] = IF i <= Len(e) THEN e[i] ELSE rest[i - Len(e)]
    BY <1>1, ConcatProperties
  <2>2. Len(rest) \in Nat
    OBVIOUS
  <2> HIDE DEF a
  <2>3. a[1] = arg
    BY <1>1, <2>1, <2>2
  <2>4. ASSUME NEW n \in 1 .. Len(rest)
        PROVE  a[n + 1] = rest[n]
    <3>1. n + 1 \in 1 .. Len(e) + Len(rest) /\ ~(n + 1 <= Len(e)) /\ (n + 1) - Len(e) = n
      BY <1>1, <2>2
    <3> QED BY <2>1, <3>1
  <2> QED BY <1>1, <2>1, <2>2, <2>3, <2>4
<1> HIDE DEF a
<1>3. Head(a) = arg
  BY <1>2
<1>4. /\ Tail(a) \in Seq(V) /\ Len(Tail(a)) = Len(rest)
      /\ \A n \in 1 .. Len(rest) : Tail(a)[n] = rest[n]
  BY <1>2
<1>5. Tail(a) = rest
  BY <1>4, SeqEqual
<1> QED BY <1>3, <1>5 DEF a, e

Printed(c, arg, w, flags, l, dw) == Text(State(<<>>, 0, <<arg>>, 0, w, flags, l, Off, dw), c)

(* The text depends on the argument, flags, width and decimals, not on what was printed. *)
LEMMA TextAlike ==
  ASSUME NEW s, NEW r, NEW c, Head(s.args) = Head(r.args), s.pad = r.pad, s.isLong = r.isLong,
         s.width = r.width, s.dec_width = r.dec_width
  PROVE  Text(s, c) = Text(r, c)
BY Zenon DEF Text

(* What a conversion prints in a state. *)
LEMMA TextOf ==
  ASSUME NEW o, NEW p, NEW a, NEW st, NEW w, NEW flags, NEW l, NEW post, NEW dw, NEW c
  PROVE  Text(State(o, p, a, st, w, flags, l, post, dw), c) = Printed(c, Head(a), w, flags, l, dw)
<1> DEFINE s == State(o, p, a, st, w, flags, l, post, dw)
           r == State(<<>>, 0, <<Head(a)>>, 0, w, flags, l, Off, dw)
<1>1. s.args = a /\ s.pad = flags /\ s.isLong = l /\ s.width = w /\ s.dec_width = dw
  BY PartsOfState
<1>2. r.args = <<Head(a)>> /\ r.pad = flags /\ r.isLong = l /\ r.width = w /\ r.dec_width = dw
  BY PartsOfState
<1>3. Head(<<Head(a)>>) = Head(a)
  OBVIOUS
<1> HIDE DEF s, r
<1>4. Text(s, c) = Text(r, c)
  BY <1>1, <1>2, <1>3, TextAlike
<1> QED BY <1>4 DEF s, r, Printed

(* A conversion behind the other parts of its directive. *)
LEMMA ConversionReads ==
  ASSUME NEW s, NEW x, x \in Seq(Int), NEW c, c \in Conversions, NEW z, z \in 1 .. 5,
         NEW o, NEW p, NEW a, NEW w, NEW flags, NEW l, NEW post, NEW dw,
         Reads(s, x, State(o, p, a, z, w, flags, l, post, dw)),
         NEW T, IsText(T, State(o, p, a, z, w, flags, l, post, dw), c),
         NEW o1, NEW p1, NEW a1, Printing(o1, p1, a1, o, p, a, T)
  PROVE  x \o <<c>> \in Seq(Int) /\ Reads(s, x \o <<c>>, State(o1, p1, a1, 0, w, flags, l, post, dw))
<1>1. c \in Int
  BY DEF Conversions, Code
<1>2. /\ c \in Conversions /\ z \in 1 .. 5 /\ IsText(T, State(o, p, a, z, w, flags, l, post, dw), c)
      /\ Printing(o1, p1, a1, o, p, a, T)
  OBVIOUS
<1>3. Read(State(o, p, a, z, w, flags, l, post, dw), c) = State(o1, p1, a1, 0, w, flags, l, post, dw)
  BY ONLY <1>2, ConversionRead
<1>4. Reads(State(o, p, a, z, w, flags, l, post, dw), <<c>>, State(o1, p1, a1, 0, w, flags, l, post, dw))
  BY <1>3, OneRead
<1>5. <<c>> \in Seq(Int) /\ x \o <<c>> \in Seq(Int)
  BY <1>1
<1> QED BY <1>4, <1>5, ReadBoth

(* The parser between directives; where a directive of long, pad, w and    *)
(* dec leaves it.                                                          *)
Left(o, p, a, long, pad, w, dec, dw) ==
  State(o, p, a, 0, w, pad, Flagged(long), PostOf(dec), DecOf(dec, dw))

(* T is what the directive prints; o1 and p1 come of o and p with T behind. *)
IsPrinted(T, conv, arg, w, pad, long, dec, dw) ==
  T = Printed(Code[conv], arg, w, pad, Flagged(long), DecOf(dec, dw))

Prints(o1, p1, o, p, T) == o1 = o \o T /\ Counted(p1, p, T)

LEMMA DirectiveReads ==
  ASSUME NEW o, NEW p, NEW V, NEW arg \in V, NEW rest \in Seq(V),
         NEW w0, NEW f0, NEW l0, NEW q0, NEW dw,
         NEW conv, Code[conv] \in Conversions,
         NEW long \in BOOLEAN, NEW pad \in Pads, NEW w \in Nat, NEW dec, IsDecimals(dec),
         NEW T, IsPrinted(T, conv, arg, w, pad, long, dec, dw), NEW o1, NEW p1, Prints(o1, p1, o, p, T)
  PROVE  /\ Spelled(Directive(conv, long, pad, w, dec, arg)) \in Seq(Int)
         /\ Reads(State(o, p, <<arg>> \o rest, 0, w0, f0, l0, q0, dw),
                  Spelled(Directive(conv, long, pad, w, dec, arg)), Left(o1, p1, rest, long, pad, w, dec, dw))
<1> DEFINE x == Prefix(long, pad, w, dec)
<1>1. PICK a : a = <<arg>> \o rest
  OBVIOUS
<1>2. Head(a) = arg /\ Tail(a) = rest
  BY <1>1, FirstArgument
<1>3. PICK n : n = DecOf(dec, dw)
  OBVIOUS
<1>4. PICK q : q = PostOf(dec)
  OBVIOUS
<1>5. PICK l : l = Flagged(long)
  OBVIOUS
<1>6. PICK c : c = Code[conv]
  OBVIOUS
<1>7. PICK s : s = State(o, p, a, 0, w0, f0, l0, q0, dw)
  OBVIOUS
<1>8. x \in Seq(Int) /\ \E z \in 1 .. 5 : Reads(s, x, State(o, p, a, z, w, pad, l, q, n))
  BY <1>3, <1>4, <1>5, <1>7, PrefixReads
<1>9. Spelled(Directive(conv, long, pad, w, dec, arg)) = x \o <<c>>
  BY <1>6, SpelledInParts
<1>10. T = Printed(c, Head(a), w, pad, l, n) /\ c \in Conversions
  BY <1>2, <1>3, <1>5, <1>6 DEF IsPrinted
<1> HIDE DEF x
<1>11. PICK z \in 1 .. 5 : Reads(s, x, State(o, p, a, z, w, pad, l, q, n))
  BY <1>8
<1>12. IsText(T, State(o, p, a, z, w, pad, l, q, n), c)
  BY <1>10, TextOf DEF IsText
<1>13. Printing(o1, p1, rest, o, p, a, T)
  BY <1>2 DEF Printing, Prints, Counted
<1>14. x \o <<c>> \in Seq(Int) /\ Reads(s, x \o <<c>>, State(o1, p1, rest, 0, w, pad, l, q, n))
  BY <1>8, <1>10, <1>11, <1>12, <1>13, ConversionReads
<1> QED BY <1>1, <1>3, <1>4, <1>5, <1>7, <1>9, <1>14 DEF Left

(* The state in which vprintf() begins. *)
LEMMA UnreadState ==
  ASSUME NEW a
  PROVE  Unread(a) = State(<<>>, 0, a, 0, 0, {}, Off, Off, 0)
BY DEF Unread, State, Off

(* The argument of one directive. *)
LEMMA OnlyArgument ==
  ASSUME NEW arg
  PROVE  \E rest : rest = <<>> /\ rest \in Seq({arg}) /\ <<arg>> = <<arg>> \o rest
<1> DEFINE e == <<arg>>
           r == <<>>
<1>1. e \in Seq({arg}) /\ r \in Seq({arg})
  OBVIOUS
<1>2. e = e \o r
  <2>1. r = <<>>
    OBVIOUS
  <2> HIDE DEF e, r
  <2> QED BY <1>1, <2>1, ConcatEmptySeq
<1> QED BY <1>1, <1>2

(* What one directive between brackets comes to. *)
Bracketed(o1, p1, p2, T) == o1 = (<<>> \o <<60>>) \o T /\ Counted(p1, 1, T) /\ Counted(p2, p1, <<62>>)

LEMMA BracketsRead ==
  ASSUME NEW arg, NEW conv, Code[conv] \in Conversions,
         NEW long \in BOOLEAN, NEW pad \in Pads, NEW w \in Nat, NEW dec, IsDecimals(dec),
         NEW T, IsPrinted(T, conv, arg, w, pad, long, dec, 0),
         NEW o1, NEW p1, NEW p2, Bracketed(o1, p1, p2, T)
  PROVE  vprintf(<<60>> \o Spelled(Directive(conv, long, pad, w, dec, arg)) \o <<62>>, <<arg>>)
           = Left(o1 \o <<62>>, p2, <<>>, long, pad, w, dec, 0)
<1>1. PICK x : x = Spelled(Directive(conv, long, pad, w, dec, arg))
  OBVIOUS
<1>2. PICK rest : rest = <<>> /\ rest \in Seq({arg}) /\ <<arg>> = <<arg>> \o rest
  BY OnlyArgument
<1>3. PICK a : a = <<arg>>
  OBVIOUS
<1>4. PICK e : e = <<>>
  OBVIOUS
<1>5. PICK o : o = e \o <<60>>
  OBVIOUS
<1>6. PICK f : f = {}
  OBVIOUS
<1>7. PICK s0 : s0 = State(e, 0, a, 0, 0, f, Off, Off, 0)
  OBVIOUS
<1>8. PICK s1 : s1 = State(o, 1, a, 0, 0, f, Off, Off, 0)
  OBVIOUS
<1>9. PICK s2 : s2 = Left(o1, p1, rest, long, pad, w, dec, 0)
  OBVIOUS
<1>10. PICK s3 : s3 = Left(o1 \o <<62>>, p2, rest, long, pad, w, dec, 0)
  OBVIOUS
<1>11. s0 = Unread(<<arg>>)
  BY <1>3, <1>4, <1>6, <1>7, UnreadState
<1>12. Reads(s0, <<60>>, s1)
  <2>1. Counted(1, 0, <<60>>)
    BY DEF Counted
  <2>2. PICK z, n, l : z = 0 /\ n = 1 /\ l = Off
    OBVIOUS
  <2>3. Counted(n, z, <<60>>)
    BY <2>1, <2>2
  <2>4. 60 \in Int /\ 60 # Percent
    BY DEF Percent
  <2>5. Read(State(e, z, a, 0, z, f, l, l, z), 60) = State(e \o <<60>>, n, a, 0, z, f, l, l, z)
    BY ONLY <2>3, <2>4, PlainRead
  <2>6. Read(s0, 60) = s1
    BY ONLY <2>5, <2>2, <1>5, <1>7, <1>8
  <2> QED BY <2>6, OneRead
<1>13. x \in Seq(Int) /\ Reads(s1, x, s2)
  <2>1. PICK z, n, l, V : z = 0 /\ n = 1 /\ l = Off /\ V = {arg}
    OBVIOUS
  <2>2. arg \in V /\ rest \in Seq(V) /\ Prints(o1, p1, o, n, T) /\ IsPrinted(T, conv, arg, w, pad, long, dec, z)
    BY <1>2, <1>4, <1>5, <2>1 DEF Bracketed, Prints
  <2>3. /\ Code[conv] \in Conversions /\ long \in BOOLEAN /\ pad \in Pads /\ w \in Nat
        /\ IsDecimals(dec)
    OBVIOUS
  <2>4. /\ Spelled(Directive(conv, long, pad, w, dec, arg)) \in Seq(Int)
        /\ Reads(State(o, n, <<arg>> \o rest, 0, z, f, l, l, z),
                 Spelled(Directive(conv, long, pad, w, dec, arg)), Left(o1, p1, rest, long, pad, w, dec, z))
    BY ONLY <2>2, <2>3, DirectiveReads
  <2>5. a = <<arg>> \o rest
    BY <1>2, <1>3
  <2> QED BY <1>1, <1>8, <1>9, <2>1, <2>4, <2>5
<1>14. Reads(s2, <<62>>, s3)
  <2>1. Counted(p2, p1, <<62>>) /\ 62 \in Int /\ 62 # Percent
    BY DEF Percent, Bracketed
  <2>2. PICK l, q, n : l = Flagged(long) /\ q = PostOf(dec) /\ n = DecOf(dec, 0)
    OBVIOUS
  <2>3. Read(State(o1, p1, rest, 0, w, pad, l, q, n), 62) = State(o1 \o <<62>>, p2, rest, 0, w, pad, l, q, n)
    BY ONLY <2>1, PlainRead
  <2>4. Read(s2, 62) = s3
    BY <1>9, <1>10, <2>2, <2>3 DEF Left
  <2> QED BY <2>4, OneRead
<1>15. PICK t, u : t = <<60>> /\ u = <<62>>
  OBVIOUS
<1>16. t \in Seq(Int) /\ u \in Seq(Int)
  BY <1>15
<1>17. t \o x \in Seq(Int) /\ Reads(s0, t \o x, s2)
  <2>1. Reads(s0, t, s1) /\ t \o x \in Seq(Int)
    BY <1>12, <1>13, <1>15, <1>16
  <2> QED BY ONLY <2>1, <1>13, <1>16, ReadBoth
<1>18. (t \o x) \o u \in Seq(Int) /\ Reads(s0, (t \o x) \o u, s3)
  <2>1. Reads(s2, u, s3) /\ (t \o x) \o u \in Seq(Int)
    BY <1>14, <1>15, <1>16, <1>17
  <2> QED BY ONLY <2>1, <1>17, <1>16, ReadBoth
<1>19. vprintf((t \o x) \o u, <<arg>>) = s3
  BY <1>11, <1>18, VprintfReads
<1> QED BY <1>1, <1>2, <1>10, <1>15, <1>19

(* The text and the count behind a directive. *)
LEMMA LeftParts ==
  ASSUME NEW o, NEW p, NEW a, NEW long, NEW pad, NEW w, NEW dec, NEW dw
  PROVE  Left(o, p, a, long, pad, w, dec, dw).out = o /\ Left(o, p, a, long, pad, w, dec, dw).pc = p
BY PartsOfState DEF Left

(* T between two other characters. *)
Shows(o, n, T) ==
  /\ o \in Seq(0 .. 255) /\ Len(o) = Len(T) + 2 /\ n = Len(T) + 2
  /\ SubSeq(o, 2, Len(o) - 1) = T

LEMMA PrintfPrints ==
  ASSUME NEW kind, NEW arg, NEW conv, Code[conv] \in Conversions,
         NEW long \in BOOLEAN, NEW pad \in Pads, NEW w \in Nat, NEW dec, IsDecimals(dec),
         Printf(kind, Directive(conv, long, pad, w, dec, arg)),
         NEW T \in Seq(0 .. 255), IsPrinted(T, conv, arg, w, pad, long, dec, 0)
  PROVE  /\ job' = [kind |-> kind, directive |-> Directive(conv, long, pad, w, dec, arg)]
         /\ Shows(out', result', T)
<1> DEFINE d == Directive(conv, long, pad, w, dec, arg)
           f == <<60>> \o Spelled(d) \o <<62>>
           e == <<>> \o <<60>>
           o1 == e \o T
           p1 == 1 + Len(T)
           p2 == p1 + Len(<<62>>)
<1>1. /\ job' = [kind |-> kind, directive |-> d]
      /\ out' = vprintf(f, <<arg>>).out /\ result' = vprintf(f, <<arg>>).pc
  <2>1. d.arg = arg
    BY DEF Directive
  <2>2. Brackets[1] = 60 /\ Brackets[2] = 62
    BY DEF Brackets
  <2>0. Printf(kind, d)
    OBVIOUS
  <2> HIDE DEF d
  <2>3. PICK pr : pr = vprintf(<<Brackets[1]>> \o Spelled(d) \o <<Brackets[2]>>, <<d.arg>>)
    OBVIOUS
  <2>4. job' = [kind |-> kind, directive |-> d] /\ out' = pr.out /\ result' = pr.pc
    BY <2>0, <2>3 DEF Printf
  <2>5. pr = vprintf(f, <<arg>>)
    BY <2>1, <2>2, <2>3
  <2> QED BY <2>4, <2>5
<1>2. Counted(p1, 1, T) /\ Counted(p2, p1, <<62>>)
  BY DEF Counted
<1>3. vprintf(f, <<arg>>) = Left(o1 \o <<62>>, p2, <<>>, long, pad, w, dec, 0)
  <2>1. PICK x1, n1, n2 : x1 = o1 /\ n1 = p1 /\ n2 = p2
    OBVIOUS
  <2>2. Bracketed(x1, n1, n2, T)
    BY <1>2, <2>1 DEF Bracketed
  <2>3. vprintf(<<60>> \o Spelled(Directive(conv, long, pad, w, dec, arg)) \o <<62>>, <<arg>>)
          = Left(x1 \o <<62>>, n2, <<>>, long, pad, w, dec, 0)
    BY <2>2, BracketsRead
  <2> QED BY <2>1, <2>3
<1>4. out' = o1 \o <<62>> /\ result' = p2
  <2>1. PICK pr, x1, n2, r : pr = vprintf(f, <<arg>>) /\ x1 = o1 \o <<62>> /\ n2 = p2 /\ r = <<>>
    OBVIOUS
  <2>2. pr = Left(x1, n2, r, long, pad, w, dec, 0)
    BY <1>3, <2>1
  <2>3. pr.out = x1 /\ pr.pc = n2
    BY ONLY <2>2, LeftParts
  <2> QED BY <1>1, <2>1, <2>3
<1>5. e = <<60>> /\ e \in Seq(0 .. 255)
  <2>1. <<60>> \in Seq(0 .. 255)
    OBVIOUS
  <2>2. e = <<60>>
    BY <2>1, ConcatEmptySeq
  <2> QED BY <2>1, <2>2
<1>6. Len(T) \in Nat /\ Len(e) = 1 /\ Len(<<62>>) = 1 /\ <<62>> \in Seq(0 .. 255)
  BY <1>5
<1>7. result' = Len(T) + 2
  BY <1>4, <1>6
<1> HIDE DEF e
<1>8. /\ o1 \in Seq(0 .. 255) /\ Len(o1) = 1 + Len(T)
      /\ \A i \in 1 .. Len(T) : o1[i + 1] = T[i]
  <2>1. /\ o1 \in Seq(0 .. 255) /\ Len(o1) = Len(e) + Len(T)
        /\ \A i \in 1 .. Len(e) + Len(T) : o1[i] = IF i <= Len(e) THEN e[i] ELSE T[i - Len(e)]
    BY <1>5, ConcatProperties
  <2>2. ASSUME NEW i \in 1 .. Len(T)
        PROVE  o1[i + 1] = T[i]
    <3>1. i + 1 \in 1 .. Len(e) + Len(T) /\ ~(i + 1 <= Len(e)) /\ (i + 1) - Len(e) = i
      BY <1>6
    <3> HIDE DEF o1
    <3> QED BY <2>1, <3>1
  <2> HIDE DEF o1
  <2> QED BY <1>6, <2>1, <2>2
<1> HIDE DEF o1
<1>9. PICK v : v = <<62>> /\ v \in Seq(0 .. 255) /\ Len(v) = 1
  BY <1>6
<1>10. PICK y : y = o1 \o v
  OBVIOUS
<1>11. /\ y \in Seq(0 .. 255) /\ Len(y) = Len(T) + 2
       /\ \A i \in 1 .. Len(T) : y[i + 1] = T[i]
  <2>1. /\ y \in Seq(0 .. 255) /\ Len(y) = Len(o1) + Len(v)
        /\ \A i \in 1 .. Len(o1) + Len(v) : y[i] = IF i <= Len(o1) THEN o1[i] ELSE v[i - Len(o1)]
    BY <1>8, <1>9, <1>10, ConcatProperties
  <2>2. ASSUME NEW i \in 1 .. Len(T)
        PROVE  y[i + 1] = T[i]
    <3>1. i + 1 \in 1 .. Len(o1) + Len(v) /\ i + 1 <= Len(o1)
      BY <1>6, <1>8, <1>9
    <3> QED BY <1>8, <2>1, <3>1
  <2> QED BY <1>6, <1>8, <1>9, <2>1, <2>2
<1>12. SubSeq(y, 2, Len(y) - 1) = T
  <2>1. Len(y) - 1 = Len(T) + 1 /\ 2 \in 1 .. Len(y) + 1 /\ Len(y) - 1 \in 1 .. Len(y)
    BY <1>6, <1>11
  <2>2. /\ SubSeq(y, 2, Len(T) + 1) \in Seq(0 .. 255)
        /\ Len(SubSeq(y, 2, Len(T) + 1)) = Len(T)
        /\ \A i \in 1 .. Len(T) : SubSeq(y, 2, Len(T) + 1)[i] = y[i + 1]
    <3>1. PICK n : n = Len(T) + 1
      OBVIOUS
    <3>2. n \in Int /\ 2 \in Int /\ n - 2 + 1 = Len(T) /\ (IF 2 <= n THEN n - 2 + 1 ELSE 0) = Len(T)
      BY <1>6, <3>1
    <3>3. \A i \in 2 .. n : y[i] \in 0 .. 255
      BY <1>6, <1>11, <3>1
    <3>4. /\ SubSeq(y, 2, n) \in Seq(0 .. 255)
          /\ Len(SubSeq(y, 2, n)) = IF 2 <= n THEN n - 2 + 1 ELSE 0
          /\ \A i \in 1 .. n - 2 + 1 : SubSeq(y, 2, n)[i] = y[2 + i - 1]
      BY <3>2, <3>3, SubSeqProperties
    <3>5. \A i \in 1 .. Len(T) : 2 + i - 1 = i + 1
      BY <1>6
    <3> QED BY <3>1, <3>2, <3>4, <3>5
  <2>3. SubSeq(y, 2, Len(T) + 1) = T
    BY <1>11, <2>2, SeqEqual
  <2> QED BY <2>1, <2>3
<1>13. out' = y
  BY <1>4, <1>9, <1>10
<1> QED BY <1>1, <1>7, <1>11, <1>12, <1>13 DEF d, Shows

-----------------------------------------------------------------------------
(* What is printed is bytes. *)

(* Characters are bytes. *)
LEMMA Narrowed ==
  ASSUME NEW S, NEW B, NEW t \in Seq(S), \A n \in 1 .. Len(t) : t[n] \in B
  PROVE  t \in Seq(B)
BY ElementOfSeq

(* Digits are bytes. *)
LEMMA DigitsText ==
  ASSUME NEW u \in Nat, NEW base, IsBase(base), NEW letter, IsLetter(letter)
  PROVE  Digits(u, base, letter) \in Seq(0 .. 255)
<1> DEFINE d == Digits(u, base, letter)
<1>1. d \in Seq(Int) /\ \A m \in 1 .. Len(d) : d[m] \in NumeralChars(base, letter)
  BY DigitsReadBack DEF Faithful
<1>2. NumeralChars(base, letter) \subseteq 0 .. 255
  BY DEF NumeralChars, IsLetter
<1> HIDE DEF d
<1>3. \A m \in 1 .. Len(d) : d[m] \in 0 .. 255
  BY <1>1, <1>2
<1>4. d \in Seq(0 .. 255)
  BY <1>1, <1>3, Narrowed
<1> QED BY <1>4 DEF d

(* prints() puts blanks or zeros to one side of the text. *)
FillLen(s, width) == IF Len(s) >= width THEN 0 ELSE width - Len(s)
FillChar(pad)   == IF "zero" \in pad THEN Zero ELSE Space
IsFill(f, n, c) == f \in Seq(0 .. 255) /\ Len(f) = n /\ \A k \in 1 .. Len(f) : f[k] = c
Padded(x, s, f, pad) == x = IF "right" \in pad THEN s \o f ELSE f \o s

LEMMA PrintsShape ==
  ASSUME NEW s \in Seq(0 .. 255), NEW width \in Int, NEW pad
  PROVE  \E fill : /\ IsFill(fill, FillLen(s, width), FillChar(pad))
                   /\ Padded(prints(s, width, pad), s, fill, pad)
<1> DEFINE n == FillLen(s, width)
           c == FillChar(pad)
           fill == [k \in 1 .. n |-> c]
<1>1. n \in Nat
  BY DEF FillLen
<1>2. c \in 0 .. 255
  BY DEF FillChar, Zero, Space
<1>3. prints(s, width, pad) = IF "right" \in pad THEN s \o fill ELSE fill \o s
  BY DEF prints, FillChar, FillLen
<1> HIDE DEF n, c
<1>4. fill \in Seq(0 .. 255) /\ Len(fill) = n /\ \A k \in 1 .. n : fill[k] = c
  BY <1>1, <1>2
<1>5. IsFill(fill, n, c)
  BY <1>4 DEF IsFill
<1> QED BY <1>3, <1>5 DEF n, c, Padded

(* prints() writes bytes. *)
LEMMA PrintsText ==
  ASSUME NEW s \in Seq(0 .. 255), NEW width \in Int, NEW pad
  PROVE  prints(s, width, pad) \in Seq(0 .. 255)
<1>1. PICK fill : /\ IsFill(fill, FillLen(s, width), FillChar(pad))
                  /\ Padded(prints(s, width, pad), s, fill, pad)
  BY PrintsShape
<1>2. fill \in Seq(0 .. 255)
  BY <1>1 DEF IsFill
<1>3. s \o fill \in Seq(0 .. 255) /\ fill \o s \in Seq(0 .. 255)
  BY <1>2
<1> QED BY <1>1, <1>3 DEF Padded

(* print_buf holds bytes. *)
LEMMA StoredChars ==
  ASSUME NEW i \in Int, NEW base, IsBase(base), NEW sign, NEW width, NEW pad, NEW letter, IsLetter(letter)
  PROVE  Stored(i, base, sign, width, pad, letter) \in Seq(0 .. 255)
<1> DEFINE s == Sign(i, base, sign, width, pad)
           d == Digits(StoredNumber(i, base, sign, pad), base, letter)
<1>1. d \in Seq(0 .. 255)
  BY StoredNumberRange, DigitsText
<1>2. s \in Seq(0 .. 255)
  <2>1. s \in {<<>>, <<Minus>>, <<Plus>>}
    BY StoredText
  <2>2. <<>> \in Seq(0 .. 255) /\ <<Minus>> \in Seq(0 .. 255) /\ <<Plus>> \in Seq(0 .. 255)
    BY DEF Minus, Plus
  <2> HIDE DEF s
  <2> QED BY <2>1, <2>2
<1>3. <<Zero>> \in Seq(0 .. 255)
  BY DEF Zero
<1>4. Stored(i, base, sign, width, pad, letter) = IF i = 0 THEN <<Zero>> ELSE s \o d
  BY StoredText
<1> HIDE DEF s, d
<1>5. s \o d \in Seq(0 .. 255)
  BY <1>1, <1>2
<1> QED BY <1>3, <1>4, <1>5

(* printi() writes bytes. *)
LEMMA PrintiText ==
  ASSUME NEW i \in Int, NEW base, IsBase(base), NEW sign, NEW width \in Int, NEW pad, NEW letter, IsLetter(letter)
  PROVE  printi(i, base, sign, width, pad, letter) \in Seq(0 .. 255)
<1> DEFINE s == Stored(i, base, sign, width, pad, letter)
           v == Unsigned(width - 1, IntBits)
           w == Unsigned(width, IntBits)
<1>1. s \in Seq(0 .. 255)
  BY StoredChars
<1>2. v \in Int /\ w \in Int
  <2>1. IntBits \in Nat /\ width - 1 \in Int
    BY BitsAssumption
  <2>2. v \in 0 .. Power(2, IntBits) - 1 /\ w \in 0 .. Power(2, IntBits) - 1
    BY <2>1, UnsignedRange
  <2> HIDE DEF v, w
  <2> QED BY <2>2
<1>3. printi(i, base, sign, width, pad, letter)
        = IF i # 0 /\ SignFirst(i, base, sign, width, pad) THEN <<Minus>> \o prints(s, v, pad) ELSE prints(s, w, pad)
  BY DEF printi
<1> HIDE DEF s, v, w
<1>4. prints(s, v, pad) \in Seq(0 .. 255) /\ prints(s, w, pad) \in Seq(0 .. 255)
  BY <1>1, <1>2, PrintsText
<1>5. <<Minus>> \in Seq(0 .. 255)
  BY DEF Minus
<1>6. <<Minus>> \o prints(s, v, pad) \in Seq(0 .. 255)
  BY <1>4, <1>5
<1> QED BY <1>3, <1>4, <1>6

(* What each conversion prints. *)
LongPad(pad, long) == pad \cup (IF long THEN {"long"} ELSE {})

NullText == <<40, 110, 117, 108, 108, 41>>

LEMMA FlaggedIs ==
  ASSUME NEW long \in BOOLEAN
  PROVE  Flagged(long) = long
BY DEF Flagged, On, Off

(* What each conversion prints. *)
LEMMA TextCases ==
  ASSUME NEW s, NEW long, s.isLong = long
  PROVE  /\ Text(s, Code.d) = printi(Head(s.args), 10, TRUE, s.width, LongPad(s.pad, long), 97)
         /\ Text(s, Code.x) = printi(Head(s.args), 16, FALSE, s.width, LongPad(s.pad, long), 97)
         /\ Text(s, Code.X) = printi(Head(s.args), 16, FALSE, s.width, LongPad(s.pad, long), 65)
         /\ Text(s, Code.u) = printi(Head(s.args), 10, FALSE, s.width, LongPad(s.pad, long), 97)
         /\ Text(s, Code.c) = prints(IF Head(s.args) = 0 THEN <<>> ELSE <<Head(s.args)>>, s.width, s.pad)
         /\ Text(s, Code.s) = prints(IF Head(s.args) = NullPointer THEN NullText ELSE Head(s.args), s.width, s.pad)
         /\ Text(s, Code.f) = dbl2stri(Head(s.args), s.width, s.dec_width, s.pad)
<1>1. /\ Code.d = 100 /\ Code.x = 120 /\ Code.X = 88 /\ Code.u = 117 /\ Code.c = 99 /\ Code.s = 115
      /\ Code.f = 102
  BY DEF Code
<1> QED BY <1>1 DEF Text, LongPad, NullText

(* What %c and %s print before they are padded. *)
CharsOf(conv, arg) == IF conv = "c" THEN IF arg = 0 THEN <<>> ELSE <<arg>>
                      ELSE IF arg = NullPointer THEN NullText ELSE arg

LEMMA PrintedChars ==
  ASSUME NEW conv \in {"c", "s"}, NEW arg, NEW w, NEW pad, NEW long \in BOOLEAN, NEW dw
  PROVE  Printed(Code[conv], arg, w, pad, Flagged(long), dw) = prints(CharsOf(conv, arg), w, pad)
<1>1. PICK s : s = State(<<>>, 0, <<arg>>, 0, w, pad, Flagged(long), Off, dw)
  OBVIOUS
<1>2. s.args = <<arg>> /\ s.pad = pad /\ s.width = w
  BY <1>1, PartsOfState
<1>3. Head(s.args) = arg
  BY <1>2
<1>4. Printed(Code[conv], arg, w, pad, Flagged(long), dw) = Text(s, Code[conv])
  BY <1>1 DEF Printed
<1>5. PICK t : t = s.isLong
  OBVIOUS
<1>6. /\ Text(s, Code.c) = prints(IF Head(s.args) = 0 THEN <<>> ELSE <<Head(s.args)>>, s.width, s.pad)
      /\ Text(s, Code.s) = prints(IF Head(s.args) = NullPointer THEN NullText ELSE Head(s.args), s.width, s.pad)
  BY <1>5, TextCases
<1>7. Text(s, Code[conv]) = prints(CharsOf(conv, Head(s.args)), s.width, s.pad)
  <2>1. CASE conv = "c"
    <3>1. CharsOf(conv, Head(s.args)) = IF Head(s.args) = 0 THEN <<>> ELSE <<Head(s.args)>>
      BY <2>1 DEF CharsOf
    <3> QED BY <1>6, <2>1, <3>1
  <2>2. CASE conv = "s"
    <3>1. CharsOf(conv, Head(s.args)) = IF Head(s.args) = NullPointer THEN NullText ELSE Head(s.args)
      BY <2>2 DEF CharsOf
    <3> QED BY <1>6, <2>2, <3>1
  <2> QED BY <2>1, <2>2
<1> QED BY ONLY <1>2, <1>3, <1>4, <1>7, Zenon

(* %f prints what dbl2stri() does. *)
LEMMA PrintedDouble ==
  ASSUME NEW arg, NEW w, NEW pad, NEW l, NEW dw
  PROVE  Printed(Code.f, arg, w, pad, l, dw) = dbl2stri(arg, w, dw, pad)
<1>1. PICK s : s = State(<<>>, 0, <<arg>>, 0, w, pad, l, Off, dw)
  OBVIOUS
<1>2. s.args = <<arg>> /\ s.pad = pad /\ s.width = w /\ s.dec_width = dw
  BY <1>1, PartsOfState
<1>3. Head(s.args) = arg
  BY <1>2
<1>4. PICK t : t = s.isLong
  OBVIOUS
<1>5. Text(s, Code.f) = dbl2stri(Head(s.args), s.width, s.dec_width, s.pad)
  BY <1>4, TextCases
<1>6. Printed(Code.f, arg, w, pad, l, dw) = Text(s, Code.f)
  BY <1>1 DEF Printed
<1> QED BY ONLY <1>2, <1>3, <1>5, <1>6, Zenon

(* The integers of a double. *)
LEMMA SplitInts ==
  ASSUME NEW dbl \in Int, NEW d \in Nat
  PROVE  Split(dbl, d).whole \in Int /\ Split(dbl, d).decimal \in Int
<1> DEFINE r == Rounded(dbl, d)
           m == Mult(d)
           g == Magnitude(dbl)
<1>1. Parts \in Nat /\ Parts > 0 /\ 2 * Parts \in Nat /\ 2 * Parts > 0
  BY PartsAssumption
<1>2. \A a \in Int, b \in Nat : b > 0 => a % b \in Int /\ a \div b \in Int
  OBVIOUS
<1>3. m \in Int
  <2>1. PICK k : k = Power(10, d)
    OBVIOUS
  <2>2. 10 \in Nat /\ d \in Nat
    OBVIOUS
  <2>3. k \in Int /\ IntBits \in Nat
    BY <2>1, <2>2, PowerUp, BitsAssumption
  <2>4. m = Unsigned(k, IntBits)
    BY <2>1 DEF Mult
  <2> HIDE DEF m
  <2>5. m \in 0 .. Power(2, IntBits) - 1
    BY <2>3, <2>4, UnsignedRange
  <2> QED BY <2>5
<1>4. g \in Int
  BY DEF Magnitude
<1>5. r = ((g % Parts) * m * 2 + Parts) \div (2 * Parts)
  BY DEF Rounded
<1>6. Split(dbl, d).whole = g \div Parts + (IF r >= m THEN 1 ELSE 0)
      /\ Split(dbl, d).decimal = r - (IF r >= m THEN 1 ELSE 0) * m
  BY DEF Split
<1> HIDE DEF r, m, g
<1>7. r \in Int
  <2>1. g % Parts \in Int
    BY <1>1, <1>2, <1>4
  <2>2. (g % Parts) * m * 2 + Parts \in Int
    BY <1>1, <1>3, <2>1
  <2> QED BY <1>1, <1>2, <1>5, <2>2
<1>8. g \div Parts \in Int
  BY <1>1, <1>2, <1>4
<1>9. CASE r >= m
  BY <1>3, <1>6, <1>7, <1>8, <1>9
<1>10. CASE ~(r >= m)
  BY <1>3, <1>6, <1>7, <1>8, <1>10
<1> QED BY <1>9, <1>10

(* dbl2stri() writes bytes. *)
LEMMA DoubleText ==
  ASSUME NEW dbl \in Int, NEW width \in Int, NEW d \in Nat, NEW pad
  PROVE  dbl2stri(dbl, width, d, pad) \in Seq(0 .. 255)
<1> DEFINE n        == Split(dbl, d)
           signed   == Unsigned(IF dbl < 0 THEN -n.whole ELSE n.whole, IntBits)
           intWidth == IF d = 0 THEN width
                       ELSE IF "right" \in pad \/ width - d < 1 THEN 0
                       ELSE width - d - 1
           whole    == printi(signed, 10, TRUE, intWidth, pad, 97)
           decWidth == IF "right" \in pad THEN width - Len(whole) - 1 ELSE d
           decPad   == IF "right" \in pad THEN {"right"} ELSE {"zero"}
           decimals == printi(n.decimal, 10, FALSE, decWidth, decPad, 97)
<1>1. n.whole \in Int /\ n.decimal \in Int
  BY SplitInts
<1>2. dbl2stri(dbl, width, d, pad) = IF d = 0 THEN whole ELSE whole \o <<Point>> \o decimals
  BY DEF dbl2stri
<1> HIDE DEF n
<1>3. signed \in Int
  <2>1. (IF dbl < 0 THEN -n.whole ELSE n.whole) \in Int /\ IntBits \in Nat
    BY <1>1, BitsAssumption
  <2>2. signed \in 0 .. Power(2, IntBits) - 1
    BY <2>1, UnsignedRange
  <2> HIDE DEF signed
  <2> QED BY <2>2
<1>4. IsBase(10) /\ IsLetter(97) /\ intWidth \in Int
  BY DEF IsBase, IsLetter
<1>5. whole \in Seq(0 .. 255)
  <2> HIDE DEF signed, intWidth
  <2> QED BY <1>3, <1>4, PrintiText
<1> HIDE DEF whole
<1>6. decWidth \in Int
  <2>1. Len(whole) \in Nat
    BY <1>5
  <2> QED BY <2>1
<1>7. decimals \in Seq(0 .. 255)
  <2> HIDE DEF decWidth, decPad
  <2> QED BY <1>1, <1>4, <1>6, PrintiText
<1> HIDE DEF decimals
<1>8. <<Point>> \in Seq(0 .. 255)
  BY DEF Point
<1>9. whole \o <<Point>> \o decimals \in Seq(0 .. 255)
  BY <1>5, <1>7, <1>8
<1> QED BY <1>2, <1>5, <1>9

-----------------------------------------------------------------------------
(* Numbers read back: zeros in front of a numeral, and remainders. *)

(* Numerals with zeros in front. *)
LEMMA ZerosAreNothing ==
  ASSUME NEW n \in Nat, NEW base \in Int, NEW z \in Seq(Int), Len(z) = n, \A k \in 1 .. n : z[k] = Zero
  PROVE  Number(z, base) = 0
<1> DEFINE Z(m) == [k \in 1 .. m |-> Zero]
           S == {m \in 0 .. n : Number(Z(m), base) = 0}
<1>0. Zero \in Int /\ DigitOf(Zero) = 0
  BY DEF Zero, DigitOf
<1>1. 0 \in S
  <2>1. <<>> \in Seq(Int) /\ Z(0) = <<>>
    OBVIOUS
  <2>2. Number(<<>>, base) = 0
    BY <2>1, <1>0, NumberUp
  <2>3. Number(Z(0), base) = 0
    BY <2>1, <2>2
  <2> QED BY <2>3
<1>2. ASSUME NEW m \in 0 .. n - 1, m \in S
      PROVE  m + 1 \in S
  <2>1. Z(m) \in Seq(Int) /\ Len(Z(m)) = m
    BY <1>0
  <2>2. Z(m + 1) = Append(Z(m), Zero)
    BY <1>0
  <2>3. Number(Z(m), base) = 0
    BY <1>2
  <2> HIDE DEF Z
  <2>4. Number(Append(Z(m), Zero), base) = Number(Z(m), base) * base + DigitOf(Zero)
    BY <1>0, <2>1, NumberUp
  <2>6. 0 * base + 0 = 0
    OBVIOUS
  <2>7. Number(Z(m + 1), base) = 0
    BY ONLY <1>0, <2>2, <2>3, <2>4, <2>6
  <2> QED BY <2>7
<1>3. n \in S
  <2>1. \A m \in 0 .. n - 1 : m \in S => m + 1 \in S
    BY <1>2
  <2> HIDE DEF S
  <2> QED BY <1>1, <2>1, CountUp
<1>4. z = Z(n)
  OBVIOUS
<1> QED BY <1>3, <1>4

(* Leading zeros do not change a number. *)
LEMMA NumberBehindZeros ==
  ASSUME NEW base \in Int, NEW z \in Seq(Int), Number(z, base) = 0, NEW d \in Seq(Int)
  PROVE  Number(z \o d, base) = Number(d, base)
<1> DEFINE B(k) == SubSeq(d, 1, k)
           N == Len(d)
           S == {k \in 0 .. N : Number(z \o B(k), base) = Number(B(k), base)}
<1>0. N \in Nat
  OBVIOUS
<1>1. 0 \in S
  <2>1. <<>> \in Seq(Int) /\ B(0) = <<>> /\ z \o B(0) = z /\ 0 \in Int
    OBVIOUS
  <2>2. Number(<<>>, base) = 0
    BY <2>1, NumberUp
  <2>3. Number(z \o B(0), base) = Number(B(0), base)
    BY <2>1, <2>2
  <2> QED BY <1>0, <2>3
<1>2. ASSUME NEW k \in 0 .. N - 1, k \in S
      PROVE  k + 1 \in S
  <2>1. PICK c : c = d[k + 1] /\ c \in Int
    OBVIOUS
  <2>0. B(k) \in Seq(Int)
    OBVIOUS
  <2>a. PICK b : b = B(k)
    OBVIOUS
  <2>b. b \in Seq(Int)
    BY <2>0, <2>a
  <2>2. b = B(k) /\ b \in Seq(Int) /\ z \o b \in Seq(Int)
    BY <2>a, <2>b
  <2>3. B(k + 1) = Append(b, c)
    BY <2>1, <2>2
  <2>4. z \o Append(b, c) = Append(z \o b, c)
    BY <2>1, <2>2
  <2>5. Number(z \o b, base) = Number(b, base)
    BY <1>2, <2>2
  <2>6. /\ Number(Append(z \o b, c), base) = Number(z \o b, base) * base + DigitOf(c)
        /\ Number(Append(b, c), base) = Number(b, base) * base + DigitOf(c)
    BY ONLY <2>1, <2>2, base \in Int, NumberUp
  <2>7. Number(z \o B(k + 1), base) = Number(B(k + 1), base)
    BY <2>3, <2>4, <2>5, <2>6
  <2> QED BY <1>0, <2>7
<1>3. N \in S
  <2>1. \A k \in 0 .. N - 1 : k \in S => k + 1 \in S
    BY <1>2
  <2> HIDE DEF S, N
  <2>2. \A m \in 0 .. N : m \in S
    BY ONLY <1>0, <1>1, <2>1, CountUp
  <2> QED BY <1>0, <2>2
<1>4. B(N) = d
  OBVIOUS
<1> QED BY <1>3, <1>4

(* Remainders. *)
LEMMA Remainders ==
  ASSUME NEW p \in Nat, p > 0
  PROVE  /\ \A i \in 0 .. p - 1 : i % p = i
         /\ \A i \in -p .. -1 : i % p = i + p
<1>1. ASSUME NEW i \in Int
      PROVE  i = p * (i \div p) + (i % p) /\ i % p \in 0 .. p - 1 /\ i \div p \in Int
  OBVIOUS
<1>2. ASSUME NEW q \in Int
      PROVE  /\ q >= 1 => p * q >= p
             /\ q <= -1 => p * q <= -p
             /\ q <= -2 => p * q <= -(2 * p)
             /\ q = 0 => p * q = 0
             /\ q = -1 => p * q = -p
             /\ p * q \in Int
  OBVIOUS
<1>3. ASSUME NEW i \in 0 .. p - 1
      PROVE  i % p = i
  <2>1. PICK q \in Int : q = i \div p
    OBVIOUS
  <2>2. PICK y \in Int : y = p * q
    OBVIOUS
  <2>3. PICK r \in Int : r = i % p
    BY <1>1
  <2>4. i = y + r /\ r \in 0 .. p - 1
    BY <1>1, <2>1, <2>2, <2>3
  <2>5. /\ q >= 1 => y >= p
        /\ q <= -1 => y <= -p
        /\ q = 0 => y = 0
    BY <1>2, <2>2
  <2>6. q >= 1 \/ q <= -1 \/ q = 0
    OBVIOUS
  <2> QED BY <2>3, <2>4, <2>5, <2>6
<1>4. ASSUME NEW i \in -p .. -1
      PROVE  i % p = i + p
  <2>1. PICK q \in Int : q = i \div p
    OBVIOUS
  <2>2. PICK y \in Int : y = p * q
    OBVIOUS
  <2>3. PICK r \in Int : r = i % p
    BY <1>1
  <2>4. i = y + r /\ r \in 0 .. p - 1
    BY <1>1, <2>1, <2>2, <2>3
  <2>5. /\ q >= 1 => y >= p
        /\ q <= -2 => y <= -(2 * p)
        /\ q = 0 => y = 0
        /\ q = -1 => y = -p
    BY <1>2, <2>2
  <2>6. q >= 1 \/ q <= -2 \/ q = 0 \/ q = -1
    OBVIOUS
  <2> QED BY <2>3, <2>4, <2>5, <2>6
<1> QED BY <1>3, <1>4

-----------------------------------------------------------------------------
(* The value that a number stands for, and what printi() stores of it. *)

(* The value that a text stands for. *)
BaseOf(conv)   == IF conv \in {"d", "u"} THEN 10 ELSE 16
LetterOf(conv) == IF conv = "X" THEN 65 ELSE 97
Value(conv, l, i) == IF conv = "d" THEN i ELSE i % Power(2, Bits(l))
Size(v) == IF v < 0 THEN -v ELSE v

LEMMA HalvesOf ==
  ASSUME NEW bits \in Nat, bits > 0
  PROVE  /\ Power(2, bits - 1) \in Nat /\ Power(2, bits - 1) > 0
         /\ Power(2, bits) \in Nat /\ Power(2, bits) > 0 /\ Power(2, bits) = 2 * Power(2, bits - 1)
<1>1. bits - 1 \in Nat /\ (bits - 1) + 1 = bits
  OBVIOUS
<1>2. PICK m \in Nat : m = bits - 1
  BY <1>1
<1>3. Power(2, m) \in Nat /\ Power(2, m) > 0 /\ Power(2, m + 1) = 2 * Power(2, m)
  BY PowersOfTwo
<1>4. m + 1 = bits
  BY <1>1, <1>2
<1>5. Power(2, bits) = 2 * Power(2, m)
  BY <1>3, <1>4
<1> QED BY <1>2, <1>3, <1>5

(* An int that fits is not changed by the conversion to an int. *)
LEMMA SignedSame ==
  ASSUME NEW bits \in Nat, bits > 0, NEW i \in -Power(2, bits - 1) .. Power(2, bits - 1) - 1
  PROVE  Signed(i, bits) = i
<1>1. PICK h, p : h = Power(2, bits - 1) /\ p = Power(2, bits)
  OBVIOUS
<1>2. h \in Nat /\ h > 0 /\ p = 2 * h
  BY <1>1, HalvesOf
<1>3. PICK u : u = i % p
  OBVIOUS
<1>4. Signed(i, bits) = IF u < h THEN u ELSE u - p
  BY <1>1, <1>3 DEF Signed, Unsigned
<1>5. i \in -h .. h - 1
  BY <1>1
<1>6. CASE i >= 0
  <2>1. u = i
    BY <1>2, <1>3, <1>5, <1>6, Remainders
  <2> QED BY <2>1, <1>2, <1>4, <1>5, <1>6
<1>7. CASE i < 0
  <2>1. u = i + p
    BY <1>2, <1>3, <1>5, <1>7, Remainders
  <2> QED BY <2>1, <1>2, <1>4, <1>5, <1>7
<1> QED BY <1>5, <1>6, <1>7

(* Nor is an unsigned int. *)
LEMMA UnsignedSame ==
  ASSUME NEW bits \in Nat, NEW i \in 0 .. Power(2, bits) - 1
  PROVE  Unsigned(i, bits) = i
<1>1. PICK p : p = Power(2, bits)
  OBVIOUS
<1>2. p \in Nat /\ p > 0
  BY <1>1, PowersOfTwo
<1>3. i \in 0 .. p - 1
  BY <1>1
<1>4. i % p = i
  BY <1>2, <1>3, Remainders
<1> QED BY <1>1, <1>4 DEF Unsigned

(* The flags of printi(). *)
LEMMA LongFlag ==
  ASSUME NEW pad \in Pads, NEW l \in BOOLEAN
  PROVE  /\ "long" \in LongPad(pad, l) <=> l
         /\ "zero" \in LongPad(pad, l) <=> "zero" \in pad
         /\ "plus" \in LongPad(pad, l) <=> "plus" \in pad
         /\ "right" \in LongPad(pad, l) <=> "right" \in pad
BY DEF Pads, LongPad

(* The number whose digits are stored is the magnitude of the value. *)
LEMMA ValueStored ==
  ASSUME NEW conv \in {"d", "x", "X", "u"}, NEW l \in BOOLEAN, NEW pad \in Pads, NEW i \in Args(conv, l)
  PROVE  /\ Value(conv, l, i) \in Int
         /\ IsNegative(i, BaseOf(conv), conv = "d", LongPad(pad, l)) <=> Value(conv, l, i) < 0
         /\ StoredNumber(i, BaseOf(conv), conv = "d", LongPad(pad, l)) = Size(Value(conv, l, i))
         /\ i = 0 <=> Value(conv, l, i) = 0
<1> DEFINE b == Bits(l)
           v == Value(conv, l, i)
           P == LongPad(pad, l)
           h == Power(2, b - 1)
           p == Power(2, b)
<1>1. i \in Int /\ b \in Nat /\ b > 0 /\ (conv = "u" => i \in 0 .. p - 1) /\ (conv # "u" => i \in -h .. h - 1)
  BY ArgsFit
<1>2. b <= LongBits /\ LongBits \in Nat /\ IntBits \in Nat /\ IntBits > 0 /\ b = IF l THEN LongBits ELSE IntBits
  BY BitsAssumption DEF Bits
<1>3. h \in Nat /\ h > 0 /\ p \in Nat /\ p > 0 /\ p = 2 * h
  <2> HIDE DEF b
  <2> QED BY <1>1, HalvesOf
<1>4. p <= Power(2, LongBits) /\ Power(2, LongBits) \in Nat
  <2> HIDE DEF b
  <2> QED BY <1>1, <1>2, PowersGrow, PowersOfTwo
<1>5. ("long" \in P) = l
  BY LongFlag
<1> HIDE DEF P
<1>6. StoredNumber(i, BaseOf(conv), conv = "d", P)
        = IF IsNegative(i, BaseOf(conv), conv = "d", P) THEN Unsigned(-Shown(i, P), LongBits)
          ELSE Unsigned(i, b)
  BY <1>2, <1>5 DEF StoredNumber
<1> HIDE DEF b, h, p
<1>7. CASE conv = "d"
  <2>1. i \in -h .. h - 1 /\ v = i
    BY <1>1, <1>7 DEF Value
  <2>2. Shown(i, P) = i
    <3>1. CASE l
      BY <1>5, <3>1 DEF Shown
    <3>2. CASE ~l
      <4>1. Shown(i, P) = Signed(i, b)
        BY <1>2, <1>5, <3>2 DEF Shown
      <4> QED BY <4>1, <1>1, <2>1, SignedSame DEF h
    <3> QED BY <3>1, <3>2
  <2>3. IsNegative(i, BaseOf(conv), conv = "d", P) <=> v < 0
    BY <1>7, <2>1, <2>2 DEF IsNegative, BaseOf
  <2>4. StoredNumber(i, BaseOf(conv), conv = "d", P) = Size(v)
    <3>1. CASE v < 0
      <4>1. -i \in 0 .. Power(2, LongBits) - 1
        BY <1>3, <1>4, <2>1, <3>1
      <4>2. Unsigned(-i, LongBits) = -i
        BY <1>2, <4>1, UnsignedSame
      <4> QED BY <1>6, <2>1, <2>2, <2>3, <3>1, <4>2 DEF Size
    <3>2. CASE ~(v < 0)
      <4>1. i \in 0 .. p - 1
        BY <1>3, <2>1, <3>2
      <4>2. Unsigned(i, b) = i
        BY <1>1, <4>1, UnsignedSame DEF p
      <4> QED BY <1>6, <2>1, <2>3, <3>2, <4>2 DEF Size
    <3> QED BY <3>1, <3>2
  <2> QED BY <1>1, <2>1, <2>3, <2>4 DEF P
<1>8. CASE conv # "d"
  <2>1. v = Unsigned(i, b) /\ v = i % p
    BY <1>8 DEF Value, Unsigned, b, p
  <2>2. v \in 0 .. p - 1
    BY <1>1, <2>1, UnsignedRange DEF p
  <2>3. ~IsNegative(i, BaseOf(conv), conv = "d", P)
    BY <1>8 DEF IsNegative
  <2>4. StoredNumber(i, BaseOf(conv), conv = "d", P) = v
    BY <1>6, <2>1, <2>3
  <2>5. v \in Int /\ ~(v < 0) /\ Size(v) = v
    BY <1>3, <2>2 DEF Size
  <2>6. i = 0 <=> v = 0
    <3>1. CASE i >= 0
      <4>1. i \in 0 .. p - 1
        BY <1>1, <1>3, <3>1
      <4> QED BY <4>1, <1>3, <2>1, Remainders
    <3>2. CASE i < 0
      <4>1. i \in -p .. -1 /\ i # -p
        BY <1>1, <1>3, <3>2
      <4>2. v = i + p
        BY <4>1, <1>3, <2>1, Remainders
      <4> QED BY <4>1, <4>2, <1>3
    <3> QED BY <1>1, <3>1, <3>2
  <2> HIDE DEF v
  <2>7. StoredNumber(i, BaseOf(conv), conv = "d", P) = Size(v)
    BY <2>4, <2>5
  <2> QED BY <2>3, <2>5, <2>6, <2>7 DEF P, v
<1> QED BY <1>7, <1>8

(* Sign and numeral of a value. *)
SignOf(v, pad)      == IF v < 0 THEN <<Minus>> ELSE IF v > 0 /\ "plus" \in pad THEN <<Plus>> ELSE <<>>
NumeralOf(conv, v)  == IF v = 0 THEN <<Zero>> ELSE Digits(Size(v), BaseOf(conv), LetterOf(conv))

IsNumeral(d, conv, v) ==
  /\ d \in Seq(0 .. 255) /\ Len(d) > 0
  /\ \A m \in 1 .. Len(d) : d[m] \in NumeralChars(BaseOf(conv), LetterOf(conv))
  /\ Number(d, BaseOf(conv)) = Size(v)

Shortest(d) == Len(d) = 1 \/ d[1] # Zero

LEMMA BasesAndLetters ==
  ASSUME NEW conv
  PROVE  IsBase(BaseOf(conv)) /\ IsLetter(LetterOf(conv)) /\ BaseOf(conv) \in Int
BY DEF IsBase, IsLetter, BaseOf, LetterOf

(* The numeral of a value reads back as it, and has no leading zero. *)
LEMMA NumeralRight ==
  ASSUME NEW conv, NEW v \in Int
  PROVE  IsNumeral(NumeralOf(conv, v), conv, v) /\ Shortest(NumeralOf(conv, v))
<1> DEFINE d == NumeralOf(conv, v)
           base == BaseOf(conv)
           letter == LetterOf(conv)
<1>1. IsBase(base) /\ IsLetter(letter) /\ base \in Int
  BY BasesAndLetters
<1> HIDE DEF base, letter
<1>2. CASE v = 0
  <2>1. d = <<Zero>> /\ Size(v) = 0
    BY <1>2 DEF NumeralOf, Size
  <2> HIDE DEF d
  <2>2. d \in Seq(0 .. 255) /\ d \in Seq(Int) /\ Len(d) = 1 /\ d[1] = Zero
    BY <2>1 DEF Zero
  <2>3. Zero \in NumeralChars(base, letter)
    BY DEF Zero, NumeralChars
  <2>4. Number(d, base) = 0
    BY ONLY <1>1, <2>2, ZerosAreNothing
  <2> QED BY <2>1, <2>2, <2>3, <2>4 DEF IsNumeral, Shortest, d, base, letter
<1>3. CASE v # 0
  <2>1. PICK u \in Nat : u = Size(v) /\ u > 0
    BY <1>3 DEF Size
  <2>2. d = Digits(u, base, letter)
    BY <1>3, <2>1 DEF NumeralOf, base, letter
  <2> HIDE DEF d
  <2>3. d \in Seq(0 .. 255)
    BY <1>1, <2>2, DigitsText
  <2>4. /\ Number(d, base) = u /\ Len(d) > 0 /\ d[1] # Zero
        /\ \A m \in 1 .. Len(d) : d[m] \in NumeralChars(base, letter)
    <3>1. Faithful(u, base, letter)
      BY ONLY <1>1, <2>1, DigitsReadBack
    <3> QED BY <2>1, <2>2, <3>1 DEF Faithful
  <2> QED BY <2>1, <2>3, <2>4 DEF IsNumeral, Shortest, d, base, letter
<1> QED BY <1>2, <1>3

(* What printi() stores. *)
StoredAs(S, conv, v, w, pad) ==
  /\ "zero" \notin pad => S = SignOf(v, pad) \o NumeralOf(conv, v)
  /\ "zero" \in pad /\ ~(v < 0 /\ w = 0) => S = NumeralOf(conv, v)
  /\ "zero" \in pad /\ v < 0 /\ w = 0 => S = <<Minus>> \o NumeralOf(conv, v)

LEMMA StoredParts ==
  ASSUME NEW conv \in {"d", "x", "X", "u"}, NEW l \in BOOLEAN, NEW pad \in Pads, NEW i \in Args(conv, l), NEW w,
         OrdinaryFlags(pad)
  PROVE  /\ StoredAs(Stored(i, BaseOf(conv), conv = "d", w, LongPad(pad, l), LetterOf(conv)),
                     conv, Value(conv, l, i), w, pad)
         /\ SignFirst(i, BaseOf(conv), conv = "d", w, LongPad(pad, l))
              <=> "zero" \in pad /\ Value(conv, l, i) < 0 /\ w # 0
<1> DEFINE v == Value(conv, l, i)
           P == LongPad(pad, l)
           base == BaseOf(conv)
           letter == LetterOf(conv)
           S == Stored(i, base, conv = "d", w, P, letter)
           d == NumeralOf(conv, v)
           D == Digits(Size(v), base, letter)
           g == Sign(i, base, conv = "d", w, P)
<1>1. /\ v \in Int /\ (IsNegative(i, base, conv = "d", P) <=> v < 0)
      /\ StoredNumber(i, base, conv = "d", P) = Size(v) /\ (i = 0 <=> v = 0) /\ i \in Int
  BY ValueStored, ArgsFit
<1>2. IsBase(base) /\ IsLetter(letter)
  BY BasesAndLetters
<1>3. ("zero" \in P <=> "zero" \in pad) /\ ("plus" \in P <=> "plus" \in pad)
  BY LongFlag
<1> HIDE DEF v, P, base, letter
<1>4. S = IF i = 0 THEN <<Zero>> ELSE g \o D
  <2>1. S = IF i = 0 THEN <<Zero>> ELSE g \o Digits(StoredNumber(i, base, conv = "d", P), base, letter)
    <3> DEFINE sign == conv = "d"
    <3>0. i \in Int
      BY <1>1
    <3> HIDE DEF sign
    <3>1. Stored(i, base, sign, w, P, letter)
            = IF i = 0 THEN <<Zero>>
              ELSE Sign(i, base, sign, w, P) \o Digits(StoredNumber(i, base, sign, P), base, letter)
      BY ONLY <3>0, <1>2, StoredText
    <3> QED BY <3>1 DEF sign
  <2> QED BY <1>1, <2>1
<1>5. d = IF i = 0 THEN <<Zero>> ELSE D
  BY <1>1 DEF NumeralOf, base, letter
<1>6. SignFirst(i, base, conv = "d", w, P) <=> v < 0 /\ w # 0 /\ "zero" \in pad
  BY <1>1, <1>3 DEF SignFirst
<1>7. g = IF v < 0 THEN IF w # 0 /\ "zero" \in pad THEN <<>> ELSE <<Minus>>
          ELSE IF "plus" \in pad THEN <<Plus>> ELSE <<>>
  BY <1>1, <1>3, <1>6 DEF Sign
<1>8. d \in Seq(0 .. 255)
  BY <1>1, NumeralRight DEF IsNumeral
<1> HIDE DEF S, d, g, D
<1>9. <<>> \o d = d
  BY <1>8, ConcatEmptySeq
<1>10. ("zero" \in pad => "plus" \notin pad)
  BY DEF OrdinaryFlags
<1>11. ASSUME "zero" \notin pad
       PROVE  S = SignOf(v, pad) \o d
  <2>1. CASE i = 0
    <3>1. SignOf(v, pad) = <<>>
      BY <1>1, <2>1 DEF SignOf
    <3> QED BY <1>4, <1>5, <1>9, <2>1, <3>1
  <2>2. CASE i # 0
    <3>1. SignOf(v, pad) = g
      BY <1>1, <1>7, <1>11, <2>2 DEF SignOf
    <3> QED BY <1>4, <1>5, <2>2, <3>1
  <2> QED BY <2>1, <2>2
<1>12. ASSUME "zero" \in pad, ~(v < 0 /\ w = 0)
       PROVE  S = d
  <2>1. g = <<>>
    BY <1>7, <1>10, <1>12
  <2> QED BY <1>4, <1>5, <1>9, <2>1
<1>13. ASSUME "zero" \in pad, v < 0, w = 0
       PROVE  S = <<Minus>> \o d
  <2>1. g = <<Minus>> /\ i # 0
    BY <1>1, <1>7, <1>13
  <2> QED BY <1>4, <1>5, <2>1
<1>14. StoredAs(S, conv, v, w, pad)
  BY <1>11, <1>12, <1>13 DEF StoredAs, d
<1> QED BY <1>6, <1>14 DEF S, v, P, base, letter

-----------------------------------------------------------------------------
(* Padding. *)

(* T is b with a blanks in front of it and blanks behind. *)
InBlanks(T, a, b) ==
  /\ T \in Seq(0 .. 255) /\ a \in Nat /\ a + Len(b) <= Len(T)
  /\ \A n \in 1 .. Len(b) : T[a + n] = b[n]
  /\ \A n \in 1 .. Len(T) : ~(a < n /\ n <= a + Len(b)) => T[n] = Space

(* Behind zeros. *)
BehindZeros(T, z, b) == z \in Seq(0 .. 255) /\ T = z \o b /\ \A k \in 1 .. Len(z) : z[k] = Zero

LEMMA BlanksAround ==
  ASSUME NEW s \in Seq(0 .. 255), NEW width \in Int, NEW pad, "zero" \notin pad
  PROVE  \E a \in Nat :
           /\ InBlanks(prints(s, width, pad), a, s)
           /\ Len(prints(s, width, pad)) = Len(s) + FillLen(s, width)
           /\ IF "right" \in pad THEN a = 0 ELSE a + Len(s) = Len(prints(s, width, pad))
<1>1. PICK fill : /\ IsFill(fill, FillLen(s, width), FillChar(pad))
                  /\ Padded(prints(s, width, pad), s, fill, pad)
  BY PrintsShape
<1>2. PICK T, f : T = prints(s, width, pad) /\ f = FillLen(s, width)
  OBVIOUS
<1>3. /\ fill \in Seq(0 .. 255) /\ Len(fill) = f /\ (\A k \in 1 .. Len(fill) : fill[k] = Space)
      /\ T = IF "right" \in pad THEN s \o fill ELSE fill \o s
  BY <1>1, <1>2 DEF IsFill, Padded, FillChar
<1>4. Len(s) \in Nat /\ f \in Nat
  BY <1>3
<1>5. CASE "right" \in pad
  <2>1. T = s \o fill
    BY <1>3, <1>5
  <2>2. /\ T \in Seq(0 .. 255) /\ Len(T) = Len(s) + Len(fill)
        /\ \A i \in 1 .. Len(s) + Len(fill) : T[i] = IF i <= Len(s) THEN s[i] ELSE fill[i - Len(s)]
    <3>1. s \in Seq(0 .. 255) /\ fill \in Seq(0 .. 255)
      BY <1>3
    <3> QED BY ONLY <2>1, <3>1, ConcatProperties
  <2>3. \A n \in 1 .. Len(s) : T[0 + n] = s[n]
    <3> SUFFICES ASSUME NEW n \in 1 .. Len(s)
                 PROVE  T[0 + n] = s[n]
      OBVIOUS
    <3>1. n \in 1 .. Len(s) + Len(fill) /\ n <= Len(s) /\ 0 + n = n
      BY <1>3, <1>4
    <3> QED BY <2>2, <3>1
  <2>4. \A n \in 1 .. Len(T) : ~(0 < n /\ n <= 0 + Len(s)) => T[n] = Space
    <3> SUFFICES ASSUME NEW n \in 1 .. Len(T), ~(0 < n /\ n <= 0 + Len(s))
                 PROVE  T[n] = Space
      OBVIOUS
    <3>1. n \in 1 .. Len(s) + Len(fill) /\ ~(n <= Len(s)) /\ n - Len(s) \in 1 .. Len(fill)
      BY <1>3, <1>4, <2>2
    <3> QED BY <1>3, <2>2, <3>1
  <2>5. InBlanks(T, 0, s)
    BY <1>3, <1>4, <2>2, <2>3, <2>4 DEF InBlanks
  <2> QED BY <1>2, <1>3, <1>5, <2>2, <2>5
<1>6. CASE "right" \notin pad
  <2>1. T = fill \o s
    BY <1>3, <1>6
  <2>2. /\ T \in Seq(0 .. 255) /\ Len(T) = Len(fill) + Len(s)
        /\ \A i \in 1 .. Len(fill) + Len(s) : T[i] = IF i <= Len(fill) THEN fill[i] ELSE s[i - Len(fill)]
    BY <1>3, <2>1, ConcatProperties
  <2>3. \A n \in 1 .. Len(s) : T[f + n] = s[n]
    <3> SUFFICES ASSUME NEW n \in 1 .. Len(s)
                 PROVE  T[f + n] = s[n]
      OBVIOUS
    <3>1. f + n \in 1 .. Len(fill) + Len(s) /\ ~(f + n <= Len(fill)) /\ (f + n) - Len(fill) = n
      BY <1>3, <1>4
    <3> QED BY <2>2, <3>1
  <2>4. \A n \in 1 .. Len(T) : ~(f < n /\ n <= f + Len(s)) => T[n] = Space
    <3> SUFFICES ASSUME NEW n \in 1 .. Len(T), ~(f < n /\ n <= f + Len(s))
                 PROVE  T[n] = Space
      OBVIOUS
    <3>1. n \in 1 .. Len(fill) + Len(s) /\ n <= Len(fill) /\ n \in 1 .. Len(fill)
      BY <1>3, <1>4, <2>2
    <3> QED BY <1>3, <2>2, <3>1
  <2>5. InBlanks(T, f, s)
    BY <1>3, <1>4, <2>2, <2>3, <2>4 DEF InBlanks
  <2>6. Len(T) = Len(s) + f /\ f + Len(s) = Len(T)
    BY <1>3, <1>4, <2>2
  <2> QED BY <1>2, <1>4, <1>6, <2>5, <2>6
<1> QED BY <1>5, <1>6

(* prints() with the flag for zeros alone puts zeros in front. *)
LEMMA ZerosBefore ==
  ASSUME NEW s \in Seq(0 .. 255), NEW width \in Int, NEW pad, "zero" \in pad, "right" \notin pad
  PROVE  \E z : BehindZeros(prints(s, width, pad), z, s) /\ Len(z) = FillLen(s, width)
<1>1. PICK fill : /\ IsFill(fill, FillLen(s, width), FillChar(pad))
                  /\ Padded(prints(s, width, pad), s, fill, pad)
  BY PrintsShape
<1> QED BY <1>1 DEF IsFill, Padded, FillChar, BehindZeros

(* Widths are the same as unsigned integers. *)
LEMMA WidthsFit ==
  ASSUME NEW w \in Widths
  PROVE  /\ w \in Nat /\ Unsigned(w, IntBits) = w
         /\ w # 0 => w - 1 \in Nat /\ Unsigned(w - 1, IntBits) = w - 1
<1>1. IntBits \in Nat /\ IntBits > 0
  BY BitsAssumption
<1>2. /\ Power(2, IntBits - 1) \in Nat /\ Power(2, IntBits - 1) > 0
      /\ Power(2, IntBits) \in Nat /\ Power(2, IntBits) = 2 * Power(2, IntBits - 1)
  BY <1>1, HalvesOf
<1>3. w \in 0 .. Power(2, IntBits - 1) - 1
  BY WidthsAssumption
<1>4. w \in Nat /\ w \in 0 .. Power(2, IntBits) - 1 /\ (w # 0 => w - 1 \in Nat /\ w - 1 \in 0 .. Power(2, IntBits) - 1)
  BY <1>2, <1>3
<1>5. Unsigned(w, IntBits) = w
  BY <1>1, <1>4, UnsignedSame
<1>6. w # 0 => Unsigned(w - 1, IntBits) = w - 1
  BY <1>1, <1>4, UnsignedSame
<1> QED BY <1>4, <1>5, <1>6

(* The text T of a value: sign s and numeral e, between blanks. *)
WellPrinted(T, a, s, e, conv, v, w, pad) ==
  /\ s = SignOf(v, pad) /\ InBlanks(T, a, s \o e) /\ IsNumeral(e, conv, v)
  /\ Len(T) = w \/ (Len(T) > w /\ Len(T) = Len(s) + Len(e) /\ Shortest(e))
  /\ "zero" \in pad => Len(T) = Len(s) + Len(e)
  /\ "zero" \notin pad => Shortest(e)
  /\ IF "right" \in pad THEN a = 0 ELSE a + (Len(s) + Len(e)) = Len(T)

LEMMA SignText ==
  ASSUME NEW v, NEW pad
  PROVE  SignOf(v, pad) \in Seq(0 .. 255) /\ SignOf(v, pad) \in {<<>>, <<Minus>>, <<Plus>>}
<1>1. SignOf(v, pad) \in {<<>>, <<Minus>>, <<Plus>>}
  BY DEF SignOf
<1>2. <<>> \in Seq(0 .. 255) /\ <<Minus>> \in Seq(0 .. 255) /\ <<Plus>> \in Seq(0 .. 255)
  BY DEF Minus, Plus
<1> QED BY <1>1, <1>2

(* Bytes are integers. *)
LEMMA CodesAreInts ==
  ASSUME NEW t \in Seq(0 .. 255)
  PROVE  t \in Seq(Int)
<1>1. \A x \in 0 .. 255 : x \in Int
  OBVIOUS
<1>2. \A n \in 1 .. Len(t) : t[n] \in 0 .. 255
  BY ElementOfSeq
<1>3. \A n \in 1 .. Len(t) : t[n] \in Int
  BY ONLY <1>1, <1>2, Zenon
<1> QED BY <1>3, Narrowed

(* A numeral behind zeros is a numeral of the same number. *)
LEMMA NumeralBehindZeros ==
  ASSUME NEW d, NEW conv, NEW v, IsNumeral(d, conv, v), NEW e, NEW z, BehindZeros(e, z, d)
  PROVE  IsNumeral(e, conv, v) /\ Len(e) = Len(z) + Len(d) /\ Len(z) \in Nat /\ Len(d) \in Nat
<1>1. /\ d \in Seq(0 .. 255) /\ Len(d) > 0
      /\ \A m \in 1 .. Len(d) : d[m] \in NumeralChars(BaseOf(conv), LetterOf(conv))
      /\ Number(d, BaseOf(conv)) = Size(v)
  BY DEF IsNumeral
<1>2. z \in Seq(0 .. 255) /\ e = z \o d /\ \A k \in 1 .. Len(z) : z[k] = Zero
  BY DEF BehindZeros
<1>3. /\ e \in Seq(0 .. 255) /\ Len(e) = Len(z) + Len(d)
      /\ \A i \in 1 .. Len(z) + Len(d) : e[i] = IF i <= Len(z) THEN z[i] ELSE d[i - Len(z)]
  <2>1. d \in Seq(0 .. 255) /\ z \in Seq(0 .. 255) /\ e = z \o d
    BY <1>1, <1>2
  <2> QED BY ONLY <2>1, ConcatProperties
<1>4. Len(z) \in Nat /\ Len(d) \in Nat
  BY <1>1, <1>2
<1>5. ASSUME NEW m \in 1 .. Len(e)
      PROVE  e[m] \in NumeralChars(BaseOf(conv), LetterOf(conv))
  <2>1. CASE m <= Len(z)
    <3>1. e[m] = Zero
      BY <1>2, <1>3, <1>4, <2>1
    <3> QED BY <3>1 DEF Zero, NumeralChars
  <2>2. CASE ~(m <= Len(z))
    <3>1. m - Len(z) \in 1 .. Len(d) /\ e[m] = d[m - Len(z)]
      BY <1>3, <1>4, <2>2
    <3> QED BY <1>1, <3>1
  <2> QED BY <2>1, <2>2
<1>6. Number(e, BaseOf(conv)) = Number(d, BaseOf(conv))
  <2>0. z \in Seq(0 .. 255) /\ d \in Seq(0 .. 255)
    BY <1>1, <1>2
  <2>1. z \in Seq(Int) /\ d \in Seq(Int)
    BY ONLY <2>0, CodesAreInts
  <2>2. BaseOf(conv) \in Int
    BY BasesAndLetters
  <2>3. PICK n \in Nat : n = Len(z)
    BY <1>4
  <2>4. Number(z, BaseOf(conv)) = 0
    <3>1. z \in Seq(Int) /\ n \in Nat /\ Len(z) = n /\ (\A k \in 1 .. n : z[k] = Zero) /\ BaseOf(conv) \in Int
      BY <1>2, <2>1, <2>2, <2>3
    <3> QED BY ONLY <3>1, ZerosAreNothing
  <2>5. Number(z \o d, BaseOf(conv)) = Number(d, BaseOf(conv))
    BY ONLY <2>1, <2>2, <2>4, NumberBehindZeros
  <2> QED BY <1>2, <2>5
<1>7. IsNumeral(e, conv, v)
  BY <1>1, <1>3, <1>4, <1>5, <1>6 DEF IsNumeral
<1> QED BY <1>3, <1>4, <1>7

(* Nothing but sign and numeral. *)
LEMMA NoBlanks ==
  ASSUME NEW s \in Seq(0 .. 255), NEW e \in Seq(0 .. 255)
  PROVE  InBlanks(s \o e, 0, s \o e) /\ Len(s \o e) = Len(s) + Len(e)
<1>1. PICK T : T = s \o e
  OBVIOUS
<1>2. T \in Seq(0 .. 255) /\ Len(T) = Len(s) + Len(e)
  BY <1>1, ConcatProperties
<1>3. InBlanks(T, 0, T)
  BY <1>2 DEF InBlanks
<1> QED BY <1>1, <1>2, <1>3

(* printi() prints its argument well, if the flags are ordinary. *)
LEMMA PrintiRight ==
  ASSUME NEW conv \in {"d", "x", "X", "u"}, NEW l \in BOOLEAN, NEW pad \in Pads, OrdinaryFlags(pad),
         NEW i \in Args(conv, l), NEW w \in Widths, NEW T,
         T = printi(i, BaseOf(conv), conv = "d", w, LongPad(pad, l), LetterOf(conv))
  PROVE  \E a, e : WellPrinted(T, a, SignOf(Value(conv, l, i), pad), e, conv, Value(conv, l, i), w, pad)
<1> DEFINE S == Stored(i, BaseOf(conv), conv = "d", w, LongPad(pad, l), LetterOf(conv))
           First == i # 0 /\ SignFirst(i, BaseOf(conv), conv = "d", w, LongPad(pad, l))
<1>0. PICK v, P, d, s : /\ v = Value(conv, l, i) /\ P = LongPad(pad, l) /\ d = NumeralOf(conv, v)
                        /\ s = SignOf(v, pad)
  OBVIOUS
<1>1. /\ "zero" \notin pad => S = s \o d
      /\ "zero" \in pad /\ ~(v < 0 /\ w = 0) => S = d
      /\ "zero" \in pad /\ v < 0 /\ w = 0 => S = <<Minus>> \o d
      /\ SignFirst(i, BaseOf(conv), conv = "d", w, LongPad(pad, l)) <=> "zero" \in pad /\ v < 0 /\ w # 0
  <2>1. conv \in {"d", "x", "X", "u"} /\ l \in BOOLEAN /\ pad \in Pads /\ OrdinaryFlags(pad) /\ i \in Args(conv, l)
    OBVIOUS
  <2>2. /\ StoredAs(S, conv, Value(conv, l, i), w, pad)
        /\ SignFirst(i, BaseOf(conv), conv = "d", w, LongPad(pad, l))
             <=> "zero" \in pad /\ Value(conv, l, i) < 0 /\ w # 0
    BY ONLY <2>1, StoredParts
  <2> HIDE DEF S
  <2> QED BY <1>0, <2>2 DEF StoredAs
<1>2. v \in Int /\ (i = 0 <=> v = 0)
  BY <1>0, ValueStored
<1>3. IsNumeral(d, conv, v) /\ Shortest(d)
  BY <1>0, <1>2, NumeralRight
<1>4. s \in Seq(0 .. 255) /\ d \in Seq(0 .. 255) /\ Len(s) \in Nat /\ Len(d) \in Nat
  BY <1>0, <1>3, SignText DEF IsNumeral
<1>5. ("zero" \in P <=> "zero" \in pad) /\ ("right" \in P <=> "right" \in pad)
  BY <1>0, LongFlag
<1>6. T = IF First THEN <<Minus>> \o prints(S, Unsigned(w - 1, IntBits), P)
          ELSE prints(S, Unsigned(w, IntBits), P)
  BY <1>0 DEF printi
<1>7. First <=> "zero" \in pad /\ v < 0 /\ w # 0
  BY <1>1, <1>2
<1>8. w \in Nat /\ Unsigned(w, IntBits) = w /\ (w # 0 => w - 1 \in Nat /\ Unsigned(w - 1, IntBits) = w - 1)
  BY WidthsFit
<1> HIDE DEF S, First
<1>9. ASSUME "zero" \notin pad
      PROVE  \E a, e : WellPrinted(T, a, s, e, conv, v, w, pad)
  <2>1. PICK b : b = s \o d
    OBVIOUS
  <2>2. b \in Seq(0 .. 255) /\ Len(b) = Len(s) + Len(d)
    BY <1>4, <2>1, ConcatProperties
  <2>3. T = prints(b, w, P)
    BY <1>1, <1>6, <1>7, <1>8, <1>9, <2>1
  <2>4. PICK a \in Nat :
           /\ InBlanks(T, a, b) /\ Len(T) = Len(b) + FillLen(b, w)
           /\ IF "right" \in P THEN a = 0 ELSE a + Len(b) = Len(T)
    <3>1. b \in Seq(0 .. 255) /\ w \in Int /\ "zero" \notin P
      BY <1>5, <1>8, <1>9, <2>2
    <3>2. \E a \in Nat :
           /\ InBlanks(prints(b, w, P), a, b)
           /\ Len(prints(b, w, P)) = Len(b) + FillLen(b, w)
           /\ IF "right" \in P THEN a = 0 ELSE a + Len(b) = Len(prints(b, w, P))
      BY ONLY <3>1, BlanksAround
    <3> QED BY <2>3, <3>2
  <2>5. Len(T) = w \/ (Len(T) > w /\ Len(T) = Len(s) + Len(d))
    <3>1. PICK m, k : m = Len(b) /\ k = Len(T)
      OBVIOUS
    <3>2. m \in Nat /\ w \in Nat /\ m = Len(s) + Len(d) /\ k = m + (IF m >= w THEN 0 ELSE w - m)
      BY <1>8, <2>2, <2>4, <3>1 DEF FillLen
    <3>3. k = w \/ (k > w /\ k = m)
      <4>1. CASE m >= w
        <5>1. k = m
          BY <3>2, <4>1
        <5>2. m \in Nat /\ w \in Nat
          BY <3>2
        <5> QED BY ONLY <5>1, <5>2, <4>1
      <4>2. CASE ~(m >= w)
        <5>1. k = m + (w - m)
          BY <3>2, <4>2
        <5>2. m \in Nat /\ w \in Nat
          BY <3>2
        <5> QED BY ONLY <5>1, <5>2
      <4> QED BY <4>1, <4>2
    <3> QED BY <3>1, <3>2, <3>3
  <2>6. WellPrinted(T, a, s, d, conv, v, w, pad)
    BY <1>0, <1>3, <1>5, <1>9, <2>1, <2>2, <2>4, <2>5 DEF WellPrinted
  <2> QED BY <2>6
<1>10. ASSUME "zero" \in pad
       PROVE  \E a, e : WellPrinted(T, a, s, e, conv, v, w, pad)
  <2>1. "right" \notin pad /\ "plus" \notin pad
    BY <1>10 DEF OrdinaryFlags
  <2>2. s = IF v < 0 THEN <<Minus>> ELSE <<>>
    BY <1>0, <2>1 DEF SignOf
  <2>3. PICK n, z, e : n \in Nat /\ BehindZeros(e, z, d) /\ T = s \o e
                       /\ Len(z) = FillLen(d, n) /\ (n = w - Len(s) \/ (n = 0 /\ w = 0))
    <3>1. CASE v < 0 /\ w # 0
      <4>1. PICK e : e = prints(d, w - 1, P)
        OBVIOUS
      <4>2. T = <<Minus>> \o e /\ s = <<Minus>> /\ Len(<<Minus>>) = 1
        BY <1>1, <1>6, <1>7, <1>8, <1>10, <2>2, <3>1, <4>1
      <4>3. PICK z : BehindZeros(e, z, d) /\ Len(z) = FillLen(d, w - 1)
        <5>1. d \in Seq(0 .. 255) /\ w - 1 \in Int /\ "zero" \in P /\ "right" \notin P
          BY <1>4, <1>5, <1>8, <1>10, <2>1
        <5> QED BY <4>1, <5>1, ZerosBefore
      <4> QED BY <1>8, <3>1, <4>2, <4>3
    <3>2. CASE v < 0 /\ w = 0
      <4>1. s = <<Minus>> /\ T = prints(s \o d, w, P)
        BY <1>1, <1>6, <1>7, <1>8, <1>10, <2>2, <3>2
      <4>2. PICK z : BehindZeros(T, z, s \o d) /\ Len(z) = FillLen(s \o d, w)
        <5>1. s \o d \in Seq(0 .. 255)
          BY <1>4, ConcatProperties
        <5>2. w \in Int /\ "zero" \in P /\ "right" \notin P
          BY <1>5, <1>8, <1>10, <2>1
        <5> QED BY <4>1, <5>1, <5>2, ZerosBefore
      <4>3. Len(z) = 0 /\ z \in Seq(0 .. 255) /\ T = z \o (s \o d)
        BY <1>4, <3>2, <4>2 DEF BehindZeros, FillLen
      <4>4. z = <<>>
        BY <4>3, EmptySeq
      <4>5. T = s \o d
        <5>1. s \o d \in Seq(0 .. 255)
          BY <1>4, ConcatProperties
        <5> QED BY <4>3, <4>4, <5>1, ConcatEmptySeq
      <4>6. BehindZeros(d, <<>>, d)
        <5>1. <<>> \in Seq(0 .. 255) /\ Len(<<>>) = 0
          OBVIOUS
        <5>2. <<>> \o d = d
          BY <1>4, ConcatEmptySeq
        <5> QED BY <5>1, <5>2 DEF BehindZeros
      <4>7. Len(<<>>) = FillLen(d, 0)
        BY <1>4 DEF FillLen
      <4> QED BY <3>2, <4>5, <4>6, <4>7
    <3>3. CASE ~(v < 0)
      <4>1. PICK e : e = prints(d, w, P)
        OBVIOUS
      <4>2. T = e /\ s = <<>>
        BY <1>1, <1>6, <1>7, <1>8, <1>10, <2>2, <3>3, <4>1
      <4>3. PICK z : BehindZeros(e, z, d) /\ Len(z) = FillLen(d, w)
        <5>1. d \in Seq(0 .. 255) /\ w \in Int /\ "zero" \in P /\ "right" \notin P
          BY <1>4, <1>5, <1>8, <1>10, <2>1
        <5> QED BY <4>1, <5>1, ZerosBefore
      <4>4. e \in Seq(0 .. 255)
        BY <1>4, <4>3, ConcatProperties DEF BehindZeros
      <4>5. s \o e = e
        BY <4>2, <4>4, ConcatEmptySeq
      <4>6. Len(s) = 0 /\ w = w - Len(s)
        BY <1>8, <4>2
      <4> QED BY <1>8, <4>2, <4>3, <4>5, <4>6
    <3> QED BY <3>1, <3>2, <3>3
  <2>4. IsNumeral(e, conv, v) /\ Len(e) = Len(z) + Len(d) /\ Len(z) \in Nat
    BY <1>3, <2>3, NumeralBehindZeros
  <2>5. e \in Seq(0 .. 255) /\ InBlanks(T, 0, s \o e) /\ Len(T) = Len(s) + Len(e)
    <3>1. e \in Seq(0 .. 255)
      BY <2>4 DEF IsNumeral
    <3>2. InBlanks(s \o e, 0, s \o e) /\ Len(s \o e) = Len(s) + Len(e)
      BY <1>4, <3>1, NoBlanks
    <3> QED BY <2>3, <3>1, <3>2
  <2>6. Len(T) = w \/ (Len(T) > w /\ Shortest(e))
    <3>1. CASE Len(z) = 0
      <4>1. e = d
        <5>1. z = <<>>
          BY <2>3, <3>1, EmptySeq DEF BehindZeros
        <5> QED BY <1>4, <2>3, <5>1, ConcatEmptySeq DEF BehindZeros
      <4>2. Len(d) >= n
        BY <1>4, <2>3, <3>1 DEF FillLen
      <4>3. Len(T) >= w
        BY <1>4, <1>8, <2>3, <2>5, <4>1, <4>2
      <4> QED BY <1>3, <1>4, <1>8, <2>5, <4>1, <4>3
    <3>2. CASE Len(z) # 0
      <4>1. Len(z) = n - Len(d) /\ n # 0
        BY <1>4, <2>3, <3>2 DEF FillLen
      <4>2. Len(T) = w
        BY <1>4, <1>8, <2>3, <2>4, <2>5, <4>1
      <4> QED BY <4>2
    <3> QED BY <3>1, <3>2
  <2>7. WellPrinted(T, 0, s, e, conv, v, w, pad)
    BY <1>0, <1>4, <1>10, <2>1, <2>4, <2>5, <2>6 DEF WellPrinted
  <2> QED BY <2>7
<1> QED BY <1>0, <1>9, <1>10

-----------------------------------------------------------------------------
(* Looking for the number in what was printed. *)

(* A text in the middle of another. *)
LEMMA Middle ==
  ASSUME NEW S, NEW T \in Seq(S), NEW b \in Seq(S), NEW a \in Nat, a + Len(b) <= Len(T),
         \A n \in 1 .. Len(b) : T[a + n] = b[n]
  PROVE  SubSeq(T, a + 1, a + Len(b)) = b
<1>1. PICK m, n, k : m = a + 1 /\ n = a + Len(b) /\ k = Len(b)
  OBVIOUS
<1>2. m \in Int /\ n \in Int /\ k \in Nat /\ (IF m <= n THEN n - m + 1 ELSE 0) = k /\ n - m + 1 = k
  BY <1>1
<1>3. \A i \in m .. n : T[i] \in S
  <2> SUFFICES ASSUME NEW i \in m .. n
               PROVE  T[i] \in S
    OBVIOUS
  <2>1. i \in 1 .. Len(T)
    BY <1>1
  <2> QED BY <2>1, ElementOfSeq
<1>4. /\ SubSeq(T, m, n) \in Seq(S)
      /\ Len(SubSeq(T, m, n)) = IF m <= n THEN n - m + 1 ELSE 0
      /\ \A i \in 1 .. n - m + 1 : SubSeq(T, m, n)[i] = T[m + i - 1]
  BY ONLY <1>2, <1>3, SubSeqProperties
<1>5. \A i \in 1 .. k : SubSeq(T, m, n)[i] = b[i]
  <2> SUFFICES ASSUME NEW i \in 1 .. k
               PROVE  SubSeq(T, m, n)[i] = b[i]
    OBVIOUS
  <2>1. SubSeq(T, m, n)[i] = T[m + i - 1]
    BY <1>2, <1>4
  <2>2. m + i - 1 = a + i
    BY <1>1
  <2> QED BY <1>1, <2>1, <2>2
<1>6. SubSeq(T, m, n) = b
  BY <1>1, <1>2, <1>4, <1>5, SeqEqual
<1> QED BY <1>1, <1>6

(* The two parts of a text. *)
LEMMA Halves ==
  ASSUME NEW s \in Seq(0 .. 255), NEW e \in Seq(0 .. 255)
  PROVE  /\ SubSeq(s \o e, 1, Len(s)) = s
         /\ SubSeq(s \o e, Len(s) + 1, Len(s \o e)) = e
<1>1. PICK b : b = s \o e
  OBVIOUS
<1>2. /\ b \in Seq(0 .. 255) /\ Len(b) = Len(s) + Len(e)
      /\ \A i \in 1 .. Len(s) + Len(e) : b[i] = IF i <= Len(s) THEN s[i] ELSE e[i - Len(s)]
  BY <1>1, ConcatProperties
<1>3. Len(s) \in Nat /\ Len(e) \in Nat
  OBVIOUS
<1>4. SubSeq(b, 0 + 1, 0 + Len(s)) = s
  <2>1. \A n \in 1 .. Len(s) : b[0 + n] = s[n]
    <3> SUFFICES ASSUME NEW n \in 1 .. Len(s)
                 PROVE  b[0 + n] = s[n]
      OBVIOUS
    <3>1. 0 + n = n /\ n <= Len(s) /\ n \in 1 .. Len(s) + Len(e)
      BY <1>3
    <3> QED BY <1>2, <3>1
  <2>2. 0 + Len(s) <= Len(b) /\ 0 \in Nat /\ s \in Seq(0 .. 255) /\ b \in Seq(0 .. 255)
    BY <1>2, <1>3
  <2> QED BY ONLY <2>1, <2>2, Middle
<1>5. SubSeq(b, Len(s) + 1, Len(s) + Len(e)) = e
  <2>1. \A n \in 1 .. Len(e) : b[Len(s) + n] = e[n]
    <3> SUFFICES ASSUME NEW n \in 1 .. Len(e)
                 PROVE  b[Len(s) + n] = e[n]
      OBVIOUS
    <3>1. (Len(s) + n) - Len(s) = n /\ ~(Len(s) + n <= Len(s)) /\ Len(s) + n \in 1 .. Len(s) + Len(e)
      BY <1>3
    <3> QED BY <1>2, <3>1
  <2>2. Len(s) + Len(e) <= Len(b) /\ Len(s) \in Nat /\ e \in Seq(0 .. 255) /\ b \in Seq(0 .. 255)
    BY <1>2, <1>3
  <2> QED BY ONLY <2>1, <2>2, Middle
<1>6. 0 + 1 = 1 /\ 0 + Len(s) = Len(s)
  BY <1>3
<1> QED BY <1>1, <1>2, <1>4, <1>5, <1>6

(* The places that are not blank. *)
Inked(T) == {n \in DOMAIN T : NotBlank(T[n])}

LEMMA InkedPlaces ==
  ASSUME NEW T, NEW a, NEW b \in Seq(0 .. 255), InBlanks(T, a, b), Len(b) > 0, \A n \in 1 .. Len(b) : b[n] # Space
  PROVE  /\ Inked(T) = a + 1 .. a + Len(b) /\ Min(Inked(T)) = a + 1 /\ Max(Inked(T)) = a + Len(b)
         /\ SubSeq(T, a + 1, a + Len(b)) = b
<1>1. /\ T \in Seq(0 .. 255) /\ a \in Nat /\ a + Len(b) <= Len(T)
      /\ \A n \in 1 .. Len(b) : T[a + n] = b[n]
      /\ \A n \in 1 .. Len(T) : ~(a < n /\ n <= a + Len(b)) => T[n] = Space
  BY DEF InBlanks
<1>2. PICK m, k : m = a + 1 /\ k = a + Len(b)
  OBVIOUS
<1>3. Len(b) \in Nat /\ Len(T) \in Nat /\ DOMAIN T = 1 .. Len(T)
  BY <1>1
<1>4. m \in Nat /\ k \in Nat /\ m <= k /\ 1 <= m /\ k <= Len(T)
  BY <1>1, <1>2, <1>3
<1>5. Inked(T) = m .. k
  <2>1. ASSUME NEW n \in 1 .. Len(T)
        PROVE  T[n] # Space <=> n \in m .. k
    <3>1. CASE n \in m .. k
      <4>1. n - a \in 1 .. Len(b) /\ a + (n - a) = n
        BY <1>1, <1>2, <1>3, <3>1
      <4>2. T[n] = b[n - a]
        BY <1>1, <4>1
      <4> QED BY <3>1, <4>1, <4>2
    <3>2. CASE n \notin m .. k
      <4>1. ~(a < n /\ n <= a + Len(b))
        BY <1>1, <1>2, <1>3, <3>2
      <4> QED BY <1>1, <3>2, <4>1
    <3> QED BY <3>1, <3>2
  <2>2. \A n \in m .. k : n \in 1 .. Len(T)
    BY <1>3, <1>4
  <2> QED BY <1>3, <2>1, <2>2 DEF Inked, NotBlank
<1>6. Min(m .. k) = m /\ Max(m .. k) = k
  BY <1>4 DEF Min, Max
<1>7. SubSeq(T, a + 1, a + Len(b)) = b
  BY <1>1, Middle
<1> QED BY <1>2, <1>5, <1>6, <1>7

(* PrintsBack of the text T of a value. *)
ReadsBack(T, conv, value, width, pad) ==
  LET sign   == IF value < 0 THEN <<Minus>>
                ELSE IF value > 0 /\ "plus" \in pad THEN <<Plus>> ELSE <<>>
      inked  == {n \in DOMAIN T : NotBlank(T[n])}
      body   == SubSeq(T, Min(inked), Max(inked))
      digits == SubSeq(body, Len(sign) + 1, Len(body))
      short  == Len(digits) = 1 \/ Head(digits) # Zero
      fill   == Len(T) - Len(body)
  IN /\ inked # {} /\ inked = Min(inked) .. Max(inked)
     /\ SubSeq(body, 1, Len(sign)) = sign
     /\ Len(digits) > 0 /\ Range(digits) \subseteq DigitChars(conv)
     /\ Number(digits, IF conv \in {"d", "u"} THEN 10 ELSE 16) = IF value < 0 THEN -value ELSE value
     /\ Len(T) = width \/ (Len(T) > width /\ fill = 0 /\ short)
     /\ "zero" \in pad => fill = 0
     /\ "zero" \notin pad => short
     /\ IF "right" \in pad THEN Min(inked) = 1 ELSE Max(inked) = Len(T)

LEMMA NumeralCodes ==
  ASSUME NEW conv \in {"d", "x", "X", "u"}
  PROVE  /\ NumeralChars(BaseOf(conv), LetterOf(conv)) = DigitChars(conv)
         /\ \A c \in NumeralChars(BaseOf(conv), LetterOf(conv)) : c # Space
<1>1. CASE conv = "d" \/ conv = "u"
  <2>1. NumeralChars(BaseOf(conv), LetterOf(conv)) = 48 .. 57 /\ DigitChars(conv) = 48 .. 57
    BY <1>1 DEF NumeralChars, BaseOf, LetterOf, DigitChars
  <2> QED BY <2>1 DEF Space
<1>2. CASE conv = "x"
  <2>1. /\ NumeralChars(BaseOf(conv), LetterOf(conv)) = 48 .. 57 \cup 97 .. 97 + 5
        /\ DigitChars(conv) = 48 .. 57 \cup 97 .. 102
    BY <1>2 DEF NumeralChars, BaseOf, LetterOf, DigitChars
  <2>2. 97 + 5 = 102
    OBVIOUS
  <2> QED BY <2>1, <2>2 DEF Space
<1>3. CASE conv = "X"
  <2>1. /\ NumeralChars(BaseOf(conv), LetterOf(conv)) = 48 .. 57 \cup 65 .. 65 + 5
        /\ DigitChars(conv) = 48 .. 57 \cup 65 .. 70
    BY <1>3 DEF NumeralChars, BaseOf, LetterOf, DigitChars
  <2>2. 65 + 5 = 70
    OBVIOUS
  <2> QED BY <2>1, <2>2 DEF Space
<1> QED BY <1>1, <1>2, <1>3

(* What is printed well reads back. *)
LEMMA WellPrintedReadsBack ==
  ASSUME NEW T, NEW a, NEW s, NEW e, NEW conv \in {"d", "x", "X", "u"}, NEW v \in Int, NEW w \in Nat, NEW pad,
         WellPrinted(T, a, s, e, conv, v, w, pad)
  PROVE  ReadsBack(T, conv, v, w, pad)
<1>1. /\ s = SignOf(v, pad) /\ InBlanks(T, a, s \o e) /\ IsNumeral(e, conv, v)
      /\ Len(T) = w \/ (Len(T) > w /\ Len(T) = Len(s) + Len(e) /\ Shortest(e))
      /\ "zero" \in pad => Len(T) = Len(s) + Len(e)
      /\ "zero" \notin pad => Shortest(e)
      /\ IF "right" \in pad THEN a = 0 ELSE a + (Len(s) + Len(e)) = Len(T)
  BY DEF WellPrinted
<1>2. /\ e \in Seq(0 .. 255) /\ Len(e) > 0 /\ Number(e, BaseOf(conv)) = Size(v)
      /\ \A m \in 1 .. Len(e) : e[m] \in NumeralChars(BaseOf(conv), LetterOf(conv))
  BY <1>1 DEF IsNumeral
<1>3. s \in Seq(0 .. 255) /\ s \in {<<>>, <<Minus>>, <<Plus>>}
  BY <1>1, SignText
<1>4. Len(s) \in Nat /\ Len(e) \in Nat
  BY <1>2, <1>3
<1>5. PICK b : b = s \o e
  OBVIOUS
<1>6. /\ b \in Seq(0 .. 255) /\ Len(b) = Len(s) + Len(e)
      /\ \A i \in 1 .. Len(s) + Len(e) : b[i] = IF i <= Len(s) THEN s[i] ELSE e[i - Len(s)]
  <2>1. s \in Seq(0 .. 255) /\ e \in Seq(0 .. 255)
    BY <1>2, <1>3
  <2> QED BY ONLY <1>5, <2>1, ConcatProperties
<1>7. SubSeq(b, 1, Len(s)) = s /\ SubSeq(b, Len(s) + 1, Len(b)) = e
  BY <1>2, <1>3, <1>5, Halves
<1>8. \A m \in 1 .. Len(s) : s[m] # Space
  <2>1. CASE s = <<>>
    BY <2>1
  <2>2. CASE s = <<Minus>>
    BY <2>2 DEF Minus, Space
  <2>3. CASE s = <<Plus>>
    BY <2>3 DEF Plus, Space
  <2> QED BY <1>3, <2>1, <2>2, <2>3
<1>9. \A m \in 1 .. Len(e) : e[m] # Space /\ e[m] \in DigitChars(conv)
  BY <1>2, NumeralCodes
<1>10. \A m \in 1 .. Len(b) : b[m] # Space
  <2> SUFFICES ASSUME NEW m \in 1 .. Len(b)
               PROVE  b[m] # Space
    OBVIOUS
  <2>1. CASE m <= Len(s)
    <3>1. m \in 1 .. Len(s) /\ b[m] = s[m]
      BY <1>4, <1>6, <2>1
    <3> QED BY <1>8, <3>1
  <2>2. CASE ~(m <= Len(s))
    <3>1. m - Len(s) \in 1 .. Len(e) /\ b[m] = e[m - Len(s)]
      BY <1>4, <1>6, <2>2
    <3> QED BY <1>9, <3>1
  <2> QED BY <2>1, <2>2
<1>11. Len(b) > 0 /\ Len(b) \in Nat
  BY <1>2, <1>4, <1>6
<1>12. /\ Inked(T) = a + 1 .. a + Len(b) /\ Min(Inked(T)) = a + 1 /\ Max(Inked(T)) = a + Len(b)
       /\ SubSeq(T, a + 1, a + Len(b)) = b
  BY <1>1, <1>5, <1>6, <1>10, <1>11, InkedPlaces
<1>13. T \in Seq(0 .. 255) /\ Len(T) \in Nat /\ a \in Nat
  BY <1>1 DEF InBlanks
<1> DEFINE inked  == Inked(T)
           body   == SubSeq(T, Min(inked), Max(inked))
           digits == SubSeq(body, Len(s) + 1, Len(body))
           short  == Len(digits) = 1 \/ Head(digits) # Zero
           fill   == Len(T) - Len(body)
<1>14. body = b
  BY <1>12
<1>15. digits = e
  BY <1>7, <1>14
<1>16. inked # {} /\ inked = Min(inked) .. Max(inked)
  BY <1>11, <1>12, <1>13
<1>17. SubSeq(body, 1, Len(s)) = s
  BY <1>7, <1>14
<1>18. Head(e) = e[1]
  BY <1>2
<1> HIDE DEF body, digits, inked
<1>19. short <=> Shortest(e)
  BY <1>15, <1>18 DEF Shortest
<1>20. Len(digits) > 0 /\ Range(digits) \subseteq DigitChars(conv)
  <2>1. DOMAIN e = 1 .. Len(e)
    BY <1>2
  <2>2. Range(e) \subseteq DigitChars(conv)
    BY <1>9, <2>1 DEF Range
  <2> QED BY <1>2, <1>15, <2>2
<1>21. Number(digits, IF conv \in {"d", "u"} THEN 10 ELSE 16) = IF v < 0 THEN -v ELSE v
  BY <1>2, <1>15 DEF BaseOf, Size
<1>22. fill = Len(T) - (Len(s) + Len(e))
  BY <1>6, <1>14
<1>23. Len(T) = w \/ (Len(T) > w /\ fill = 0 /\ short)
  BY <1>1, <1>4, <1>13, <1>19, <1>22
<1>24. ("zero" \in pad => fill = 0) /\ ("zero" \notin pad => short)
  BY <1>1, <1>4, <1>13, <1>19, <1>22
<1>25. IF "right" \in pad THEN Min(inked) = 1 ELSE Max(inked) = Len(T)
  <2>1. Min(inked) = a + 1 /\ Max(inked) = a + (Len(s) + Len(e))
    BY <1>6, <1>12 DEF inked
  <2> QED BY <1>1, <1>13, <2>1
<1>26. s = IF v < 0 THEN <<Minus>> ELSE IF v > 0 /\ "plus" \in pad THEN <<Plus>> ELSE <<>>
  BY <1>1 DEF SignOf
<1> QED BY <1>16, <1>17, <1>20, <1>21, <1>23, <1>24, <1>25, <1>26 DEF ReadsBack, Inked, inked, body, digits

(* What one of %d, %u, %x and %X prints. *)
NumberText(conv, i, w, P) == printi(i, BaseOf(conv), conv = "d", w, P, LetterOf(conv))

LEMMA NumberTextOf ==
  ASSUME NEW conv \in {"d", "x", "X", "u"}, NEW s, NEW long, s.isLong = long
  PROVE  Text(s, Code[conv]) = NumberText(conv, Head(s.args), s.width, LongPad(s.pad, long))
<1>1. PICK base, sign, letter : base = BaseOf(conv) /\ sign = (conv = "d") /\ letter = LetterOf(conv)
  OBVIOUS
<1>2. NumberText(conv, Head(s.args), s.width, LongPad(s.pad, long))
        = printi(Head(s.args), base, sign, s.width, LongPad(s.pad, long), letter)
  BY <1>1 DEF NumberText
<1>3. /\ Text(s, Code.d) = printi(Head(s.args), 10, TRUE, s.width, LongPad(s.pad, long), 97)
      /\ Text(s, Code.x) = printi(Head(s.args), 16, FALSE, s.width, LongPad(s.pad, long), 97)
      /\ Text(s, Code.X) = printi(Head(s.args), 16, FALSE, s.width, LongPad(s.pad, long), 65)
      /\ Text(s, Code.u) = printi(Head(s.args), 10, FALSE, s.width, LongPad(s.pad, long), 97)
  BY TextCases
<1>4. CASE conv = "d"
  <2>1. base = 10 /\ sign = TRUE /\ letter = 97
    BY <1>1, <1>4 DEF BaseOf, LetterOf
  <2> QED BY <1>2, <1>3, <1>4, <2>1
<1>5. CASE conv = "x"
  <2>1. base = 16 /\ sign = FALSE /\ letter = 97
    BY <1>1, <1>5 DEF BaseOf, LetterOf
  <2> QED BY <1>2, <1>3, <1>5, <2>1
<1>6. CASE conv = "X"
  <2>1. base = 16 /\ sign = FALSE /\ letter = 65
    BY <1>1, <1>6 DEF BaseOf, LetterOf
  <2> QED BY <1>2, <1>3, <1>6, <2>1
<1>7. CASE conv = "u"
  <2>1. base = 10 /\ sign = FALSE /\ letter = 97
    BY <1>1, <1>7 DEF BaseOf, LetterOf
  <2> QED BY <1>2, <1>3, <1>7, <2>1
<1> QED BY <1>4, <1>5, <1>6, <1>7

(* What the conversions of numbers print. *)
LEMMA PrintedNumber ==
  ASSUME NEW conv \in {"d", "x", "X", "u"}, NEW arg, NEW w, NEW pad, NEW long \in BOOLEAN, NEW dw
  PROVE  Printed(Code[conv], arg, w, pad, Flagged(long), dw) = NumberText(conv, arg, w, LongPad(pad, long))
<1>1. PICK s : s = State(<<>>, 0, <<arg>>, 0, w, pad, Flagged(long), Off, dw)
  OBVIOUS
<1>2. s.args = <<arg>> /\ s.pad = pad /\ s.isLong = Flagged(long) /\ s.width = w
  BY <1>1, PartsOfState
<1>3. Head(s.args) = arg /\ s.isLong = long
  BY <1>2, FlaggedIs
<1>4. Printed(Code[conv], arg, w, pad, Flagged(long), dw) = Text(s, Code[conv])
  BY <1>1 DEF Printed
<1>5. Text(s, Code[conv]) = NumberText(conv, Head(s.args), s.width, LongPad(s.pad, long))
  BY <1>3, NumberTextOf
<1> QED BY ONLY <1>2, <1>3, <1>4, <1>5, Zenon

(* The text of a number, as the conversion has it. *)
LEMMA NumberPrinted ==
  ASSUME NEW conv \in {"d", "x", "X", "u"}, NEW l \in BOOLEAN, NEW pad \in Pads, NEW w \in Widths,
         NEW i \in Args(conv, l), NEW T,
         T = printi(i, BaseOf(conv), conv = "d", w, LongPad(pad, l), LetterOf(conv))
  PROVE  T \in Seq(0 .. 255) /\ IsPrinted(T, conv, i, w, pad, l, {}, 0) /\ Code[conv] \in Conversions /\ IsDecimals({})
<1>1. i \in Int /\ w \in Int
  BY ArgsFit, WidthsFit
<1>2. IsBase(BaseOf(conv)) /\ IsLetter(LetterOf(conv))
  BY BasesAndLetters
<1>3. PICK sign, base, letter, P : /\ sign = (conv = "d") /\ base = BaseOf(conv)
                                 /\ letter = LetterOf(conv) /\ P = LongPad(pad, l)
  OBVIOUS
<1>4. T = printi(i, base, sign, w, P, letter)
  BY <1>3
<1>5. T \in Seq(0 .. 255)
  BY <1>1, <1>2, <1>3, <1>4, PrintiText
<1>6. DecOf({}, 0) = 0
  BY DEF DecOf
<1>7. Printed(Code[conv], i, w, pad, Flagged(l), 0) = T
  <2>1. Printed(Code[conv], i, w, pad, Flagged(l), 0) = NumberText(conv, i, w, LongPad(pad, l))
    BY PrintedNumber
  <2> QED BY <2>1 DEF NumberText
<1>8. IsPrinted(T, conv, i, w, pad, l, {}, 0)
  BY <1>6, <1>7 DEF IsPrinted
<1>9. Code[conv] \in Conversions /\ IsDecimals({})
  BY DEF Code, Conversions, IsDecimals
<1> QED BY <1>5, <1>8, <1>9

(* %d, %u, %x and %X print a text that reads back as their argument, with  *)
(* any width and any flags but the zero flag together with `-' or `+'.     *)
THEOREM NumbersReadBack == Spec => []PrintsBack
<1>1. Init => PrintsBack
  BY DEF Init, PrintsBack, none
<1>2. ASSUME NEW conv \in {"d", "x", "X", "u"}, NEW l \in BOOLEAN, NEW pad \in Pads, NEW w \in Widths,
             NEW i \in Args(conv, l), Printf("number", Directive(conv, l, pad, w, {}, i))
      PROVE  PrintsBack'
  <2>1. PICK T : T = printi(i, BaseOf(conv), conv = "d", w, LongPad(pad, l), LetterOf(conv))
    OBVIOUS
  <2>2. T \in Seq(0 .. 255) /\ IsPrinted(T, conv, i, w, pad, l, {}, 0) /\ Code[conv] \in Conversions /\ IsDecimals({})
    BY <2>1, NumberPrinted
  <2>3. w \in Nat
    BY WidthsFit
  <2>4. /\ job' = [kind |-> "number", directive |-> Directive(conv, l, pad, w, {}, i)]
        /\ SubSeq(out', 2, Len(out') - 1) = T
    <3>1. PICK dec, kind : dec = {} /\ kind = "number"
      OBVIOUS
    <3>2. /\ Code[conv] \in Conversions /\ l \in BOOLEAN /\ pad \in Pads /\ w \in Nat /\ IsDecimals(dec)
          /\ Printf(kind, Directive(conv, l, pad, w, dec, i)) /\ T \in Seq(0 .. 255)
          /\ IsPrinted(T, conv, i, w, pad, l, dec, 0)
      BY <1>2, <2>2, <2>3, <3>1
    <3>3. /\ job' = [kind |-> kind, directive |-> Directive(conv, l, pad, w, dec, i)]
          /\ Shows(out', result', T)
      BY ONLY <3>2, PrintfPrints
    <3> QED BY <3>1, <3>3 DEF Shows
  <2>5. OrdinaryFlags(pad) => ReadsBack(T, conv, Value(conv, l, i), w, pad)
    <3> SUFFICES ASSUME OrdinaryFlags(pad)
                 PROVE  ReadsBack(T, conv, Value(conv, l, i), w, pad)
      OBVIOUS
    <3>1. PICK v : v = Value(conv, l, i) /\ v \in Int
      BY ValueStored
    <3>2. PICK a, e : WellPrinted(T, a, SignOf(v, pad), e, conv, v, w, pad)
      BY <2>1, <3>1, PrintiRight
    <3> QED BY <2>3, <3>1, <3>2, WellPrintedReadsBack
  <2>6. /\ job'.kind = "number" /\ job'.directive.arg = i /\ job'.directive.conv = conv /\ job'.directive.long = l
        /\ job'.directive.pad = pad /\ job'.directive.width = w
    BY <2>4 DEF Directive
  <2>7. Inner' = T
    BY <2>4 DEF Inner
  <2>8. Value(conv, l, i) = IF conv = "d" THEN i ELSE i % Power(2, Bits(l))
    BY DEF Value
  <2> QED BY ONLY <2>5, <2>6, <2>7, <2>8, Zenon DEF PrintsBack, ReadsBack
<1>3. PrintsBack /\ [Next]_vars => PrintsBack'
  <2>1. CASE Next
    <3>1. CASE job' = none
      BY <3>1 DEF PrintsBack
    <3>2. CASE job'.kind \in {"double", "string", "char", "unknown", "mixed", "dump"}
      BY <3>2 DEF PrintsBack
    <3> QED BY <2>1, <1>2, <3>1, <3>2, OneCallAtATime
  <2>2. CASE UNCHANGED vars
    <3>1. job' = job /\ out' = out
      BY <2>2 DEF vars
    <3>2. Inner' = Inner
      BY <3>1 DEF Inner
    <3> QED BY ONLY <3>1, <3>2, Zenon DEF PrintsBack
  <2> QED BY <2>1, <2>2
<1> QED BY <1>1, <1>3, PTL DEF Spec

-----------------------------------------------------------------------------
(* Directives do not disturb each other. *)

(* A format that is read alone or with others around it: it takes the      *)
(* arguments args, prints x and counts m, whatever was read and printed    *)
(* before and whatever arguments are left, and leads from dw decimals that *)
(* were left to it to dx that it leaves.                                   *)
IsSeq(r) == \E V : r \in Seq(V)

At(s, o, p, a, dw) == \E w, f, l, q : s = State(o, p, a, 0, w, f, l, q, dw)

Starts(s, o, p, args, rest, dw) ==
  o \in Seq(0 .. 255) /\ p \in Nat /\ IsSeq(rest) /\ At(s, o, p, args \o rest, dw)
Ends(r, o, p, x, m, rest, dw) == At(r, o \o x, p + m, rest, dw)

Apart(f, args, x, m, dw, dx) ==
  /\ f \in Seq(Int) /\ IsSeq(args) /\ x \in Seq(0 .. 255) /\ m \in Nat
  /\ \A s, o, p, rest : Starts(s, o, p, args, rest, dw) => \E r : Ends(r, o, p, x, m, rest, dx) /\ Reads(s, f, r)

LEMMA Wider ==
  ASSUME NEW V, NEW W, NEW t \in Seq(V), \A x \in V : x \in W
  PROVE  t \in Seq(W)
<1>1. \A n \in 1 .. Len(t) : t[n] \in V
  BY ElementOfSeq
<1>2. \A n \in 1 .. Len(t) : t[n] \in W
  BY ONLY <1>1, \A x \in V : x \in W, Zenon
<1> QED BY <1>2, Narrowed

(* Two sequences joined. *)
LEMMA JoinedSeqs ==
  ASSUME NEW a, NEW b, IsSeq(a), IsSeq(b)
  PROVE  IsSeq(a \o b)
<1>1. PICK V : a \in Seq(V)
  BY DEF IsSeq
<1>2. PICK W : b \in Seq(W)
  BY DEF IsSeq
<1>3. PICK U : U = V \cup W
  OBVIOUS
<1>4. a \in Seq(U) /\ b \in Seq(U)
  <2>1. (\A x \in V : x \in U) /\ (\A x \in W : x \in U)
    BY <1>3
  <2> QED BY ONLY <1>1, <1>2, <2>1, Wider
<1>5. a \o b \in Seq(U)
  BY <1>4, ConcatProperties
<1> QED BY <1>5 DEF IsSeq

(* Three sequences joined. *)
LEMMA JoinedThree ==
  ASSUME NEW a, NEW b, NEW c, IsSeq(a), IsSeq(b), IsSeq(c)
  PROVE  (a \o b) \o c = a \o (b \o c)
<1>1. PICK V : a \in Seq(V)
  BY DEF IsSeq
<1>2. PICK W : b \in Seq(W)
  BY DEF IsSeq
<1>3. PICK X : c \in Seq(X)
  BY DEF IsSeq
<1>4. PICK U : U = V \cup W \cup X
  OBVIOUS
<1>5. a \in Seq(U) /\ b \in Seq(U) /\ c \in Seq(U)
  <2>1. (\A x \in V : x \in U) /\ (\A x \in W : x \in U) /\ (\A x \in X : x \in U)
    BY <1>4
  <2> QED BY ONLY <1>1, <1>2, <1>3, <2>1, Wider
<1> QED BY <1>5, ConcatAssociative

(* A sequence joined with the empty one. *)
LEMMA NoneJoined ==
  ASSUME NEW a, IsSeq(a), NEW e, e = <<>>
  PROVE  a \o e = a /\ e \o a = a /\ IsSeq(e)
<1>1. PICK V : a \in Seq(V)
  BY DEF IsSeq
<1>2. e \in Seq(V)
  OBVIOUS
<1> QED BY <1>1, <1>2, ConcatEmptySeq DEF IsSeq

(* Two formats that are apart, one behind the other. *)
LEMMA ApartBoth ==
  ASSUME NEW f, NEW g, NEW a, NEW b, NEW x, NEW y, NEW m, NEW n, NEW dw, NEW dx, NEW dy,
         Apart(f, a, x, m, dw, dx), Apart(g, b, y, n, dx, dy)
  PROVE  Apart(f \o g, a \o b, x \o y, m + n, dw, dy)
<1>1. /\ f \in Seq(Int) /\ IsSeq(a) /\ x \in Seq(0 .. 255) /\ m \in Nat
      /\ g \in Seq(Int) /\ IsSeq(b) /\ y \in Seq(0 .. 255) /\ n \in Nat
  BY DEF Apart
<1>2. \A s, o, p, rest : Starts(s, o, p, a, rest, dw) => \E r : Ends(r, o, p, x, m, rest, dx) /\ Reads(s, f, r)
  BY DEF Apart
<1>3. \A s, o, p, rest : Starts(s, o, p, b, rest, dx) => \E r : Ends(r, o, p, y, n, rest, dy) /\ Reads(s, g, r)
  BY DEF Apart
<1>4. f \o g \in Seq(Int) /\ IsSeq(a \o b) /\ x \o y \in Seq(0 .. 255) /\ m + n \in Nat
  <2>1. IsSeq(a \o b)
    BY ONLY <1>1, JoinedSeqs
  <2>2. f \o g \in Seq(Int) /\ x \o y \in Seq(0 .. 255)
    BY ONLY <1>1, ConcatProperties
  <2> QED BY <1>1, <2>1, <2>2
<1>5. ASSUME NEW s, NEW o, NEW p, NEW rest, Starts(s, o, p, a \o b, rest, dw)
      PROVE  \E r : Ends(r, o, p, x \o y, m + n, rest, dy) /\ Reads(s, f \o g, r)
  <2>1. o \in Seq(0 .. 255) /\ p \in Nat /\ IsSeq(rest) /\ At(s, o, p, (a \o b) \o rest, dw)
    BY <1>5 DEF Starts
  <2>2. PICK z : z = b \o rest
    OBVIOUS
  <2>3. IsSeq(z) /\ (a \o b) \o rest = a \o z
    <3>1. IsSeq(a) /\ IsSeq(b) /\ IsSeq(rest)
      BY <1>1, <2>1
    <3>2. IsSeq(b \o rest)
      BY ONLY <3>1, JoinedSeqs
    <3>3. (a \o b) \o rest = a \o (b \o rest)
      BY ONLY <3>1, JoinedThree
    <3> QED BY ONLY <2>2, <3>2, <3>3, Zenon
  <2>4. At(s, o, p, a \o z, dw)
    BY ONLY <2>1, <2>3, Zenon
  <2>5. Starts(s, o, p, a, z, dw)
    BY ONLY <2>1, <2>3, <2>4, Zenon DEF Starts
  <2>6. PICK r1 : Ends(r1, o, p, x, m, z, dx) /\ Reads(s, f, r1)
    BY ONLY <1>2, <2>5, Zenon
  <2>7. PICK o1, p1 : o1 = o \o x /\ p1 = p + m
    OBVIOUS
  <2>8. o1 \in Seq(0 .. 255) /\ p1 \in Nat
    <3>1. p1 \in Nat
      BY <1>1, <2>1, <2>7
    <3>2. o1 \in Seq(0 .. 255)
      BY ONLY <1>1, <2>1, <2>7, ConcatProperties
    <3> QED BY <3>1, <3>2
  <2>9. At(r1, o1, p1, b \o rest, dx)
    BY ONLY <2>2, <2>6, <2>7, Zenon DEF Ends
  <2>10. Starts(r1, o1, p1, b, rest, dx)
    BY ONLY <2>1, <2>8, <2>9, Zenon DEF Starts
  <2>11. PICK r2 : Ends(r2, o1, p1, y, n, rest, dy) /\ Reads(r1, g, r2)
    BY ONLY <1>3, <2>10, Zenon
  <2>12. o1 \o y = o \o (x \o y) /\ p1 + n = p + (m + n)
    <3>1. p1 + n = p + (m + n)
      BY <1>1, <2>1, <2>7
    <3>2. (o \o x) \o y = o \o (x \o y)
      <4>1. PICK B : B = 0 .. 255
        OBVIOUS
      <4>2. o \in Seq(B) /\ x \in Seq(B) /\ y \in Seq(B)
        BY ONLY <1>1, <2>1, <4>1, Zenon
      <4> QED BY ONLY <4>2, ConcatAssociative
    <3> QED BY ONLY <2>7, <3>1, <3>2, Zenon
  <2>13. Ends(r2, o, p, x \o y, m + n, rest, dy)
    BY ONLY <2>11, <2>12, Zenon DEF Ends
  <2>14. Reads(s, f \o g, r2)
    BY ONLY <1>1, <2>6, <2>11, ReadBoth
  <2> QED BY ONLY <2>13, <2>14, Zenon
<1> QED BY ONLY <1>4, <1>5, Zenon DEF Apart

(* What vprintf() comes to. *)
LEMMA ApartPrints ==
  ASSUME NEW f, NEW a, NEW x, NEW m, NEW dx, Apart(f, a, x, m, 0, dx), NEW rest, IsSeq(rest)
  PROVE  vprintf(f, a \o rest).out = x /\ vprintf(f, a \o rest).pc = m
<1>1. /\ f \in Seq(Int) /\ IsSeq(a) /\ x \in Seq(0 .. 255) /\ m \in Nat
      /\ \A s, o, p, z : Starts(s, o, p, a, z, 0) => \E r : Ends(r, o, p, x, m, z, dx) /\ Reads(s, f, r)
  BY DEF Apart
<1>2. PICK b : b = a \o rest
  OBVIOUS
<1>3. PICK e, z, no, off : e = <<>> /\ z = 0 /\ no = {} /\ off = Off
  OBVIOUS
<1>4. Unread(b) = State(e, z, b, 0, z, no, off, off, z)
  BY <1>3, UnreadState
<1>5. At(Unread(b), e, z, b, z)
  BY <1>4 DEF At
<1>6. e \in Seq(0 .. 255) /\ z \in Nat
  BY <1>3
<1>7. Starts(Unread(b), e, z, a, rest, z)
  BY ONLY IsSeq(rest), <1>2, <1>5, <1>6, Zenon DEF Starts
<1>8. PICK r : Ends(r, e, z, x, m, rest, dx) /\ Reads(Unread(b), f, r)
  BY ONLY <1>1, <1>3, <1>7, Zenon
<1>9. vprintf(f, b) = r
  BY ONLY <1>1, <1>8, VprintfReads
<1>10. e \o x = x /\ z + m = m
  BY <1>1, <1>3, ConcatEmptySeq
<1>11. PICK w, fl, l, q : r = State(x, m, rest, 0, w, fl, l, q, dx)
  <2>1. At(r, x, m, rest, dx)
    BY ONLY <1>8, <1>10, Zenon DEF Ends
  <2> QED BY ONLY <2>1, Zenon DEF At
<1>12. r.out = x /\ r.pc = m
  BY <1>11, PartsOfState
<1> QED BY ONLY <1>2, <1>9, <1>12, Zenon

(* The empty sequence. *)
LEMMA EmptySeqs ==
  ASSUME NEW e, e = <<>>
  PROVE  IsSeq(e) /\ Len(e) = 0
<1>1. e \in Seq({})
  OBVIOUS
<1> QED BY <1>1 DEF IsSeq

(* Ordinary characters are printed. *)
LEMMA PlainApart ==
  ASSUME NEW c \in 0 .. 255, c # Percent, NEW dw
  PROVE  Apart(<<c>>, <<>>, <<c>>, 1, dw, dw)
<1>1. PICK t, e : t = <<c>> /\ e = <<>>
  OBVIOUS
<1>2. t \in Seq(Int) /\ t \in Seq(0 .. 255) /\ Len(t) = 1 /\ c \in Int
  BY <1>1
<1>3. IsSeq(e)
  BY ONLY <1>1, EmptySeqs
<1>4. ASSUME NEW s, NEW o, NEW p, NEW rest, Starts(s, o, p, e, rest, dw)
      PROVE  \E r : Ends(r, o, p, t, 1, rest, dw) /\ Reads(s, t, r)
  <2>1. p \in Nat /\ IsSeq(rest) /\ At(s, o, p, e \o rest, dw)
    BY <1>4 DEF Starts
  <2>2. e \o rest = rest
    BY ONLY <1>1, <2>1, NoneJoined
  <2>3. PICK w, f, l, q : s = State(o, p, rest, 0, w, f, l, q, dw)
    BY ONLY <2>1, <2>2, Zenon DEF At
  <2>4. PICK n : n = p + 1
    OBVIOUS
  <2>5. Counted(n, p, <<c>>)
    BY <1>1, <1>2, <2>4 DEF Counted
  <2>6. Read(State(o, p, rest, 0, w, f, l, q, dw), c) = State(o \o <<c>>, n, rest, 0, w, f, l, q, dw)
    <3>1. c \in Int /\ c # Percent /\ Counted(n, p, <<c>>)
      BY <1>2, <2>5
    <3> QED BY ONLY <3>1, PlainRead
  <2>7. PICK r : r = State(o \o t, n, rest, 0, w, f, l, q, dw)
    OBVIOUS
  <2>8. Reads(s, <<c>>, r)
    <3>1. Read(s, c) = r
      BY ONLY <1>1, <2>3, <2>6, <2>7, Zenon
    <3> QED BY ONLY <3>1, OneRead
  <2>9. At(r, o \o t, n, rest, dw)
    BY ONLY <2>7, Zenon DEF At
  <2>10. Ends(r, o, p, t, 1, rest, dw)
    BY ONLY <2>4, <2>9, Zenon DEF Ends
  <2> QED BY ONLY <1>1, <2>8, <2>10, Zenon
<1>5. 1 \in Nat
  OBVIOUS
<1>6. Apart(t, e, t, 1, dw, dw)
  BY ONLY <1>2, <1>3, <1>4, <1>5, Zenon DEF Apart
<1> QED BY ONLY <1>1, <1>6, Zenon

(* A directive prints the text of its argument. *)
LEMMA DirectiveApart ==
  ASSUME NEW conv, Code[conv] \in Conversions, NEW long \in BOOLEAN, NEW pad \in Pads, NEW w \in Nat,
         NEW dec, IsDecimals(dec), NEW arg, NEW dw,
         NEW T \in Seq(0 .. 255), IsPrinted(T, conv, arg, w, pad, long, dec, dw)
  PROVE  Apart(Spelled(Directive(conv, long, pad, w, dec, arg)), <<arg>>, T, Len(T), dw, DecOf(dec, dw))
<1>1. PICK x, a, m, dx : /\ x = Spelled(Directive(conv, long, pad, w, dec, arg)) /\ a = <<arg>> /\ m = Len(T)
                          /\ dx = DecOf(dec, dw)
  OBVIOUS
<1>2. a \in Seq({arg}) /\ m \in Nat
  BY <1>1
<1>3. IsSeq(a)
  BY <1>2 DEF IsSeq
<1>4. ASSUME NEW s, NEW o, NEW p, NEW rest, Starts(s, o, p, a, rest, dw)
      PROVE  x \in Seq(Int) /\ \E r : Ends(r, o, p, T, m, rest, dx) /\ Reads(s, x, r)
  <2>1. p \in Nat /\ IsSeq(rest) /\ At(s, o, p, a \o rest, dw)
    BY <1>4 DEF Starts
  <2>2. PICK W : rest \in Seq(W)
    BY <2>1 DEF IsSeq
  <2>3. PICK V : V = W \cup {arg}
    OBVIOUS
  <2>4. rest \in Seq(V) /\ arg \in V
    <3>1. (\A y \in W : y \in V) /\ arg \in V
      BY <2>3
    <3> QED BY ONLY <2>2, <3>1, Wider
  <2>5. PICK w0, f0, l0, q0 : s = State(o, p, a \o rest, 0, w0, f0, l0, q0, dw)
    BY ONLY <2>1, Zenon DEF At
  <2>6. PICK o1, p1 : o1 = o \o T /\ p1 = p + m
    OBVIOUS
  <2>7. Prints(o1, p1, o, p, T)
    BY <1>1, <2>6 DEF Prints, Counted
  <2>9. /\ x \in Seq(Int)
        /\ Reads(State(o, p, <<arg>> \o rest, 0, w0, f0, l0, q0, dw), x, Left(o1, p1, rest, long, pad, w, dec, dw))
    <3>1. /\ Code[conv] \in Conversions /\ long \in BOOLEAN /\ pad \in Pads /\ w \in Nat /\ IsDecimals(dec)
      OBVIOUS
    <3>2. /\ Spelled(Directive(conv, long, pad, w, dec, arg)) \in Seq(Int)
          /\ Reads(State(o, p, <<arg>> \o rest, 0, w0, f0, l0, q0, dw),
                   Spelled(Directive(conv, long, pad, w, dec, arg)), Left(o1, p1, rest, long, pad, w, dec, dw))
      BY ONLY <2>4, <2>7, <3>1, IsPrinted(T, conv, arg, w, pad, long, dec, dw), DirectiveReads
    <3> QED BY ONLY <1>1, <3>2, Zenon
  <2>10. PICK r : r = Left(o1, p1, rest, long, pad, w, dec, dw)
    OBVIOUS
  <2>11. Reads(s, x, r)
    BY ONLY <1>1, <2>5, <2>9, <2>10, Zenon
  <2>12. At(r, o1, p1, rest, dx)
    BY ONLY <1>1, <2>10, Zenon DEF At, Left
  <2>13. Ends(r, o, p, T, m, rest, dx)
    BY ONLY <2>6, <2>12, Zenon DEF Ends
  <2> QED BY ONLY <2>9, <2>11, <2>13, Zenon
<1>5. x \in Seq(Int)
  <2>1. PICK s, o, p, rest : o = <<>> /\ p = 0 /\ rest = <<>> /\ s = State(o, p, a \o rest, 0, 0, {}, Off, Off, dw)
    OBVIOUS
  <2>2. o \in Seq(0 .. 255) /\ p \in Nat /\ IsSeq(rest)
    BY <2>1, EmptySeqs
  <2>3. At(s, o, p, a \o rest, dw)
    BY ONLY <2>1, Zenon DEF At
  <2>4. Starts(s, o, p, a, rest, dw)
    BY ONLY <2>2, <2>3, Zenon DEF Starts
  <2> QED BY <1>4, <2>4
<1>6. Apart(x, a, T, m, dw, dx)
  BY ONLY <1>2, <1>3, <1>4, <1>5, T \in Seq(0 .. 255), Zenon DEF Apart
<1> QED BY ONLY <1>1, <1>6, Zenon

(* An unknown conversion is printed with its `%' and not counted. *)
LEMMA UnknownRead ==
  ASSUME NEW o, NEW p, NEW a, NEW st \in 1 .. 5, NEW w, NEW flags, NEW l, NEW post, NEW dw
  PROVE  Read(State(o, p, a, st, w, flags, l, post, dw), Code.q)
           = State(o \o <<Percent, Code.q>>, p, a, 0, w, flags, l, post, dw)
<1> DEFINE s == State(o, p, a, st, w, flags, l, post, dw)
<1>1. PICK c : c = Code.q
  OBVIOUS
<1>2. /\ c \notin 48 .. 57 /\ c # Percent /\ c # Minus /\ c # Plus /\ c # Zero /\ c # Point
      /\ c \notin {Code.t, Code.l} /\ c \notin Conversions
  BY <1>1 DEF Conversions, Code, Percent, Minus, Plus, Zero, Point
<1>3. s.stage = st /\ s.out = o
  BY PartsOfState
<1> HIDE DEF s
<1>4. Read(s, c) = Convert(s, c)
  BY <1>2, <1>3 DEF Read
<1>5. PICK t : t = <<Percent, c>>
  OBVIOUS
<1>6. Convert(s, c) = SetStage(SetOut(s, o \o t), 0)
  BY <1>2, <1>3, <1>5 DEF Convert, SetStage, SetOut
<1>7. SetOut(s, o \o t) = State(o \o t, p, a, st, w, flags, l, post, dw)
  BY OnePart DEF s
<1>8. SetStage(State(o \o t, p, a, st, w, flags, l, post, dw), 0) = State(o \o t, p, a, 0, w, flags, l, post, dw)
  BY OnePart
<1>9. Read(s, c) = State(o \o t, p, a, 0, w, flags, l, post, dw)
  BY ONLY <1>4, <1>6, <1>7, <1>8, Zenon
<1> QED BY ONLY <1>1, <1>5, <1>9, Zenon DEF s

(* An unknown conversion is apart, too; it takes no argument. *)
LEMMA UnknownApart ==
  ASSUME NEW long \in BOOLEAN, NEW pad \in Pads, NEW w \in Nat, NEW dec, IsDecimals(dec), NEW arg, NEW dw
  PROVE  Apart(Spelled(Directive("q", long, pad, w, dec, arg)), <<>>, <<Percent, Code.q>>, 0, dw, DecOf(dec, dw))
<1>1. PICK x, y, e, t, c, n :
         /\ x = Spelled(Directive("q", long, pad, w, dec, arg)) /\ y = Prefix(long, pad, w, dec) /\ e = <<>>
         /\ t = <<Percent, Code.q>> /\ c = Code.q /\ n = DecOf(dec, dw)
  OBVIOUS
<1>2. c \in Int /\ <<c>> \in Seq(Int)
  BY <1>1 DEF Code
<1>3. t \in Seq(0 .. 255) /\ IsSeq(e) /\ 0 \in Nat
  BY <1>1, EmptySeqs DEF Percent, Code
<1>4. x = y \o <<c>>
  BY <1>1, SpelledInParts
<1>5. ASSUME NEW o, NEW p, NEW a, NEW w0, NEW f0, NEW l0, NEW q0
      PROVE  /\ y \in Seq(Int)
             /\ \E z \in 1 .. 5 :
                  Reads(State(o, p, a, 0, w0, f0, l0, q0, dw), y,
                        State(o, p, a, z, w, pad, Flagged(long), PostOf(dec), DecOf(dec, dw)))
  <2>1. long \in BOOLEAN /\ pad \in Pads /\ w \in Nat /\ IsDecimals(dec)
    OBVIOUS
  <2>2. y = Prefix(long, pad, w, dec)
    BY <1>1
  <2> QED BY ONLY <2>1, <2>2, PrefixReads
<1>6. y \in Seq(Int)
  BY <1>5
<1>7. x \in Seq(Int)
  BY ONLY <1>2, <1>4, <1>6, ConcatProperties
<1>8. ASSUME NEW s, NEW o, NEW p, NEW rest, Starts(s, o, p, e, rest, dw)
      PROVE  \E r : Ends(r, o, p, t, 0, rest, n) /\ Reads(s, x, r)
  <2>1. p \in Nat /\ IsSeq(rest) /\ At(s, o, p, e \o rest, dw)
    BY <1>8 DEF Starts
  <2>2. e \o rest = rest
    BY ONLY <1>1, <2>1, NoneJoined
  <2>3. PICK w0, f0, l0, q0 : s = State(o, p, rest, 0, w0, f0, l0, q0, dw)
    BY ONLY <2>1, <2>2, Zenon DEF At
  <2>4. PICK l, q : l = Flagged(long) /\ q = PostOf(dec)
    OBVIOUS
  <2>5. PICK z \in 1 .. 5 : Reads(s, y, State(o, p, rest, z, w, pad, l, q, n))
    BY <1>1, <1>5, <2>3, <2>4
  <2>6. PICK r1, r : r1 = State(o, p, rest, z, w, pad, l, q, n) /\ r = State(o \o t, p, rest, 0, w, pad, l, q, n)
    OBVIOUS
  <2>7. Read(r1, c) = r
    <3>1. Read(State(o, p, rest, z, w, pad, l, q, n), Code.q)
            = State(o \o <<Percent, Code.q>>, p, rest, 0, w, pad, l, q, n)
      BY ONLY z \in 1 .. 5, UnknownRead
    <3> QED BY ONLY <1>1, <2>6, <3>1, Zenon
  <2>8. Reads(r1, <<c>>, r)
    BY ONLY <2>7, OneRead
  <2>9. Reads(s, y \o <<c>>, r)
    <3>1. Reads(s, y, r1)
      BY ONLY <2>5, <2>6, Zenon
    <3> QED BY ONLY <1>2, <1>6, <2>8, <3>1, ReadBoth
  <2>10. p + 0 = p
    BY <2>1
  <2>11. At(r, o \o t, p, rest, n)
    BY ONLY <2>6, Zenon DEF At
  <2>12. Ends(r, o, p, t, 0, rest, n)
    BY ONLY <2>10, <2>11, Zenon DEF Ends
  <2> QED BY ONLY <1>4, <2>9, <2>12, Zenon
<1>9. Apart(x, e, t, 0, dw, n)
  BY ONLY <1>3, <1>7, <1>8, Zenon DEF Apart
<1> QED BY ONLY <1>1, <1>9, Zenon

(* `%%' is a `%'. *)
LEMMA PercentsApart ==
  ASSUME NEW dw
  PROVE  Apart(<<37, 37>>, <<>>, <<37>>, 1, dw, dw)
<1>1. PICK x, t, e, no, l : x = <<37, 37>> /\ t = <<37>> /\ e = <<>> /\ no = {} /\ l = Off
  OBVIOUS
<1>2. x = t \o t /\ x \in Seq(Int) /\ t \in Seq(Int) /\ t \in Seq(0 .. 255) /\ Len(t) = 1 /\ 1 \in Nat
  BY <1>1
<1>3. IsSeq(e)
  BY ONLY <1>1, EmptySeqs
<1>4. ASSUME NEW s, NEW o, NEW p, NEW rest, Starts(s, o, p, e, rest, dw)
      PROVE  \E r : Ends(r, o, p, t, 1, rest, dw) /\ Reads(s, x, r)
  <2>1. p \in Nat /\ IsSeq(rest) /\ At(s, o, p, e \o rest, dw)
    BY <1>4 DEF Starts
  <2>2. e \o rest = rest
    BY ONLY <1>1, <2>1, NoneJoined
  <2>3. PICK w, f, l0, q : s = State(o, p, rest, 0, w, f, l0, q, dw)
    BY ONLY <2>1, <2>2, Zenon DEF At
  <2>4. PICK n : n = p + 1
    OBVIOUS
  <2>5. PICK r1, r : r1 = State(o, p, rest, 1, 0, no, l, l, dw) /\ r = State(o \o t, n, rest, 0, 0, no, l, l, dw)
    OBVIOUS
  <2>6. Read(s, Percent) = r1
    <3>1. Read(State(o, p, rest, 0, w, f, l0, q, dw), Percent) = State(o, p, rest, 1, 0, {}, Off, Off, dw)
      BY PercentRead
    <3> QED BY ONLY <1>1, <2>3, <2>5, <3>1, Zenon
  <2>7. Read(r1, Percent) = r
    <3>1. r1.stage = 1
      BY <2>5, PartsOfState
    <3>2. Read(r1, Percent) = Put(r1, <<Percent>>)
      BY <3>1 DEF Read
    <3>3. <<Percent>> = t
      BY <1>1 DEF Percent
    <3>4. Counted(n, p, t)
      BY <1>2, <2>4 DEF Counted
    <3>5. PICK z, y : z = 1 /\ y = 0
      OBVIOUS
    <3>6. Put(State(o, p, rest, z, y, no, l, l, dw), t) = State(o \o t, n, rest, 0, y, no, l, l, dw)
      BY ONLY <3>4, PutText
    <3> QED BY ONLY <2>5, <3>2, <3>3, <3>5, <3>6, Zenon
  <2>8. Reads(s, <<Percent>>, r1) /\ Reads(r1, <<Percent>>, r)
    BY ONLY <2>6, <2>7, OneRead
  <2>9. <<Percent>> = t
    BY <1>1 DEF Percent
  <2>10. Reads(s, t \o t, r)
    <3>1. Reads(s, t, r1) /\ Reads(r1, t, r) /\ t \in Seq(Int)
      BY ONLY <1>2, <2>8, <2>9, Zenon
    <3> QED BY ONLY <3>1, ReadBoth
  <2>11. At(r, o \o t, n, rest, dw)
    BY ONLY <2>5, Zenon DEF At
  <2>12. Ends(r, o, p, t, 1, rest, dw)
    BY ONLY <2>4, <2>11, Zenon DEF Ends
  <2> QED BY ONLY <1>2, <2>10, <2>12, Zenon
<1>5. Apart(x, e, t, 1, dw, dw)
  BY ONLY <1>2, <1>3, <1>4, Zenon DEF Apart
<1> QED BY ONLY <1>1, <1>5, Zenon

(* `t' does the same as `l'. *)
LEMMA TimeRead ==
  ASSUME NEW o, NEW p, NEW a, NEW st \in 1 .. 4, NEW w, NEW flags, NEW l, NEW post, NEW dw
  PROVE  Read(State(o, p, a, st, w, flags, l, post, dw), Code.t) = State(o, p, a, 5, w, flags, On, post, dw)
<1> DEFINE s == State(o, p, a, st, w, flags, l, post, dw)
<1>1. s.stage = st
  BY PartsOfState
<1>2. SetStage(s, 5) = State(o, p, a, 5, w, flags, l, post, dw)
  BY OnePart
<1> HIDE DEF s
<1>3. Code.t = 116
  BY DEF Code
<1>4. Read(s, Code.t) = SetLong(SetStage(s, 5), On)
  BY <1>1, <1>3 DEF On, Read, Percent, Minus, Plus, Zero, Point, SetLong, SetStage
<1>5. Read(s, Code.t) = State(o, p, a, 5, w, flags, On, post, dw)
  BY <1>2, <1>4, OnePart
<1> QED BY <1>5 DEF s

(* `%00t' asks for a long with zeros, and for no width. *)
LEMMA ShortPrefixReads ==
  ASSUME NEW o, NEW p, NEW a, NEW w0, NEW f0, NEW l0, NEW q0, NEW dw
  PROVE  /\ <<37, 48, 48, 116>> \in Seq(Int)
         /\ Reads(State(o, p, a, 0, w0, f0, l0, q0, dw), <<37, 48, 48, 116>>,
                  State(o, p, a, 5, 0, {"zero"}, On, Off, dw))
<1>1. PICK c1, c2, c3 : c1 = <<Percent>> /\ c2 = <<Zero>> /\ c3 = <<Code.t>>
  OBVIOUS
<1>2. c1 \in Seq(Int) /\ c2 \in Seq(Int) /\ c3 \in Seq(Int)
  BY <1>1 DEF Percent, Zero, Code
<1>30. PICK f1, l : f1 = {} /\ l = Off
  OBVIOUS
<1>31. PICK f2 : f2 = f1 \cup {"zero"}
  OBVIOUS
<1>32. PICK f3 : f3 = f2 \cup {"zero"}
  OBVIOUS
<1>33. PICK s0, s1, s2 :
         /\ s0 = State(o, p, a, 0, w0, f0, l0, q0, dw)
         /\ s1 = State(o, p, a, 1, 0, f1, l, l, dw) /\ s2 = State(o, p, a, 3, 0, f2, l, l, dw)
  BY Zenon
<1>34. PICK s3, s4 : s3 = State(o, p, a, 3, 0, f3, l, l, dw) /\ s4 = State(o, p, a, 5, 0, f3, On, l, dw)
  BY Zenon
<1>3. /\ f1 = {} /\ f2 = f1 \cup {"zero"} /\ f3 = f2 \cup {"zero"} /\ l = Off
      /\ s0 = State(o, p, a, 0, w0, f0, l0, q0, dw)
      /\ s1 = State(o, p, a, 1, 0, f1, l, l, dw) /\ s2 = State(o, p, a, 3, 0, f2, l, l, dw)
      /\ s3 = State(o, p, a, 3, 0, f3, l, l, dw) /\ s4 = State(o, p, a, 5, 0, f3, On, l, dw)
  BY ONLY <1>30, <1>31, <1>32, <1>33, <1>34, Zenon
<1>4. f3 = {"zero"}
  BY <1>3
<1>5. Reads(s0, c1, s1)
  <2>1. Read(s0, Percent) = s1
    <3>1. Read(State(o, p, a, 0, w0, f0, l0, q0, dw), Percent) = State(o, p, a, 1, 0, {}, Off, Off, dw)
      BY PercentRead
    <3> QED BY ONLY <1>3, <3>1, Zenon
  <2> QED BY ONLY <1>1, <2>1, OneRead
<1>6. PICK z1, z3, z : z1 = 1 /\ z3 = 3 /\ z = 0 /\ z1 \in 1 .. 3 /\ z3 \in 1 .. 3 /\ z3 \in 1 .. 4
  OBVIOUS
<1>7. Reads(s1, c2, s2)
  <2>1. Read(State(o, p, a, z1, z, f1, l, l, dw), Zero) = State(o, p, a, 3, z, f1 \cup {"zero"}, l, l, dw)
    BY ONLY <1>6, ZeroRead
  <2>2. Read(s1, Zero) = s2
    BY ONLY <1>3, <1>6, <2>1, Zenon
  <2> QED BY ONLY <1>1, <2>2, OneRead
<1>8. Reads(s2, c2, s3)
  <2>1. Read(State(o, p, a, z3, z, f2, l, l, dw), Zero) = State(o, p, a, 3, z, f2 \cup {"zero"}, l, l, dw)
    BY ONLY <1>6, ZeroRead
  <2>2. Read(s2, Zero) = s3
    BY ONLY <1>3, <1>6, <2>1, Zenon
  <2> QED BY ONLY <1>1, <2>2, OneRead
<1>9. Reads(s3, c3, s4)
  <2>1. Read(State(o, p, a, z3, z, f3, l, l, dw), Code.t) = State(o, p, a, 5, z, f3, On, l, dw)
    BY ONLY <1>6, TimeRead
  <2>2. Read(s3, Code.t) = s4
    BY ONLY <1>3, <1>6, <2>1, Zenon
  <2> QED BY ONLY <1>1, <2>2, OneRead
<1>10. PICK d1, d2, d3 : d1 = c1 \o c2 /\ d2 = d1 \o c2 /\ d3 = d2 \o c3
  OBVIOUS
<1>11. d1 \in Seq(Int) /\ Reads(s0, d1, s2)
  BY ONLY <1>2, <1>5, <1>7, <1>10, ReadBoth, ConcatProperties
<1>12. d2 \in Seq(Int) /\ Reads(s0, d2, s3)
  BY ONLY <1>2, <1>8, <1>10, <1>11, ReadBoth, ConcatProperties
<1>13. d3 \in Seq(Int) /\ Reads(s0, d3, s4)
  BY ONLY <1>2, <1>9, <1>10, <1>12, ReadBoth, ConcatProperties
<1>14. d3 = <<37, 48, 48, 116>>
  <2>1. c1 = <<37>> /\ c2 = <<48>> /\ c3 = <<116>>
    BY ONLY <1>1 DEF Percent, Zero, Code
  <2>2. PICK e2, e3, e4 : e2 = <<37, 48>> /\ e3 = <<37, 48, 48>> /\ e4 = <<37, 48, 48, 116>>
    OBVIOUS
  <2>3. e2 = c1 \o c2
    BY ONLY <2>1, <2>2
  <2>4. e3 = e2 \o c2
    BY ONLY <2>1, <2>2
  <2>5. e4 = e3 \o c3
    BY ONLY <2>1, <2>2
  <2> QED BY ONLY <1>10, <2>2, <2>3, <2>4, <2>5, Zenon
<1> QED BY <1>3, <1>4, <1>13, <1>14

(* `%00tx' prints a long, without a width. *)
LEMMA ShortApart ==
  ASSUME NEW arg, NEW T \in Seq(0 .. 255), T = NumberText("x", arg, 0, LongPad({"zero"}, TRUE)), NEW dw
  PROVE  Apart(<<37, 48, 48, 116, 120>>, <<arg>>, T, Len(T), dw, dw)
<1>1. PICK x, y, a, m, c, no, l, f, V0 :
         /\ x = <<37, 48, 48, 116, 120>> /\ y = <<37, 48, 48, 116>> /\ a = <<arg>> /\ m = Len(T) /\ c = Code.x
         /\ no = Off /\ l = On /\ f = {"zero"} /\ V0 = {arg}
  OBVIOUS
<1>2. a \in Seq(V0) /\ m \in Nat /\ c \in Conversions /\ c = 120
  <2>1. a \in Seq(V0)
    <3>1. <<arg>> \in Seq({arg})
      OBVIOUS
    <3> QED BY ONLY <1>1, <3>1, Zenon
  <2>2. m \in Nat
    BY ONLY <1>1, T \in Seq(0 .. 255), LenProperties
  <2>3. c = 120 /\ c \in Conversions
    BY ONLY <1>1 DEF Conversions, Code
  <2> QED BY <2>1, <2>2, <2>3
<1>3. IsSeq(a)
  BY <1>2 DEF IsSeq
<1>4. y \in Seq(Int) /\ <<c>> \in Seq(Int) /\ x \in Seq(Int) /\ x = y \o <<c>>
  BY <1>1, <1>2
<1>5. ASSUME NEW s, NEW o, NEW p, NEW rest, Starts(s, o, p, a, rest, dw)
      PROVE  \E r : Ends(r, o, p, T, m, rest, dw) /\ Reads(s, x, r)
  <2>1. p \in Nat /\ IsSeq(rest) /\ At(s, o, p, a \o rest, dw)
    BY <1>5 DEF Starts
  <2>2. PICK W : rest \in Seq(W)
    BY <2>1 DEF IsSeq
  <2>3. PICK V : V = W \cup {arg}
    OBVIOUS
  <2>4. rest \in Seq(V) /\ arg \in V
    <3>1. (\A k \in W : k \in V) /\ arg \in V
      BY <2>3
    <3> QED BY ONLY <2>2, <3>1, Wider
  <2>5. PICK b : b = a \o rest
    OBVIOUS
  <2>6. Head(b) = arg /\ Tail(b) = rest
    BY ONLY <1>1, <2>4, <2>5, FirstArgument
  <2>7. PICK w0, f0, l0, q0 : s = State(o, p, b, 0, w0, f0, l0, q0, dw)
    BY ONLY <2>1, <2>5, Zenon DEF At
  <2>8. PICK z, st : z = 0 /\ st = 5 /\ st \in 1 .. 5
    OBVIOUS
  <2>9. Reads(s, y, State(o, p, b, st, z, f, l, no, dw))
    BY ONLY <1>1, <2>7, <2>8, ShortPrefixReads
  <2>10. IsText(T, State(o, p, b, st, z, f, l, no, dw), c)
    <3>1. Text(State(o, p, b, st, z, f, l, no, dw), c) = Printed(c, Head(b), z, f, l, dw)
      BY ONLY TextOf
    <3>2. PICK conv, long : conv = "x" /\ long = TRUE /\ conv \in {"d", "x", "X", "u"} /\ long \in BOOLEAN
      OBVIOUS
    <3>3. Printed(Code[conv], arg, z, f, Flagged(long), dw) = NumberText(conv, arg, z, LongPad(f, long))
      <4>1. conv \in {"d", "x", "X", "u"} /\ long \in BOOLEAN
        BY ONLY <3>2
      <4> QED BY ONLY <4>1, PrintedNumber
    <3>4. Flagged(long) = l /\ Code[conv] = c
      BY <1>1, <3>2 DEF Flagged
    <3>5. NumberText(conv, arg, z, LongPad(f, long)) = T
      BY <1>1, <2>8, <3>2
    <3> QED BY ONLY <2>6, <3>1, <3>3, <3>4, <3>5, Zenon DEF IsText
  <2>11. PICK o1, p1 : o1 = o \o T /\ p1 = p + m
    OBVIOUS
  <2>12. Printing(o1, p1, rest, o, p, b, T)
    BY <1>1, <2>6, <2>11 DEF Printing
  <2>13. PICK r : r = State(o1, p1, rest, 0, z, f, l, no, dw)
    OBVIOUS
  <2>14. Reads(s, y \o <<c>>, r)
    <3>1. Reads(s, y \o <<c>>, State(o1, p1, rest, 0, z, f, l, no, dw))
      BY ONLY <1>2, <1>4, <2>8, <2>9, <2>10, <2>12, ConversionReads
    <3> QED BY ONLY <2>13, <3>1, Zenon
  <2>15. At(r, o1, p1, rest, dw)
    BY ONLY <2>13, Zenon DEF At
  <2>16. Ends(r, o, p, T, m, rest, dw)
    BY ONLY <2>11, <2>15, Zenon DEF Ends
  <2> QED BY ONLY <1>4, <2>14, <2>16, Zenon
<1>6. Apart(x, a, T, m, dw, dw)
  BY ONLY <1>2, <1>3, <1>4, <1>5, T \in Seq(0 .. 255), Zenon DEF Apart
<1> QED BY ONLY <1>1, <1>6, Zenon

-----------------------------------------------------------------------------
(* Formats that count what they print. *)

(* A format that counts every character that it prints; one with a point   *)
(* and decimals dec, or none, that prints the same wherever it stands.     *)
Complete(f, args)   == \A dw : \E x, dx : Apart(f, args, x, Len(x), dw, dx)
Fixed(f, args, dec) == \E x : \A dw : Apart(f, args, x, Len(x), dw, DecOf(dec, dw))

LEMMA FixedCounts ==
  ASSUME NEW f, NEW args, NEW dec, Fixed(f, args, dec)
  PROVE  Complete(f, args)
BY Zenon DEF Complete, Fixed

(* Two such formats, one behind the other. *)
LEMMA CountsBoth ==
  ASSUME NEW f, NEW g, NEW a, NEW b, Complete(f, a), Complete(g, b)
  PROVE  Complete(f \o g, a \o b)
<1>1. ASSUME NEW dw
      PROVE  \E z, dx : Apart(f \o g, a \o b, z, Len(z), dw, dx)
  <2>1. PICK x, dx : Apart(f, a, x, Len(x), dw, dx)
    BY DEF Complete
  <2>2. PICK y, dy : Apart(g, b, y, Len(y), dx, dy)
    BY DEF Complete
  <2>3. x \in Seq(0 .. 255) /\ y \in Seq(0 .. 255)
    BY <2>1, <2>2 DEF Apart
  <2>4. Len(x \o y) = Len(x) + Len(y)
    BY ONLY <2>3, ConcatProperties
  <2>5. Apart(f \o g, a \o b, x \o y, Len(x) + Len(y), dw, dy)
    BY ONLY <2>1, <2>2, ApartBoth
  <2>6. Apart(f \o g, a \o b, x \o y, Len(x \o y), dw, dy)
    BY ONLY <2>4, <2>5, Zenon
  <2> QED BY ONLY <2>6, Zenon
<1> QED BY ONLY <1>1, Zenon DEF Complete

(* What has no point leaves the decimals alone. *)
LEMMA NoPoint ==
  ASSUME NEW dw
  PROVE  DecOf({}, dw) = dw
BY DEF DecOf

(* Plain characters. *)
LEMMA PlainFixed ==
  ASSUME NEW c \in 0 .. 255, c # Percent
  PROVE  Fixed(<<c>>, <<>>, {})
<1>1. PICK x : x = <<c>>
  OBVIOUS
<1>2. 1 = Len(x)
  BY <1>1
<1>3. ASSUME NEW dw
      PROVE  Apart(x, <<>>, x, Len(x), dw, DecOf({}, dw))
  <2>1. Apart(<<c>>, <<>>, <<c>>, 1, dw, dw)
    BY PlainApart
  <2> QED BY ONLY <1>1, <1>2, <2>1, NoPoint, Zenon
<1> QED BY ONLY <1>1, <1>3, Zenon DEF Fixed

LEMMA PlainCounts ==
  ASSUME NEW c \in 0 .. 255, c # Percent
  PROVE  Complete(<<c>>, <<>>)
<1>1. Fixed(<<c>>, <<>>, {})
  BY PlainFixed
<1> QED BY ONLY <1>1, FixedCounts

(* A directive whose text does not depend on the decimals left to it. *)
LEMMA DirectiveFixed ==
  ASSUME NEW conv, Code[conv] \in Conversions, NEW long \in BOOLEAN, NEW pad \in Pads, NEW w \in Nat,
         NEW dec, IsDecimals(dec), NEW arg, NEW T \in Seq(0 .. 255),
         \A dw : IsPrinted(T, conv, arg, w, pad, long, dec, dw)
  PROVE  Fixed(Spelled(Directive(conv, long, pad, w, dec, arg)), <<arg>>, dec)
<1>1. ASSUME NEW dw
      PROVE  Apart(Spelled(Directive(conv, long, pad, w, dec, arg)), <<arg>>, T, Len(T), dw, DecOf(dec, dw))
  <2>1. IsPrinted(T, conv, arg, w, pad, long, dec, dw)
    OBVIOUS
  <2>2. Code[conv] \in Conversions /\ long \in BOOLEAN /\ pad \in Pads /\ w \in Nat /\ IsDecimals(dec) /\ T \in Seq(0 .. 255)
    OBVIOUS
  <2> QED BY ONLY <2>1, <2>2, DirectiveApart
<1> QED BY ONLY <1>1, Zenon DEF Fixed

(* The numbers. *)
LEMMA NumberFixed ==
  ASSUME NEW conv \in {"d", "x", "X", "u"}, NEW l \in BOOLEAN, NEW pad \in Pads, NEW w \in Nat,
         NEW dec, IsDecimals(dec), NEW i \in Int
  PROVE  Fixed(Spelled(Directive(conv, l, pad, w, dec, i)), <<i>>, dec)
<1>1. PICK sign, base, letter, P, T :
         /\ sign = (conv = "d") /\ base = BaseOf(conv) /\ letter = LetterOf(conv) /\ P = LongPad(pad, l)
         /\ T = printi(i, base, sign, w, P, letter)
  OBVIOUS
<1>2. IsBase(base) /\ IsLetter(letter) /\ w \in Int
  BY <1>1, BasesAndLetters
<1>3. T \in Seq(0 .. 255)
  BY <1>1, <1>2, PrintiText
<1>4. ASSUME NEW dw
      PROVE  IsPrinted(T, conv, i, w, pad, l, dec, dw)
  <2>1. PICK n : n = DecOf(dec, dw)
    OBVIOUS
  <2>2. Printed(Code[conv], i, w, pad, Flagged(l), n) = NumberText(conv, i, w, LongPad(pad, l))
    BY PrintedNumber
  <2>3. Printed(Code[conv], i, w, pad, Flagged(l), n) = T
    BY <1>1, <2>2 DEF NumberText
  <2> QED BY <2>1, <2>3 DEF IsPrinted
<1>5. Code[conv] \in Conversions
  BY DEF Code, Conversions
<1>6. l \in BOOLEAN /\ pad \in Pads /\ w \in Nat /\ IsDecimals(dec)
  OBVIOUS
<1> QED BY ONLY <1>3, <1>4, <1>5, <1>6, DirectiveFixed

LEMMA NumberCounts ==
  ASSUME NEW conv \in {"d", "x", "X", "u"}, NEW l \in BOOLEAN, NEW pad \in Pads, NEW w \in Nat, NEW i \in Int
  PROVE  Complete(Spelled(Directive(conv, l, pad, w, {}, i)), <<i>>)
<1>1. IsDecimals({})
  BY DEF IsDecimals
<1>2. Fixed(Spelled(Directive(conv, l, pad, w, {}, i)), <<i>>, {})
  BY <1>1, NumberFixed
<1> QED BY ONLY <1>2, FixedCounts

(* Characters and strings. *)
LEMMA TextFixed ==
  ASSUME NEW conv \in {"c", "s"}, NEW l \in BOOLEAN, NEW pad \in Pads, NEW w \in Nat,
         NEW dec, IsDecimals(dec), NEW arg,
         IF conv = "c" THEN arg \in 0 .. 255 ELSE arg \in Seq(0 .. 255)
  PROVE  Fixed(Spelled(Directive(conv, l, pad, w, dec, arg)), <<arg>>, dec)
<1>1. CharsOf(conv, arg) \in Seq(0 .. 255)
  <2>1. NullText \in Seq(0 .. 255)
    BY DEF NullText
  <2>2. CASE conv = "c"
    <3>1. arg \in 0 .. 255
      BY <2>2
    <3>2. PICK t, e : t = <<arg>> /\ e = <<>>
      OBVIOUS
    <3>3. t \in Seq(0 .. 255) /\ e \in Seq(0 .. 255)
      BY ONLY <3>1, <3>2
    <3>4. CharsOf(conv, arg) = e \/ CharsOf(conv, arg) = t
      BY ONLY <2>2, <3>2 DEF CharsOf
    <3> QED BY ONLY <3>3, <3>4, Zenon
  <2>3. CASE conv = "s"
    <3>1. arg \in Seq(0 .. 255)
      BY <2>3
    <3>2. CharsOf(conv, arg) = NullText \/ CharsOf(conv, arg) = arg
      BY ONLY <2>3 DEF CharsOf
    <3> QED BY ONLY <2>1, <3>1, <3>2, Zenon
  <2> QED BY <2>2, <2>3
<1>2. PICK T : T = prints(CharsOf(conv, arg), w, pad)
  OBVIOUS
<1>3. T \in Seq(0 .. 255)
  BY <1>1, <1>2, PrintsText
<1>4. ASSUME NEW dw
      PROVE  IsPrinted(T, conv, arg, w, pad, l, dec, dw)
  <2>1. PICK n : n = DecOf(dec, dw)
    OBVIOUS
  <2>2. Printed(Code[conv], arg, w, pad, Flagged(l), n) = prints(CharsOf(conv, arg), w, pad)
    BY ONLY conv \in {"c", "s"}, l \in BOOLEAN, PrintedChars
  <2> QED BY <1>2, <2>1, <2>2 DEF IsPrinted
<1>5. Code[conv] \in Conversions
  BY ONLY conv \in {"c", "s"} DEF Code, Conversions
<1>6. l \in BOOLEAN /\ pad \in Pads /\ w \in Nat /\ IsDecimals(dec)
  OBVIOUS
<1> QED BY ONLY <1>3, <1>4, <1>5, <1>6, DirectiveFixed

LEMMA TextCounts ==
  ASSUME NEW conv \in {"c", "s"}, NEW pad \in Pads, NEW w \in Nat, NEW arg,
         IF conv = "c" THEN arg \in 0 .. 255 ELSE arg \in Seq(0 .. 255)
  PROVE  Complete(Spelled(Directive(conv, FALSE, pad, w, {}, arg)), <<arg>>)
<1>1. PICK l, dec : l = FALSE /\ dec = {} /\ l \in BOOLEAN
  OBVIOUS
<1>2. IsDecimals(dec)
  BY <1>1 DEF IsDecimals
<1>3. Fixed(Spelled(Directive(conv, l, pad, w, dec, arg)), <<arg>>, dec)
  BY <1>1, <1>2, TextFixed
<1>4. Complete(Spelled(Directive(conv, l, pad, w, dec, arg)), <<arg>>)
  BY ONLY <1>3, FixedCounts
<1> QED BY ONLY <1>1, <1>4, Zenon

(* Doubles with a point. *)
LEMMA DoubleFixed ==
  ASSUME NEW l \in BOOLEAN, NEW pad \in Pads, NEW w \in Nat, NEW d \in Nat, NEW dbl \in Int
  PROVE  Fixed(Spelled(Directive("f", l, pad, w, {d}, dbl)), <<dbl>>, {d})
<1>1. PICK dec, conv : dec = {d} /\ conv = "f"
  OBVIOUS
<1>2. PICK T : T = dbl2stri(dbl, w, d, pad)
  OBVIOUS
<1>3. T \in Seq(0 .. 255)
  BY <1>2, DoubleText
<1>4. ASSUME NEW dw
      PROVE  IsPrinted(T, conv, dbl, w, pad, l, dec, dw)
  <2>1. DecOf(dec, dw) = d
    BY <1>1 DEF DecOf
  <2>2. Printed(Code.f, dbl, w, pad, Flagged(l), d) = dbl2stri(dbl, w, d, pad)
    BY PrintedDouble
  <2> QED BY <1>1, <1>2, <2>1, <2>2 DEF IsPrinted
<1>5. Code[conv] \in Conversions /\ IsDecimals(dec)
  BY <1>1 DEF Code, Conversions, IsDecimals
<1>6. l \in BOOLEAN /\ pad \in Pads /\ w \in Nat
  OBVIOUS
<1>7. Fixed(Spelled(Directive(conv, l, pad, w, dec, dbl)), <<dbl>>, dec)
  BY ONLY <1>3, <1>4, <1>5, <1>6, DirectiveFixed
<1> QED BY ONLY <1>1, <1>7, Zenon

LEMMA DoubleCounts ==
  ASSUME NEW pad \in Pads, NEW w \in Nat, NEW d \in Nat, NEW dbl \in Int
  PROVE  Complete(Spelled(Directive("f", FALSE, pad, w, {d}, dbl)), <<dbl>>)
<1>1. PICK l, dec : l = FALSE /\ dec = {d} /\ l \in BOOLEAN
  OBVIOUS
<1>2. Fixed(Spelled(Directive("f", l, pad, w, {d}, dbl)), <<dbl>>, {d})
  BY <1>1, DoubleFixed
<1>3. Complete(Spelled(Directive("f", l, pad, w, {d}, dbl)), <<dbl>>)
  BY ONLY <1>2, FixedCounts
<1> QED BY ONLY <1>1, <1>3, Zenon

(* The digits up to 9, as a width. *)
LEMMA DigitText ==
  ASSUME NEW d \in 1 .. 9
  PROVE  WidthText(d) = <<48 + d>>
<1>1. IsBase(10) /\ IsLetter(97) /\ d \in Nat /\ d > 0
  BY DEF IsBase, IsLetter
<1>2. Higher(d, 10) = 0 /\ Lowest(d, 10) = d
  BY DEF Higher, Lowest
<1>3. Digits(d, 10, 97) = Append(Digits(Higher(d, 10), 10, 97), DigitChar(Lowest(d, 10), 97))
  BY <1>1, DigitsUp
<1>4. Digits(0, 10, 97) = <<>>
  BY <1>1, DigitsUp
<1>5. DigitChar(d, 97) = 48 + d
  BY DEF DigitChar, Zero
<1>6. Digits(d, 10, 97) = Append(<<>>, 48 + d)
  BY ONLY <1>2, <1>3, <1>4, <1>5, Zenon
<1>7. Append(<<>>, 48 + d) = <<48 + d>>
  OBVIOUS
<1> QED BY <1>6, <1>7 DEF WidthText, Numeral

(* `%00tx' *)
LEMMA ShortFixed ==
  ASSUME NEW i \in Int
  PROVE  Fixed(<<37, 48, 48, 116, 120>>, <<i>>, {})
<1>1. PICK T : T = NumberText("x", i, 0, LongPad({"zero"}, TRUE))
  OBVIOUS
<1>2. T \in Seq(0 .. 255)
  <2>1. PICK conv, sign, base, letter, P :
          /\ conv = "x" /\ sign = (conv = "d") /\ base = BaseOf(conv) /\ letter = LetterOf(conv)
          /\ P = LongPad({"zero"}, TRUE)
    OBVIOUS
  <2>2. T = printi(i, base, sign, 0, P, letter)
    BY <1>1, <2>1 DEF NumberText
  <2>3. IsBase(base) /\ IsLetter(letter) /\ 0 \in Int
    BY <2>1, BasesAndLetters
  <2> QED BY <2>2, <2>3, PrintiText
<1>3. PICK f, a, no : f = <<37, 48, 48, 116, 120>> /\ a = <<i>> /\ no = {}
  OBVIOUS
<1>4. ASSUME NEW dw
      PROVE  Apart(f, a, T, Len(T), dw, DecOf(no, dw))
  <2>1. Apart(<<37, 48, 48, 116, 120>>, <<i>>, T, Len(T), dw, dw)
    BY <1>1, <1>2, ShortApart
  <2> QED BY ONLY <1>3, <2>1, NoPoint, Zenon
<1>5. Fixed(f, a, no)
  BY ONLY <1>4, Zenon DEF Fixed
<1> QED BY ONLY <1>3, <1>5, Zenon

(* `%%' *)
LEMMA PercentsFixed == Fixed(<<37, 37>>, <<>>, {})
<1>1. PICK f, e, t, no : f = <<37, 37>> /\ e = <<>> /\ t = <<37>> /\ no = {}
  OBVIOUS
<1>2. Len(t) = 1
  BY <1>1
<1>3. ASSUME NEW dw
      PROVE  Apart(f, e, t, Len(t), dw, DecOf(no, dw))
  <2>1. Apart(<<37, 37>>, <<>>, <<37>>, 1, dw, dw)
    BY PercentsApart
  <2> QED BY ONLY <1>1, <1>2, <2>1, NoPoint, Zenon
<1>4. Fixed(f, e, no)
  BY ONLY <1>3, Zenon DEF Fixed
<1> QED BY ONLY <1>1, <1>4, Zenon

-----------------------------------------------------------------------------
(* Many parts. *)

(* A double is a whole number of parts. *)
LEMMA DoublesAreInts == Doubles \subseteq Int
<1>1. Parts \in Int /\ IntBits - 1 \in Nat
  BY PartsAssumption, BitsAssumption
<1>2. Most(FALSE) \in Int
  <2>1. Bits(FALSE) = IntBits
    BY DEF Bits
  <2>2. Most(FALSE) = Power(2, IntBits - 1) - 1
    BY <2>1 DEF Most
  <2>3. PICK p : p = Power(2, IntBits - 1)
    OBVIOUS
  <2>4. p \in Nat
    BY <1>1, <2>3, PowersOfTwo
  <2>5. Most(FALSE) = p - 1
    BY ONLY <2>2, <2>3, Zenon
  <2>6. p - 1 \in Int
    BY ONLY <2>4
  <2> QED BY ONLY <2>5, <2>6, Zenon
<1>3. PICK m : m = Most(FALSE)
  OBVIOUS
<1>4. Doubles = {w * Parts + p : w \in {-100, -10, -2, -1, 0, 1, 9, 10, m}, p \in 0 .. Parts - 1}
  BY <1>3 DEF Doubles
<1>5. \A w \in {-100, -10, -2, -1, 0, 1, 9, 10, m}, p \in 0 .. Parts - 1 : w * Parts + p \in Int
  <2>1. \A w \in {-100, -10, -2, -1, 0, 1, 9, 10, m} : w \in Int
    BY <1>2, <1>3
  <2>2. \A w, n, p \in Int : w * n + p \in Int
    OBVIOUS
  <2> QED BY <1>1, <2>1, <2>2
<1> QED BY <1>4, <1>5

(* A string is bytes. *)
LEMMA StringsAreBytes == Strings \subseteq Seq(0 .. 255)
<1>1. PICK t1, t2, t3, t4 : t1 = <<0>> /\ t2 = <<>> /\ t3 = <<97>> /\ t4 = <<97, 98, 99>>
  OBVIOUS
<1>2. t1 \in Seq(0 .. 255) /\ t2 \in Seq(0 .. 255) /\ t3 \in Seq(0 .. 255) /\ t4 \in Seq(0 .. 255)
  BY ONLY <1>1
<1>3. Strings = {t1, t2, t3, t4}
  BY ONLY <1>1, Zenon DEF Strings, NullPointer
<1> QED BY ONLY <1>2, <1>3

IsPart(e) == IF e.conv = "other" THEN e \in Others ELSE IsDirective(e)

(* A part as it is alone, if dw decimals are left to it; that it prints    *)
(* the same as that one, and leaves its own decimals if it has a point.    *)
Given(e, dw) == IF e.conv = "f" /\ e.dec = {} THEN [e EXCEPT !.dec = {dw}] ELSE e

Same(f, a, dec, g, b, dw) ==
  \E x, m, dz : Apart(f, a, x, m, dw, DecOf(dec, dw)) /\ Apart(g, b, x, m, 0, dz)
Keeps(e, dw) ==
  Same(FormatOf(e), ArgsOf(e), e.dec, FormatOf(Given(e, dw)), ArgsOf(Given(e, dw)), dw)

(* What prints the same wherever it stands. *)
LEMMA FixedSame ==
  ASSUME NEW f, NEW a, NEW dec, Fixed(f, a, dec), NEW dw
  PROVE  Same(f, a, dec, f, a, dw)
<1>1. PICK x : \A n : Apart(f, a, x, Len(x), n, DecOf(dec, n))
  BY DEF Fixed
<1>2. Apart(f, a, x, Len(x), dw, DecOf(dec, dw)) /\ Apart(f, a, x, Len(x), 0, DecOf(dec, 0))
  BY ONLY <1>1, Zenon
<1> QED BY ONLY <1>2, Zenon DEF Same

(* A plain character, `%%' or `%00tx'. *)
LEMMA OtherKeeps ==
  ASSUME NEW e \in Others, NEW dw
  PROVE  Keeps(e, dw) /\ e.dec = {}
<1>1. PICK f, a : e = Other(f, a) /\ Fixed(f, a, {})
  <2>1. CASE e \in {Other(<<c>>, <<>>) : c \in 1 .. 255 \ {Percent}}
    <3>1. PICK c \in 1 .. 255 \ {Percent} : e = Other(<<c>>, <<>>)
      BY <2>1
    <3>2. c \in 0 .. 255 /\ c # Percent
      BY <3>1
    <3>3. Fixed(<<c>>, <<>>, {})
      BY ONLY <3>2, PlainFixed
    <3> QED BY ONLY <3>1, <3>3, Zenon
  <2>2. CASE e = Other(<<Percent, Percent>>, <<>>)
    <3>1. Percent = 37
      BY DEF Percent
    <3> QED BY ONLY <2>2, <3>1, PercentsFixed, Zenon
  <2>3. CASE e \in {Other(<<37, 48, 48, 116, 120>>, <<i>>) : i \in Args("x", TRUE)}
    <3>1. PICK i \in Args("x", TRUE) : e = Other(<<37, 48, 48, 116, 120>>, <<i>>)
      BY <2>3
    <3>2. i \in Int
      <4>1. PICK conv, l : conv = "x" /\ l = TRUE /\ l \in BOOLEAN
        OBVIOUS
      <4>2. i \in Args(conv, l)
        BY <4>1
      <4> QED BY ONLY <4>1, <4>2, ArgsFit
    <3>3. Fixed(<<37, 48, 48, 116, 120>>, <<i>>, {})
      BY ONLY <3>2, ShortFixed
    <3> QED BY ONLY <3>1, <3>3, Zenon
  <2> QED BY <2>1, <2>2, <2>3 DEF Others
<1>2. PICK no : no = {}
  OBVIOUS
<1>3. e.conv = "other" /\ e.dec = no /\ e.format = f /\ e.args = a
  BY ONLY <1>1, <1>2 DEF Other
<1>4. Given(e, dw) = e
  BY <1>3 DEF Given
<1>5. FormatOf(e) = f /\ ArgsOf(e) = a
  BY ONLY <1>3, Zenon DEF FormatOf, ArgsOf
<1>6. Same(f, a, no, f, a, dw)
  BY ONLY <1>1, <1>2, FixedSame, Zenon
<1>7. Keeps(e, dw)
  BY ONLY <1>3, <1>4, <1>5, <1>6, Zenon DEF Keeps
<1> QED BY ONLY <1>2, <1>3, <1>7, Zenon

(* A directive that takes an argument. *)
LEMMA ReadFormat ==
  ASSUME NEW e, NEW conv, NEW l, NEW pad, NEW w, NEW dec, NEW arg, e = Directive(conv, l, pad, w, dec, arg)
  PROVE  /\ e.conv = conv /\ e.dec = dec
         /\ conv \notin {"other", "q"} => FormatOf(e) = Spelled(e) /\ ArgsOf(e) = <<arg>>
         /\ conv = "q" => FormatOf(e) = Spelled(e) /\ ArgsOf(e) = <<>>
<1>1. e.conv = conv /\ e.dec = dec /\ e.arg = arg
  BY DEF Directive
<1>2. conv = "q" => conv # "other"
  OBVIOUS
<1>3. conv \notin {"other", "q"} => conv # "other" /\ conv # "q"
  OBVIOUS
<1>4. conv # "other" => FormatOf(e) = Spelled(e)
  BY ONLY <1>1, Zenon DEF FormatOf
<1>5. conv # "other" /\ conv # "q" => ArgsOf(e) = <<arg>>
  BY ONLY <1>1, Zenon DEF ArgsOf
<1>6. conv # "other" /\ conv = "q" => ArgsOf(e) = <<>>
  BY ONLY <1>1, Zenon DEF ArgsOf
<1> QED BY ONLY <1>1, <1>2, <1>3, <1>4, <1>5, <1>6, Zenon

LEMMA FixedKeeps ==
  ASSUME NEW e, NEW conv, NEW l, NEW pad, NEW w, NEW dec, NEW arg, e = Directive(conv, l, pad, w, dec, arg),
         conv \notin {"other", "q"}, conv # "f" \/ dec # {}, Fixed(Spelled(e), <<arg>>, dec), NEW dw
  PROVE  Keeps(e, dw)
<1>1. e.conv = conv /\ e.dec = dec /\ FormatOf(e) = Spelled(e) /\ ArgsOf(e) = <<arg>>
  BY ReadFormat
<1>2. Given(e, dw) = e
  BY <1>1 DEF Given
<1>3. Same(Spelled(e), <<arg>>, dec, Spelled(e), <<arg>>, dw)
  BY ONLY Fixed(Spelled(e), <<arg>>, dec), FixedSame
<1> QED BY ONLY <1>1, <1>2, <1>3, Zenon DEF Keeps

(* An unknown conversion. *)
LEMMA UnknownKeeps ==
  ASSUME NEW e, NEW l \in BOOLEAN, NEW pad \in Pads, NEW w \in Nat, NEW dec, IsDecimals(dec), NEW arg,
         e = Directive("q", l, pad, w, dec, arg), NEW dw
  PROVE  Keeps(e, dw)
<1>1. PICK conv, no, x : conv = "q" /\ no = <<>> /\ x = <<Percent, Code.q>>
  OBVIOUS
<1>2. e.conv = conv /\ e.dec = dec /\ FormatOf(e) = Spelled(e) /\ ArgsOf(e) = no
  <2>1. e = Directive(conv, l, pad, w, dec, arg)
    BY <1>1
  <2> QED BY ONLY <1>1, <2>1, ReadFormat
<1>3. Given(e, dw) = e
  BY <1>1, <1>2 DEF Given
<1>4. ASSUME NEW n
      PROVE  Apart(Spelled(e), no, x, 0, n, DecOf(dec, n))
  <2>1. l \in BOOLEAN /\ pad \in Pads /\ w \in Nat /\ IsDecimals(dec)
    OBVIOUS
  <2>2. Apart(Spelled(Directive("q", l, pad, w, dec, arg)), <<>>, <<Percent, Code.q>>, 0, n, DecOf(dec, n))
    BY ONLY <2>1, UnknownApart
  <2> QED BY ONLY <1>1, <2>2, e = Directive("q", l, pad, w, dec, arg), Zenon
<1>5. Apart(Spelled(e), no, x, 0, dw, DecOf(dec, dw)) /\ Apart(Spelled(e), no, x, 0, 0, DecOf(dec, 0))
  BY ONLY <1>4
<1>6. Same(Spelled(e), no, dec, Spelled(e), no, dw)
  BY ONLY <1>5, Zenon DEF Same
<1> QED BY ONLY <1>2, <1>3, <1>6, Zenon DEF Keeps

(* %f without a point: it prints the decimals that are left to it. *)
LEMMA PointlessKeeps ==
  ASSUME NEW e, NEW l \in BOOLEAN, NEW pad \in Pads, NEW w \in Nat, NEW arg \in Int,
         e = Directive("f", l, pad, w, {}, arg), NEW dw \in Nat
  PROVE  Keeps(e, dw)
<1>1. PICK conv, no, dec, T : conv = "f" /\ no = {} /\ dec = {dw} /\ T = dbl2stri(arg, w, dw, pad)
  OBVIOUS
<1>2. T \in Seq(0 .. 255)
  <2>1. w \in Int
    OBVIOUS
  <2> QED BY <1>1, <2>1, DoubleText
<1>3. Code[conv] \in Conversions /\ IsDecimals(no) /\ IsDecimals(dec) /\ l \in BOOLEAN /\ pad \in Pads /\ w \in Nat
  BY <1>1 DEF Code, Conversions, IsDecimals
<1>4. DecOf(no, dw) = dw /\ DecOf(dec, 0) = dw
  BY <1>1 DEF DecOf
<1>5. Printed(Code[conv], arg, w, pad, Flagged(l), dw) = T
  <2>1. Printed(Code.f, arg, w, pad, Flagged(l), dw) = dbl2stri(arg, w, dw, pad)
    BY PrintedDouble
  <2>2. Code[conv] = Code.f
    BY <1>1
  <2> QED BY ONLY <1>1, <2>1, <2>2, Zenon
<1>6. IsPrinted(T, conv, arg, w, pad, l, no, dw) /\ IsPrinted(T, conv, arg, w, pad, l, dec, 0)
  BY ONLY <1>4, <1>5, Zenon DEF IsPrinted
<1>7. PICK d : d = Directive(conv, l, pad, w, dec, arg)
  OBVIOUS
<1>8. Apart(Spelled(Directive(conv, l, pad, w, no, arg)), <<arg>>, T, Len(T), dw, DecOf(no, dw))
  BY ONLY <1>2, <1>3, <1>6, DirectiveApart
<1>9. Apart(Spelled(Directive(conv, l, pad, w, dec, arg)), <<arg>>, T, Len(T), 0, DecOf(dec, 0))
  BY ONLY <1>2, <1>3, <1>6, DirectiveApart
<1>10. e = Directive(conv, l, pad, w, no, arg)
  BY <1>1
<1>11. Given(e, dw) = d
  <2>1. e.conv = "f" /\ e.dec = {}
    BY <1>1, <1>10 DEF Directive
  <2>2. [e EXCEPT !.dec = {dw}] = d
    BY <1>1, <1>7, <1>10 DEF Directive
  <2> QED BY ONLY <2>1, <2>2, Zenon DEF Given
<1>12. conv \notin {"other", "q"}
  BY <1>1
<1>13. e.dec = no /\ FormatOf(e) = Spelled(e) /\ ArgsOf(e) = <<arg>>
  BY ONLY <1>10, <1>12, ReadFormat
<1>14. FormatOf(d) = Spelled(d) /\ ArgsOf(d) = <<arg>>
  BY ONLY <1>7, <1>12, ReadFormat
<1>15. Same(Spelled(e), <<arg>>, no, Spelled(d), <<arg>>, dw)
  BY ONLY <1>7, <1>8, <1>9, <1>10, Zenon DEF Same
<1> QED BY ONLY <1>11, <1>13, <1>14, <1>15, Zenon DEF Keeps

(* Every part. *)
LEMMA PartKeeps ==
  ASSUME NEW e, IsPart(e), NEW dw \in Nat
  PROVE  Keeps(e, dw) /\ IsDecimals(e.dec)
<1>1. CASE e.conv = "other"
  <2>1. e \in Others
    BY <1>1 DEF IsPart
  <2>2. Keeps(e, dw) /\ e.dec = {}
    BY ONLY <2>1, OtherKeeps
  <2> QED BY ONLY <2>2, Zenon DEF IsDecimals
<1>2. CASE e.conv # "other"
  <2>1. PICK conv, l, pad, w, dec, arg :
          conv = e.conv /\ l = e.long /\ pad = e.pad /\ w = e.width /\ dec = e.dec /\ arg = e.arg
    OBVIOUS
  <2>2. /\ e = Directive(conv, l, pad, w, dec, arg) /\ l \in BOOLEAN /\ pad \in Pads /\ w \in Widths
        /\ dec = {} \/ \E d \in Decimals : dec = {d}
        /\ \/ conv \in {"d", "x", "X", "u"} /\ arg \in Args(conv, l)
           \/ conv = "f" /\ arg \in Doubles
           \/ conv = "s" /\ arg \in Strings
           \/ conv = "c" /\ arg \in 0 .. 255
           \/ conv = "q"
    <3>1. IsDirective(e)
      BY <1>2 DEF IsPart
    <3> QED BY ONLY <2>1, <3>1, Zenon DEF IsDirective
  <2>3. w \in Nat
    BY ONLY <2>2, WidthsFit
  <2>4. IsDecimals(dec)
    <3>1. Decimals \subseteq Nat
      BY WidthsAssumption
    <3> QED BY ONLY <2>2, <3>1 DEF IsDecimals
  <2>5. ASSUME conv \in {"d", "x", "X", "u"} /\ arg \in Args(conv, l)
       PROVE  Keeps(e, dw)
    <3>1. arg \in Int
      BY ONLY <2>2, <2>5, ArgsFit
    <3>2. Fixed(Spelled(Directive(conv, l, pad, w, dec, arg)), <<arg>>, dec)
      BY ONLY <2>2, <2>3, <2>4, <2>5, <3>1, NumberFixed
    <3>3. Fixed(Spelled(e), <<arg>>, dec)
      BY ONLY <2>2, <3>2, Zenon
    <3>4. conv \notin {"other", "q"} /\ conv # "f"
      BY <2>5
    <3> QED BY ONLY <2>2, <3>3, <3>4, FixedKeeps
  <2>6. ASSUME conv = "f" /\ arg \in Doubles
       PROVE  Keeps(e, dw)
    <3>1. arg \in Int
      BY <2>6, DoublesAreInts
    <3>2. CASE dec = {}
      <4>1. e = Directive("f", l, pad, w, {}, arg)
        BY ONLY <2>2, <2>6, <3>2, Zenon
      <4> QED BY ONLY <2>2, <2>3, <3>1, <4>1, dw \in Nat, PointlessKeeps
    <3>3. ASSUME NEW d \in Decimals, dec = {d}
          PROVE  Keeps(e, dw)
      <4>1. d \in Nat
        BY WidthsAssumption
      <4>2. Fixed(Spelled(Directive("f", l, pad, w, {d}, arg)), <<arg>>, {d})
        BY ONLY <2>2, <2>3, <3>1, <4>1, DoubleFixed
      <4>3. Fixed(Spelled(e), <<arg>>, dec)
        BY ONLY <2>2, <2>6, <3>3, <4>2, Zenon
      <4>4. conv \notin {"other", "q"} /\ dec # {}
        BY <2>6, <3>3
      <4> QED BY ONLY <2>2, <4>3, <4>4, FixedKeeps
    <3> QED BY ONLY <2>2, <3>2, <3>3, Zenon
  <2>7. ASSUME (conv = "s" /\ arg \in Strings) \/ (conv = "c" /\ arg \in 0 .. 255)
       PROVE  Keeps(e, dw)
    <3>1. conv \in {"c", "s"}
      BY <2>7
    <3>2. IF conv = "c" THEN arg \in 0 .. 255 ELSE arg \in Seq(0 .. 255)
      <4>1. CASE conv = "s" /\ arg \in Strings
        <5>1. arg \in Seq(0 .. 255)
          BY ONLY <4>1, StringsAreBytes
        <5>2. conv # "c"
          BY <4>1
        <5> QED BY ONLY <5>1, <5>2, Zenon
      <4>2. CASE conv = "c" /\ arg \in 0 .. 255
        BY ONLY <4>2, Zenon
      <4> QED BY ONLY <2>7, <4>1, <4>2, Zenon
    <3>3. Fixed(Spelled(Directive(conv, l, pad, w, dec, arg)), <<arg>>, dec)
      BY ONLY <2>2, <2>3, <2>4, <3>1, <3>2, TextFixed
    <3>4. Fixed(Spelled(e), <<arg>>, dec)
      BY ONLY <2>2, <3>3, Zenon
    <3>5. conv \notin {"other", "q"} /\ conv # "f"
      BY <3>1
    <3> QED BY ONLY <2>2, <3>4, <3>5, FixedKeeps
  <2>8. ASSUME conv = "q"
       PROVE  Keeps(e, dw)
    <3>1. e = Directive("q", l, pad, w, dec, arg)
      BY ONLY <2>2, <2>8, Zenon
    <3> QED BY ONLY <2>2, <2>3, <2>4, <3>1, UnknownKeeps
  <2>9. Keeps(e, dw)
    BY ONLY <2>2, <2>5, <2>6, <2>7, <2>8, Zenon
  <2> QED BY ONLY <2>1, <2>4, <2>9, Zenon
<1> QED BY <1>1, <1>2

(* The decimals that are left to the part behind. *)
LEMMA DecimalsStep ==
  ASSUME NEW parts, NEW n \in Nat, n > 0
  PROVE  DecimalsBefore(parts, n + 1)
           = IF parts[n].dec = {} THEN DecimalsBefore(parts, n) ELSE parts[n].dec
<1>1. PICK P, Q : /\ P = {k \in 1 .. (n + 1) - 1 : parts[k].dec # {}}
                  /\ Q = {k \in 1 .. n - 1 : parts[k].dec # {}}
  OBVIOUS
<1>2. /\ DecimalsBefore(parts, n + 1) = IF P = {} THEN {0} ELSE parts[Max(P)].dec
      /\ DecimalsBefore(parts, n) = IF Q = {} THEN {0} ELSE parts[Max(Q)].dec
  BY ONLY <1>1, Zenon DEF DecimalsBefore
<1>3. CASE parts[n].dec = {}
  <2>1. P = Q
    BY ONLY <1>1, <1>3, n \in Nat, n > 0
  <2> QED BY ONLY <1>2, <1>3, <2>1, Zenon
<1>4. CASE parts[n].dec # {}
  <2>1. n \in P /\ \A k \in P : k \in Int /\ n >= k
    BY ONLY <1>1, <1>4, n \in Nat, n > 0
  <2>2. \A x \in P : (\A y \in P : x >= y) => x = n
    BY ONLY <2>1, n \in Nat
  <2>3. Max(P) = n
    BY ONLY <2>1, <2>2 DEF Max
  <2>4. P # {}
    BY <2>1
  <2> QED BY ONLY <1>2, <1>4, <2>3, <2>4, Zenon
<1> QED BY <1>3, <1>4

(* What several sequences come to, one behind the other. *)
Flattening(f, q) == f = [i \in 1 .. Len(q) |-> IF i = 1 THEN q[i] ELSE f[i - 1] \o q[i]]

LEMMA FlattenSeqIs ==
  ASSUME NEW q, Len(q) # 0
  PROVE  FlattenSeq(q) = (CHOOSE f : Flattening(f, q))[Len(q)]
BY DEF FlattenSeq, Flattening

Flattened(h, q, N) == h[0] = <<>> /\ h[N] = FlattenSeq(q) /\ \A n \in 1 .. N : h[n] = h[n - 1] \o q[n]

LEMMA FlattenUp ==
  ASSUME NEW W, NEW q, q \in Seq(Seq(W)), NEW N, N = Len(q)
  PROVE  \E h : Flattened(h, q, N)
<1>1. N \in Nat /\ \A n \in 1 .. N : q[n] \in Seq(W)
  BY ElementOfSeq
<1>2. PICK e, X : e = <<>> /\ X = Seq(W)
  OBVIOUS
<1>3. e \in X
  BY <1>2
<1>4. CASE N = 0
  <2>1. FlattenSeq(q) = q
    BY <1>4 DEF FlattenSeq
  <2>2. q = <<>>
    <3>1. PICK V : V = Seq(W)
      OBVIOUS
    <3>2. q \in Seq(V) /\ Len(q) = 0
      BY <1>4, <3>1
    <3> QED BY ONLY <3>2, EmptySeq
  <2>3. PICK h : h = [n \in 0 .. 0 |-> <<>>]
    OBVIOUS
  <2>4. h[0] = <<>> /\ h[N] = <<>> /\ \A n \in 1 .. N : h[n] = h[n - 1] \o q[n]
    BY <1>4, <2>3
  <2> QED BY ONLY <2>1, <2>2, <2>4, Zenon DEF Flattened
<1>5. CASE N # 0
  <2> DEFINE P == [m \in 1 .. N |-> m - 1]
             G == [m \in 1 .. N |-> [x \in X |-> x \o q[m]]]
  <2>1. \A m \in 1 .. N : /\ P[m] \in 0 .. m - 1 /\ P[m] = m - 1
                          /\ \A x \in X : G[m][x] = x \o q[m] /\ G[m][x] \in X
    <3>1. \A m \in 1 .. N : \A x \in X : x \o q[m] \in X
      BY ONLY <1>1, <1>2, ConcatProperties
    <3>2. \A m \in 1 .. N : P[m] = m - 1 /\ P[m] \in 0 .. m - 1
      BY <1>1
    <3> QED BY <3>1, <3>2
  <2> HIDE DEF P, G
  <2>2. PICK f \in [0 .. N -> X] : Recursive(f, N, e, P, G)
    BY ONLY <1>1, <1>3, <2>1, RecursionExists
  <2>3. f[0] = e /\ \A n \in 1 .. N : f[n] = f[n - 1] \o q[n] /\ f[n - 1] \in X
    <3>1. f = [n \in 0 .. N |-> IF n = 0 THEN e ELSE G[n][f[P[n]]]]
      BY ONLY <2>2, Zenon DEF Recursive
    <3>2. f[0] = e
      <4>1. 0 \in 0 .. N
        BY <1>1
      <4> QED BY ONLY <3>1, <4>1
    <3>3. ASSUME NEW n \in 1 .. N
          PROVE  f[n] = f[n - 1] \o q[n] /\ f[n - 1] \in X
      <4>1. n \in 0 .. N /\ n # 0 /\ n - 1 \in 0 .. N
        BY <1>1
      <4>2. f[n] = G[n][f[P[n]]]
        BY ONLY <3>1, <4>1
      <4>3. P[n] = n - 1 /\ f[n - 1] \in X
        BY ONLY <2>1, <2>2, <4>1, n \in 1 .. N
      <4> QED BY ONLY <2>1, <4>2, <4>3, n \in 1 .. N
    <3> QED BY ONLY <3>2, <3>3
  <2>4. PICK r : r = [i \in 1 .. N |-> f[i]]
    OBVIOUS
  <2>5. ASSUME NEW i \in 1 .. N
        PROVE  r[i] = IF i = 1 THEN q[i] ELSE r[i - 1] \o q[i]
    <3>1. r[i] = f[i] /\ f[i] = f[i - 1] \o q[i]
      BY ONLY <2>3, <2>4, i \in 1 .. N
    <3>2. CASE i = 1
      <4>1. f[i - 1] = e
        BY <2>3, <3>2
      <4>2. q[i] \in Seq(W)
        BY <1>1
      <4>3. e \o q[i] = q[i]
        BY ONLY <1>2, <4>2, ConcatEmptySeq
      <4> QED BY ONLY <3>1, <3>2, <4>1, <4>3, Zenon
    <3>3. CASE i # 1
      <4>1. i - 1 \in 1 .. N
        BY <1>1, <3>3
      <4>2. r[i - 1] = f[i - 1]
        BY ONLY <2>4, <4>1
      <4> QED BY ONLY <3>1, <3>3, <4>2, Zenon
    <3> QED BY <3>2, <3>3
  <2>6. Flattening(r, q)
    <3>1. r = [i \in 1 .. N |-> IF i = 1 THEN q[i] ELSE r[i - 1] \o q[i]]
      BY ONLY <2>4, <2>5
    <3> QED BY ONLY <3>1, N = Len(q), Zenon DEF Flattening
  <2>7. PICK g : g = (CHOOSE u : Flattening(u, q)) /\ Flattening(g, q)
    BY ONLY <2>6, Zenon
  <2>8. g = [i \in 1 .. N |-> IF i = 1 THEN q[i] ELSE g[i - 1] \o q[i]]
    BY ONLY <2>7, N = Len(q), Zenon DEF Flattening
  <2>9. PICK h : h = [n \in 0 .. N |-> IF n = 0 THEN e ELSE g[n]]
    OBVIOUS
  <2>10. h[0] = e /\ h[N] = g[N]
    BY ONLY <1>1, <1>5, <2>9
  <2>11. ASSUME NEW n \in 1 .. N
         PROVE  h[n] = h[n - 1] \o q[n]
    <3>1. n \in Nat /\ n > 0 /\ n \in 0 .. N /\ n - 1 \in 0 .. N
      BY <1>1
    <3>2. h[n] = g[n]
      BY ONLY <2>9, <3>1
    <3>3. CASE n = 1
      <4>1. g[n] = q[n]
        BY ONLY <2>8, <3>3, n \in 1 .. N
      <4>2. h[n - 1] = e
        BY <2>10, <3>3
      <4>3. q[n] \in Seq(W)
        BY <1>1
      <4>4. e \o q[n] = q[n]
        BY ONLY <1>2, <4>3, ConcatEmptySeq
      <4> QED BY ONLY <3>2, <4>1, <4>2, <4>4, Zenon
    <3>4. CASE n # 1
      <4>1. n - 1 # 0
        BY ONLY <3>1, <3>4
      <4>2. h[n - 1] = g[n - 1]
        BY ONLY <2>9, <3>1, <4>1
      <4>3. g[n] = g[n - 1] \o q[n]
        BY ONLY <2>8, <3>4, n \in 1 .. N
      <4> QED BY ONLY <3>2, <4>2, <4>3, Zenon
    <3> QED BY <3>3, <3>4
  <2>12. FlattenSeq(q) = g[N]
    <3>1. FlattenSeq(q) = (CHOOSE u : Flattening(u, q))[Len(q)]
      BY <1>5, FlattenSeqIs
    <3> QED BY ONLY <2>7, <3>1, N = Len(q), Zenon
  <2> QED BY ONLY <1>2, <2>10, <2>11, <2>12, Zenon DEF Flattened
<1> QED BY <1>4, <1>5

Joined(x, r) == [out |-> x.out \o r.out, pc |-> x.pc + r.pc]
Summing(f, calls) ==
  f = [n \in 0 .. Len(calls) |-> IF n = 0 THEN [out |-> <<>>, pc |-> 0] ELSE Joined(f[n - 1], calls[n])]

(* What calls write together, by a function that exists. *)
LEMMA TogetherSums ==
  ASSUME NEW calls
  PROVE  Together(calls) = (CHOOSE f : Summing(f, calls))[Len(calls)]
BY DEF Together, Summing, Joined

IsCall(r) == r.out \in Seq(0 .. 255) /\ r.pc \in Nat

LEMMA TogetherUp ==
  ASSUME NEW calls, IsSeq(calls), NEW N, N = Len(calls), N \in Nat, \A m \in 1 .. N : IsCall(calls[m])
  PROVE  \E g : /\ g[0] = [out |-> <<>>, pc |-> 0] /\ g[N] = Together(calls)
                /\ \A n \in 1 .. N : g[n] = Joined(g[n - 1], calls[n])
<1>3. PICK X : X = [out : Seq(0 .. 255), pc : Nat]
  OBVIOUS
<1>4. PICK a : a = [out |-> <<>>, pc |-> 0]
  OBVIOUS
<1>5. a \in X
  <2>1. PICK e : e = <<>>
    OBVIOUS
  <2>2. e \in Seq(0 .. 255)
    BY ONLY <2>1
  <2>3. a = [out |-> e, pc |-> 0]
    BY <1>4, <2>1
  <2> QED BY ONLY <1>3, <2>2, <2>3
<1>7. ASSUME NEW m \in 1 .. N, NEW x \in X
      PROVE  Joined(x, calls[m]) \in X
  <2>1. PICK s, t, i, k : s = x.out /\ t = calls[m].out /\ i = x.pc /\ k = calls[m].pc
    OBVIOUS
  <2>2. t \in Seq(0 .. 255) /\ k \in Nat
    BY <2>1 DEF IsCall
  <2>3. s \in Seq(0 .. 255) /\ i \in Nat
    BY ONLY <1>3, <2>1, x \in X
  <2>4. s \o t \in Seq(0 .. 255) /\ i + k \in Nat
    BY ONLY <2>2, <2>3, ConcatProperties
  <2>5. Joined(x, calls[m]) = [out |-> s \o t, pc |-> i + k]
    BY <2>1 DEF Joined
  <2> QED BY ONLY <1>3, <2>4, <2>5
<1> DEFINE P == [m \in 1 .. N |-> m - 1]
           G == [m \in 1 .. N |-> [x \in X |-> Joined(x, calls[m])]]
<1>8. \A m \in 1 .. N : /\ P[m] \in 0 .. m - 1 /\ P[m] = m - 1
                        /\ \A x \in X : G[m][x] = Joined(x, calls[m]) /\ G[m][x] \in X
  BY <1>7
<1> HIDE DEF P, G
<1>9. PICK f \in [0 .. N -> X] : Recursive(f, N, a, P, G)
  BY <1>5, <1>8, RecursionExists
<1>10. ASSUME NEW n \in 0 .. N
       PROVE  (IF n = 0 THEN a ELSE G[n][f[P[n]]]) = IF n = 0 THEN a ELSE Joined(f[n - 1], calls[n])
  <2>1. n # 0 => n \in 1 .. N /\ n - 1 \in 0 .. N
    OBVIOUS
  <2>2. n # 0 => f[n - 1] \in X
    BY <1>9, <2>1
  <2> QED BY <2>1, <2>2, <1>8
<1>11. Summing(f, calls)
  <2>1. f = [n \in 0 .. N |-> IF n = 0 THEN a ELSE G[n][f[P[n]]]]
    BY <1>9 DEF Recursive
  <2>2. f = [n \in 0 .. N |-> IF n = 0 THEN a ELSE Joined(f[n - 1], calls[n])]
    BY <1>10, <2>1
  <2> QED BY ONLY N = Len(calls), <1>4, <2>2, Zenon DEF Summing
<1>12. PICK g : g = (CHOOSE h : Summing(h, calls)) /\ Summing(g, calls)
  BY ONLY <1>11, Zenon
<1>13. g = [n \in 0 .. N |-> IF n = 0 THEN a ELSE Joined(g[n - 1], calls[n])]
  BY ONLY N = Len(calls), <1>4, <1>12, Zenon DEF Summing
<1>14. g[0] = a /\ \A n \in 1 .. N : g[n] = Joined(g[n - 1], calls[n])
  <2>1. 0 \in 0 .. N
    OBVIOUS
  <2>2. \A n \in 1 .. N : n \in 0 .. N /\ n # 0
    OBVIOUS
  <2> QED BY ONLY <1>13, <2>1, <2>2
<1>15. g[N] = Together(calls)
  BY ONLY N = Len(calls), <1>12, TogetherSums, Zenon
<1> QED BY ONLY <1>4, <1>14, <1>15, Zenon

(* Nothing is apart. *)
LEMMA NothingApart ==
  ASSUME NEW e, e = <<>>, NEW dw
  PROVE  Apart(e, e, e, 0, dw, dw)
<1>1. e \in Seq(Int) /\ e \in Seq(0 .. 255) /\ IsSeq(e) /\ 0 \in Nat
  BY EmptySeqs
<1>2. ASSUME NEW s, NEW o, NEW p, NEW rest, Starts(s, o, p, e, rest, dw)
      PROVE  \E r : Ends(r, o, p, e, 0, rest, dw) /\ Reads(s, e, r)
  <2>1. o \in Seq(0 .. 255) /\ p \in Nat /\ IsSeq(rest) /\ At(s, o, p, e \o rest, dw)
    BY <1>2 DEF Starts
  <2>2. IsSeq(o)
    BY <2>1 DEF IsSeq
  <2>3. e \o rest = rest /\ o \o e = o
    BY ONLY <2>1, <2>2, e = <<>>, NoneJoined
  <2>4. p + 0 = p
    BY <2>1
  <2>5. Ends(s, o, p, e, 0, rest, dw)
    BY ONLY <2>1, <2>3, <2>4, Zenon DEF Ends
  <2>6. Reads(s, e, s)
    BY ONLY e = <<>>, ReadNothing, Zenon
  <2> QED BY ONLY <2>5, <2>6, Zenon
<1> QED BY ONLY <1>1, <1>2, Zenon DEF Apart

(* Sequences, all of one set. *)
LEMMA OneSet ==
  ASSUME NEW N, NEW q, \A n \in 1 .. N : IsSeq(q[n])
  PROVE  \E W : \A n \in 1 .. N : q[n] \in Seq(W)
<1>1. PICK W : W = UNION {{q[n][i] : i \in 1 .. Len(q[n])} : n \in 1 .. N}
  OBVIOUS
<1>2. ASSUME NEW n \in 1 .. N
      PROVE  q[n] \in Seq(W)
  <2>1. PICK V : q[n] \in Seq(V)
    BY DEF IsSeq
  <2>2. \A i \in 1 .. Len(q[n]) : q[n][i] \in W
    BY ONLY <1>1, n \in 1 .. N
  <2> QED BY ONLY <2>1, <2>2, Narrowed
<1> QED BY ONLY <1>2, Zenon

(* A sequence given entry by entry. *)
LEMMA Listed ==
  ASSUME NEW N \in Nat, NEW W, NEW q, q = [n \in 1 .. N |-> q[n]], \A n \in 1 .. N : q[n] \in W
  PROVE  q \in Seq(W) /\ Len(q) = N
<1>1. q \in [1 .. N -> W]
  OBVIOUS
<1> QED BY ONLY <1>1, N \in Nat

(* A call with many parts; what it prints, and what the parts do alone. *)
IsMixed(parts) == IsSeq(parts) /\ \A n \in 1 .. Len(parts) : IsPart(parts[n])

Mix(parts) == vprintf(FlattenSeq([n \in DOMAIN parts |-> FormatOf(parts[n])]),
                      FlattenSeq([n \in DOMAIN parts |-> ArgsOf(parts[n])]))
AllAlone(parts) == Together([n \in DOMAIN parts |-> Alone(AsAlone(parts, n))])

CallsMixed(parts) ==
  job' = [kind |-> "mixed", parts |-> parts] /\ out' = Mix(parts).out /\ result' = Mix(parts).pc

LEMMA MixedCalled ==
  ASSUME PrintMixed
  PROVE  \E parts : IsMixed(parts) /\ CallsMixed(parts)
<1>1. PICK chosen \in BoundedSeq(DOMAIN Mixed, MaxMixed) :
        LET parts == [n \in DOMAIN chosen |-> Mixed[chosen[n]]]
            p     == vprintf(FlattenSeq([n \in DOMAIN parts |-> FormatOf(parts[n])]),
                             FlattenSeq([n \in DOMAIN parts |-> ArgsOf(parts[n])]))
        IN /\ job' = [kind |-> "mixed", parts |-> parts]
           /\ out' = p.out
           /\ result' = p.pc
  BY DEF PrintMixed
<1>2. PICK parts : parts = [n \in DOMAIN chosen |-> Mixed[chosen[n]]]
  OBVIOUS
<1>3. CallsMixed(parts)
  BY ONLY <1>1, <1>2, Zenon DEF CallsMixed, Mix
<1>4. PICK m \in 0 .. MaxMixed : chosen \in [1 .. m -> DOMAIN Mixed]
  BY DEF BoundedSeq, SeqOf
<1>5. m \in Nat
  BY MixedAssumption
<1>6. \A n \in 1 .. m : parts[n] = Mixed[chosen[n]] /\ chosen[n] \in DOMAIN Mixed
  BY ONLY <1>2, <1>4
<1>7. \A n \in 1 .. m : IsPart(parts[n])
  BY ONLY <1>6, MixedAssumption, Zenon DEF IsPart
<1>8. PICK V : V = {parts[n] : n \in 1 .. m}
  OBVIOUS
<1>9. parts \in Seq(V) /\ Len(parts) = m
  <2>1. parts \in [1 .. m -> V]
    BY ONLY <1>2, <1>4, <1>8
  <2> QED BY ONLY <1>5, <2>1
<1>10. IsMixed(parts)
  BY ONLY <1>7, <1>9, Zenon DEF IsMixed, IsSeq
<1> QED BY ONLY <1>3, <1>10, Zenon

(* Alone, with the decimals it is given. *)
LEMMA AloneGiven ==
  ASSUME NEW parts, NEW n, NEW dw, DecimalsBefore(parts, n) = {dw}
  PROVE  AsAlone(parts, n) = Given(parts[n], dw)
BY Zenon DEF AsAlone, Given

(* What a part does in a format and alone. *)
LEMMA AloneIsCall ==
  ASSUME NEW e, IsPart(e), NEW dw \in Nat, NEW c, c = Alone(Given(e, dw))
  PROVE  /\ IsCall(c)
         /\ Apart(FormatOf(e), ArgsOf(e), c.out, c.pc, dw, DecOf(e.dec, dw))
<1>1. Keeps(e, dw)
  BY PartKeeps
<1>2. PICK f, a, g, b : /\ f = FormatOf(e) /\ a = ArgsOf(e)
                        /\ g = FormatOf(Given(e, dw)) /\ b = ArgsOf(Given(e, dw))
  OBVIOUS
<1>3. PICK x, m, dz : Apart(f, a, x, m, dw, DecOf(e.dec, dw)) /\ Apart(g, b, x, m, 0, dz)
  BY ONLY <1>1, <1>2, Zenon DEF Keeps, Same
<1>4. PICK z : z = <<>>
  OBVIOUS
<1>5. IsSeq(z)
  BY ONLY <1>4, EmptySeqs
<1>6. vprintf(g, b \o z).out = x /\ vprintf(g, b \o z).pc = m
  BY ONLY <1>3, <1>5, ApartPrints
<1>7. IsSeq(b) /\ x \in Seq(0 .. 255) /\ m \in Nat
  BY ONLY <1>3, Zenon DEF Apart
<1>8. b \o z = b
  BY ONLY <1>4, <1>7, NoneJoined
<1>9. c = vprintf(g, b)
  BY ONLY <1>2, c = Alone(Given(e, dw)), Zenon DEF Alone
<1>10. c.out = x /\ c.pc = m
  BY ONLY <1>6, <1>8, <1>9, Zenon
<1> QED BY ONLY <1>2, <1>3, <1>7, <1>10, Zenon DEF IsCall

(* There are always decimals that are left. *)
LEMMA DecimalsLeft ==
  ASSUME NEW parts, NEW N \in Nat, \A n \in 1 .. N : IsPart(parts[n])
  PROVE  \A n \in 0 .. N : \E dw \in Nat : DecimalsBefore(parts, n + 1) = {dw}
<1> DEFINE S == {n \in 0 .. N : \E dw \in Nat : DecimalsBefore(parts, n + 1) = {dw}}
<1>1. 0 \in S
  <2>1. {k \in 1 .. (0 + 1) - 1 : parts[k].dec # {}} = {}
    OBVIOUS
  <2>2. DecimalsBefore(parts, 0 + 1) = {0}
    BY ONLY <2>1, Zenon DEF DecimalsBefore
  <2>3. 0 \in Nat /\ 0 \in 0 .. N
    OBVIOUS
  <2> QED BY ONLY <2>2, <2>3
<1>2. ASSUME NEW m \in 0 .. N - 1, m \in S
      PROVE  m + 1 \in S
  <2>1. PICK n : n = m + 1
    OBVIOUS
  <2>2. n \in Nat /\ n > 0 /\ n \in 1 .. N /\ n \in 0 .. N
    BY <2>1
  <2>3. PICK dw \in Nat : DecimalsBefore(parts, n) = {dw}
    BY ONLY <1>2, <2>1
  <2>4. IsDecimals(parts[n].dec)
    <3>1. IsPart(parts[n])
      BY <2>2
    <3> QED BY ONLY <3>1, dw \in Nat, PartKeeps
  <2>5. DecimalsBefore(parts, n + 1)
          = IF parts[n].dec = {} THEN DecimalsBefore(parts, n) ELSE parts[n].dec
    BY ONLY <2>2, DecimalsStep
  <2>6. \E d \in Nat : DecimalsBefore(parts, n + 1) = {d}
    BY ONLY <2>3, <2>4, <2>5, Zenon DEF IsDecimals
  <2> QED BY ONLY <2>1, <2>2, <2>6
<1> HIDE DEF S
<1>3. \A n \in 0 .. N : n \in S
  BY <1>1, <1>2, CountUp
<1> QED BY <1>3 DEF S

(* The parts of a format print what they do alone. *)
LEMMA MixedPrints ==
  ASSUME NEW parts, IsMixed(parts)
  PROVE  /\ Mix(parts).out = AllAlone(parts).out /\ Mix(parts).pc = AllAlone(parts).pc
         /\ Mix(parts).out \in Seq(0 .. 255)
<1>1. PICK N : N = Len(parts) /\ N \in Nat /\ DOMAIN parts = 1 .. N
  <2>1. PICK V : parts \in Seq(V)
    BY DEF IsMixed, IsSeq
  <2> QED BY ONLY <2>1
<1>2. \A n \in 1 .. N : IsPart(parts[n])
  BY <1>1 DEF IsMixed
<1>3. PICK F, A, C : /\ F = [n \in 1 .. N |-> FormatOf(parts[n])] /\ A = [n \in 1 .. N |-> ArgsOf(parts[n])]
                     /\ C = [n \in 1 .. N |-> Alone(AsAlone(parts, n))]
  OBVIOUS
<1>4. Mix(parts) = vprintf(FlattenSeq(F), FlattenSeq(A)) /\ AllAlone(parts) = Together(C)
  BY ONLY <1>1, <1>3, Zenon DEF Mix, AllAlone
<1>5. \A n \in 0 .. N : \E dw \in Nat : DecimalsBefore(parts, n + 1) = {dw}
  BY ONLY <1>1, <1>2, DecimalsLeft
<1>6. ASSUME NEW n \in 1 .. N, NEW dw \in Nat, DecimalsBefore(parts, n) = {dw}
      PROVE  IsCall(C[n]) /\ Apart(F[n], A[n], C[n].out, C[n].pc, dw, DecOf(parts[n].dec, dw))
  <2>1. F[n] = FormatOf(parts[n]) /\ A[n] = ArgsOf(parts[n]) /\ C[n] = Alone(AsAlone(parts, n))
    BY ONLY <1>3, n \in 1 .. N
  <2>2. AsAlone(parts, n) = Given(parts[n], dw)
    BY ONLY <1>6, AloneGiven
  <2>3. PICK e, c : e = parts[n] /\ c = C[n]
    OBVIOUS
  <2>4. IsPart(e) /\ c = Alone(Given(e, dw))
    BY ONLY <1>2, <2>1, <2>2, <2>3, n \in 1 .. N, Zenon
  <2>5. IsCall(c) /\ Apart(FormatOf(e), ArgsOf(e), c.out, c.pc, dw, DecOf(e.dec, dw))
    BY ONLY <2>4, dw \in Nat, AloneIsCall
  <2> QED BY ONLY <2>1, <2>3, <2>5, Zenon
<1>7. ASSUME NEW n \in 1 .. N
      PROVE  IsCall(C[n]) /\ F[n] \in Seq(Int) /\ IsSeq(A[n])
  <2>1. PICK m : m = n - 1 /\ m \in 0 .. N /\ m + 1 = n
    BY <1>1
  <2>2. PICK dw \in Nat : DecimalsBefore(parts, n) = {dw}
    BY ONLY <1>5, <2>1, Zenon
  <2>3. IsCall(C[n]) /\ Apart(F[n], A[n], C[n].out, C[n].pc, dw, DecOf(parts[n].dec, dw))
    BY ONLY <1>6, <2>2, n \in 1 .. N, Zenon
  <2> QED BY ONLY <2>3, Zenon DEF Apart
<1>8. F \in Seq(Seq(Int)) /\ Len(F) = N
  <2>1. F = [n \in 1 .. N |-> F[n]]
    BY ONLY <1>3
  <2>2. \A n \in 1 .. N : F[n] \in Seq(Int)
    BY ONLY <1>7, Zenon
  <2>3. PICK V : V = Seq(Int)
    OBVIOUS
  <2>4. F \in Seq(V) /\ Len(F) = N
    BY ONLY <1>1, <2>1, <2>2, <2>3, Listed
  <2> QED BY ONLY <2>3, <2>4, Zenon
<1>9. PICK W : \A n \in 1 .. N : A[n] \in Seq(W)
  BY ONLY <1>7, OneSet
<1>10. A \in Seq(Seq(W)) /\ Len(A) = N
  <2>1. A = [n \in 1 .. N |-> A[n]]
    BY ONLY <1>3
  <2>2. PICK V : V = Seq(W)
    OBVIOUS
  <2>3. A \in Seq(V) /\ Len(A) = N
    BY ONLY <1>1, <1>9, <2>1, <2>2, Listed
  <2> QED BY ONLY <2>2, <2>3, Zenon
<1>11. IsSeq(C) /\ N = Len(C)
  <2>1. C = [n \in 1 .. N |-> C[n]]
    BY ONLY <1>3
  <2>2. PICK V : V = {C[n] : n \in 1 .. N}
    OBVIOUS
  <2>3. \A n \in 1 .. N : C[n] \in V
    BY ONLY <2>2
  <2>4. C \in Seq(V) /\ Len(C) = N
    BY ONLY <1>1, <2>1, <2>3, Listed
  <2> QED BY ONLY <2>4, Zenon DEF IsSeq
<1>12. PICK ff : ff[0] = <<>> /\ ff[N] = FlattenSeq(F) /\ \A n \in 1 .. N : ff[n] = ff[n - 1] \o F[n]
  <2>1. F \in Seq(Seq(Int)) /\ N = Len(F)
    BY ONLY <1>8, Zenon
  <2>2. PICK h : Flattened(h, F, N)
    BY ONLY <2>1, FlattenUp, Zenon
  <2> QED BY ONLY <2>2, Zenon DEF Flattened
<1>13. PICK hh : hh[0] = <<>> /\ hh[N] = FlattenSeq(A) /\ \A n \in 1 .. N : hh[n] = hh[n - 1] \o A[n]
  <2>1. A \in Seq(Seq(W)) /\ N = Len(A)
    BY ONLY <1>10, Zenon
  <2>2. PICK h : Flattened(h, A, N)
    BY ONLY <2>1, FlattenUp, Zenon
  <2> QED BY ONLY <2>2, Zenon DEF Flattened
<1>14. PICK g : /\ g[0] = [out |-> <<>>, pc |-> 0] /\ g[N] = Together(C)
                /\ \A n \in 1 .. N : g[n] = Joined(g[n - 1], C[n])
  BY ONLY <1>1, <1>7, <1>11, TogetherUp
<1> DEFINE S == {n \in 0 .. N : \E dw \in Nat : /\ DecimalsBefore(parts, n + 1) = {dw}
                                             /\ Apart(ff[n], hh[n], g[n].out, g[n].pc, 0, dw)}
<1>15. 0 \in S
  <2>1. PICK e, z : e = <<>> /\ z = 0 /\ z \in Nat /\ z \in 0 .. N
    BY <1>1
  <2>2. Apart(e, e, e, 0, z, z)
    BY ONLY <2>1, NothingApart
  <2>3. g[z].out = e /\ g[z].pc = z /\ ff[z] = e /\ hh[z] = e
    BY <1>12, <1>13, <1>14, <2>1
  <2>4. Apart(ff[z], hh[z], g[z].out, g[z].pc, 0, z)
    BY ONLY <2>1, <2>2, <2>3, Zenon
  <2>5. {k \in 1 .. (z + 1) - 1 : parts[k].dec # {}} = {}
    BY <2>1
  <2>6. DecimalsBefore(parts, z + 1) = {z}
    BY ONLY <2>1, <2>5, Zenon DEF DecimalsBefore
  <2> QED BY ONLY <2>1, <2>4, <2>6
<1>16. ASSUME NEW m \in 0 .. N - 1, m \in S
       PROVE  m + 1 \in S
  <2>1. PICK n : n = m + 1
    OBVIOUS
  <2>2. n \in Nat /\ n > 0 /\ n \in 1 .. N /\ n \in 0 .. N /\ n - 1 = m
    BY <1>1, <2>1
  <2>3. PICK dw \in Nat : DecimalsBefore(parts, n) = {dw} /\ Apart(ff[m], hh[m], g[m].out, g[m].pc, 0, dw)
    BY ONLY <1>16, <2>1
  <2>4. PICK dec, dx : dec = parts[n].dec /\ dx = DecOf(dec, dw)
    OBVIOUS
  <2>5. Apart(F[n], A[n], C[n].out, C[n].pc, dw, dx)
    BY ONLY <1>6, <2>2, <2>3, <2>4, Zenon
  <2>6. Apart(ff[m] \o F[n], hh[m] \o A[n], g[m].out \o C[n].out, g[m].pc + C[n].pc, 0, dx)
    BY ONLY <2>3, <2>5, ApartBoth
  <2>7. ff[n] = ff[m] \o F[n] /\ hh[n] = hh[m] \o A[n]
    BY ONLY <1>12, <1>13, <2>2
  <2>8. g[n].out = g[m].out \o C[n].out /\ g[n].pc = g[m].pc + C[n].pc
    <3>1. g[n] = Joined(g[m], C[n])
      BY ONLY <1>14, <2>2
    <3>2. PICK t, k : t = g[m].out \o C[n].out /\ k = g[m].pc + C[n].pc
      OBVIOUS
    <3>3. g[n] = [out |-> t, pc |-> k]
      BY ONLY <3>1, <3>2, Zenon DEF Joined
    <3>4. g[n].out = t /\ g[n].pc = k
      BY ONLY <3>3
    <3> QED BY ONLY <3>2, <3>4, Zenon
  <2>9. Apart(ff[n], hh[n], g[n].out, g[n].pc, 0, dx)
    BY ONLY <2>6, <2>7, <2>8, Zenon
  <2>10. DecimalsBefore(parts, n + 1) = IF dec = {} THEN DecimalsBefore(parts, n) ELSE dec
    BY ONLY <2>2, <2>4, DecimalsStep, Zenon
  <2>11. IsDecimals(dec)
    <3>1. IsPart(parts[n])
      BY ONLY <1>2, <2>2
    <3> QED BY ONLY <2>4, <3>1, dw \in Nat, PartKeeps
  <2>12. DecimalsBefore(parts, n + 1) = {dx} /\ dx \in Nat
    <3>1. CASE dec = {}
      <4>1. dx = dw
        BY ONLY <2>4, <3>1, Zenon DEF DecOf
      <4> QED BY ONLY <2>3, <2>10, <3>1, <4>1, Zenon
    <3>2. ASSUME NEW d \in Nat, dec = {d}
          PROVE  DecimalsBefore(parts, n + 1) = {dx} /\ dx \in Nat
      <4>1. dx = d
        BY ONLY <2>4, <3>2 DEF DecOf
      <4>2. dec # {}
        BY <3>2
      <4> QED BY ONLY <2>10, <3>2, <4>1, <4>2, Zenon
    <3> QED BY ONLY <2>11, <3>1, <3>2, Zenon DEF IsDecimals
  <2> QED BY ONLY <2>1, <2>2, <2>9, <2>12
<1> HIDE DEF S
<1>17. \A m \in 0 .. N : m \in S
  BY ONLY <1>1, <1>15, <1>16, CountUp
<1>18. PICK dw \in Nat : Apart(ff[N], hh[N], g[N].out, g[N].pc, 0, dw)
  <2>1. N \in 0 .. N
    BY <1>1
  <2>2. N \in S
    BY ONLY <1>17, <2>1
  <2> QED BY ONLY <2>2 DEF S
<1>19. PICK z, f, a, c : z = <<>> /\ f = FlattenSeq(F) /\ a = FlattenSeq(A) /\ c = Together(C)
  OBVIOUS
<1>20. Apart(f, a, c.out, c.pc, 0, dw)
  BY ONLY <1>12, <1>13, <1>14, <1>18, <1>19, Zenon
<1>21. IsSeq(z)
  BY ONLY <1>19, EmptySeqs
<1>22. vprintf(f, a \o z).out = c.out /\ vprintf(f, a \o z).pc = c.pc
  BY ONLY <1>20, <1>21, ApartPrints
<1>23. IsSeq(a) /\ c.out \in Seq(0 .. 255)
  BY ONLY <1>20, Zenon DEF Apart
<1>24. a \o z = a
  BY ONLY <1>19, <1>23, NoneJoined
<1> QED BY ONLY <1>4, <1>19, <1>22, <1>23, <1>24, Zenon

(* Directives in one format do not disturb each other, but for the         *)
(* decimals that a %f without a point is left.                             *)
THEOREM DirectivesKeepApart == Spec => []DirectivesApart
<1>1. Init => DirectivesApart
  BY DEF Init, DirectivesApart
<1>2. ASSUME PrintMixed
      PROVE  DirectivesApart'
  <2>1. PICK parts : IsMixed(parts) /\ CallsMixed(parts)
    BY ONLY <1>2, MixedCalled
  <2>2. out' = AllAlone(parts).out /\ result' = AllAlone(parts).pc
    BY ONLY <2>1, MixedPrints, Zenon DEF CallsMixed
  <2>3. job'.parts = parts
    BY ONLY <2>1 DEF CallsMixed
  <2> QED BY ONLY <2>2, <2>3, Zenon DEF DirectivesApart, AllAlone
<1>3. DirectivesApart /\ [Next]_vars => DirectivesApart'
  <2>1. CASE Next
    <3>1. CASE PrintMixed
      BY <1>2, <3>1
    <3>2. CASE PrintNumber \/ PrintDouble \/ PrintString \/ PrintChar \/ PrintUnknown
      <4>1. job'.kind \in {"number", "double", "string", "char", "unknown"}
        <5>1. CASE PrintNumber
          BY <5>1 DEF PrintNumber, Printf
        <5>2. CASE PrintDouble
          BY <5>2 DEF PrintDouble, Printf
        <5>3. CASE PrintString
          BY <5>3 DEF PrintString, Printf
        <5>4. CASE PrintChar
          BY <5>4 DEF PrintChar, Printf
        <5>5. CASE PrintUnknown
          BY <5>5 DEF PrintUnknown, Printf
        <5> QED BY <3>2, <5>1, <5>2, <5>3, <5>4, <5>5
      <4> QED BY <4>1 DEF DirectivesApart
    <3>3. CASE Dump \/ Return
      BY <3>3 DEF Dump, Return, DirectivesApart
    <3> QED BY <2>1, <3>1, <3>2, <3>3 DEF Next
  <2>2. CASE UNCHANGED vars
    BY <2>2 DEF vars, DirectivesApart
  <2> QED BY <2>1, <2>2
<1> QED BY <1>1, <1>3, PTL DEF Spec

-----------------------------------------------------------------------------
(* Every call counts what it writes. *)

(* Calls that write bytes and count them. *)
Right(r)    == r.out \in Seq(0 .. 255) /\ r.pc = Len(r.out)
AllRight(c) == IsSeq(c) /\ \A k \in 1 .. Len(c) : Right(c[k])

LEMMA CompletePrints ==
  ASSUME NEW f, NEW a, Complete(f, a)
  PROVE  Right(vprintf(f, a))
<1>1. PICK x, dx : Apart(f, a, x, Len(x), 0, dx)
  BY DEF Complete
<1>2. x \in Seq(0 .. 255) /\ IsSeq(a)
  BY <1>1 DEF Apart
<1>3. PICK e, m : e = <<>> /\ m = Len(x)
  OBVIOUS
<1>4. IsSeq(e)
  BY ONLY <1>3, EmptySeqs
<1>5. Apart(f, a, x, m, 0, dx)
  BY ONLY <1>1, <1>3, Zenon
<1>6. vprintf(f, a \o e).out = x /\ vprintf(f, a \o e).pc = m
  BY ONLY <1>4, <1>5, ApartPrints
<1>7. a \o e = a
  BY ONLY <1>2, <1>3, NoneJoined
<1> QED BY ONLY <1>2, <1>3, <1>6, <1>7, Zenon DEF Right

(* Between the brackets. *)
LEMMA BracketsComplete ==
  ASSUME NEW f, NEW a, IsSeq(a), Complete(f, a)
  PROVE  Complete(<<60>> \o f \o <<62>>, a)
<1>1. 60 \in 0 .. 255 /\ 62 \in 0 .. 255 /\ 60 # Percent /\ 62 # Percent
  BY DEF Percent
<1>2. PICK e, t, u : e = <<>> /\ t = <<60>> /\ u = <<62>>
  OBVIOUS
<1>3. Complete(t, e) /\ Complete(u, e)
  <2>1. Complete(<<60>>, <<>>) /\ Complete(<<62>>, <<>>)
    BY ONLY <1>1, PlainCounts
  <2> QED BY ONLY <1>2, <2>1, Zenon
<1>4. Complete(t \o f, e \o a)
  BY ONLY <1>3, Complete(f, a), CountsBoth
<1>5. e \o a = a /\ a \o e = a
  BY ONLY <1>2, IsSeq(a), NoneJoined
<1>6. PICK v : v = t \o f
  OBVIOUS
<1>7. Complete(v, a)
  BY ONLY <1>4, <1>5, <1>6, Zenon
<1>8. Complete(v \o u, a \o e)
  BY ONLY <1>3, <1>7, CountsBoth
<1> QED BY ONLY <1>2, <1>5, <1>6, <1>8, Zenon

(* A sequence that is written as a function. *)
LEMMA ListRight ==
  ASSUME NEW n \in Nat, NEW g, g = [k \in 1 .. n |-> g[k]], \A k \in 1 .. n : Right(g[k])
  PROVE  AllRight(g)
<1>1. PICK V : V = {g[k] : k \in 1 .. n}
  OBVIOUS
<1>2. g \in [1 .. n -> V]
  BY <1>1
<1>3. g \in Seq(V) /\ Len(g) = n
  BY <1>2
<1> QED BY <1>3 DEF AllRight, IsSeq

(* What one call more writes. *)
LEMMA JoinedRight ==
  ASSUME NEW x, NEW r, Right(x), Right(r)
  PROVE  /\ Right(Joined(x, r))
         /\ Joined(x, r) \in [out : Seq(0 .. 255), pc : Nat]
<1>1. PICK s, t, m, n : s = x.out /\ t = r.out /\ m = x.pc /\ n = r.pc
  OBVIOUS
<1>2. s \in Seq(0 .. 255) /\ t \in Seq(0 .. 255) /\ m = Len(s) /\ n = Len(t)
  BY <1>1 DEF Right
<1>3. PICK u, k : u = s \o t /\ k = m + n
  OBVIOUS
<1>4. u \in Seq(0 .. 255) /\ k = Len(u) /\ k \in Nat
  BY <1>2, <1>3, ConcatProperties
<1>5. Joined(x, r) = [out |-> u, pc |-> k]
  BY <1>1, <1>3 DEF Joined
<1>6. PICK j : j = Joined(x, r)
  OBVIOUS
<1>7. j.out = u /\ j.pc = k /\ j \in [out : Seq(0 .. 255), pc : Nat]
  BY <1>4, <1>5, <1>6
<1>8. Right(j)
  BY ONLY <1>4, <1>7, Zenon DEF Right
<1> QED BY ONLY <1>6, <1>7, <1>8, Zenon

(* What they all write. *)
LEMMA TogetherRight ==
  ASSUME NEW calls, AllRight(calls)
  PROVE  Right(Together(calls))
<1>1. IsSeq(calls) /\ \A m \in 1 .. Len(calls) : Right(calls[m])
  BY DEF AllRight
<1>2. PICK N : N = Len(calls) /\ N \in Nat
  <2>1. PICK V : calls \in Seq(V)
    BY <1>1 DEF IsSeq
  <2> QED BY <2>1
<1>3. \A m \in 1 .. N : IsCall(calls[m])
  <2>1. ASSUME NEW r, Right(r)
        PROVE  IsCall(r)
    <3>1. PICK t : t = r.out
      OBVIOUS
    <3>2. t \in Seq(0 .. 255) /\ r.pc = Len(t)
      BY <2>1, <3>1 DEF Right
    <3> QED BY <3>1, <3>2 DEF IsCall
  <2> QED BY ONLY <1>1, <1>2, <2>1, Zenon
<1>4. PICK g : /\ g[0] = [out |-> <<>>, pc |-> 0] /\ g[N] = Together(calls)
               /\ \A n \in 1 .. N : g[n] = Joined(g[n - 1], calls[n])
  BY ONLY <1>1, <1>2, <1>3, TogetherUp
<1> DEFINE S == {n \in 0 .. N : Right(g[n])}
<1>5. 0 \in S
  <2>1. PICK e : e = <<>>
    OBVIOUS
  <2>2. e \in Seq(0 .. 255) /\ Len(e) = 0
    BY ONLY <2>1
  <2>3. g[0].out = e /\ g[0].pc = 0
    BY <1>4, <2>1
  <2>4. Right(g[0])
    BY ONLY <2>2, <2>3, Zenon DEF Right
  <2> QED BY <1>2, <2>4
<1>6. ASSUME NEW m \in 0 .. N - 1, m \in S
      PROVE  m + 1 \in S
  <2>1. PICK n : n = m + 1
    OBVIOUS
  <2>2. n \in 1 .. N /\ n \in 0 .. N /\ n - 1 = m
    BY <1>2, <2>1
  <2>3. g[n] = Joined(g[m], calls[n])
    BY ONLY <1>4, <2>2
  <2>4. Right(g[m]) /\ Right(calls[n])
    BY <1>1, <1>2, <1>6, <2>2
  <2>5. Right(Joined(g[m], calls[n]))
    BY ONLY <2>4, JoinedRight
  <2>6. Right(g[n])
    BY ONLY <2>3, <2>5, Zenon
  <2> QED BY <2>1, <2>2, <2>6
<1> HIDE DEF S
<1>7. \A m \in 0 .. N : m \in S
  BY <1>2, <1>5, <1>6, CountUp
<1>8. Right(g[N])
  <2>1. N \in 0 .. N
    BY <1>2
  <2> QED BY <1>7, <2>1 DEF S
<1> QED BY ONLY <1>4, <1>8, Zenon

(* The formats of a hexdump. *)
LEMMA ByteSpelled ==
  ASSUME NEW i
  PROVE  Spelled(Directive("x", FALSE, {"zero"}, 2, {}, i)) = <<37, 48, 50, 120>>
<1>1. PICK pad, dec, long : pad = {"zero"} /\ dec = {} /\ long = FALSE
  OBVIOUS
<1>2. PICK e, a, b, c : e = <<>> /\ a = <<37>> /\ b = <<48>> /\ c = <<50>>
  OBVIOUS
<1>3. /\ <<Percent>> = a /\ RightText(pad) = e /\ PlusText(pad) = e /\ ZeroText(pad) = b
      /\ DecimalsText(dec) = e /\ LongText(long) = e
  BY <1>1, <1>2 DEF Percent, RightText, PlusText, ZeroText, DecimalsText, LongText, Zero
<1>4. WidthText(2) = c
  <2>1. 2 \in 1 .. 9 /\ 48 + 2 = 50
    OBVIOUS
  <2>2. WidthText(2) = <<48 + 2>>
    BY ONLY <2>1, DigitText
  <2> QED BY ONLY <1>2, <2>1, <2>2, Zenon
<1>5. Prefix(long, pad, 2, dec) = a \o e \o e \o b \o c \o e \o e
  BY ONLY <1>3, <1>4, Zenon DEF Prefix
<1>6. PICK u, v, t, d : u = <<37, 48>> /\ v = <<37, 48, 50>> /\ t = <<37, 48, 50, 120>> /\ d = <<120>>
  OBVIOUS
<1>7. a \o e = a /\ v \o e = v
  BY ONLY <1>2, <1>6
<1>8. u = a \o b
  BY ONLY <1>2, <1>6
<1>9. v = u \o c
  BY ONLY <1>2, <1>6
<1>10. t = v \o d
  BY ONLY <1>2, <1>6
<1>11. Prefix(long, pad, 2, dec) = v
  BY ONLY <1>5, <1>7, <1>8, <1>9, Zenon
<1>12. <<Code["x"]>> = d
  BY <1>6 DEF Code
<1>13. Spelled(Directive("x", long, pad, 2, dec, i)) = Prefix(long, pad, 2, dec) \o <<Code["x"]>>
  BY SpelledInParts
<1>14. Spelled(Directive("x", long, pad, 2, dec, i)) = t
  BY ONLY <1>10, <1>11, <1>12, <1>13, Zenon
<1> QED BY ONLY <1>1, <1>6, <1>14, Zenon

(* "%08lx", in front of ": ". *)
LEMMA AddressSpelled ==
  ASSUME NEW i, NEW long, long = TRUE
  PROVE  Spelled(Directive("x", long, {"zero"}, 8, {}, i)) = <<37, 48, 56, 108, 120>>
<1>1. PICK pad, dec : pad = {"zero"} /\ dec = {}
  OBVIOUS
<1>2. PICK e, a, b, c, l : e = <<>> /\ a = <<37>> /\ b = <<48>> /\ c = <<56>> /\ l = <<108>>
  OBVIOUS
<1>3. /\ <<Percent>> = a /\ RightText(pad) = e /\ PlusText(pad) = e /\ ZeroText(pad) = b
      /\ DecimalsText(dec) = e /\ LongText(long) = l
  BY <1>1, <1>2 DEF Percent, RightText, PlusText, ZeroText, DecimalsText, LongText, Zero, Code
<1>4. WidthText(8) = c
  <2>1. 8 \in 1 .. 9 /\ 48 + 8 = 56
    OBVIOUS
  <2>2. WidthText(8) = <<48 + 8>>
    BY ONLY <2>1, DigitText
  <2> QED BY ONLY <1>2, <2>1, <2>2, Zenon
<1>5. Prefix(long, pad, 8, dec) = a \o e \o e \o b \o c \o e \o l
  BY ONLY <1>3, <1>4, Zenon DEF Prefix
<1>6. PICK u, v, z, t, d : /\ u = <<37, 48>> /\ v = <<37, 48, 56>> /\ z = <<37, 48, 56, 108>>
                           /\ t = <<37, 48, 56, 108, 120>> /\ d = <<120>>
  OBVIOUS
<1>7. a \o e = a /\ v \o e = v
  BY ONLY <1>2, <1>6
<1>8. u = a \o b
  BY ONLY <1>2, <1>6
<1>9. v = u \o c
  BY ONLY <1>2, <1>6
<1>10. z = v \o l
  BY ONLY <1>2, <1>6
<1>11. t = z \o d
  BY ONLY <1>2, <1>6
<1>12. Prefix(long, pad, 8, dec) = z
  BY ONLY <1>5, <1>7, <1>8, <1>9, <1>10, Zenon
<1>13. <<Code["x"]>> = d
  BY <1>6 DEF Code
<1>14. Spelled(Directive("x", long, pad, 8, dec, i)) = Prefix(long, pad, 8, dec) \o <<Code["x"]>>
  BY SpelledInParts
<1>15. Spelled(Directive("x", long, pad, 8, dec, i)) = t
  BY ONLY <1>11, <1>12, <1>13, <1>14, Zenon
<1> QED BY ONLY <1>1, <1>6, <1>15, Zenon

(* "%c". *)
LEMMA CharSpelled ==
  ASSUME NEW i
  PROVE  Spelled(Directive("c", FALSE, {}, 0, {}, i)) = <<37, 99>>
<1>1. PICK pad, dec, long : pad = {} /\ dec = {} /\ long = FALSE
  OBVIOUS
<1>2. PICK e, a, d, t : e = <<>> /\ a = <<37>> /\ d = <<99>> /\ t = <<37, 99>>
  OBVIOUS
<1>3. /\ <<Percent>> = a /\ RightText(pad) = e /\ PlusText(pad) = e /\ ZeroText(pad) = e /\ WidthText(0) = e
      /\ DecimalsText(dec) = e /\ LongText(long) = e
  BY <1>1, <1>2 DEF Percent, RightText, PlusText, ZeroText, WidthText, DecimalsText, LongText
<1>4. Prefix(long, pad, 0, dec) = a \o e \o e \o e \o e \o e \o e
  BY ONLY <1>3, Zenon DEF Prefix
<1>5. a \o e = a
  BY ONLY <1>2
<1>6. t = a \o d
  BY ONLY <1>2
<1>7. <<Code["c"]>> = d
  BY <1>2 DEF Code
<1>8. Spelled(Directive("c", long, pad, 0, dec, i)) = Prefix(long, pad, 0, dec) \o <<Code["c"]>>
  BY SpelledInParts
<1>9. Spelled(Directive("c", long, pad, 0, dec, i)) = t
  BY ONLY <1>4, <1>5, <1>6, <1>7, <1>8, Zenon
<1> QED BY ONLY <1>1, <1>2, <1>9, Zenon

(* A plain character. *)
LEMMA PlainPrints ==
  ASSUME NEW c \in 0 .. 255, c # Percent
  PROVE  Right(vprintf(<<c>>, <<>>))
<1>1. PICK t, e : t = <<c>> /\ e = <<>>
  OBVIOUS
<1>2. Complete(<<c>>, <<>>)
  BY PlainCounts
<1>3. Complete(t, e)
  BY ONLY <1>1, <1>2, Zenon
<1>4. Right(vprintf(t, e))
  BY ONLY <1>3, CompletePrints
<1> QED BY ONLY <1>1, <1>4, Zenon

(* "   " *)
LEMMA BlanksPrint == Right(vprintf(<<32, 32, 32>>, <<>>))
<1>1. PICK t, u, v, e : t = <<32>> /\ u = <<32, 32>> /\ v = <<32, 32, 32>> /\ e = <<>>
  OBVIOUS
<1>2. 32 \in 0 .. 255 /\ 32 # Percent
  BY DEF Percent
<1>3. Complete(t, e)
  <2>1. Complete(<<32>>, <<>>)
    BY ONLY <1>2, PlainCounts
  <2> QED BY ONLY <1>1, <2>1, Zenon
<1>4. u = t \o t
  BY ONLY <1>1
<1>5. v = u \o t
  BY ONLY <1>1
<1>6. e \o e = e
  BY ONLY <1>1
<1>7. Complete(t \o t, e \o e)
  BY ONLY <1>3, CountsBoth
<1>8. Complete(u, e)
  BY ONLY <1>4, <1>6, <1>7, Zenon
<1>9. Complete(u \o t, e \o e)
  BY ONLY <1>3, <1>8, CountsBoth
<1>10. Complete(v, e)
  BY ONLY <1>5, <1>6, <1>9, Zenon
<1>11. Right(vprintf(v, e))
  BY ONLY <1>10, CompletePrints
<1> QED BY ONLY <1>1, <1>11, Zenon

(* "%02x " *)
LEMMA BytePrints ==
  ASSUME NEW i \in Int
  PROVE  Right(vprintf(<<37, 48, 50, 120, 32>>, <<i>>))
<1>1. PICK t, u, v, e, a : t = <<37, 48, 50, 120>> /\ u = <<32>> /\ v = <<37, 48, 50, 120, 32>> /\ e = <<>> /\ a = <<i>>
  OBVIOUS
<1>2. Complete(t, a)
  <2>1. PICK c, l, pad, w : c = "x" /\ l = FALSE /\ pad = {"zero"} /\ w = 2
    OBVIOUS
  <2>2. c \in {"d", "x", "X", "u"} /\ l \in BOOLEAN /\ pad \in Pads /\ w \in Nat
    BY <2>1 DEF Pads
  <2>3. Complete(Spelled(Directive(c, l, pad, w, {}, i)), <<i>>)
    BY ONLY <2>2, i \in Int, NumberCounts
  <2>4. Spelled(Directive("x", FALSE, {"zero"}, 2, {}, i)) = <<37, 48, 50, 120>>
    BY ONLY ByteSpelled
  <2> QED BY ONLY <1>1, <2>1, <2>3, <2>4, Zenon
<1>3. Complete(u, e)
  <2>1. 32 \in 0 .. 255 /\ 32 # Percent
    BY DEF Percent
  <2>2. Complete(<<32>>, <<>>)
    BY ONLY <2>1, PlainCounts
  <2> QED BY ONLY <1>1, <2>2, Zenon
<1>4. v = t \o u
  BY ONLY <1>1
<1>5. a \o e = a
  <2>1. a \in Seq({i})
    BY <1>1
  <2> QED BY <1>1, <2>1, ConcatEmptySeq
<1>6. Complete(t \o u, a \o e)
  BY ONLY <1>2, <1>3, CountsBoth
<1>7. Complete(v, a)
  BY ONLY <1>4, <1>5, <1>6, Zenon
<1>8. Right(vprintf(v, a))
  BY ONLY <1>7, CompletePrints
<1> QED BY ONLY <1>1, <1>8, Zenon

(* "%08lx: " *)
LEMMA AddressPrints ==
  ASSUME NEW i \in Int
  PROVE  Right(vprintf(<<37, 48, 56, 108, 120, 58, 32>>, <<i>>))
<1>1. PICK t, u, v, e, a : t = <<37, 48, 56, 108, 120>> /\ u = <<58>> /\ v = <<32>> /\ e = <<>> /\ a = <<i>>
  OBVIOUS
<1>2. PICK y, z : y = <<37, 48, 56, 108, 120, 58>> /\ z = <<37, 48, 56, 108, 120, 58, 32>>
  OBVIOUS
<1>3. Complete(t, a)
  <2>1. PICK c, l, pad, w : c = "x" /\ l = TRUE /\ pad = {"zero"} /\ w = 8
    OBVIOUS
  <2>2. c \in {"d", "x", "X", "u"} /\ l \in BOOLEAN /\ pad \in Pads /\ w \in Nat
    BY <2>1 DEF Pads
  <2>3. Complete(Spelled(Directive(c, l, pad, w, {}, i)), <<i>>)
    BY ONLY <2>2, i \in Int, NumberCounts
  <2>4. Spelled(Directive("x", l, {"zero"}, 8, {}, i)) = <<37, 48, 56, 108, 120>>
    BY ONLY <2>1, AddressSpelled
  <2> QED BY ONLY <1>1, <2>1, <2>3, <2>4, Zenon
<1>4. Complete(u, e) /\ Complete(v, e)
  <2>1. 32 \in 0 .. 255 /\ 32 # Percent /\ 58 \in 0 .. 255 /\ 58 # Percent
    BY DEF Percent
  <2>2. Complete(<<58>>, <<>>) /\ Complete(<<32>>, <<>>)
    BY ONLY <2>1, PlainCounts
  <2> QED BY ONLY <1>1, <2>2, Zenon
<1>5. y = t \o u
  BY ONLY <1>1, <1>2
<1>6. z = y \o v
  BY ONLY <1>1, <1>2
<1>7. a \o e = a
  <2>1. a \in Seq({i})
    BY <1>1
  <2> QED BY <1>1, <2>1, ConcatEmptySeq
<1>8. Complete(t \o u, a \o e)
  BY ONLY <1>3, <1>4, CountsBoth
<1>9. Complete(y, a)
  BY ONLY <1>5, <1>7, <1>8, Zenon
<1>10. Complete(y \o v, a \o e)
  BY ONLY <1>4, <1>9, CountsBoth
<1>11. Complete(z, a)
  BY ONLY <1>6, <1>7, <1>10, Zenon
<1>12. Right(vprintf(z, a))
  BY ONLY <1>11, CompletePrints
<1> QED BY ONLY <1>1, <1>2, <1>12, Zenon

(* "%c" *)
LEMMA CharPrints ==
  ASSUME NEW i \in 0 .. 255
  PROVE  Right(vprintf(<<37, 99>>, <<i>>))
<1>1. PICK t, a : t = <<37, 99>> /\ a = <<i>>
  OBVIOUS
<1>2. Complete(t, a)
  <2>1. PICK c, pad, w : c = "c" /\ pad = {} /\ w = 0
    OBVIOUS
  <2>2. /\ c \in {"c", "s"} /\ pad \in Pads /\ w \in Nat
        /\ IF c = "c" THEN i \in 0 .. 255 ELSE i \in Seq(0 .. 255)
    BY <2>1 DEF Pads
  <2>3. Complete(Spelled(Directive(c, FALSE, pad, w, {}, i)), <<i>>)
    BY ONLY <2>2, TextCounts
  <2>4. Spelled(Directive("c", FALSE, {}, 0, {}, i)) = <<37, 99>>
    BY ONLY CharSpelled
  <2> QED BY ONLY <1>1, <2>1, <2>3, <2>4, Zenon
<1>3. Right(vprintf(t, a))
  BY ONLY <1>2, CompletePrints
<1> QED BY ONLY <1>1, <1>3, Zenon

(* A long is an integer. *)
LEMMA SignedIsInt ==
  ASSUME NEW i \in Int, NEW bits \in Nat
  PROVE  Signed(i, bits) \in Int
<1>1. PICK u : u = Unsigned(i, bits)
  OBVIOUS
<1>2. u \in Int
  BY <1>1, UnsignedRange
<1>3. PICK p, q : p = Power(2, bits) /\ q = Power(2, bits - 1)
  OBVIOUS
<1>4. p \in Int
  BY <1>3, PowersOfTwo
<1>5. Signed(i, bits) = IF u < q THEN u ELSE u - p
  BY <1>1, <1>3 DEF Signed
<1> QED BY <1>2, <1>4, <1>5

(* A line has a number of columns. *)
LEMMA ColumnsCount ==
  ASSUME NEW buf, NEW i
  PROVE  Cardinality(Columns(buf, i)) \in Nat
<1>1. IsFiniteSet(0 .. 15)
  <2>1. 0 \in Int /\ 15 \in Int
    OBVIOUS
  <2> QED BY ONLY <2>1, FS_Interval
<1>2. Columns(buf, i) \subseteq 0 .. 15
  BY DEF Columns
<1> QED BY <1>1, <1>2, FS_Subset, FS_CardinalityType

(* A format and its arguments. *)
Call(format, args) == [format |-> format, args |-> args]

(* The calls for the columns of a line. *)
LEMMA ColumnsRight ==
  ASSUME NEW n \in Nat, NEW V, NEW g, g = [k \in 1 .. n |-> g[k]], \A k \in 1 .. n : g[k] \in V
  PROVE  g \in Seq(V)
<1>1. g \in [1 .. n -> V]
  OBVIOUS
<1> QED BY <1>1

(* A line of a hexdump. *)
LEMMA LineRight ==
  ASSUME NEW buf \in Seq(0 .. 255), NEW baseAddr \in Int, NEW i \in Nat
  PROVE  Right(DumpLine(buf, baseAddr, i))
<1> DEFINE byte(j) == IF i + j < Len(buf) THEN buf[i + j + 1] ELSE 0
           addr    == Call(<<37, 48, 56, 108, 120, 58, 32>>, <<Signed(baseAddr + i, LongBits)>>)
           hex(j)  == IF j \in Columns(buf, i) THEN Call(<<37, 48, 50, 120, 32>>, <<byte(j)>>)
                      ELSE Call(<<32, 32, 32>>, <<>>)
           char(j) == Call(<<37, 99>>, <<IF isprint(byte(j)) THEN byte(j) ELSE Point>>)
           blank   == Call(<<32>>, <<>>)
           newline == Call(<<10>>, <<>>)
           n       == Cardinality(Columns(buf, i))
           H       == [k \in 1 .. 16 |-> hex(k - 1)]
           C       == [k \in 1 .. n |-> char(k - 1)]
           R       == {addr, blank, newline} \cup {hex(j) : j \in Nat} \cup {char(j) : j \in Nat}
           calls   == <<addr>> \o H \o <<blank>> \o C \o <<newline>>
           W       == [k \in 1 .. Len(calls) |-> vprintf(calls[k].format, calls[k].args)]
<1>1. DumpLine(buf, baseAddr, i) = Together(W)
  BY DEF DumpLine, Call
<1>2. ASSUME NEW j \in Nat
      PROVE  byte(j) \in 0 .. 255
  <2>1. i + j < Len(buf) => i + j + 1 \in 1 .. Len(buf)
    OBVIOUS
  <2> QED BY <2>1, ElementOfSeq
<1>3. n \in Nat
  BY ColumnsCount
<1> HIDE DEF byte, n
<1>4. ASSUME NEW f, NEW a, Right(vprintf(f, a))
      PROVE  Right(vprintf(Call(f, a).format, Call(f, a).args))
  <2>1. PICK c : c = Call(f, a)
    OBVIOUS
  <2>2. c.format = f /\ c.args = a
    BY <2>1 DEF Call
  <2> QED BY ONLY <1>4, <2>1, <2>2, Zenon
<1>5. Right(vprintf(addr.format, addr.args))
  <2>1. PICK x : x = Signed(baseAddr + i, LongBits)
    OBVIOUS
  <2>2. x \in Int
    BY <2>1, SignedIsInt, BitsAssumption
  <2>3. Right(vprintf(<<37, 48, 56, 108, 120, 58, 32>>, <<x>>))
    BY ONLY <2>2, AddressPrints
  <2> QED BY ONLY <1>4, <2>1, <2>3, Zenon
<1>6. ASSUME NEW j \in Nat
      PROVE  Right(vprintf(hex(j).format, hex(j).args))
  <2>1. PICK x : x = byte(j)
    OBVIOUS
  <2>2. x \in Int
    <3>1. byte(j) \in 0 .. 255
      BY <1>2
    <3> QED BY ONLY <2>1, <3>1
  <2>3. Right(vprintf(<<37, 48, 50, 120, 32>>, <<x>>))
    BY ONLY <2>2, BytePrints
  <2> QED BY ONLY <1>4, <2>1, <2>3, BlanksPrint, Zenon
<1>7. ASSUME NEW j \in Nat
      PROVE  Right(vprintf(char(j).format, char(j).args))
  <2>1. PICK x : x = IF isprint(byte(j)) THEN byte(j) ELSE Point
    OBVIOUS
  <2>2. x \in 0 .. 255
    <3>1. byte(j) \in 0 .. 255
      BY <1>2
    <3>2. Point \in 0 .. 255
      BY DEF Point
    <3> QED BY ONLY <2>1, <3>1, <3>2
  <2>3. Right(vprintf(<<37, 99>>, <<x>>))
    BY ONLY <2>2, CharPrints
  <2> QED BY ONLY <1>4, <2>1, <2>3, Zenon
<1>8. Right(vprintf(blank.format, blank.args)) /\ Right(vprintf(newline.format, newline.args))
  <2>1. 32 \in 0 .. 255 /\ 32 # Percent /\ 10 \in 0 .. 255 /\ 10 # Percent
    BY DEF Percent
  <2>2. Right(vprintf(<<32>>, <<>>)) /\ Right(vprintf(<<10>>, <<>>))
    BY ONLY <2>1, PlainPrints
  <2> QED BY ONLY <1>4, <2>2, Zenon
<1> HIDE DEF addr, hex, char, blank, newline
<1>9. \A c \in R : Right(vprintf(c.format, c.args))
  BY <1>5, <1>6, <1>7, <1>8, Zenon
<1>10. calls \in Seq(R)
  <2>1. addr \in R /\ blank \in R /\ newline \in R
    OBVIOUS
  <2>2. \A j \in Nat : hex(j) \in R /\ char(j) \in R
    OBVIOUS
  <2> HIDE DEF R
  <2>3. H \in Seq(R)
    <3>1. \A k \in 1 .. 16 : H[k] \in R
      BY <2>2
    <3>2. H = [k \in 1 .. 16 |-> H[k]] /\ 16 \in Nat
      OBVIOUS
    <3> HIDE DEF H
    <3> QED BY ONLY <3>1, <3>2, ColumnsRight
  <2>4. C \in Seq(R)
    <3>1. \A k \in 1 .. n : C[k] \in R
      BY <1>3, <2>2
    <3>2. C = [k \in 1 .. n |-> C[k]]
      OBVIOUS
    <3> HIDE DEF C
    <3> QED BY ONLY <1>3, <3>1, <3>2, ColumnsRight
  <2>5. <<addr>> \in Seq(R) /\ <<blank>> \in Seq(R) /\ <<newline>> \in Seq(R)
    BY ONLY <2>1
  <2> HIDE DEF H, C
  <2>6. \A s, t \in Seq(R) : s \o t \in Seq(R)
    BY ConcatProperties
  <2> QED BY ONLY <2>3, <2>4, <2>5, <2>6
<1> HIDE DEF calls, R
<1>11. Len(calls) \in Nat /\ \A k \in 1 .. Len(calls) : calls[k] \in R
  BY <1>10, ElementOfSeq
<1>12. W = [k \in 1 .. Len(calls) |-> W[k]]
  OBVIOUS
<1>13. \A k \in 1 .. Len(calls) : Right(W[k])
  <2>1. \A k \in 1 .. Len(calls) : W[k] = vprintf(calls[k].format, calls[k].args)
    OBVIOUS
  <2> HIDE DEF W
  <2> QED BY ONLY <1>9, <1>11, <2>1, Zenon
<1> HIDE DEF W
<1>14. AllRight(W)
  BY ONLY <1>11, <1>12, <1>13, ListRight
<1>15. Right(Together(W))
  BY ONLY <1>14, TogetherRight
<1> QED BY ONLY <1>1, <1>15, Zenon

(* A hexdump. *)
LEMMA DumpRight ==
  ASSUME NEW buf \in Seq(0 .. 255), NEW baseAddr \in Int
  PROVE  Right(hexdumpToByteStream(buf, baseAddr))
<1> DEFINE n == (Len(buf) + 15) \div 16
           L == [k \in 1 .. n |-> DumpLine(buf, baseAddr, 16 * (k - 1))]
<1>1. hexdumpToByteStream(buf, baseAddr) = Together(L)
  BY DEF hexdumpToByteStream
<1>2. n \in Nat
  <2>1. Len(buf) \in Nat
    OBVIOUS
  <2>2. \A m \in Nat : (m + 15) \div 16 \in Nat
    OBVIOUS
  <2> QED BY <2>1, <2>2
<1> HIDE DEF n
<1>3. L = [k \in 1 .. n |-> L[k]]
  OBVIOUS
<1>4. ASSUME NEW k \in 1 .. n
      PROVE  Right(L[k])
  <2>1. PICK i : i = 16 * (k - 1)
    OBVIOUS
  <2>2. i \in Nat
    BY <1>2, <2>1
  <2>3. L[k] = DumpLine(buf, baseAddr, i)
    BY <2>1
  <2>4. Right(DumpLine(buf, baseAddr, i))
    BY <2>2, LineRight
  <2> QED BY ONLY <2>3, <2>4, Zenon
<1> HIDE DEF L
<1>5. AllRight(L)
  BY ONLY <1>2, <1>3, <1>4, ListRight
<1>6. Right(Together(L))
  BY ONLY <1>5, TogetherRight
<1> QED BY ONLY <1>1, <1>6, Zenon

(* A call of one directive, between the brackets. *)
LEMMA PrintfRight ==
  ASSUME NEW kind, NEW d, NEW f, f = Spelled(d), NEW a, a = d.arg, Complete(f, <<a>>), Printf(kind, d)
  PROVE  job'.kind = kind /\ out' \in Seq(0 .. 255) /\ result' = Len(out')
<1>1. PICK c, V : c = <<a>> /\ V = {a}
  OBVIOUS
<1>2. IsSeq(c)
  <2>1. c \in Seq(V)
    BY <1>1
  <2> QED BY ONLY <2>1, Zenon DEF IsSeq
<1>3. PICK g : g = <<60>> \o f \o <<62>>
  OBVIOUS
<1>4. Complete(f, c)
  BY ONLY <1>1, Complete(f, <<a>>), Zenon
<1>5. Complete(<<60>> \o f \o <<62>>, c)
  BY ONLY <1>2, <1>4, BracketsComplete
<1>6. Complete(g, c)
  BY ONLY <1>3, <1>5, Zenon
<1>7. Right(vprintf(g, c))
  BY ONLY <1>6, CompletePrints
<1>8. Brackets[1] = 60 /\ Brackets[2] = 62
  BY DEF Brackets
<1>9. PICK p : p = vprintf(<<Brackets[1]>> \o Spelled(d) \o <<Brackets[2]>>, <<d.arg>>)
  OBVIOUS
<1>10. job' = [kind |-> kind, directive |-> d] /\ out' = p.out /\ result' = p.pc
  BY <1>9 DEF Printf
<1>11. p = vprintf(g, c)
  BY ONLY <1>1, <1>3, <1>8, <1>9, f = Spelled(d), a = d.arg, Zenon
<1>12. out' \in Seq(0 .. 255) /\ result' = Len(out')
  BY ONLY <1>7, <1>10, <1>11, Zenon DEF Right
<1>13. job'.kind = kind
  BY <1>10
<1> QED BY <1>12, <1>13

Written(kinds) == job'.kind \in kinds /\ out' \in Seq(0 .. 255) /\ result' = Len(out')

(* A call of a directive that counts all. *)
LEMMA DirectiveWritten ==
  ASSUME NEW kinds, NEW kind \in kinds, NEW conv, NEW l, NEW pad, NEW w, NEW dec, NEW arg,
         Complete(Spelled(Directive(conv, l, pad, w, dec, arg)), <<arg>>),
         Printf(kind, Directive(conv, l, pad, w, dec, arg))
  PROVE  Written(kinds)
<1>1. PICK d, f : d = Directive(conv, l, pad, w, dec, arg) /\ f = Spelled(d)
  OBVIOUS
<1>2. arg = d.arg
  BY <1>1 DEF Directive
<1>3. Complete(f, <<arg>>) /\ Printf(kind, d)
  BY ONLY <1>1, Complete(Spelled(Directive(conv, l, pad, w, dec, arg)), <<arg>>),
          Printf(kind, Directive(conv, l, pad, w, dec, arg)), Zenon
<1>4. job'.kind = kind /\ out' \in Seq(0 .. 255) /\ result' = Len(out')
  BY ONLY <1>1, <1>2, <1>3, PrintfRight
<1> QED BY <1>4 DEF Written

(* The calls with a number. *)
LEMMA NumberWritten ==
  ASSUME PrintNumber
  PROVE  Written({"number"})
<1>1. PICK conv \in {"d", "x", "X", "u"}, l \in BOOLEAN, pad \in Pads, w \in Widths :
        \E i \in Args(conv, l) : Printf("number", Directive(conv, l, pad, w, {}, i))
  BY DEF PrintNumber
<1>2. PICK i \in Args(conv, l) : Printf("number", Directive(conv, l, pad, w, {}, i))
  BY <1>1
<1>3. i \in Int /\ w \in Nat
  BY ArgsFit, WidthsFit
<1>4. Complete(Spelled(Directive(conv, l, pad, w, {}, i)), <<i>>)
  BY <1>3, NumberCounts
<1>5. PICK kind, kinds, dec : kind = "number" /\ kinds = {"number"} /\ dec = {} /\ kind \in kinds
  OBVIOUS
<1>6. /\ Complete(Spelled(Directive(conv, l, pad, w, dec, i)), <<i>>)
      /\ Printf(kind, Directive(conv, l, pad, w, dec, i))
  BY ONLY <1>2, <1>4, <1>5, Zenon
<1>7. Written(kinds)
  BY ONLY <1>5, <1>6, DirectiveWritten
<1> QED BY ONLY <1>5, <1>7, Zenon

(* The calls with a double. *)
LEMMA DoubleWritten ==
  ASSUME PrintDouble
  PROVE  Written({"double"})
<1>1. PICK pad \in Pads, w \in Widths, n \in Decimals, dbl \in Doubles :
        Printf("double", Directive("f", FALSE, pad, w, {n}, dbl))
  BY DEF PrintDouble
<1>2. dbl \in Int /\ w \in Nat /\ n \in Nat
  BY DoublesAreInts, WidthsFit, WidthsAssumption
<1>3. Complete(Spelled(Directive("f", FALSE, pad, w, {n}, dbl)), <<dbl>>)
  BY <1>2, DoubleCounts
<1>4. PICK kind, kinds, dec, conv, l :
        kind = "double" /\ kinds = {"double"} /\ dec = {n} /\ conv = "f" /\ l = FALSE /\ kind \in kinds
  OBVIOUS
<1>5. /\ Complete(Spelled(Directive(conv, l, pad, w, dec, dbl)), <<dbl>>)
      /\ Printf(kind, Directive(conv, l, pad, w, dec, dbl))
  BY ONLY <1>1, <1>3, <1>4, Zenon
<1>6. Written(kinds)
  BY ONLY <1>4, <1>5, DirectiveWritten
<1> QED BY ONLY <1>4, <1>6, Zenon

(* The calls with a string or a character. *)
LEMMA StringWritten ==
  ASSUME PrintString \/ PrintChar
  PROVE  Written({"string", "char"})
<1>1. PICK kind \in {"string", "char"}, conv \in {"c", "s"}, pad \in Pads, w \in Widths,
           arg \in (0 .. 255) \cup Seq(0 .. 255) :
        /\ Printf(kind, Directive(conv, FALSE, pad, w, {}, arg))
        /\ IF conv = "c" THEN arg \in 0 .. 255 ELSE arg \in Seq(0 .. 255)
  <2>1. CASE PrintString
    <3>1. PICK p \in Pads, v \in Widths, s \in Strings : Printf("string", Directive("s", FALSE, p, v, {}, s))
      BY <2>1 DEF PrintString
    <3>2. s \in Seq(0 .. 255)
      BY StringsAreBytes
    <3> QED BY <3>1, <3>2
  <2>2. CASE PrintChar
    <3>1. PICK p \in Pads, v \in Widths, c \in {0, 97} : Printf("char", Directive("c", FALSE, p, v, {}, c))
      BY <2>2 DEF PrintChar
    <3>2. c \in 0 .. 255
      OBVIOUS
    <3> QED BY <3>1, <3>2
  <2> QED BY <2>1, <2>2
<1>2. w \in Nat
  BY WidthsFit
<1>3. Complete(Spelled(Directive(conv, FALSE, pad, w, {}, arg)), <<arg>>)
  BY <1>1, <1>2, TextCounts
<1>4. PICK kinds, dec, l : kinds = {"string", "char"} /\ dec = {} /\ l = FALSE
  OBVIOUS
<1>5. /\ Complete(Spelled(Directive(conv, l, pad, w, dec, arg)), <<arg>>)
      /\ Printf(kind, Directive(conv, l, pad, w, dec, arg))
  BY ONLY <1>1, <1>3, <1>4, Zenon
<1>6. kind \in kinds
  BY <1>4
<1>7. Written(kinds)
  BY ONLY <1>5, <1>6, DirectiveWritten
<1> QED BY ONLY <1>4, <1>7, Zenon

(* The buffers that are dumped. *)
LEMMA BytesOfDumps ==
  ASSUME NEW n \in DumpLengths
  PROVE  Bytes(n) \in Seq(0 .. 255)
<1>1. n \in Nat
  BY DumpsAssumption
<1>2. \A k \in 1 .. n : (37 * k + 200) % 256 \in 0 .. 255
  BY <1>1
<1>3. Bytes(n) \in [1 .. n -> 0 .. 255]
  BY <1>2 DEF Bytes
<1> QED BY <1>1, <1>3

(* The addresses of dumps. *)
LEMMA AddressesAreInts == Addresses \subseteq Int
<1>1. PICK p, q : p = Power(2, LongBits - 1) /\ q = Power(2, LongBits)
  OBVIOUS
<1>2. LongBits \in Nat /\ LongBits - 1 \in Nat
  BY BitsAssumption
<1>3. p \in Int /\ q \in Int
  BY <1>1, <1>2, PowersOfTwo
<1> QED BY <1>1, <1>3 DEF Addresses

(* The calls of the hexdump. *)
LEMMA DumpWritten ==
  ASSUME Dump
  PROVE  Written({"dump"})
<1>1. PICK n \in DumpLengths, baseAddr \in Addresses :
        \E p \in {hexdumpToByteStream(Bytes(n), baseAddr)} :
          job' = [kind |-> "dump", buf |-> Bytes(n), baseAddr |-> baseAddr] /\ out' = p.out /\ result' = p.pc
  BY DEF Dump
<1>2. PICK b : b = Bytes(n)
  OBVIOUS
<1>3. b \in Seq(0 .. 255) /\ baseAddr \in Int
  BY <1>2, BytesOfDumps, AddressesAreInts
<1>4. Right(hexdumpToByteStream(b, baseAddr))
  BY ONLY <1>3, DumpRight
<1>5. out' = hexdumpToByteStream(b, baseAddr).out /\ result' = hexdumpToByteStream(b, baseAddr).pc
  BY <1>1, <1>2
<1>6. out' \in Seq(0 .. 255) /\ result' = Len(out')
  BY ONLY <1>4, <1>5, Zenon DEF Right
<1>7. job'.kind = "dump"
  BY <1>1
<1> QED BY <1>6, <1>7 DEF Written

(* An unknown conversion is printed, too, but not counted. *)
LEMMA UnknownWritten ==
  ASSUME PrintUnknown
  PROVE  job'.kind = "unknown" /\ out' \in Seq(0 .. 255) /\ result' = Len(out') - 2
<1>1. PICK pad, dec, l, c, d, f :
        /\ pad = {"zero"} /\ dec = {} /\ l = FALSE /\ c = "q" /\ d = Directive(c, l, pad, 4, dec, 0) /\ f = Spelled(d)
  OBVIOUS
<1>2. PICK e, t, u, q, a : e = <<>> /\ t = <<60>> /\ u = <<62>> /\ q = <<Percent, Code.q>> /\ a = <<0>>
  OBVIOUS
<1>3. PICK z : z = 0
  OBVIOUS
<1>30. Apart(f, e, q, 0, z, z)
  <2>1. l \in BOOLEAN /\ pad \in Pads /\ 4 \in Nat /\ IsDecimals(dec) /\ DecOf(dec, z) = z
    BY <1>1 DEF Pads, IsDecimals, DecOf
  <2>2. Apart(Spelled(Directive("q", l, pad, 4, dec, 0)), <<>>, <<Percent, Code.q>>, 0, z, DecOf(dec, z))
    BY ONLY <2>1, UnknownApart
  <2> QED BY ONLY <1>1, <1>2, <2>1, <2>2, Zenon
<1>4. Apart(t, e, t, 1, z, z) /\ Apart(u, e, u, 1, z, z)
  <2>1. 60 \in 0 .. 255 /\ 62 \in 0 .. 255 /\ 60 # Percent /\ 62 # Percent
    BY DEF Percent
  <2>2. Apart(<<60>>, <<>>, <<60>>, 1, z, z) /\ Apart(<<62>>, <<>>, <<62>>, 1, z, z)
    BY ONLY <2>1, PlainApart
  <2> QED BY ONLY <1>2, <2>2, Zenon
<1>5. e \o e = e
  BY ONLY <1>2
<1>6. PICK g, h, x, y : g = t \o f /\ h = g \o u /\ x = t \o q /\ y = x \o u
  OBVIOUS
<1>7. Apart(g, e, x, 1, z, z)
  <2>1. Apart(t \o f, e \o e, t \o q, 1 + 0, z, z)
    BY ONLY <1>30, <1>4, ApartBoth
  <2>2. 1 + 0 = 1
    OBVIOUS
  <2> QED BY ONLY <1>5, <1>6, <2>1, <2>2, Zenon
<1>8. Apart(h, e, y, 2, z, z)
  <2>1. Apart(g \o u, e \o e, x \o u, 1 + 1, z, z)
    BY ONLY <1>4, <1>7, ApartBoth
  <2>2. 1 + 1 = 2
    OBVIOUS
  <2> QED BY ONLY <1>5, <1>6, <2>1, <2>2, Zenon
<1>9. IsSeq(a)
  <2>1. a \in Seq({0})
    BY <1>2
  <2> QED BY ONLY <2>1, Zenon DEF IsSeq
<1>10. vprintf(h, e \o a).out = y /\ vprintf(h, e \o a).pc = 2
  <2>1. Apart(h, e, y, 2, 0, z)
    BY ONLY <1>3, <1>8, Zenon
  <2> QED BY ONLY <1>9, <2>1, ApartPrints
<1>11. e \o a = a
  BY ONLY <1>2, <1>9, NoneJoined
<1>12. out' = y /\ result' = 2 /\ job'.kind = "unknown"
  <2>1. d.arg = 0
    BY <1>1 DEF Directive
  <2>2. Brackets[1] = 60 /\ Brackets[2] = 62
    BY DEF Brackets
  <2>3. Printf("unknown", d)
    <3>1. Printf("unknown", Directive("q", FALSE, {"zero"}, 4, {}, 0))
      BY DEF PrintUnknown
    <3> QED BY ONLY <1>1, <3>1, Zenon
  <2>4. PICK p : p = vprintf(<<Brackets[1]>> \o Spelled(d) \o <<Brackets[2]>>, <<d.arg>>)
    OBVIOUS
  <2>5. job' = [kind |-> "unknown", directive |-> d] /\ out' = p.out /\ result' = p.pc
    BY <2>3, <2>4 DEF Printf
  <2>6. p = vprintf(h, a)
    BY ONLY <1>1, <1>2, <1>6, <2>1, <2>2, <2>4, Zenon
  <2>7. job'.kind = "unknown"
    BY ONLY <2>5
  <2> QED BY ONLY <1>10, <1>11, <2>5, <2>6, <2>7, Zenon
<1>13. y \in Seq(0 .. 255) /\ Len(y) = 4
  <2>1. /\ q \in Seq(0 .. 255) /\ t \in Seq(0 .. 255) /\ u \in Seq(0 .. 255)
        /\ Len(q) = 2 /\ Len(t) = 1 /\ Len(u) = 1
    BY ONLY <1>2 DEF Percent, Code
  <2>2. x \in Seq(0 .. 255) /\ Len(x) = Len(t) + Len(q)
    BY ONLY <1>6, <2>1, ConcatProperties
  <2>3. y \in Seq(0 .. 255) /\ Len(y) = Len(x) + Len(u)
    BY ONLY <1>6, <2>1, <2>2, ConcatProperties
  <2> QED BY <2>1, <2>2, <2>3
<1> QED BY <1>12, <1>13

(* The calls with many parts. *)
LEMMA MixedWritten ==
  ASSUME PrintMixed
  PROVE  job'.kind = "mixed" /\ out' \in Seq(0 .. 255)
<1>1. PICK parts : IsMixed(parts) /\ CallsMixed(parts)
  BY MixedCalled
<1>2. out' \in Seq(0 .. 255)
  BY ONLY <1>1, MixedPrints, Zenon DEF CallsMixed
<1>3. job'.kind = "mixed"
  BY <1>1 DEF CallsMixed
<1> QED BY <1>2, <1>3

(* Every call writes bytes and returns how many, but for an unknown        *)
(* conversion, which is not counted.                                       *)
THEOREM TextIsCounted == Spec => []TypeOK
<1>1. Init => TypeOK
  <2>1. PICK e : e = <<>>
    OBVIOUS
  <2>2. e \in Seq(0 .. 255) /\ Len(e) = 0
    BY ONLY <2>1
  <2> QED BY <2>1, <2>2 DEF Init, TypeOK
<1>2. ASSUME Written({"number", "double", "string", "char", "dump"})
      PROVE  TypeOK'
  <2>1. /\ job'.kind \in {"number", "double", "string", "char", "dump"}
        /\ out' \in Seq(0 .. 255) /\ result' = Len(out')
    BY ONLY <1>2, Zenon DEF Written
  <2>2. /\ job'.kind \in {"number", "double", "string", "char", "unknown", "mixed", "dump"}
        /\ job'.kind # "unknown"
    BY <2>1
  <2> QED BY <2>1, <2>2 DEF TypeOK
<1>3. ASSUME NEW kinds, kinds \subseteq {"number", "double", "string", "char", "dump"}, Written(kinds)
      PROVE  Written({"number", "double", "string", "char", "dump"})
  BY <1>3 DEF Written
<1>4. ASSUME Next
      PROVE  TypeOK'
  <2>1. CASE PrintNumber
    BY <1>2, <1>3, <2>1, NumberWritten
  <2>2. CASE PrintDouble
    BY <1>2, <1>3, <2>2, DoubleWritten
  <2>3. CASE PrintString \/ PrintChar
    BY <1>2, <1>3, <2>3, StringWritten
  <2>4. CASE PrintUnknown
    <3>1. job'.kind = "unknown" /\ out' \in Seq(0 .. 255) /\ result' = Len(out') - 2
      BY ONLY <2>4, UnknownWritten
    <3>2. job' # none
      BY <3>1 DEF none
    <3> QED BY <3>1, <3>2 DEF TypeOK
  <2>5. CASE PrintMixed
    <3>1. job'.kind = "mixed" /\ out' \in Seq(0 .. 255)
      BY ONLY <2>5, MixedWritten
    <3>2. job' # none
      BY <3>1 DEF none
    <3> QED BY <3>1, <3>2 DEF TypeOK
  <2>6. CASE Dump
    BY <1>2, <1>3, <2>6, DumpWritten
  <2>7. CASE Return
    <3>1. PICK e : e = <<>>
      OBVIOUS
    <3>2. e \in Seq(0 .. 255) /\ Len(e) = 0
      BY ONLY <3>1
    <3> QED BY <2>7, <3>1, <3>2 DEF Return, TypeOK
  <2> QED BY <1>4, <2>1, <2>2, <2>3, <2>4, <2>5, <2>6, <2>7 DEF Next
<1>5. TypeOK /\ UNCHANGED vars => TypeOK'
  BY DEF vars, TypeOK
<1> QED BY <1>1, <1>4, <1>5, PTL DEF Spec
=============================================================================
