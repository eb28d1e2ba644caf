--------------------------- MODULE PrintfToStream ---------------------------
(***************************************************************************)
(* What vprintf() of PrintfToStream and hexdumpToByteStream() write, as    *)
(* functions of their arguments.  A text is a sequence of character codes, *)
(* in the order of the put_char() calls; the stream below accepts all.     *)
(*                                                                         *)
(* A format is a text, too; args are the arguments in the va_list.  No     *)
(* format ends inside of a directive, unless just behind its `%'.  int has *)
(* IntBits bits, long, intptr_t and uintptr_t have LongBits.  A double is  *)
(* a whole number of 1 / Parts.                                            *)
(***************************************************************************)
EXTENDS Integers, Sequences, FiniteSets, SequencesExt

CONSTANTS
  IntBits, LongBits,
  PRINT_BUF_LEN,    \* room for all decimal digits of a long, a sign and the final null
  Samples,          \* the integers that are printed, but for the least and greatest; and their negatives
  Widths, Decimals, \* the widths and numbers of decimals in directives
  Parts,            \* the resolution of a double
  DumpLengths,      \* the lengths of the buffers that are dumped
  Mixed, MaxMixed   \* a list of parts that are mixed in one format, and how many at most

(* base to the n-th. *)
Power(base, n) ==
  LET power[m \in 0 .. n] == IF m = 0 THEN 1 ELSE base * power[m - 1]
  IN power[n]

(* 22 characters for 64 bits, 12 for 32.  Widths fit into an int, decimals *)
(* into an unsigned int.                                                   *)
ASSUME BitsAssumption    == IntBits \in Nat /\ LongBits \in Nat /\ 2 <= IntBits /\ IntBits <= LongBits
ASSUME BufferAssumption  == PRINT_BUF_LEN \in Nat /\ PRINT_BUF_LEN >= 2
                            /\ Power(2, LongBits) <= Power(10, PRINT_BUF_LEN - 2)
ASSUME SamplesAssumption == Samples \subseteq Nat
ASSUME WidthsAssumption  == Widths \subseteq 0 .. Power(2, IntBits - 1) - 1
                            /\ Decimals \subseteq 0 .. Power(2, IntBits) - 1
ASSUME PartsAssumption   == Parts \in Nat \ {0}
ASSUME DumpsAssumption   == DumpLengths \subseteq Nat

Unsigned(i, bits) == i % Power(2, bits)
Signed(i, bits)   == LET u == Unsigned(i, bits)
                     IN IF u < Power(2, bits - 1) THEN u ELSE u - Power(2, bits)

Space   == 32
Percent == 37
Plus    == 43
Minus   == 45
Point   == 46
Zero    == 48

VARIABLES
  job,      \* what is printed: a directive or a dump
  out,      \* the text
  result    \* the value that vprintf() or hexdumpToByteStream() returns

vars == <<job, out, result>>
-----------------------------------------------------------------------------
(* prints(): a string, padded to a width. *)
prints(s, width, pad) ==
  LET fill    == IF Len(s) >= width THEN 0 ELSE width - Len(s)
      padding == [k \in 1 .. fill |-> IF "zero" \in pad THEN Zero ELSE Space]
  IN IF "right" \in pad THEN s \o padding ELSE padding \o s

DigitChar(t, letterBase) == IF t >= 10 THEN t + letterBase - 10 ELSE t + Zero

(* The digits of u > 0, no digit for u = 0. *)
Digits(u, base, letterBase) ==
  LET digits[n \in 0 .. u] ==
        IF n = 0 THEN <<>> ELSE Append(digits[n \div base], DigitChar(n % base, letterBase))
  IN digits[u]

(* The integer that printi() looks at: without `long' it is cut to an int. *)
Shown(i, pad) == IF "long" \in pad THEN i ELSE Signed(i, IntBits)

IsNegative(i, base, sign, pad) == sign /\ base = 10 /\ Shown(i, pad) < 0

SignFirst(i, base, sign, width, pad) ==
  IsNegative(i, base, sign, pad) /\ width # 0 /\ "zero" \in pad

(* The sign in print_buf. *)
Sign(i, base, sign, width, pad) ==
  IF IsNegative(i, base, sign, pad)
    THEN IF SignFirst(i, base, sign, width, pad) THEN <<>> ELSE <<Minus>>
    ELSE IF "plus" \in pad THEN <<Plus>> ELSE <<>>

(* Variant: the number is padded in the buffer. *)
StoredPadded(i, base, sign, width, pad, letterBase) ==
  LET u == IF IsNegative(i, base, sign, pad) THEN Unsigned(-Shown(i, pad), LongBits)
           ELSE Unsigned(i, IF "long" \in pad THEN LongBits ELSE IntBits)
  IN IF i = 0 THEN <<Zero>>
     ELSE prints(Sign(i, base, sign, width, pad) \o Digits(u, base, letterBase), width, pad)

(* What stands in print_buf in the end, without the final null.  -i of the *)
(* least long is, as compiled, that long again: its magnitude as unsigned. *)
Stored(i, base, sign, width, pad, letterBase) ==
  LET u == IF IsNegative(i, base, sign, pad) THEN Unsigned(-Shown(i, pad), LongBits)
           ELSE Unsigned(i, IF "long" \in pad THEN LongBits ELSE IntBits)
  IN IF i = 0 THEN <<Zero>>
     ELSE Sign(i, base, sign, width, pad) \o Digits(u, base, letterBase)

(* Variant: the width is not reduced by the sign that is printed first. *)
printiLong(i, base, sign, width, pad, letterBase) ==
  LET s == Stored(i, base, sign, width, pad, letterBase)
  IN IF i # 0 /\ SignFirst(i, base, sign, width, pad)
       THEN <<Minus>> \o prints(s, width, pad)
       ELSE prints(s, Unsigned(width, IntBits), pad)

(* printi(); its int width is an unsigned one for prints(). *)
printi(i, base, sign, width, pad, letterBase) ==
  LET s == Stored(i, base, sign, width, pad, letterBase)
  IN IF i # 0 /\ SignFirst(i, base, sign, width, pad)
       THEN <<Minus>> \o prints(s, Unsigned(width - 1, IntBits), pad)
       ELSE prints(s, Unsigned(width, IntBits), pad)

(* The power of ten, as an unsigned int. *)
Mult(dec_digits) == Unsigned(Power(10, dec_digits), IntBits)

Magnitude(dbl) == IF dbl < 0 THEN -dbl ELSE dbl

(* The decimals, rounded: they may come to one whole. *)
Rounded(dbl, dec_digits) ==
  ((Magnitude(dbl) % Parts) * Mult(dec_digits) * 2 + Parts) \div (2 * Parts)

(* Variant: decimals that round up to one whole are not carried. *)
SplitNoCarry(dbl, dec_digits) ==
  [whole |-> Magnitude(dbl) \div Parts, decimal |-> Rounded(dbl, dec_digits)]

(* wholeNum and decimalNum, after the carry. *)
Split(dbl, dec_digits) ==
  LET carry == IF Rounded(dbl, dec_digits) >= Mult(dec_digits) THEN 1 ELSE 0
  IN [whole   |-> Magnitude(dbl) \div Parts + carry,
      decimal |-> Rounded(dbl, dec_digits) - carry * Mult(dec_digits)]

(* dbl2stri() *)
dbl2stri(dbl, width, dec_digits, pad) ==
  LET n        == Split(dbl, dec_digits)
      signed   == Unsigned(IF dbl < 0 THEN -n.whole ELSE n.whole, IntBits)
      intWidth == IF dec_digits = 0 THEN width
                  ELSE IF "right" \in pad \/ width - dec_digits < 1 THEN 0
                  ELSE width - dec_digits - 1
      whole    == printi(signed, 10, TRUE, intWidth, pad, 97)
      decWidth == IF "right" \in pad THEN width - Len(whole) - 1 ELSE dec_digits
      decPad   == IF "right" \in pad THEN {"right"} ELSE {"zero"}
  IN IF dec_digits = 0 THEN whole
     ELSE whole \o <<Point>> \o printi(n.decimal, 10, FALSE, decWidth, decPad, 97)
-----------------------------------------------------------------------------
(* vprintf(): one character of the format after the other.  The parts of a *)
(* directive have an order, so it is read in stages: 1 behind the `%', 2   *)
(* behind `-', 3 behind `+' or zeros, 4 inside of width and decimals, 5    *)
(* behind `l'; the stage is 0 between directives.                          *)

NullPointer == <<0>>        \* no string holds a null character

Code == [c |-> 99, d |-> 100, f |-> 102, l |-> 108, q |-> 113, s |-> 115, t |-> 116,
         u |-> 117, x |-> 120, X |-> 88]
Conversions == {Code.c, Code.d, Code.f, Code.s, Code.u, Code.x, Code.X}

(* What conversion c prints of the next argument. *)
Text(s, c) ==
  LET arg == Head(s.args)
      pad == s.pad \cup (IF s.isLong THEN {"long"} ELSE {})
  IN CASE c = Code.d -> printi(arg, 10, TRUE, s.width, pad, 97)
       [] c = Code.x -> printi(arg, 16, FALSE, s.width, pad, 97)
       [] c = Code.X -> printi(arg, 16, FALSE, s.width, pad, 65)
       [] c = Code.u -> printi(arg, 10, FALSE, s.width, pad, 97)
       [] c = Code.c -> prints(IF arg = 0 THEN <<>> ELSE <<arg>>, s.width, s.pad)
       [] c = Code.s -> prints(IF arg = NullPointer THEN <<40, 110, 117, 108, 108, 41>> ELSE arg,
                               s.width, s.pad)
       [] c = Code.f -> dbl2stri(arg, s.width, s.dec_width, s.pad)

Put(s, text) == [s EXCEPT !.out = @ \o text, !.pc = @ + Len(text), !.stage = 0]

(* Variant: the two characters of an unknown conversion are counted. *)
ConvertCountsAll(s, c) ==
  IF c \in Conversions THEN [Put(s, Text(s, c)) EXCEPT !.args = Tail(@)]
  ELSE Put(s, <<Percent, c>>)

(* An unknown conversion is printed as it stands and not counted. *)
Convert(s, c) ==
  IF c \in Conversions THEN [Put(s, Text(s, c)) EXCEPT !.args = Tail(@)]
  ELSE [s EXCEPT !.out = @ \o <<Percent, c>>, !.stage = 0]

(* Variant: the width of the directive before is not cleared. *)
BeginKeepsWidth(s) ==
  [s EXCEPT !.stage = 1, !.pad = {}, !.isLong = FALSE, !.post_decimal = FALSE]

(* dec_width stays what the last directive with a point has set it to. *)
Begin(s) ==
  [s EXCEPT !.stage = 1, !.width = 0, !.pad = {}, !.isLong = FALSE, !.post_decimal = FALSE]

Digit(s, n) ==
  IF s.post_decimal THEN [s EXCEPT !.stage = 4, !.dec_width = 10 * @ + n]
  ELSE [s EXCEPT !.stage = 4, !.width = 10 * @ + n]

(* The first of the cases that applies. *)
Read(s, c) ==
  IF s.stage = 0 THEN IF c = Percent THEN Begin(s) ELSE Put(s, <<c>>)
  ELSE IF c = Percent /\ s.stage = 1 THEN Put(s, <<c>>)
  ELSE IF c = Minus /\ s.stage = 1 THEN [s EXCEPT !.stage = 2, !.pad = @ \cup {"right"}]
  ELSE IF c = Plus /\ s.stage <= 2 THEN [s EXCEPT !.stage = 3, !.pad = @ \cup {"plus"}]
  ELSE IF c = Zero /\ s.stage <= 3 THEN [s EXCEPT !.stage = 3, !.pad = @ \cup {"zero"}]
  ELSE IF c = Point /\ s.stage <= 4
    THEN [s EXCEPT !.stage = 4, !.post_decimal = TRUE, !.dec_width = 0]
  ELSE IF c \in 48 .. 57 /\ s.stage <= 4 THEN Digit(s, c - Zero)
  ELSE IF c \in {Code.t, Code.l} /\ s.stage <= 4 THEN [s EXCEPT !.stage = 5, !.isLong = TRUE]
  ELSE Convert(s, c)

Unread(args) ==
  [out |-> <<>>, pc |-> 0, args |-> args, stage |-> 0, width |-> 0, pad |-> {},
   isLong |-> FALSE, post_decimal |-> FALSE, dec_width |-> 0]

vprintf(format, args) ==
  LET read[n \in 0 .. Len(format)] == IF n = 0 THEN Unread(args) ELSE Read(read[n - 1], format[n])
  IN read[Len(format)]
-----------------------------------------------------------------------------
(* hexdumpToByteStream() *)

isprint(c) == c \in 32 .. 126

(* Variant: one column too many is taken from the buffer. *)
ColumnsTooMany(buf, i) == {j \in 0 .. 15 : i + j <= Len(buf)}

(* The columns of the line at offset i that are in the buffer. *)
Columns(buf, i) == {j \in 0 .. 15 : i + j < Len(buf)}

(* What several calls write together. *)
Together(calls) ==
  LET sum[n \in 0 .. Len(calls)] ==
        IF n = 0 THEN [out |-> <<>>, pc |-> 0]
        ELSE LET before == sum[n - 1]
             IN [out |-> before.out \o calls[n].out, pc |-> before.pc + calls[n].pc]
  IN sum[Len(calls)]

(* The printf() calls of one line. *)
DumpLine(buf, baseAddr, i) ==
  LET call(format, args) == [format |-> format, args |-> args]
      byte(j) == IF i + j < Len(buf) THEN buf[i + j + 1] ELSE 0
      addr    == call(<<37, 48, 56, 108, 120, 58, 32>>, <<Signed(baseAddr + i, LongBits)>>)  \* "%08lx: "
      hex(j)  == IF j \in Columns(buf, i) THEN call(<<37, 48, 50, 120, 32>>, <<byte(j)>>)  \* "%02x "
                 ELSE call(<<32, 32, 32>>, <<>>)
      char(j) == call(<<37, 99>>, <<IF isprint(byte(j)) THEN byte(j) ELSE Point>>)
      calls   == <<addr>> \o [k \in 1 .. 16 |-> hex(k - 1)] \o <<call(<<32>>, <<>>)>>
                 \o [k \in 1 .. Cardinality(Columns(buf, i)) |-> char(k - 1)] \o <<call(<<10>>, <<>>)>>
  IN Together([k \in 1 .. Len(calls) |-> vprintf(calls[k].format, calls[k].args)])

hexdumpToByteStream(buf, baseAddr) ==
  Together([k \in 1 .. (Len(buf) + 15) \div 16 |-> DumpLine(buf, baseAddr, 16 * (k - 1))])
-----------------------------------------------------------------------------
(* One call at a time.  A client that means a directive spells it as a     *)
(* format.                                                                 *)

Directive(conv, long, pad, width, dec, arg) ==
  [conv |-> conv, long |-> long, pad |-> pad, width |-> width, dec |-> dec, arg |-> arg]

Numeral(n) == IF n = 0 THEN <<Zero>> ELSE Digits(n, 10, 97)

Spelled(d) ==
  <<Percent>>
  \o (IF "right" \in d.pad THEN <<Minus>> ELSE <<>>)
  \o (IF "plus" \in d.pad THEN <<Plus>> ELSE <<>>)
  \o (IF "zero" \in d.pad THEN <<Zero>> ELSE <<>>)
  \o (IF d.width = 0 THEN <<>> ELSE Numeral(d.width))
  \o (IF d.dec = {} THEN <<>> ELSE <<Point>> \o Numeral(CHOOSE n \in d.dec : TRUE))
  \o (IF d.long THEN <<Code.l>> ELSE <<>>)
  \o <<Code[d.conv]>>

Pads      == SUBSET {"right", "plus", "zero"}
Brackets  == <<60, 62>>     \* literal characters around the directive
Bits(l)   == IF l THEN LongBits ELSE IntBits
Least(l)  == -Power(2, Bits(l) - 1)
Most(l)   == Power(2, Bits(l) - 1) - 1
Edges(l)  == {i \in Samples \cup {-n : n \in Samples} \cup {Least(l), Least(l) + 1, Most(l)} :
                Least(l) <= i /\ i <= Most(l)}
Args(conv, l) == IF conv = "u" THEN {Unsigned(i, Bits(l)) : i \in Edges(l)} ELSE Edges(l)
Doubles   == {w * Parts + p : w \in {-100, -10, -2, -1, 0, 1, 9, 10, Most(FALSE)}, p \in 0 .. Parts - 1}
Strings   == {NullPointer, <<>>, <<97>>, <<97, 98, 99>>}
Bytes(n)  == [k \in 1 .. n |-> (37 * k + 200) % 256]
Addresses == {0, Power(2, LongBits - 1) + 5, Power(2, LongBits) - 16}
none      == [kind |-> "none"]

Printf(kind, directive) ==
  LET p == vprintf(<<Brackets[1]>> \o Spelled(directive) \o <<Brackets[2]>>, <<directive.arg>>)
  IN /\ job' = [kind |-> kind, directive |-> directive]
     /\ out' = p.out
     /\ result' = p.pc

PrintNumber ==
  /\ job = none
  /\ \E conv \in {"d", "x", "X", "u"}, l \in BOOLEAN, pad \in Pads, w \in Widths :
       \E i \in Args(conv, l) : Printf("number", Directive(conv, l, pad, w, {}, i))

PrintDouble ==
  /\ job = none
  /\ \E pad \in Pads, w \in Widths, d \in Decimals, dbl \in Doubles :
       Printf("double", Directive("f", FALSE, pad, w, {d}, dbl))

PrintString ==
  /\ job = none
  /\ \E pad \in Pads, w \in Widths, s \in Strings :
       Printf("string", Directive("s", FALSE, pad, w, {}, s))

PrintChar ==
  /\ job = none
  /\ \E pad \in Pads, w \in Widths, c \in {0, 97} :
       Printf("char", Directive("c", FALSE, pad, w, {}, c))

PrintUnknown == job = none /\ Printf("unknown", Directive("q", FALSE, {"zero"}, 4, {}, 0))

(* A format has parts: directives, with decimals or without, and others: a *)
(* plain character, `%%', and `%00tx', which Spelled() does not write.     *)
Other(format, args) == [conv |-> "other", dec |-> {}, format |-> format, args |-> args]
Others == {Other(<<c>>, <<>>) : c \in 1 .. 255 \ {Percent}} \cup {Other(<<Percent, Percent>>, <<>>)}
          \cup {Other(<<37, 48, 48, 116, 120>>, <<i>>) : i \in Args("x", TRUE)}

IsDirective(e) ==
  /\ e = Directive(e.conv, e.long, e.pad, e.width, e.dec, e.arg)
  /\ e.long \in BOOLEAN /\ e.pad \in Pads /\ e.width \in Widths
  /\ e.dec = {} \/ \E d \in Decimals : e.dec = {d}
  /\ \/ e.conv \in {"d", "x", "X", "u"} /\ e.arg \in Args(e.conv, e.long)
     \/ e.conv = "f" /\ e.arg \in Doubles
     \/ e.conv = "s" /\ e.arg \in Strings
     \/ e.conv = "c" /\ e.arg \in 0 .. 255
     \/ e.conv = "q"

ASSUME MixedAssumption ==
  /\ \A n \in DOMAIN Mixed : IF Mixed[n].conv = "other" THEN Mixed[n] \in Others ELSE IsDirective(Mixed[n])
  /\ MaxMixed \in Nat

FormatOf(part) == IF part.conv = "other" THEN part.format ELSE Spelled(part)
ArgsOf(part)   == IF part.conv = "other" THEN part.args
                  ELSE IF part.conv = "q" THEN <<>> ELSE <<part.arg>>

PrintMixed ==
  /\ job = none
  /\ \E chosen \in BoundedSeq(DOMAIN Mixed, MaxMixed) :
       LET parts == [n \in DOMAIN chosen |-> Mixed[chosen[n]]]
           p     == vprintf(FlattenSeq([n \in DOMAIN parts |-> FormatOf(parts[n])]),
                            FlattenSeq([n \in DOMAIN parts |-> ArgsOf(parts[n])]))
       IN /\ job' = [kind |-> "mixed", parts |-> parts]
          /\ out' = p.out
          /\ result' = p.pc

Dump ==
  /\ job = none
  /\ \E n \in DumpLengths, baseAddr \in Addresses :
       \E p \in {hexdumpToByteStream(Bytes(n), baseAddr)} :
          /\ job' = [kind |-> "dump", buf |-> Bytes(n), baseAddr |-> baseAddr]
          /\ out' = p.out
          /\ result' = p.pc

Return == job # none /\ job' = none /\ out' = <<>> /\ result' = 0

Init == job = none /\ out = <<>> /\ result = 0

Next == PrintNumber \/ PrintDouble \/ PrintString \/ PrintChar \/ PrintUnknown \/ PrintMixed \/ Dump \/ Return

Spec == Init /\ [][Next]_vars
-----------------------------------------------------------------------------
(* Reading back what was printed, without the operators above. *)

NotBlank(c)  == c # Space
DigitOf(c)   == IF c \in 48 .. 57 THEN c - 48
                ELSE IF c \in 97 .. 102 THEN c - 87 ELSE c - 55
Number(t, base) ==
  LET number[n \in 0 .. Len(t)] == IF n = 0 THEN 0 ELSE number[n - 1] * base + DigitOf(t[n])
  IN number[Len(t)]
DigitChars(conv) == CASE conv = "x" -> 48 .. 57 \cup 97 .. 102
                      [] conv = "X" -> 48 .. 57 \cup 65 .. 70
                      [] OTHER -> 48 .. 57
Inner        == SubSeq(out, 2, Len(out) - 1)
OrdinaryFlags(pad) == "zero" \in pad => pad = {"zero"}

(* Types: characters are bytes, and the result counts what was written,    *)
(* except for an unknown conversion.                                       *)
TypeOK ==
  /\ job = none \/ job.kind \in {"number", "double", "string", "char", "unknown", "mixed", "dump"}
  /\ out \in Seq(0 .. 255)
  /\ job # none /\ job.kind = "unknown" => result = Len(out) - 2
  /\ job = none \/ job.kind \notin {"unknown", "mixed"} => result = Len(out)

(* %d, %u, %x and %X print, for every argument from the least to the       *)
(* greatest of its type, a text that reads back as that argument: the sign *)
(* first, then the shortest numeral, filled up to the width with blanks on *)
(* the side the flags choose or with zeros after the sign.  The zero flag  *)
(* together with `-' or `+' is left out: printi() then puts zeros behind   *)
(* the number or in front of the plus.                                     *)
PrintsBack ==
  job # none /\ job.kind = "number" /\ OrdinaryFlags(job.directive.pad) =>
    LET e      == job.directive
        value  == IF e.conv = "d" THEN e.arg ELSE e.arg % Power(2, Bits(e.long))
        sign   == IF value < 0 THEN <<Minus>>
                  ELSE IF value > 0 /\ "plus" \in e.pad THEN <<Plus>> ELSE <<>>
        inked  == {n \in DOMAIN Inner : NotBlank(Inner[n])}
        body   == SubSeq(Inner, Min(inked), Max(inked))
        digits == SubSeq(body, Len(sign) + 1, Len(body))
        short  == Len(digits) = 1 \/ Head(digits) # Zero
        fill   == Len(Inner) - Len(body)
    IN /\ inked # {} /\ inked = Min(inked) .. Max(inked)
       /\ SubSeq(body, 1, Len(sign)) = sign
       /\ Len(digits) > 0 /\ Range(digits) \subseteq DigitChars(e.conv)
       /\ Number(digits, IF e.conv \in {"d", "u"} THEN 10 ELSE 16) = IF value < 0 THEN -value ELSE value
       /\ Len(Inner) = e.width \/ (Len(Inner) > e.width /\ fill = 0 /\ short)
       /\ "zero" \in e.pad => fill = 0
       /\ "zero" \notin e.pad => short
       /\ IF "right" \in e.pad THEN Min(inked) = 1 ELSE Max(inked) = Len(Inner)

(* %.<d>f prints the decimal number with d decimals that is nearest to the *)
(* argument (halves go away from zero): carried into the whole number when *)
(* the decimals come to one (the change log of the file names 0.99 printed *)
(* with %.1f), the decimals with their leading zeros, the sign in front,   *)
(* at least the width.  Left out: the `-' flag, whose decimals lose their  *)
(* leading zeros; negative numbers that round to a whole part of 0, which  *)
(* lose the sign; whole numbers that do not fit an int.                    *)
DoubleReadsBack ==
  job # none /\ job.kind = "double" =>
    LET e       == job.directive
        d       == CHOOSE n \in e.dec : TRUE
        nearest == (2 * (IF e.arg < 0 THEN -e.arg ELSE e.arg) * Power(10, d) + Parts) \div (2 * Parts)
        whole   == nearest \div Power(10, d)
        body    == SelectSeq(Inner, NotBlank)
        digits  == SelectSeq(body, LAMBDA c : c \in 48 .. 57)
        head    == SelectSeq(body, LAMBDA c : c \in {Minus, Plus})
        point   == SelectSeq(body, LAMBDA c : c = Point)
    IN OrdinaryFlags(e.pad) /\ "right" \notin e.pad /\ (e.arg >= 0 \/ whole > 0) /\ whole < Power(2, IntBits - 1) =>
         /\ Number(digits, 10) = nearest
         /\ e.arg < 0 <=> head = <<Minus>>
         /\ SubSeq(body, 1, Len(head)) = head
         /\ Len(point) = IF d = 0 THEN 0 ELSE 1
         /\ d > 0 => Len(body) > d + 1 /\ body[Len(body) - d] = Point
         /\ Len(Inner) >= e.width
         /\ SubSeq(Inner, Len(Inner) - Len(body) + 1, Len(Inner)) = body

(* Directives in one format do not disturb each other, however many there  *)
(* are: flags, width and `l' of one do not reach another, each takes the   *)
(* argument that is its own, and an unknown one takes none.  What each     *)
(* prints and counts is what it does alone, with one exception: dec_width  *)
(* is not reset, so that a %f without a point gets the decimals of the     *)
(* last directive before it that has a point, of whichever conversion and  *)
(* whatever stands between, and none if there is no such directive.        *)
DecimalsBefore(parts, n) ==
  LET pointed == {k \in 1 .. n - 1 : parts[k].dec # {}}
  IN IF pointed = {} THEN {0} ELSE parts[Max(pointed)].dec

AsAlone(parts, n) ==
  IF parts[n].conv = "f" /\ parts[n].dec = {} THEN [parts[n] EXCEPT !.dec = DecimalsBefore(parts, n)]
  ELSE parts[n]

Alone(part) == vprintf(FormatOf(part), ArgsOf(part))

DirectivesApart ==
  job # none /\ job.kind = "mixed" =>
    LET all == Together([n \in DOMAIN job.parts |-> Alone(AsAlone(job.parts, n))])
    IN out = all.out /\ result = all.pc

(* print_buf holds every number that printi() is asked for, with a sign    *)
(* and the final null (the comment at PRINT_BUF_LEN claims it); *--s would *)
(* write in front of it otherwise.                                         *)
BufferFits ==
  job # none /\ job.kind = "number" =>
    LET e   == job.directive
        pad == e.pad \cup IF e.long THEN {"long"} ELSE {}
    IN Len(Stored(e.arg, IF e.conv \in {"d", "u"} THEN 10 ELSE 16, e.conv = "d", e.width, pad,
                  IF e.conv = "X" THEN 65 ELSE 97)) + 1 <= PRINT_BUF_LEN

(* A hexdump can be read back: every byte of the buffer stands once in the *)
(* hexadecimal columns and once, itself or a point, behind them, 16 to a   *)
(* line; the last line, however short, has its text in the same column;    *)
(* and each line begins with the address of its first byte.  This is true  *)
(* of addresses of at most 8 hexadecimal digits, as those of the instance  *)
(* are; %08lx prints more of a longer one, which moves the columns.        *)
HexdumpReadsBack ==
  job # none /\ job.kind = "dump" =>
    LET lines     == (Len(job.buf) + 15) \div 16
        start(l)  == 76 * (l - 1)                    \* a full line has 76 characters
        last(l)   == IF l = lines THEN Len(out) ELSE start(l + 1)
        field(l, from, n) == SubSeq(out, start(l) + from, start(l) + from + n - 1)
        size(l)   == last(l) - start(l) - 60         \* the bytes in the line
    IN /\ lines = 0 => out = <<>>
       /\ \A l \in 1 .. lines :
            /\ Number(field(l, 1, 8), 16) = (job.baseAddr + 16 * (l - 1)) % Power(2, LongBits)
            /\ out[last(l)] = 10
            /\ size(l) = IF l < lines THEN 16 ELSE Len(job.buf) - 16 * (lines - 1)
            /\ \A j \in 1 .. size(l) :
                 LET byte == job.buf[16 * (l - 1) + j]
                 IN /\ Number(field(l, 8 + 3 * j, 2), 16) = byte
                    /\ out[start(l) + 59 + j] \in {byte, Point} \ (0 .. 31 \cup 127 .. 255)
                    /\ byte \in 32 .. 126 => out[start(l) + 59 + j] = byte
=============================================================================
