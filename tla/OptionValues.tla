---------------------------- MODULE OptionValues ----------------------------
(***************************************************************************)
(* The values of command line options (arg/val, StreamableValue and        *)
(* SubParser of arg/arg) and what an Option does with the value it is      *)
(* given.  A string is the sequence of its characters, as the parsers work *)
(* on characters.                                                          *)
(*                                                                         *)
(* A client configures an option by a record:                              *)
(*   key, name    by which it is found                                     *)
(*   hide         it has no line in the help                               *)
(*   store        "none", or where the value goes: "text" (a string, by    *)
(*                stow()), "list", "set", "sub" (a SubParser)              *)
(*   optional     the value may be missing, and is default then            *)
(*   init         what the client's variable holds at first: a record of   *)
(*                text, list, number (of a SetValue) and sub (the variables  *)
(*                of the options of a SubParser), of which one is used       *)
(*   value        the int that set() names, 0 without set(); all options   *)
(*                set the same variable                                    *)
(*   once         once(0)                                                  *)
(*   call         the callback: "none", "help", "version", or one that     *)
(*                returns false ("refuse")                                 *)
(*   shows        the help shows its default                               *)
(*                                                                         *)
(* Option::process() works on a record of the option's variable (value),   *)
(* the shared int (mode), whether get_help() has a text for all defaults   *)
(* (helps) and how the parser goes on (status): "error" is an exception,   *)
(* "exit" the end of the process.                                          *)
(***************************************************************************)
EXTENDS Integers, Sequences, SequencesExt

CONSTANTS
  Absent,       \* in the place of a string: process() without one
  Unnumbered,   \* in the place of a number: SetValue::add() without one
  HelpName,     \* the string "help"
  SetAdds,      \* the names and numbers added to the SetValue, in order, by add()
                \* and, for "help", by add_help()
  SubOptions    \* the options of the SubParser; none has a SubParser itself or
                \* shows a default, so that its help cannot fail: it exits as
                \* the callback "version" does

Failed(st) == [st EXCEPT !.status = "error"]
Exited(st) == [st EXCEPT !.status = "exit"]
Going(st)  == st.status = "parse"
-----------------------------------------------------------------------------
(* What operator>> of a stream reads as a word. *)
FirstWord(str) ==
  LET a == SelectInSeq(str, LAMBDA c : c # " ")
      b == SelectInSubSeq(str, a, Len(str), LAMBDA c : c = " ")
  IN IF a = 0 THEN <<>> ELSE SubSeq(str, a, IF b = 0 THEN Len(str) ELSE b - 1)

(* StreamableValue: something behind the word is an error, nothing at all  *)
(* is not.                                                                 *)
SetText(st, str) ==
  IF \E a \in 1 .. Len(str), b \in 1 .. Len(str) : a < b /\ str[a] # " " /\ str[b] = " "
    THEN Failed(st)
    ELSE [st EXCEPT !.value.text = FirstWord(str)]

(* Variant: the comma belongs to the next piece. *)
PiecesWithComma(str, least) ==
  LET End(s) == Min({e \in s - 1 + least .. Len(str) : e = Len(str) \/ str[e + 1] = ","})
      from[s \in 1 .. Len(str) + 2] ==
        IF s > Len(str) THEN <<>> ELSE <<SubSeq(str, s, End(s))>> \o from[Max({End(s), s}) + 1]
  IN from[1]

(* The pieces of str between commas, each of at least `least' characters:  *)
(* ListValue looks for the next comma from the beginning of a piece on,    *)
(* SubParser from its second character on.                                 *)
Pieces(str, least) ==
  LET End(s) == Min({e \in s - 1 + least .. Len(str) : e = Len(str) \/ str[e + 1] = ","})
      from[s \in 1 .. Len(str) + 2] ==
        IF s > Len(str) THEN <<>> ELSE <<SubSeq(str, s, End(s))>> \o from[End(s) + 2]
  IN from[1]

SetList(st, str) ==
  LET pieces == Pieces(str, 0)
  IN [st EXCEPT !.value.list = [n \in DOMAIN pieces |-> FirstWord(pieces[n])]]

(* Variant: SetValue counts its elements to find an unused number. *)
AutoValueCounts(table) == -100 - Len(table)

(* A number below all that are in use. *)
AutoValue(table) == Min({-100} \cup {table[n].value - 1 : n \in DOMAIN table})

(* SetValue::add(); a duplicate is an exception and changes nothing. *)
Add(table, e) ==
  LET value == IF e.value = Unnumbered THEN AutoValue(table) ELSE e.value
  IN IF \E n \in DOMAIN table : table[n].name = e.name \/ table[n].value = e.value
       THEN table
       ELSE Append(table, [name |-> e.name, value |-> value])

SetTable == FoldLeft(Add, <<>>, SetAdds)

(* "help" ends the process if add_help() was called. *)
SetSet(st, str) ==
  LET n == SelectInSeq(SetTable, LAMBDA e : e.name = str)
  IN IF str = HelpName /\ (\E m \in DOMAIN SetAdds : SetAdds[m].name = HelpName) THEN Exited(st)
     ELSE IF n = 0 THEN Failed(st) ELSE [st EXCEPT !.value.number = SetTable[n].value]

ListText(list) ==
  FlattenSeq([n \in DOMAIN list |-> IF n = 1 THEN list[n] ELSE <<",">> \o list[n]])

(* SetValue::to_str() throws for a number that no element has. *)
HasText(c, value) ==
  c.store = "set" => \E n \in DOMAIN SetTable : SetTable[n].value = value.number

(* to_str(): what the help shows as the default. *)
ToStr(c, value) ==
  CASE c.store = "text" -> value.text
    [] c.store = "list" -> ListText(value.list)
    [] c.store = "set"  -> SetTable[SelectInSeq(SetTable, LAMBDA e : e.value = value.number)].name
-----------------------------------------------------------------------------
SetPlain(c, st, str) ==
  CASE c.store = "text" -> SetText(st, str)
    [] c.store = "list" -> SetList(st, str)
    [] c.store = "set"  -> SetSet(st, str)

(* Variant: the variable is set whatever it holds. *)
AssignAlways(c, st) == IF Going(st) /\ c.value # 0 THEN [st EXCEPT !.mode = c.value] ELSE st

Assign(c, st) ==
  IF ~Going(st) \/ c.value = 0 THEN st
  ELSE IF c.once /\ st.mode # 0 THEN Failed(st) ELSE [st EXCEPT !.mode = c.value]

Call(c, st) ==
  IF ~Going(st) \/ c.call = "none" THEN st
  ELSE IF c.call = "version" \/ (c.call = "help" /\ st.helps) THEN Exited(st) ELSE Failed(st)

(* Option::process() and process(str).  The value is stored before it      *)
(* shows that the option must not be used again.                           *)
ProcessBy(Set(_, _, _), c, st, given) ==
  LET wrong == IF given = Absent THEN c.store # "none" /\ ~c.optional ELSE c.store = "none"
      str   == IF given = Absent THEN c.default ELSE given
  IN IF wrong THEN Failed(st)
     ELSE Call(c, Assign(c, IF c.store = "none" THEN st ELSE Set(c, st, str)))

(* One element of SubParser::set(): its name ends at its last `='. *)
SetElement(st, e) ==
  LET n == SelectLastInSeq(e, LAMBDA c : c = "=")
      o == SelectInSeq(SubOptions, LAMBDA c : c.name = IF n = 0 THEN e ELSE SubSeq(e, 1, n - 1))
      r == ProcessBy(SetPlain, SubOptions[o], [st EXCEPT !.value = st.value.sub[o]],
                     IF n = 0 THEN Absent ELSE SubSeq(e, n + 1, Len(e)))
  IN IF ~Going(st) THEN st ELSE IF o = 0 THEN Failed(st)
     ELSE [r EXCEPT !.value = [st.value EXCEPT !.sub[o] = r.value]]

SetSub(st, str) ==
  LET pieces == Pieces(str, 1)
      after[n \in 0 .. Len(pieces)] == IF n = 0 THEN st ELSE SetElement(after[n - 1], pieces[n])
  IN after[Len(pieces)]

SetAny(c, st, str) == IF c.store = "sub" THEN SetSub(st, str) ELSE SetPlain(c, st, str)

Process(c, st, given) == ProcessBy(SetAny, c, st, given)
=============================================================================
