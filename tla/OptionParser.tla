---------------------------- MODULE OptionParser ----------------------------
(***************************************************************************)
(* arg::Parser: a client registers and removes options and lets argv be    *)
(* parsed, any number of times and with exceptions caught in between.      *)
(*                                                                         *)
(* An option is a number, its address: opts holds which one of the         *)
(* catalogue each of them is, opt_list those that exist.  A line of the    *)
(* help is an option, or 0 for a message.                                  *)
(***************************************************************************)
EXTENDS OptionValues

CONSTANTS
  Catalogue,  \* the options that a client may add
  Tokens,     \* what the words of argv may be
  MaxWords,   \* the length of argv
  MaxOpts,    \* options added
  MaxWork     \* options and messages added and words parsed, in sum

IsOption(c) ==
  /\ c.store \in {"none", "text", "list", "set", "sub"} /\ c.default \in Seq(STRING)
  /\ c.value \in Int /\ (c.value # 0 => c.once)

ASSUME CatalogueAssumption ==
  /\ MaxWords \in Nat /\ MaxOpts \in Nat /\ MaxWork \in Nat
  /\ Tokens \subseteq Seq(STRING)
  /\ \A n \in DOMAIN Catalogue : IsOption(Catalogue[n])
  /\ DOMAIN SubOptions = 1 .. Len(SubOptions) /\ Len(SubOptions) \in Nat
  /\ \A n \in DOMAIN SubOptions : IsOption(SubOptions[n]) /\ SubOptions[n].store # "sub"

VARIABLES
  opts, opt_list, help_list,
  stored, mode,       \* the client's variables: of each option, and the shared int
  arg_list,
  argv, ignore,       \* the arguments of parse()
  i, k,               \* its cursors: the word, and the character of a cluster
  status,             \* "parse" inside of parse(), "done", "error" or "exit" at its end
  start,              \* history: <<stored, mode>> when it began
  work

registry == <<opts, opt_list, help_list>>
effects  == <<stored, mode>>
call     == <<argv, ignore, start>>
vars     == <<registry, effects, arg_list, call, i, k, status, work>>

Config(o) == Catalogue[opts[o]]

Init ==
  /\ opts = <<>> /\ opt_list = <<>> /\ help_list = <<>>
  /\ stored = <<>> /\ mode = 0
  /\ arg_list = <<>> /\ argv = <<>> /\ ignore = FALSE
  /\ i = 1 /\ k = 2 /\ status = "idle"
  /\ start = effects /\ work = 0
-----------------------------------------------------------------------------
(* The client's calls.  The registry is not touched during a parse.        *)

Registering ==
  /\ status = "idle"
  /\ UNCHANGED <<mode, arg_list, call, i, k, status>>

AddOpt ==
  /\ Registering /\ Len(opts) < MaxOpts /\ work < MaxWork
  /\ \E n \in DOMAIN Catalogue :
       LET o == Len(opts) + 1
       IN /\ opts' = Append(opts, n)
          /\ opt_list' = Append(opt_list, o)
          /\ help_list' = IF Catalogue[n].hide THEN help_list ELSE Append(help_list, o)
          /\ stored' = Append(stored, Catalogue[n].init)
  /\ work' = work + 1

AddHelp ==
  /\ Registering /\ work < MaxWork
  /\ help_list' = Append(help_list, 0)
  /\ work' = work + 1
  /\ UNCHANGED <<opts, opt_list, stored>>

(* The first line of the help and the first option that match. *)
Erase(Test(_)) ==
  /\ help_list' = RemoveFirstMatch(help_list, LAMBDA h : h # 0 /\ Test(Config(h)))
  /\ opt_list' = RemoveFirstMatch(opt_list, LAMBDA o : Test(Config(o)))

RemoveKey ==
  /\ Registering
  /\ \E key \in {Catalogue[n].key : n \in DOMAIN Catalogue} : Erase(LAMBDA c : c.key = key)
  /\ UNCHANGED <<opts, stored, work>>

(* Variant: the option is looked for from the end of the list. *)
RemoveNameNewest ==
  /\ Registering
  /\ \E name \in {Catalogue[n].name : n \in DOMAIN Catalogue} :
       LET at == SelectLastInSeq(opt_list, LAMBDA o : Config(o).name = name)
       IN /\ help_list' = RemoveFirstMatch(help_list, LAMBDA h : h # 0 /\ Config(h).name = name)
          /\ opt_list' = IF at = 0 THEN opt_list ELSE RemoveAt(opt_list, at)
  /\ UNCHANGED <<opts, stored, work>>

RemoveName ==
  /\ Registering
  /\ \E name \in {Catalogue[n].name : n \in DOMAIN Catalogue} : Erase(LAMBDA c : c.name = name)
  /\ UNCHANGED <<opts, stored, work>>

RemoveAll ==
  /\ Registering
  /\ help_list' = <<>> /\ opt_list' = <<>>
  /\ UNCHANGED <<opts, stored, work>>
-----------------------------------------------------------------------------
(* void parse(int argc, char * argv[], bool ignore_unknown) *)

(* find(): 0 is the null pointer. *)
Find(Test(_)) ==
  LET n == SelectInSeq(opt_list, LAMBDA o : Test(Config(o)))
  IN IF n = 0 THEN 0 ELSE opt_list[n]

FindKey(char)  == Find(LAMBDA c : c.key = char)
FindName(name) == Find(LAMBDA c : c.name = name)

TakesValue(o) == Config(o).store # "none"
NeedsValue(o) == TakesValue(o) /\ ~Config(o).optional

Parse ==
  /\ status = "idle"
  /\ \E n \in 0 .. MaxWords :
       /\ work + n <= MaxWork
       /\ argv' \in [1 .. n -> Tokens]
       /\ work' = work + n
  /\ ignore' \in BOOLEAN
  /\ arg_list' = <<>> /\ i' = 1 /\ k' = 2
  /\ status' = "parse"
  /\ start' = effects
  /\ UNCHANGED <<registry, effects>>

Reading == status = "parse" /\ i <= Len(argv)
Token   == argv[i]
IsWord(token)  == ~(token # <<>> /\ token[1] = "-")
IsLong(token)  == ~IsWord(token) /\ Len(token) > 1 /\ token[2] = "-"
IsShort(token) == ~IsWord(token) /\ ~IsLong(token)

ToToken(n) == i' = n /\ k' = 2

TakeWord ==
  /\ Reading /\ IsWord(Token)
  /\ arg_list' = Append(arg_list, Token)
  /\ ToToken(i + 1)
  /\ UNCHANGED <<registry, effects, call, status, work>>

(* Whether get_help() comes to its end, with these values. *)
Helps(values) ==
  \A h \in ToSet(help_list) \ {0} : Config(h).shows => HasText(Config(h), values[h])

(* What process() begins with. *)
Before(o, values, m) ==
  [value |-> values[o], mode |-> m, helps |-> Helps(values), status |-> "parse"]

(* process() or process(str) of an option. *)
Use(o, given) ==
  LET st == Process(Config(o), Before(o, stored, mode), given)
  IN stored' = [stored EXCEPT ![o] = st.value] /\ mode' = st.mode /\ status' = st.status

Unknown ==
  /\ status' = IF ignore THEN "parse" ELSE "error"
  /\ UNCHANGED effects

(* The name and the value of a long option, which begins behind its first  *)
(* `='.                                                                    *)
EqualSign(token) == SelectInSeq(token, LAMBDA c : c = "=")
LongName(token)  == SubSeq(token, 3, IF EqualSign(token) = 0 THEN Len(token) ELSE EqualSign(token) - 1)
LongValue(token) == IF EqualSign(token) = 0 THEN Absent ELSE SubSeq(token, EqualSign(token) + 1, Len(token))

LongOption ==
  /\ Reading /\ IsLong(Token)
  /\ LET o == FindName(LongName(Token))
     IN IF o = 0 THEN Unknown ELSE Use(o, LongValue(Token))
  /\ ToToken(i + 1)
  /\ UNCHANGED <<registry, arg_list, call, work>>

(* One character of a cluster of short options. *)
ReadingKey == Reading /\ IsShort(Token) /\ k <= Len(Token)
Opt  == FindKey(Token[k])
Rest == SubSeq(Token, k + 1, Len(Token))

(* The rest of the token goes with it. *)
UnknownKey ==
  /\ ReadingKey /\ Opt = 0
  /\ Unknown
  /\ ToToken(i + 1)
  /\ UNCHANGED <<registry, arg_list, call, work>>

Flag ==
  /\ ReadingKey /\ Opt # 0 /\ ~TakesValue(Opt)
  /\ Use(Opt, Absent)
  /\ k' = k + 1
  /\ UNCHANGED <<registry, arg_list, call, i, work>>

(* The option is the last of its cluster, and parse() goes on at word n. *)
ReadingValue == ReadingKey /\ Opt # 0 /\ TakesValue(Opt)
UseLast(given, n) == Use(Opt, given) /\ ToToken(n) /\ UNCHANGED <<registry, arg_list, call, work>>

AttachedValue == ReadingValue /\ Rest # <<>> /\ UseLast(Rest, i + 1)

(* Variant: the next word is taken for an optional value, too. *)
NextValueGreedy ==
  ReadingValue /\ Rest = <<>> /\ i < Len(argv) /\ UseLast(argv[i + 1], i + 2)

(* Variant: the next word is used and read again. *)
NextValueTwice ==
  ReadingValue /\ Rest = <<>> /\ NeedsValue(Opt) /\ i < Len(argv) /\ UseLast(argv[i + 1], i + 1)

NextValue ==
  ReadingValue /\ Rest = <<>> /\ NeedsValue(Opt) /\ i < Len(argv) /\ UseLast(argv[i + 1], i + 2)

(* Variant: the next word is passed over. *)
NoValueSkips ==
  ReadingValue /\ Rest = <<>> /\ (NeedsValue(Opt) => i = Len(argv)) /\ UseLast(Absent, i + 2)

(* The value is optional, or missing. *)
NoValue ==
  ReadingValue /\ Rest = <<>> /\ (NeedsValue(Opt) => i = Len(argv)) /\ UseLast(Absent, i + 1)

(* Variant: the word is read again. *)
EndOfClusterAgain ==
  /\ Reading /\ IsShort(Token) /\ k > Len(Token)
  /\ ToToken(i)
  /\ UNCHANGED <<registry, effects, arg_list, call, status, work>>

(* A single `-' is an empty cluster. *)
EndOfCluster ==
  /\ Reading /\ IsShort(Token) /\ k > Len(Token)
  /\ ToToken(i + 1)
  /\ UNCHANGED <<registry, effects, arg_list, call, status, work>>

Finish ==
  /\ status = "parse" /\ i > Len(argv)
  /\ status' = "done"
  /\ UNCHANGED <<registry, effects, arg_list, call, i, k, work>>

(* The client is back from parse(), or has caught its exception: args()    *)
(* and the effects are left of it.                                         *)
Return ==
  /\ status \in {"done", "error"}
  /\ argv' = <<>> /\ ignore' = FALSE /\ start' = <<<<>>, 0>>
  /\ i' = 1 /\ k' = 2 /\ status' = "idle"
  /\ UNCHANGED <<registry, effects, arg_list, work>>
-----------------------------------------------------------------------------
Register == AddOpt \/ AddHelp \/ RemoveKey \/ RemoveName \/ RemoveAll

ParseStep ==
  \/ TakeWord \/ LongOption
  \/ UnknownKey \/ Flag \/ AttachedValue \/ NextValue \/ NoValue \/ EndOfCluster
  \/ Finish \/ Return

(* exit(0) in a callback. *)
Exit == status = "exit" /\ UNCHANGED vars

Next == Register \/ Parse \/ ParseStep \/ Exit

Spec == Init /\ [][Next]_vars
-----------------------------------------------------------------------------
(* Reference: argv read as a whole.  A cluster is used up to its first     *)
(* character that is unknown or takes a value; the next word is a value if *)
(* this character is the last one, needs a value, and is not inside of a   *)
(* value itself.                                                           *)

Stop(token) ==
  Min({n \in 2 .. Len(token) : FindKey(token[n]) = 0 \/ TakesValue(FindKey(token[n]))}
        \cup {Len(token) + 1})

AwaitsValue(token) ==
  /\ IsShort(token) /\ Stop(token) = Len(token)
  /\ FindKey(token[Len(token)]) # 0 /\ NeedsValue(FindKey(token[Len(token)]))

ValueWords ==
  LET is[n \in 1 .. Len(argv)] == n > 1 /\ AwaitsValue(argv[n - 1]) /\ ~is[n - 1]
  IN {n \in DOMAIN argv : is[n]}

WordsTo[n \in 0 .. Len(argv)] ==
  IF n = 0 THEN <<>>
  ELSE IF IsWord(argv[n]) /\ n \notin ValueWords THEN Append(WordsTo[n - 1], argv[n]) ELSE WordsTo[n - 1]

Words == WordsTo[Len(argv)]

(* The options that word n of argv uses, each with its value. *)
UsesOf(n) ==
  LET token == argv[n]
      s     == Stop(token)
      value == IF s < Len(token) THEN SubSeq(token, s + 1, Len(token))
               ELSE IF AwaitsValue(token) /\ n < Len(argv) THEN argv[n + 1] ELSE Absent
  IN CASE n \in ValueWords \/ IsWord(token) -> <<>>
       [] n \notin ValueWords /\ IsLong(token) ->
            <<[opt |-> FindName(LongName(token)), given |-> LongValue(token)]>>
       [] n \notin ValueWords /\ IsShort(token) ->
            [m \in 1 .. s - 2 |-> [opt |-> FindKey(token[m + 1]), given |-> Absent]]
            \o IF s > Len(token) THEN <<>> ELSE <<[opt |-> FindKey(token[s]), given |-> value]>>

(* Their effects one after the other, up to an exception or the end of the *)
(* process.                                                                *)
Effect(was, use) ==
  IF was.status # "parse" THEN was
  ELSE IF use.opt = 0 THEN [was EXCEPT !.status = IF ignore THEN "parse" ELSE "error"]
  ELSE LET st == Process(Config(use.opt), Before(use.opt, was.stored, was.mode), use.given)
       IN [stored |-> [was.stored EXCEPT ![use.opt] = st.value],
           mode |-> st.mode, status |-> st.status]

AfterUses(was, uses) ==
  LET after[m \in 0 .. Len(uses)] == IF m = 0 THEN was ELSE Effect(after[m - 1], uses[m])
  IN after[Len(uses)]

OutcomeTo[n \in 0 .. Len(argv)] ==
  IF n = 0 THEN [stored |-> start[1], mode |-> start[2], status |-> "parse"]
  ELSE AfterUses(OutcomeTo[n - 1], UsesOf(n))

Outcome == OutcomeTo[Len(argv)]
-----------------------------------------------------------------------------
(* Types and ranges: the cursors stay inside of argv and of its words, and *)
(* option and help lists have numbers of options.                          *)
TypeOK ==
  /\ Len(stored) = Len(opts) /\ mode \in Int
  /\ opt_list \in Seq(1 .. Len(opts)) /\ help_list \in Seq(0 .. Len(opts))
  /\ status \in {"idle", "parse", "done", "error", "exit"}
  /\ ignore \in BOOLEAN
  /\ i \in 1 .. Len(argv) + 1
  /\ k \in 2 .. IF status = "parse" /\ i <= Len(argv) /\ Len(argv[i]) > 1 THEN Len(argv[i]) + 1 ELSE k
  /\ work \in 0 .. MaxWork

(* get_help() follows the pointer of every help line, so no line may       *)
(* outlive its option: whatever is added and removed, by key or by name,   *)
(* with keys and names used several times and options without a line, the  *)
(* lines are those of existing options, each once and in their order.      *)
HelpLinesAlive ==
  /\ \A n \in DOMAIN help_list : help_list[n] # 0 => \E m \in DOMAIN opt_list : opt_list[m] = help_list[n]
  /\ \A m, n \in DOMAIN help_list :
       m < n /\ help_list[m] # 0 /\ help_list[n] # 0 => help_list[m] < help_list[n]

(* parse() uses the options that argv names, with the values that belong   *)
(* to them, in the order of argv, and nothing behind an exception or the   *)
(* end of the process; it succeeds if and only if none of them fails.      *)
EffectsAsRead ==
  status \in {"done", "error", "exit"} =>
    [stored |-> stored, mode |-> mode, status |-> status]
      = [Outcome EXCEPT !.status = IF @ = "parse" THEN "done" ELSE @]

(* args() has the words that are neither options nor their values, in      *)
(* their order; after an exception a beginning of them.                    *)
WordsAsRead ==
  /\ status = "done" => arg_list = Words
  /\ status \in {"error", "exit"} => IsPrefix(arg_list, Words)

(* The default that the help shows is a value that sets the option to what *)
(* it is, except for a list whose last element is empty; and an element of *)
(* a SetValue that is chosen by its name is shown by this name, so no two  *)
(* have the same number.                                                   *)
DefaultReadsBack ==
  \A o \in ToSet(opt_list) :
    LET c  == Config(o)
        st == Before(o, stored, 0)
        shown(str) == ToStr(c, SetPlain(c, st, str).value)
    IN /\ (/\ c.store \in {"text", "list", "set"} /\ HasText(c, stored[o])
           /\ c.store = "list" /\ stored[o].list # <<>> => Last(stored[o].list) # <<>>)
          => SetPlain(c, st, ToStr(c, stored[o])) = st
       /\ c.store = "set" =>
            \A n \in DOMAIN SetTable :
              SetTable[n].name # HelpName => shown(SetTable[n].name) = SetTable[n].name

(* A list of elements for a SubParser does what its elements do in several *)
(* uses of the option, up to the first that fails: no element is lost,     *)
(* merged with its neighbour or read twice, and a trailing comma is none.  *)
ElementsOneByOne ==
  status = "idle" =>
    \A o \in ToSet(opt_list) : Config(o).store = "sub" =>
      LET st == Before(o, stored, mode)
          strings == {LongValue(token) : token \in {t \in Tokens : EqualSign(t) # 0}}
      IN \A a, b \in strings \cup {<<>>} :
           a # <<>> /\ Last(a) # "," =>
             SetSub(st, a \o <<",">> \o b) = SetSub(SetSub(st, a), b)

(* A variable that can be set once keeps what it was set to, by whichever  *)
(* of several options, in whichever spelling and in whichever parse().     *)
SetOnce == [][mode # 0 => mode' = mode]_vars

(* parse() ends at every argv: each of its steps returns or moves on, to   *)
(* the next character of a cluster or to a later word.                     *)
ParseAdvances ==
  [][status = "parse" /\ status' = "parse" => i' > i \/ (i' = i /\ k' > k)]_vars
=============================================================================
