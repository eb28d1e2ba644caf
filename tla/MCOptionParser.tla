--------------------------- MODULE MCOptionParser ---------------------------
(* Options whose keys and names collide, and words in all spellings. *)
EXTENDS OptionParser

Variable == [text |-> <<>>, list |-> <<>>, number |-> 0, sub |-> <<>>]

Option ==
  [key |-> "0", name |-> <<>>, hide |-> FALSE, store |-> "none", optional |-> FALSE, default |-> <<>>,
   init |-> Variable, value |-> 0, once |-> FALSE, call |-> "none", shows |-> FALSE]

HelpNameC == <<"h">>

SetAddsC == <<[name |-> <<"m">>, value |-> -101], [name |-> <<"n">>, value |-> Unnumbered],
              [name |-> <<"n">>, value |-> 5], [name |-> HelpNameC, value |-> Unnumbered]>>

SubOptionsC ==
  <<[Option EXCEPT !.name = <<"f">>, !.value = 3, !.once = TRUE],
    [Option EXCEPT !.name = <<"g">>, !.store = "set"],
    [Option EXCEPT !.name = <<"g", "=", "n">>, !.store = "text"]>>

CatalogueC ==
  <<[Option EXCEPT !.key = "a", !.name = <<"a">>, !.value = 1, !.once = TRUE],
   [Option EXCEPT !.key = "a", !.hide = TRUE, !.call = "refuse", !.value = 2, !.once = TRUE],
   [Option EXCEPT !.key = "t", !.name = <<"t">>, !.store = "text", !.init.text = <<"i">>],
   [Option EXCEPT !.key = "b", !.name = <<"t">>, !.store = "set", !.optional = TRUE, !.default = <<"m">>, !.shows = TRUE],
   [Option EXCEPT !.key = "b", !.name = <<"l">>, !.store = "list", !.value = 4, !.once = TRUE],
   [Option EXCEPT !.name = <<"u">>, !.store = "sub", !.init.sub = <<Variable, Variable, Variable>>],
   [Option EXCEPT !.key = "h", !.name = <<"h">>, !.call = "help"]>>

TokensC ==
  {<<>>, <<"n">>, <<" ", "n", ",", " ">>, <<"-">>, <<"-", "-">>,
   <<"-", "a", "t">>, <<"-", "b">>, <<"-", "b", "h">>, <<"-", "a", "h">>, <<"-", "a">>,
   <<"-", "-", "t">>, <<"-", "-", "a", "=", "n">>, <<"-", "-", "l", "=", "n", ",", ",", "n">>,
   <<"-", "-", "u", "=", "f", ",", "g", "=", "n", ",">>, <<"-", "-", "u", "=", "g", "=", "n", "=", "n">>}
=============================================================================
