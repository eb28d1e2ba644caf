-------------------------- MODULE MCPrintfToStream --------------------------
(* A directive of each kind and more, with decimals and without, and the others. *)
EXTENDS PrintfToStream

MixedC ==
  <<Directive("d", FALSE, {"zero"}, 4, {}, -9), Directive("d", TRUE, {"right"}, 7, {2}, 511),
    Directive("X", FALSE, {}, 0, {}, -1), Directive("u", TRUE, {"plus"}, 0, {}, 10),
    Directive("f", FALSE, {}, 7, {1}, Parts * 10 - 1), Directive("f", FALSE, {"plus"}, 0, {0}, Parts),
    Directive("f", FALSE, {}, 0, {}, Parts + 1), Directive("f", TRUE, {"right"}, 7, {}, -2 * Parts),
    Directive("s", FALSE, {"right"}, 4, {}, <<97>>), Directive("s", FALSE, {}, 0, {}, NullPointer),
    Directive("c", FALSE, {"zero"}, 4, {}, 98), Directive("q", FALSE, {"plus"}, 7, {1}, 0),
    Other(<<60>>, <<>>), Other(<<37, 37>>, <<>>), Other(<<37, 48, 48, 116, 120>>, <<-1>>)>>
=============================================================================
