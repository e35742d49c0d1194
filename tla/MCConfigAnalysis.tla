-------------------------- MODULE MCConfigAnalysis --------------------------
EXTENDS ConfigAnalysis

CONSTANTS a, b

Plain(indented, kind) == Line(indented, kind, Nothing, Nothing, Nothing, "plain")
Odd(indented, kind) == Line(indented, kind, Nothing, Nothing, Nothing, "odd")
Lifetime(indented, unit, value) == Line(indented, "lifetime", Nothing, unit, value, "plain")
Declare(name) == Line(FALSE, "declaration", name, Nothing, Nothing, "plain")
Secret(name, unit, value) == Line(TRUE, "secret", name, unit, value, "plain")

(* Lines on which the two documents can agree and differ, override each    *)
(* other, hide each other, be refused, be joined and stay readable.        *)
MCLocalLine ==
    {Declare(a), Declare(b),
     Lifetime(FALSE, "seconds", 1), Lifetime(TRUE, "seconds", 2),
     Lifetime(TRUE, "kilobytes", 1), Lifetime(TRUE, "seconds", 0),
     Plain(FALSE, "malformed"), Odd(FALSE, "blank"), Plain(FALSE, "text"),
     Plain(TRUE, "peer"), Plain(TRUE, "begin"), Plain(TRUE, "end"), Odd(TRUE, "end"),
     Secret("word", "command", Clear), Secret("word", "command", Replaced),
     Secret("sign", "both", Clear)}

MCPeerLine ==
    {Declare(a), Lifetime(FALSE, "seconds", 1), Lifetime(TRUE, "seconds", 2)}
=============================================================================
