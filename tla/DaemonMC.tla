------------------------------ MODULE DaemonMC -------------------------------
(* Instances of Daemon for TLC: two requests and one plain one, parameters *)
(* that are complete, incomplete or mistyped, one clone on either side.    *)
EXTENDS Daemon

PerSide(ga, ra) == [s \in Side |-> IF s = "GA" THEN ga ELSE ra]

MCIds == {"g"}
MCSetpoints == {"s1", "s2"}
MCParams == {"p1", "p2", "odd", "bad", "mistyped"}
MCIncomplete == {"bad"}
MCEndpoints == PerSide(2, 2)
MCBufLen == PerSide(2, 4)

Request(v) == <<Header("g", TRUE), Setpoint(v)>>
PlainRequest == <<Header("g", FALSE)>>

\* Whole messages only: requests and an advertisement that went astray.
WholeGA == {Request("s1"), Request("s2"), PlainRequest, <<Adv("p1")>>}
\* The same, with an empty datagram and the header of a request alone.
PartialGA == {Request("s1"), Request("s2"), <<>>, <<Header("g", TRUE)>>}
\* JSON texts: objects, one that ends in a zero, one without a field, one with
\* a string for a number, one cut short, a number.
JsonRA == {<<Open("p1"), Close>>, <<Open("p2"), Close, Nul>>, <<Open("odd"), Close>>,
           <<Open("bad"), Close>>, <<Open("mistyped"), Close>>,
           <<Open("p1")>>, <<Scalar>>}
\* For a custom resource: advertisements, one with a byte too many, no message.
CustomGA == {Request("s1"), PlainRequest, <<Header("g", TRUE), Setpoint("s2"), Junk>>}
CustomRA == {<<Adv("p1")>>, <<Adv("p2")>>, <<Adv("odd")>>, <<Adv("p1"), Junk>>, <<Junk>>}

MCWhole == PerSide(WholeGA, JsonRA)
MCPartial == PerSide(PartialGA, {<<Open("p1"), Close>>})
\* An object and one cut short.
MCCut == PerSide({PlainRequest}, {<<Open("p1"), Close>>, <<Open("p1")>>})
MCCustom == PerSide(CustomGA, CustomRA)

Arrivals22 == PerSide(2, 2)
==============================================================================
