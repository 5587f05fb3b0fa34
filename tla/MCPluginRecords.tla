-------------------------- MODULE MCPluginRecords ---------------------------
(* Instance: one world of records in several files, one of controls, one   *)
(* of variants.                                                            *)
EXTENDS PluginRecords, TLC

Line(k, i, n, v) == [kind |-> k, id |-> i, name |-> n, value |-> v]
H(i) == Line("header", i, "", "")
F(n, v) == Line("field", Nil, n, v)
Long == Line("long", Nil, "", "")
Other == Line("other", Nil, "", "")

MCMost ==
    [plugin |-> [f \in {"label", "type", "choice", "min", "max", "default"} |-> IF f = "choice" THEN 2 ELSE 1],
     variant |-> [f \in {"src", "dst", "build"} |-> IF f = "build" THEN 2 ELSE 1]]
MCRequired == [plugin |-> {"label"}, variant |-> {"src", "dst"}]
MCNum == ("1" :> 1) @@ ("2" :> 2) @@ ("3" :> 3)

Records == [kind |-> "plugin", most |-> 5, files |-> 2,
            lines |-> {H("a"), H("b"), H(BadId), H(Nil), F("label", "x"),
                       F("label", ""), F("nosuch", "x"), Long, Other}]
Controls == [kind |-> "plugin", most |-> 6, files |-> 1,
             lines |-> {H("a"), F("label", "x"), F("type", "slider"), F("choice", "1"), F("choice", "2"),
                        F("min", "1"), F("max", "3"), F("default", "2")}]
Odd == [kind |-> "plugin", most |-> 5, files |-> 1,
        lines |-> {H("a"), F("label", "x"), F("label", "big"), F("label", "\t"), F("type", "choice"),
                   F("type", "x"), F("choice", "bad"), F("choice", "1")}]
Variants == [kind |-> "variant", most |-> 5, files |-> 1,
             lines |-> {H("a"), F("src", "x"), F("dst", "x"), F("dst", "bad"), F("build", "1"), F("build", "big")}]
MCWorlds == {Records, Controls, Odd, Variants}
=============================================================================
