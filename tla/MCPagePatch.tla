---------------------------- MODULE MCPagePatch -----------------------------
(* Instance: scripts of every kind the client ships and of some it may     *)
(* come to ship, and a few states of the disk.                             *)
EXTENDS PagePatch, TLC

MCTools == {[name |-> "ros", build |-> "b1", arch |-> "x86_64"],
            [name |-> "fex", build |-> "b2", arch |-> "aarch64"]}
MCArches == ("x86-windows" :> "x86_64") @@ ("arm-windows" :> "aarch64")

Body(d, n, b) == [dir |-> d, name |-> n, kind |-> "file", body |-> b]
F(d, n) == Body(d, n, "builtin")
X == <<"x86-windows">>
A == <<"arm-windows">>
L == [dir |-> <<"plain">>, name |-> "d3d", kind |-> "link", body |-> "data"]
R(d, f, a) == [dirs |-> d \cup {<<>>}, files |-> f, restricted |-> a]
Old == R({X}, {<<X, "ntdll">>}, {})
New == R({X, A}, {<<X, "ntdll">>, <<X, "d3d">>, <<A, "d3d">>}, {<<A, "d3d">>})
V(b, r) == [builds |-> b, dst |-> "lib/wine", removes |-> r]
Dylib == [requires |-> <<"p", "q">>, inject |-> TRUE]
Plain == [requires |-> <<>>, inject |-> FALSE]

MCGates == [forcetool |-> [must |-> {"m1"}, may |-> {}, page |-> {}],
            selecttool |-> [must |-> {"m2"}, may |-> {"o"}, page |-> {"p1", "p2"}]]
Native == {"n1", "n2"}
Lib == {"l1", "l2"}
C(s, ok, b) == [shapes |-> s, ok |-> ok, barrel |-> b]
Whole == C({"selecttool"}, {"m2", "o", "p1", "p2", "f", "n1", "l1", "l2", "t1"}, TRUE)
Short == C({"selecttool"}, {"m2"}, TRUE)

(* Many disks and one script; many scripts and few disks.                  *)
MCWorlds ==
    {[variants |-> {V({}, {}), V({"b1"}, {}), V({}, {<<X, "d3d">>}), V({}, {<<X, "ntdll">>})},
      trees |-> {{F(X, "ntdll")}, {F(X, "d3d")}, {F(X, "d3d"), F(A, "d3d")}, {F(<<>>, "d3d"), L}, {L},
                 {F(<<"x86-windows", "sub">>, "d3d")}, {F(<<"x86-windows", "sub", "a", "b">>, "d3d")},
                 {F(<<"plain", "a", "b">>, "d3d"), Body(X, "d3d", "native"), Body(A, "d3d", "unsignable")}},
      runners |-> {Old, New}, plugins |-> {Plain}, installed |-> {{}}, chunks |-> {Short}],
     [variants |-> {V({}, {})}, trees |-> {{F(X, "d3d")}}, runners |-> {Old}, plugins |-> {Dylib},
      installed |-> {{}, {"q"}, {"p", "q"}},
      chunks |-> {Whole, C({"selecttool"}, {"m2", "p1", "n2", "l1", "l2", "t1", "t2"}, TRUE),
                  C({"selecttool"}, {"p1", "p2", "f"}, TRUE), C({"selecttool"}, {"m2", "p1", "p2"}, FALSE),
                  C({"forcetool"}, {"m1"}, FALSE), C({}, {"f", "n1", "n2", "l1"}, FALSE),
                  C({"forcetool", "selecttool"}, {"m1", "m2"}, FALSE)}]}
=============================================================================
