--------------------------- MODULE MCHookInstall ----------------------------
(* Instance: one build of the client, builds that an update made of it, and *)
(* databases with signatures of every kind.                                *)
EXTENDS HookInstall, TLC

I(op, r, to) == [op |-> op, r |-> r, to |-> to]
S(op) == I(op, 0, 0)

(* Functions at 2, 12, 20, 28, 38, 44 and 50; stubs of open and close at   *)
(* 54 and 56, of the message go at 58.                                     *)
Base == <<S("sub"), I("adrp", 1, 100), I("add", 1, 1), S("blr"), S("ret"),
          S("sub"), I("bl", 0, 2), I("bl", 0, 54), S("ret"),
          S("sub"), I("bl", 0, 54), I("bl", 0, 56), S("ret"),
          S("stp"), I("adrp", 2, 200), I("ldr", 2, 2), I("bl", 0, 12), S("ret"),
          S("sub"), I("b", 0, 12), S("ret"), S("sub"), I("bl", 0, 58), S("ret"), S("sub"), S("ret"),
          S("data"), S("data"), I("adrp", 3, 300), I("ldr", 3, 0)>>
Str(s, x) == [at |-> x, s |-> s, whole |-> TRUE]
Strings == {Str("s1", 101), Str("sel", 105), Str("T", 110)}
Starts == {2, 12, 20, 28, 38, 44, 50}
Image(code, starts, strings) ==
    [lo |-> 2, hi |-> 62, code |-> <<2, 54>>, insn |-> [a \in Words(2, 62) |-> code[a \div 2]],
     starts |-> starts, entries |-> Starts, odd |-> {}, cstr |-> <<strings, {}, {}>>,
     slots |-> <<(202 :> 105) @@ (210 :> 1) @@ (212 :> 110) @@ (220 :> 0) @@ (222 :> 210) @@ (224 :> 20), <<>>>>,
     sections |-> {<<200, 230>>}, stubs |-> (54 :> "open") @@ (56 :> "close"), objc |-> <<58, 62>>, selrefs |-> (300 :> "go"), sel |-> "sel" :> 106]
Whole == Image(Base, Starts, Strings)
With(i, x) == Image([Base EXCEPT ![i] = x], Starts, Strings)
(* A second use of the string, a second copy of it, a second caller of the *)
(* first function and of the second, a second function with the calls of   *)
(* the third, a function that begins otherwise, no table of functions, a   *)
(* loop to the use of the string, a copy of it in the next segment, and a  *)
(* slot of a table that points between two instructions.                   *)
Updates ==
    {Image([Base EXCEPT ![11] = I("adrp", 1, 100), ![12] = I("add", 1, 1)], Starts, Strings),
     Image(Base, Starts, Strings \cup {Str("s1", 103)}),
     With(17, I("bl", 0, 2)), With(21, I("bl", 0, 12)),
     Image([Base EXCEPT ![7] = I("bl", 0, 54), ![8] = I("bl", 0, 56)], Starts, Strings),
     With(10, S("stp")), Image(Base, {}, Strings), With(4, I("b", 0, 4)),
     [With(12, I("add", 1, 3)) EXCEPT !.insn[22] = I("adrp", 1, 100), !.cstr[2] = {Str("s1", 103)}],
     [Whole EXCEPT !.odd = {21}, !.slots[1][224] = 21]}

C(n) == [selector |-> FALSE, name |-> n]
Anchor == [kind |-> "string", str |-> "s1", nth_xref |-> 0, hops |-> 0, tail |-> FALSE, indirect |-> FALSE,
           insn |-> "blr", nth |-> 1, pair |-> Nil, path |-> <<>>, calls |-> <<>>, exact |-> TRUE,
           no_data_refs |-> TRUE, va |-> 0, slot |-> -1]
Sig(n, m, a, aob, off) == [name |-> n, module |-> m, anchor |-> a, aob |-> aob, off |-> off,
                           deprecated |-> FALSE, optional |-> FALSE]
Anchors ==
    {Anchor, [Anchor EXCEPT !.hops = 1], [Anchor EXCEPT !.hops = 2], [Anchor EXCEPT !.nth_xref = 2],
     [Anchor EXCEPT !.hops = 1, !.tail = TRUE], [Anchor EXCEPT !.hops = 2, !.tail = TRUE], [Anchor EXCEPT !.str = "sel", !.indirect = TRUE],
     [Anchor EXCEPT !.kind = "insn"], [Anchor EXCEPT !.kind = "calls", !.calls = <<C("open"), C("close")>>],
     [Anchor EXCEPT !.kind = "calls", !.calls = <<C("open")>>, !.exact = FALSE],
     [Anchor EXCEPT !.kind = "calls", !.calls = <<[selector |-> TRUE, name |-> "go"]>>],
     [Anchor EXCEPT !.kind = "rtti", !.str = "T", !.slot = 0], [Anchor EXCEPT !.kind = "vtable", !.va = 224],
     [Anchor EXCEPT !.kind = "pair", !.pair = [first |-> "adrp", second |-> "add", tied |-> TRUE, land |-> "second"]],
     [Anchor EXCEPT !.kind = "target", !.str = "sel", !.indirect = TRUE, !.path = <<1>>],
     [Anchor EXCEPT !.hops = -1], [Anchor EXCEPT !.kind = "aob"]}
Patterns == {<<>>, <<"sub", "bl", "bl">>, <<"adrp", "ldr">>}

(* What one signature finds in every build; and databases of several.      *)
One(n, m, a) == {Sig(n, m, a, p, o) : p \in Patterns, o \in {0, 2}}
MCModules == <<"client", "ui">>
Hook(n, mode) == [label |-> n, signature |-> n, mode |-> mode, optional |-> FALSE]
MCHooks == ("client" :> {Hook("x", "replace"), Hook("y", "prehook")}) @@ ("ui" :> {Hook("z", "replace")})
Loads == [client |-> Updates \cup {Whole}, ui |-> {Whole}]
P(b, s) == [build |-> b, signatures |-> s]
Mixed ==
    {Sig("x", "client", Anchor, <<>>, 0),
     [Sig("y", "client", [Anchor EXCEPT !.kind = "calls", !.calls = <<C("open"), C("close")>>], <<>>, 0) EXCEPT !.optional = TRUE],
     [Sig("w", "client", [Anchor EXCEPT !.str = "gone"], <<>>, 0) EXCEPT !.deprecated = TRUE],
     Sig("z", "ui", [Anchor EXCEPT !.str = "gone"], <<"stp">>, Nil)}
MCMachines ==
    {[images |-> Loads, profiles |-> {P(1, {s})}, disabled |-> {}] : s \in UNION {One("x", "client", a) : a \in Anchors}}
    \cup {[images |-> Loads, profiles |-> {P(1, {}), P(2, Mixed)}, disabled |-> d] : d \in {{}, {"x"}}}
    \cup {[images |-> Loads, profiles |-> {}, disabled |-> {}]}
=============================================================================
