-------------------------- MODULE MCCompatRoutes ---------------------------
EXTENDS CompatRoutes, TLC

CONSTANTS rosetta, fex, b1, b2, k1, k2, good, bad, tool1, tool2, tool3, acc, other

L(k, v) == [key |-> k, value |-> v]
MCKeyRunners == [k \in Keys |-> IF k = k1 THEN Runners ELSE Runners \ {rosetta}]
MCTexts == {<<L(k1, good)>>, <<L(k1, good), L(k1, good)>>}
MCInitialFiles == {Absent, Folder, Huge, <<L(k1, bad), L(k1, good)>>}
MCToolOf == [t \in Tools |->
    CASE t = tool1 -> [build |-> b1, runner |-> rosetta]
      [] t = tool2 -> [build |-> NoBuild, runner |-> rosetta]
      [] OTHER -> None]
MCReadOrder == <<<<Family, rosetta>>, <<b1, rosetta>>>>

Client == [sites |-> <<acc, None, acc>>, registry |-> TRUE, tested |-> 1, lookups |-> 1,
           factories |-> <<{2}, {0, 1}>>, refused |-> {}, broadcast |-> TRUE,
           types |-> {"get", "specify", "changed"}]
MCImages == {Client,
             [Client EXCEPT !.refused = {"GetCompatTools", "SetDefaults"}, !.broadcast = FALSE],
             [Client EXCEPT !.sites = <<acc, other, acc>>],
             [Client EXCEPT !.sites = <<acc, None, None>>],
             [Client EXCEPT !.lookups = 2],
             [Client EXCEPT !.factories = <<{2}, {}>>],
             [Client EXCEPT !.types = {"get"}],
             [Client EXCEPT !.types = {}]}
CallerSymmetry == Permutations(Callers)
MCAsked == {"GetCompatTools", "SpecifyCompatTool", "SetDefaults", "SetToolDefaults", "ApplyToolDefaults"}
=============================================================================
