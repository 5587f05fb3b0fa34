---------------------------- MODULE PanelProofs -----------------------------
(***************************************************************************)
(* That what the client is served is whole, fresh and true, for any number *)
(* of threads, any scripts and any contents of the disk; and that both     *)
(* readers of plugin files tell the same of any directory, each record     *)
(* once, and accept what is in order.                                      *)
(*                                                                         *)
(* The argument for pages: a thread that got past the counting of the      *)
(* gates has a script it may patch; what it built since then is what the   *)
(* disk holds, unless that changed under it; and a launch stays what it    *)
(* was until the disk changes or another script is opened.                 *)
(*                                                                         *)
(* The argument for plugin files: in a file the two readers are in the     *)
(* same state, or both pass over the rest of it, and at its end conf.c is  *)
(* where the awk program comes to at the next line; what was told of an id *)
(* and the record that is being read make up the headers that were passed; *)
(* and the fields of that record are the lines after its header.           *)
(***************************************************************************)
EXTENDS PagePatch, PluginRecords, SequenceTheorems, FiniteSetTheorems, WellFoundedInduction, TLAPS

(* A thread that opened a script has one, and past the counting one that   *)
(* is patched.                                                             *)
OpenInv ==
    /\ world \in Worlds
    /\ pc = [t \in Threads |-> pc[t]] /\ chunk = [t \in Threads |-> chunk[t]]
    /\ lists = [t \in Threads |-> lists[t]]
    /\ \A t \in Threads :
          /\ pc[t] # "idle" => chunk[t] \in world.chunks
          /\ pc[t] \in {"expand", "spill"} => patches(chunk[t], lists[t])

(* The lists a thread has built since its script was read are those of the *)
(* disk, unless that changed since then.                                   *)
Builds1(l, ch, b, i) ==
    /\ l \notin {"idle", "publish"} => i.tools = Tools
    /\ l = "spill" /\ HasShape(ch) => b = {"feats", "vars"}

IsCurrent(b, i) ==
    /\ "feats" \in b => i.feats = feat_build
    /\ "vars" \in b => i.vars = var_build(Tools)

AfterBegin == {"fixes", "read", "wait", "expand", "spill"}

IsInputs(i) == i = [tools |-> i.tools, feats |-> i.feats, vars |-> i.vars]

FreshInv ==
    /\ inputs = [t \in Threads |-> inputs[t]] /\ built = [t \in Threads |-> built[t]]
    /\ quiet = [t \in Threads |-> quiet[t]]
    /\ \A t \in Threads :
          /\ IsInputs(inputs[t])
          /\ Builds1(pc[t], chunk[t], built[t], inputs[t])
          /\ pc[t] \in AfterBegin /\ quiet[t] => IsCurrent(built[t], inputs[t])

(* A launch came to what one would come to now.                            *)
Taken(t, why) ==
    [tool |-> t, refused |-> why, lib |-> np_feat_requires,
     built |-> IF why = None THEN np_variant_overlay(runner[t.build]) ELSE None]

LaunchInv == launch # None => \E t \in Tools : \E why \in np_variant_build(t) : launch = Taken(t, why)

-----------------------------------------------------------------------------
(* What is served is whole.                                                *)

\* A script that is patched has no form of the page, or one of the two.
LEMMA OneShape ==
    ASSUME NEW wo \in Worlds, NEW ch \in wo.chunks, Cardinality(ch.shapes) <= 1
    PROVE  \/ ch.shapes = {}
           \/ \E s \in DOMAIN Gates : ch.shapes = {s} /\ ShapeOf(ch) = s /\ GatesOf(ch) = Gates[s]
<1>1. ch.shapes \subseteq {"forcetool", "selecttool"}
  BY PageConstants
<1>2. CASE ch.shapes = {"forcetool", "selecttool"}
  <2>1. Cardinality({"forcetool", "selecttool"}) = 2
    <3>1. IsFiniteSet({"forcetool"}) /\ Cardinality({"forcetool"}) = 1 /\ "selecttool" \notin {"forcetool"}
      BY FS_Singleton
    <3>2. Cardinality({"forcetool"} \cup {"selecttool"}) = 2
      BY <3>1, FS_AddElement
    <3>3. {"forcetool"} \cup {"selecttool"} = {"forcetool", "selecttool"}
      OBVIOUS
    <3> QED BY <3>2, <3>3
  <2> QED BY <1>2, <2>1
<1>3. CASE \E s \in {"forcetool", "selecttool"} : ch.shapes = {s}
  <2>1. PICK s \in {"forcetool", "selecttool"} : ch.shapes = {s}
    BY <1>3
  <2>2. ShapeOf(ch) = s
    BY <2>1 DEF ShapeOf
  <2>3. GatesOf(ch) = Gates[s]
    BY <2>2, <2>1 DEF GatesOf, gates_forcetool, gates_selecttool
  <2> QED BY <2>1, <2>2, <2>3, PageConstants
<1>4. ch.shapes = {} \/ ch.shapes = {"forcetool", "selecttool"} \/ \E s \in {"forcetool", "selecttool"} : ch.shapes = {s}
  BY <1>1
<1> QED BY <1>2, <1>3, <1>4

(* What is put in a script, and what a page that is whole looks like.      *)
Put(ch, have) == gates_on(ch) \cup fixes_on(ch, have) \cup library_on(ch, have)

FormIsWhole(s, ch, on) ==
    IF ch.shapes = {s}
    THEN /\ Gates[s].must \subseteq on
         /\ Gates[s].page \cap on # {} => Gates[s].page \subseteq on /\ ch.barrel
    ELSE (Gates[s].must \cup Gates[s].page \cup Gates[s].may) \cap on = {}

FilterIsWhole(have, on) ==
    /\ g_library_filters \cap on # {} => Anchors \subseteq on /\ Cardinality(Toolbars \cap on) = 1
    /\ (NativeFixes \cup g_library_filters) \cap on # {} => have

\* The fixes and the filter are of their tables, and match.
LEMMA FixesFacts ==
    ASSUME NEW ch, NEW have
    PROVE  /\ fixes_on(ch, have) \subseteq (Fixes \cup NativeFixes) \cap ch.ok
           /\ library_on(ch, have) \subseteq (Anchors \cup Toolbars) \cap ch.ok
           /\ ~have => fixes_on(ch, have) \cap NativeFixes = {} /\ library_on(ch, have) = {}
BY DEF fixes_on, library_on, matched, g_fixes, g_library_filters

\* The gates are of the form the script has, the parts that have to be
\* there all in, and match.
LEMMA GatesFacts ==
    ASSUME NEW wo \in Worlds, NEW ch \in wo.chunks, NEW have, patches(ch, have)
    PROVE  /\ gates_on(ch) \subseteq ch.ok
           /\ ch.shapes = {} => gates_on(ch) = {}
           /\ \A s \in DOMAIN Gates : ch.shapes = {s} =>
                 /\ gates_on(ch) \subseteq Members(s)
                 /\ Gates[s].must \subseteq gates_on(ch)
                 /\ Gates[s].page \cap gates_on(ch) # {} => Gates[s].page \subseteq gates_on(ch) /\ ch.barrel
<1>1. ch.shapes = {} => gates_on(ch) = {}
  BY DEF gates_on, HasShape
<1>2. ASSUME NEW s \in DOMAIN Gates, ch.shapes = {s}
      PROVE  /\ gates_on(ch) \subseteq ch.ok \cap Members(s)
             /\ Gates[s].must \subseteq gates_on(ch)
             /\ Gates[s].page \cap gates_on(ch) # {} => Gates[s].page \subseteq gates_on(ch) /\ ch.barrel
  <2>1. GatesOf(ch) = Gates[s] /\ HasShape(ch)
    BY <1>2, OneShape DEF patches, HasShape
  <2>2. Gates[s].must \subseteq ch.ok
    BY <2>1 DEF patches, drifted, matched
  <2> QED BY <2>1, <2>2, GatesApart DEF gates_on, settle_page, matched, Members
<1> QED BY <1>1, <1>2, OneShape DEF patches

\* A form of the page is put in whole or not at all.
LEMMA FormPut ==
    ASSUME NEW wo \in Worlds, NEW ch \in wo.chunks, NEW have, patches(ch, have), NEW s \in DOMAIN Gates
    PROVE  FormIsWhole(s, ch, Put(ch, have))
<1> DEFINE on == Put(ch, have)
<1>1. Members(s) \cap on = Members(s) \cap gates_on(ch)
  BY FixesFacts, GatesApart DEF Put
<1>2. CASE ch.shapes = {s}
  BY <1>1, <1>2, GatesFacts DEF FormIsWhole, Members, Put
<1>3. CASE ch.shapes # {s}
  <2>1. Members(s) \cap gates_on(ch) = {}
    BY <1>3, OneShape, GatesFacts, GatesApart DEF patches
  <2> QED BY <1>1, <1>3, <2>1 DEF FormIsWhole, Members
<1> QED BY <1>2, <1>3

\* The filter of the library is put in whole or not at all.
LEMMA FilterPut ==
    ASSUME NEW wo \in Worlds, NEW ch \in wo.chunks, NEW have, patches(ch, have)
    PROVE  FilterIsWhole(have, Put(ch, have)) /\ Put(ch, have) \subseteq ch.ok
<1> DEFINE on == Put(ch, have)
<1>1. gates_on(ch) \cap (Fixes \cup NativeFixes \cup Anchors \cup Toolbars) = {}
  BY OneShape, GatesFacts, GatesApart DEF patches
<1>2. g_library_filters \cap on = library_on(ch, have)
  BY <1>1, FixesFacts, GatesApart DEF Put, g_library_filters
<1>3. NativeFixes \cap on = fixes_on(ch, have) \cap NativeFixes
  BY <1>1, FixesFacts, GatesApart DEF Put
<1>4. ASSUME library_on(ch, have) # {}
      PROVE  Anchors \subseteq on /\ Cardinality(Toolbars \cap on) = 1
  <2>1. /\ matched(ch, Anchors) = Anchors /\ Cardinality(matched(ch, Toolbars)) = 1
        /\ library_on(ch, have) = matched(ch, g_library_filters)
    BY <1>4 DEF library_on
  <2>2. Anchors \subseteq on /\ Toolbars \cap on = matched(ch, Toolbars)
    BY <1>2, <2>1 DEF matched, g_library_filters
  <2> QED BY <2>1, <2>2
<1>5. on \subseteq ch.ok
  BY FixesFacts, GatesFacts DEF Put
<1> QED BY <1>2, <1>3, <1>4, <1>5, FixesFacts DEF FilterIsWhole

-----------------------------------------------------------------------------
(* The page that was served.                                               *)

IsPage(p) == p = [chunk |-> p.chunk, quiet |-> p.quiet, lists |-> p.lists,
                  feats |-> p.feats, vars |-> p.vars, on |-> p.on]

IsWhole(p) ==
    /\ \A s \in DOMAIN Gates : FormIsWhole(s, p.chunk, p.on)
    /\ FilterIsWhole(p.lists, p.on) /\ p.on \subseteq p.chunk.ok

IsFresh(p) == p.quiet /\ HasShape(p.chunk) => p.vars = var_build(Tools) /\ p.feats = feat_build

PageInv == page # None => IsPage(page) /\ IsWhole(page) /\ IsFresh(page)

PanelInv == OpenInv /\ FreshInv /\ PageInv /\ LaunchInv

\* The rows are those of the disk, and change with it only.
LEMMA RowsStay ==
    ASSUME UNCHANGED <<variant, plugin, src, runner, there>>
    PROVE  /\ feat_build' = feat_build /\ var_build(Tools)' = var_build(Tools)
           /\ \A t \in Tools : np_variant_build(t)' = np_variant_build(t)
           /\ \A t \in Tools : \A why : Taken(t, why)' = Taken(t, why)
<1>1. feat_build' = feat_build
  BY DEF feat_build, resolved
<1>2. \A t : var_offered(t)' = var_offered(t)
  BY DEF var_offered, Pinned, var_fits, var_wine_hit, var_apple_hit, Walked, Laid, Path, Folders, var_holds_file,
     var_arch_of
<1>3. \A tree : var_bridge_hit(variant, tree)' = var_bridge_hit(variant, tree)
  BY DEF var_bridge_hit, var_bridge_path, Walked, Laid, Path, var_arch_of
<1>4. var_build(Tools)' = var_build(Tools)
  BY <1>2, <1>3 DEF var_build, Laid
<1>5. ASSUME NEW t \in Tools PROVE np_variant_build(t)' = np_variant_build(t)
  <2>1. /\ np_variant_fits(src, runner[t.build], t.arch)' = np_variant_fits(src, runner[t.build], t.arch)
        /\ np_variant_bridge_hit(src)' = np_variant_bridge_hit(src)
        /\ np_variant_wine_hit(src, runner[t.build])' = np_variant_wine_hit(src, runner[t.build])
    BY DEF np_variant_fits, np_variant_bridge_hit, np_variant_wine_hit, Laid, Path, np_variant_dir_arch
  <2>2. np_variant_read(t)' = np_variant_read(t)
    BY <2>1 DEF np_variant_read
  <2>3. /\ np_variant_apple_hit(src, runner[t.build])' = np_variant_apple_hit(src, runner[t.build])
        /\ Refusals(runner[t.build])' = Refusals(runner[t.build])
    BY DEF np_variant_apple_hit, Refusals, Belongs, Laid, Path
  <2> QED BY <2>2, <2>3 DEF np_variant_build
<1>6. \A t \in Tools : \A why : Taken(t, why)' = Taken(t, why)
  BY DEF Taken, np_feat_requires, np_variant_overlay, Belongs, Laid, Path
<1> QED BY <1>1, <1>4, <1>5, <1>6

\* The threads begin idle.
LEMMA PanelInit == Init => PanelInv
<1> SUFFICES ASSUME Init PROVE PanelInv
  OBVIOUS
<1>1. OpenInv
  BY DEF Init, OffersInit, OpenInv
<1>2. FreshInv
  BY DEF Init, FreshInv, NoPage, IsInputs, Builds1, AfterBegin
<1> QED BY <1>1, <1>2 DEF Init, OffersInit, PanelInv, PageInv, LaunchInv

\* A thread's step keeps the others, and leaves it with a script.
LEMMA OpenStep ==
    ASSUME OpenInv, NEW t \in Threads,
           Open(t) \/ ThreadStep(t) \/ HelperStep(t) \/ Deadline(t)
    PROVE  OpenInv'
<1> USE DEF OpenInv, Goto, threadVars, offers, disk
<1>1. CASE Open(t)
  BY <1>1 DEF Open
<1>2. CASE Publish(t)
  BY <1>2 DEF Publish
<1>3. CASE Begin(t)
  BY <1>3 DEF Begin, Return, ResetBuilt
<1>4. CASE Spawn(t)
  BY <1>4 DEF Spawn
<1>5. CASE ReadOutput(t)
  BY <1>5 DEF ReadOutput
<1>6. CASE WaitHelper(t)
  BY <1>6 DEF WaitHelper
<1>7. CASE Settle(t)
  BY <1>7 DEF Settle, Return
<1>8. CASE BuildFeats(t)
  BY <1>8 DEF BuildFeats
<1>9. CASE BuildVars(t)
  BY <1>9 DEF BuildVars
<1>10. CASE Expanded(t)
  BY <1>10 DEF Expanded
<1>11. CASE Serve(t)
  BY <1>11 DEF Serve, Return
<1>12. CASE Fail(t)
  BY <1>12 DEF Fail, Return
<1>13. CASE HelperStep(t)
  BY <1>13 DEF HelperStep
<1>14. CASE Deadline(t)
  BY <1>14 DEF Deadline
<1> QED BY <1>1, <1>2, <1>3, <1>4, <1>5, <1>6, <1>7, <1>8, <1>9, <1>10, <1>11, <1>12, <1>13, <1>14 DEF ThreadStep

\* What the steps of an open write in a thread's lists, field by field.
LEMMA InputsGo ==
    ASSUME NEW i, IsInputs(i), NEW x
    PROVE  /\ [i EXCEPT !.tools = x] = [tools |-> x, feats |-> i.feats, vars |-> i.vars]
           /\ [i EXCEPT !.feats = x] = [tools |-> i.tools, feats |-> x, vars |-> i.vars]
           /\ [i EXCEPT !.vars = x] = [tools |-> i.tools, feats |-> i.feats, vars |-> x]
<1> DEFINE R(a, b, d) == [tools : {a}, feats : {b}, vars : {d}]
           a == [i EXCEPT !.tools = x]
           b == [i EXCEPT !.feats = x]
           d == [i EXCEPT !.vars = x]
<1>1. i \in R(i.tools, i.feats, i.vars)
  BY DEF IsInputs
<1>2. /\ a \in R(x, i.feats, i.vars) /\ b \in R(i.tools, x, i.vars) /\ d \in R(i.tools, i.feats, x)
  BY <1>1
<1> HIDE DEF a, b, d
<1>3. /\ a = [tools |-> x, feats |-> i.feats, vars |-> i.vars]
      /\ b = [tools |-> i.tools, feats |-> x, vars |-> i.vars]
      /\ d = [tools |-> i.tools, feats |-> i.feats, vars |-> x]
  BY <1>2
<1> QED BY <1>3 DEF a, b, d

\* The steps that leave a thread's lists alone leave them current.
LEMMA FreshOther ==
    ASSUME FreshInv, OpenInv, NEW t \in Threads,
           \/ Open(t) \/ Fail(t) \/ Begin(t) \/ Spawn(t) \/ ReadOutput(t) \/ WaitHelper(t) \/ Settle(t)
           \/ Expanded(t) \/ Serve(t) \/ HelperStep(t) \/ Deadline(t)
    PROVE  FreshInv'
<1> USE DEF FreshInv, Goto, Builds1, AfterBegin
<1>1. UNCHANGED <<variant, plugin, src, runner, there>>
  BY DEF Open, Fail, Begin, Spawn, ReadOutput, WaitHelper, Settle, Expanded, Serve, HelperStep, Deadline, offers, disk
<1>2. feat_build' = feat_build /\ var_build(Tools)' = var_build(Tools)
  BY <1>1, RowsStay
<1>3. \A b, i : IsCurrent(b, i)' <=> IsCurrent(b, i)
  BY <1>2 DEF IsCurrent
<1>4. inputs' = inputs
  BY DEF Open, Fail, Begin, Spawn, ReadOutput, WaitHelper, Settle, Expanded, Serve, HelperStep, Deadline
<1>5. \A b, i : "feats" \notin b /\ "vars" \notin b => IsCurrent(b, i)
  BY DEF IsCurrent
<1> USE DEF OpenInv
<1>6. CASE Open(t)
  BY <1>3, <1>4, <1>6 DEF Open
<1>7. CASE Fail(t)
  BY <1>3, <1>4, <1>7 DEF Fail, Return
<1>8. CASE Begin(t)
  BY <1>3, <1>4, <1>5, <1>8 DEF Begin, Return, ResetBuilt
<1>9. CASE Spawn(t)
  BY <1>3, <1>4, <1>9 DEF Spawn
<1>10. CASE ReadOutput(t)
  BY <1>3, <1>4, <1>10 DEF ReadOutput
<1>11. CASE WaitHelper(t)
  BY <1>3, <1>4, <1>11 DEF WaitHelper
<1>12. CASE Settle(t)
  BY <1>3, <1>4, <1>12 DEF Settle, Return
<1>13. CASE Expanded(t)
  BY <1>3, <1>4, <1>13 DEF Expanded
<1>14. CASE Serve(t)
  BY <1>3, <1>4, <1>14 DEF Serve, Return
<1>15. CASE HelperStep(t)
  BY <1>3, <1>4, <1>15 DEF HelperStep
<1>16. CASE Deadline(t)
  BY <1>3, <1>4, <1>16 DEF Deadline
<1> QED BY <1>6, <1>7, <1>8, <1>9, <1>10, <1>11, <1>12, <1>13, <1>14, <1>15, <1>16

\* The tools are published before anything is built from them; each list
\* is built from the disk as it is.
LEMMA FreshLists ==
    ASSUME FreshInv, OpenInv, NEW t \in Threads, Publish(t) \/ BuildFeats(t) \/ BuildVars(t)
    PROVE  FreshInv'
<1> USE DEF FreshInv, Goto, Builds1, AfterBegin, OpenInv
<1>1. UNCHANGED <<variant, plugin, src, runner, there>>
  BY DEF Publish, BuildFeats, BuildVars, offers, disk
<1>2. feat_build' = feat_build /\ var_build(Tools)' = var_build(Tools)
  BY <1>1, RowsStay
<1>3. \A b, i : IsCurrent(b, i)' <=> IsCurrent(b, i)
  BY <1>2 DEF IsCurrent
<1>4. CASE Publish(t)
  <2>1. inputs'[t] = [tools |-> Tools, feats |-> inputs[t].feats, vars |-> inputs[t].vars]
    BY <1>4, InputsGo DEF Publish
  <2>2. IsInputs(inputs'[t]) /\ inputs'[t].tools = Tools
    BY <2>1 DEF IsInputs
  <2> QED BY <1>3, <1>4, <2>2 DEF Publish
<1>5. CASE BuildFeats(t)
  <2>1. inputs'[t] = [tools |-> inputs[t].tools, feats |-> feat_build, vars |-> inputs[t].vars]
    BY <1>5, InputsGo DEF BuildFeats
  <2>2. IsInputs(inputs'[t]) /\ inputs'[t].tools = inputs[t].tools
    BY <2>1 DEF IsInputs
  <2>3. IsCurrent(built[t], inputs[t]) => IsCurrent(built'[t], inputs'[t])
    BY <1>5, <2>1 DEF IsCurrent, BuildFeats
  <2> QED BY <1>3, <1>5, <2>2, <2>3 DEF BuildFeats
<1>6. CASE BuildVars(t)
  <2>1. inputs'[t] = [tools |-> inputs[t].tools, feats |-> inputs[t].feats, vars |-> var_build(inputs[t].tools)]
    BY <1>6, InputsGo DEF BuildVars
  <2>2. IsInputs(inputs'[t]) /\ inputs'[t].tools = inputs[t].tools /\ inputs[t].tools = Tools
    BY <1>6, <2>1 DEF IsInputs, BuildVars
  <2>3. IsCurrent(built[t], inputs[t]) => IsCurrent(built'[t], inputs'[t])
    BY <1>6, <2>1, <2>2 DEF IsCurrent, BuildVars
  <2> QED BY <1>3, <1>6, <2>2, <2>3 DEF BuildVars
<1> QED BY <1>4, <1>5, <1>6

\* The script that is served is one that is patched, with lists of now.
LEMMA ServePage ==
    ASSUME OpenInv, FreshInv, NEW t \in Threads, Serve(t)
    PROVE  PageInv'
<1> DEFINE p == [chunk |-> chunk[t], quiet |-> quiet[t], lists |-> lists[t],
                 feats |-> inputs[t].feats, vars |-> inputs[t].vars,
                 on |-> Put(chunk[t], lists[t])]
<1>1. page' = p
  BY DEF Serve, Put
<1>2. chunk[t] \in world.chunks /\ patches(chunk[t], lists[t]) /\ pc[t] = "spill"
  BY DEF OpenInv, Serve
<1>3. UNCHANGED <<variant, plugin, src, runner, there>>
  BY DEF Serve, offers, disk
<1>4. feat_build' = feat_build /\ var_build(Tools)' = var_build(Tools)
  BY <1>3, RowsStay
<1>5. quiet[t] /\ HasShape(chunk[t]) => inputs[t].vars = var_build(Tools) /\ inputs[t].feats = feat_build
  BY <1>2 DEF FreshInv, Builds1, AfterBegin, IsCurrent
<1>6. IsPage(p)
  BY DEF IsPage
<1>7. IsWhole(p)
  BY <1>2, FormPut, FilterPut DEF IsWhole, OpenInv
<1>8. (p.quiet /\ HasShape(p.chunk) => p.vars = var_build(Tools)' /\ p.feats = feat_build')
  BY <1>4, <1>5
<1> HIDE DEF p
<1>9. IsPage(page') /\ IsWhole(page')
  BY <1>1, <1>6, <1>7
<1>10. page'.quiet /\ HasShape(page'.chunk) => page'.vars = var_build(Tools)' /\ page'.feats = feat_build'
  BY <1>1, <1>8
<1> QED BY <1>9, <1>10 DEF PageInv, IsFresh

\* A page stays as it is while the disk does.
LEMMA PageStays ==
    ASSUME PageInv, UNCHANGED <<variant, plugin, src, runner, there>>, page' = page
    PROVE  PageInv'
<1>1. feat_build' = feat_build /\ var_build(Tools)' = var_build(Tools)
  BY RowsStay
<1> QED BY <1>1 DEF PageInv, IsFresh

\* A page the disk changes under is whole still, and no longer said to be
\* fresh.
LEMMA PageAges ==
    ASSUME PageInv, page' = IF page = None THEN None ELSE [page EXCEPT !.quiet = FALSE]
    PROVE  PageInv'
<1>1. CASE page' = None
  BY <1>1 DEF PageInv
<1>2. CASE page' # None
  <2>1. page # None /\ page' = [page EXCEPT !.quiet = FALSE]
    BY <1>2
  <2> DEFINE R(q) == [chunk : {page.chunk}, quiet : {q}, lists : {page.lists},
                      feats : {page.feats}, vars : {page.vars}, on : {page.on}]
  <2>2. page \in R(page.quiet)
    BY <2>1 DEF PageInv, IsPage
  <2>3. page' \in R(FALSE)
    BY <2>1, <2>2
  <2>4. page' = [chunk |-> page.chunk, quiet |-> FALSE, lists |-> page.lists,
                 feats |-> page.feats, vars |-> page.vars, on |-> page.on]
    BY <2>3
  <2>5. IsPage(page') /\ IsWhole(page') /\ page'.quiet = FALSE
    BY <2>1, <2>4 DEF PageInv, IsPage, IsWhole
  <2> QED BY <2>5 DEF PageInv, IsFresh
<1> QED BY <1>1, <1>2

\* A launch is what it was while the disk is.
LEMMA LaunchStays ==
    ASSUME LaunchInv, UNCHANGED <<variant, plugin, src, runner, there>>, launch' \in {launch, None}
    PROVE  LaunchInv'
<1>1. \A t \in Tools : np_variant_build(t)' = np_variant_build(t) /\ \A why : Taken(t, why)' = Taken(t, why)
  BY RowsStay
<1> QED BY <1>1 DEF LaunchInv

\* Threads, the disk and launches keep the invariant.
LEMMA PanelStep == ASSUME PanelInv, [Next]_vars PROVE PanelInv'
<1>1. CASE UNCHANGED vars
  <2>1. UNCHANGED <<variant, plugin, src, runner, there, page, launch>>
    BY <1>1 DEF vars, offers, disk
  <2>2. feat_build' = feat_build /\ var_build(Tools)' = var_build(Tools)
    BY <2>1, RowsStay
  <2>3. PageInv' /\ LaunchInv'
    BY <2>1, PageStays, LaunchStays DEF PanelInv
  <2>4. OpenInv' /\ FreshInv'
    BY <1>1, <2>2 DEF vars, offers, disk, threadVars, PanelInv, OpenInv, FreshInv, IsCurrent
  <2> QED BY <2>3, <2>4 DEF PanelInv
<1>2. ASSUME NEW t \in Threads, Open(t) \/ ThreadStep(t) \/ HelperStep(t) \/ Deadline(t)
      PROVE  PanelInv'
  <2>1. OpenInv'
    BY <1>2, OpenStep DEF PanelInv
  <2>2. FreshInv'
    BY <1>2, FreshOther, FreshLists DEF PanelInv, ThreadStep
  <2>3. UNCHANGED <<variant, plugin, src, runner, there>> /\ launch' \in {launch, None}
    BY <1>2 DEF Open, ThreadStep, Publish, Begin, Spawn, ReadOutput, WaitHelper, Settle,
       BuildFeats, BuildVars, Expanded, Serve, Fail, HelperStep, Deadline, offers, disk
  <2>4. LaunchInv'
    BY <2>3, LaunchStays DEF PanelInv
  <2>5. Serve(t) \/ page' \in {page, None}
    BY <1>2 DEF Open, ThreadStep, Publish, Begin, Spawn, ReadOutput, WaitHelper, Settle,
       BuildFeats, BuildVars, Expanded, Fail, HelperStep, Deadline
  <2>6. PageInv'
    <3>1. CASE Serve(t)
      BY <3>1, ServePage DEF PanelInv
    <3>2. CASE page' = page
      BY <3>2, <2>3, PageStays DEF PanelInv
    <3>3. CASE page' = None
      BY <3>3 DEF PageInv
    <3> QED BY <2>5, <3>1, <3>2, <3>3
  <2> QED BY <2>1, <2>2, <2>4, <2>6 DEF PanelInv
<1>3. CASE Change
  <2>1. OpenInv'
    BY <1>3 DEF Change, Disturb, PanelInv, OpenInv
  <2>2. FreshInv'
    BY <1>3 DEF Change, PanelInv, FreshInv, Builds1, AfterBegin
  <2>3. PageInv'
    BY <1>3, PageAges DEF Change, PanelInv
  <2>4. LaunchInv'
    BY <1>3 DEF Change, Disturb, LaunchInv
  <2> QED BY <2>1, <2>2, <2>3, <2>4 DEF PanelInv
<1>4. CASE LaunchGame
  <2>1. PICK t \in Tools : Launch(t)
    BY <1>4 DEF LaunchGame
  <2>2. UNCHANGED <<variant, plugin, src, runner, there>> /\ page' = page
    BY <1>4, <2>1 DEF LaunchGame, Launch, disk
  <2>3. /\ feat_build' = feat_build /\ var_build(Tools)' = var_build(Tools)
        /\ \A u \in Tools : np_variant_build(u)' = np_variant_build(u) /\ \A why : Taken(u, why)' = Taken(u, why)
    BY <2>2, RowsStay
  <2>4. \E why \in np_variant_build(t) : launch' = Taken(t, why)
    BY <2>1 DEF Launch, Taken
  <2>5. LaunchInv'
    BY <2>3, <2>4 DEF LaunchInv
  <2>6. PageInv'
    BY <2>2, PageStays DEF PanelInv
  <2>7. OpenInv' /\ FreshInv'
    BY <1>4, <2>1, <2>3 DEF LaunchGame, Launch, threadVars, PanelInv, OpenInv, FreshInv, IsCurrent
  <2> QED BY <2>5, <2>6, <2>7 DEF PanelInv
<1> QED BY <1>1, <1>2, <1>3, <1>4 DEF Next

\* The invariant of the threads that serve pages.
LEMMA PanelInvariant == Spec => []PanelInv
<1>1. Init => PanelInv
  BY PanelInit
<1>2. PanelInv /\ [Next]_vars => PanelInv'
  BY PanelStep
<1> QED BY <1>1, <1>2, PTL DEF Spec

-----------------------------------------------------------------------------
(* What the invariant says of a page and of a launch.                      *)

\* A set of indices that is not empty has a first one.
LEMMA Least ==
    ASSUME NEW T \in SUBSET Nat, T # {}
    PROVE  \E x \in T : \A y \in T : x <= y
<1> DEFINE R == {ss \in Nat \X Nat : ss[1] < ss[2]}
<1>1. IsWellFoundedOn(R, Nat)
  BY NatLessThanWellFounded DEF OpToRel
<1>2. \E x \in T : \A y \in T : ~ (<<y, x>> \in R)
  BY <1>1, WFMin
<1>3. PICK x \in T : \A y \in T : ~ (<<y, x>> \in R)
  BY <1>2
<1>4. ASSUME NEW y \in T PROVE x <= y
  <2>1. ~(y < x)
    BY <1>3
  <2> QED BY <2>1
<1> QED BY <1>3, <1>4

\* Panel and launch agree on the file of a plugin that exists.
LEMMA SameFile ==
    ASSUME OpenInv, plugin \in world.plugins
    PROVE  np_feat_requires = feat_build.rq
<1> DEFINE D == DOMAIN plugin.requires
           present == {i \in D : plugin.requires[i] \in there}
<1>1. PICK n \in Nat : D = 1 .. n
  BY OfferConstants DEF OpenInv
<1>2. CASE present = {}
  BY <1>2 DEF np_feat_requires, feat_build, resolved
<1>3. CASE present # {}
  <2>1. present \in SUBSET Nat
    BY <1>1
  <2>2. PICK x \in present : \A y \in present : x <= y
    BY <1>3, <2>1, Least
  <2>3. (CHOOSE i \in present : \A j \in present : i <= j) = x
    BY <2>1, <2>2
  <2>4. /\ \A j \in 1 .. x - 1 : plugin.requires[j] \notin there
        /\ \A i \in D : plugin.requires[i] \in there /\ (\A j \in 1 .. i - 1 : plugin.requires[j] \notin there)
              => i = x
    BY <1>1, <2>2
  <2>5. (CHOOSE i \in D : /\ plugin.requires[i] \in there
                          /\ \A j \in 1 .. i - 1 : plugin.requires[j] \notin there) = x
    BY <2>2, <2>4
  <2>6. resolved(plugin) = plugin.requires[x]
    BY <1>3, <2>3 DEF resolved
  <2>7. \E i \in D : plugin.requires[i] \in there
    BY <2>2
  <2> DEFINE first == CHOOSE i \in D : /\ plugin.requires[i] \in there
                                       /\ \A j \in 1 .. i - 1 : plugin.requires[j] \notin there
  <2>8. np_feat_requires = IF plugin.inject /\ (\E i \in D : plugin.requires[i] \in there)
                           THEN plugin.requires[first] ELSE None
    BY Zenon DEF np_feat_requires
  <2>9. first = x
    BY <2>5
  <2> HIDE DEF first
  <2>10. np_feat_requires = IF plugin.inject THEN plugin.requires[x] ELSE None
    BY <2>7, <2>8, <2>9
  <2> QED BY <2>6, <2>10 DEF feat_build
<1> QED BY <1>2, <1>3

\* Of a tree the panel walks whole, a row offers the variant on a tool just
\* when a launch reads it and finds no entitlement in its way.
LEMMA SameVerdict ==
    ASSUME NEW t \in Tools, src # None => Walked(src) = Laid(src) /\ \A f \in src : Len(f.dir) \in Nat
    PROVE  t \in var_build(Tools) <=> (np_variant_read(t) /\ ~np_variant_apple_hit(src, runner[t.build]))
<1>1. CASE src = None
  BY <1>1 DEF var_build, np_variant_read, var_offered
<1>2. CASE src # None
  <2> DEFINE r == runner[t.build]
  <2>1. Walked(src) = Laid(src)
    BY <1>2
  <2>2. \A f \in Laid(src) : Len(f.dir) <= VarDepth
    BY <2>1 DEF Walked
  <2>3. \A x : var_arch_of(x) = np_variant_dir_arch(x)
    BY DEF var_arch_of, np_variant_dir_arch
  <2>4. var_fits(variant, src, r, t.arch) <=> np_variant_fits(src, r, t.arch)
    <3> DEFINE held == {x \in Folders(src) : var_holds_file(src, x)}
               full == {Head(f.dir) : f \in {g \in Laid(src) : g.dir # <<>>}}
    <3>1. ASSUME NEW f \in Laid(src) PROVE Len(f.dir) <= VarDepth + 1
      BY <1>2, <2>2, DepthConstant DEF Laid
    <3>2. held = full
      BY <3>1 DEF Folders, var_holds_file, Laid
    <3>3. \A x \in full : var_arch_of(x) = np_variant_dir_arch(x)
      BY <2>3
    <3> HIDE DEF held, full
    <3>4. (variant.removes \cap r.files # {}) <=> (\E p \in variant.removes : p \in r.files)
      OBVIOUS
    <3>5. var_fits(variant, src, r, t.arch) <=>
             /\ \/ \E f \in Laid(src) : f.dir = <<>> /\ <<>> \in r.dirs
                \/ \E x \in full : <<x>> \in r.dirs
                \/ variant.removes \cap r.files # {}
             /\ \/ \A x \in full : var_arch_of(x) = None
                \/ \E x \in full : <<x>> \in r.dirs /\ var_arch_of(x) = t.arch
      BY <3>2 DEF var_fits, held
    <3>6. np_variant_fits(src, r, t.arch) <=>
             /\ \/ <<>> \in r.dirs /\ \E f \in Laid(src) : f.dir = <<>>
                \/ \E x \in full : <<x>> \in r.dirs
                \/ \E p \in variant.removes : p \in r.files
             /\ (\E x \in full : np_variant_dir_arch(x) # None)
                   => \E x \in full : <<x>> \in r.dirs /\ np_variant_dir_arch(x) = t.arch
      BY DEF np_variant_fits, full
    <3> QED BY <3>3, <3>4, <3>5, <3>6
  <2>5. var_bridge_hit(variant, src) <=> np_variant_bridge_hit(src)
    BY <2>1, <2>3 DEF var_bridge_hit, var_bridge_path, np_variant_bridge_hit
  <2>6. /\ var_wine_hit(variant, src, r) <=> np_variant_wine_hit(src, r)
        /\ var_apple_hit(src, r) <=> np_variant_apple_hit(src, r)
    BY <2>1 DEF var_wine_hit, np_variant_wine_hit, var_apple_hit, np_variant_apple_hit
  <2>7. np_variant_fits(src, r, t.arch) => variant.removes # {} \/ Laid(src) # {}
    BY DEF np_variant_fits
  <2> HIDE DEF r
  <2>8. var_offered(t) <=>
           /\ variant.builds = {} \/ t.build \in variant.builds
           /\ var_fits(variant, src, r, t.arch)
           /\ ~(variant.builds = {} /\ var_wine_hit(variant, src, r))
           /\ ~var_apple_hit(src, r)
    BY <1>2 DEF var_offered, Pinned, r
  <2>9. t \in var_build(Tools) <=>
           /\ ~(variant.removes = {} /\ Laid(src) = {})
           /\ ~var_bridge_hit(variant, src)
           /\ var_offered(t)
    BY <1>2 DEF var_build
  <2>10. np_variant_read(t) <=>
           /\ variant.builds = {} \/ t.build \in variant.builds
           /\ np_variant_fits(src, r, t.arch)
           /\ ~np_variant_bridge_hit(src)
           /\ ~(variant.builds = {} /\ np_variant_wine_hit(src, r))
    BY <1>2 DEF np_variant_read, r
  <2> QED BY <2>4, <2>5, <2>6, <2>7, <2>8, <2>9, <2>10 DEF r
<1> QED BY <1>1, <1>2

\* A runner that was built keeps the bridge.
LEMMA TakenKeepsBridge ==
    ASSUME NEW t \in Tools, NEW why \in np_variant_build(t), launch = Taken(t, why)
    PROVE  BuiltKeepsBridge
<1> DEFINE r == runner[t.build]
           taken == {f \in Laid(src) : f.dir \in r.dirs}
<1> SUFFICES ASSUME launch # None, launch.built # None PROVE BuiltKeepsBridge
  BY DEF BuiltKeepsBridge
<1>1. /\ launch.tool = t
      /\ launch.built = IF why = None THEN np_variant_overlay(r) ELSE None
  BY DEF Taken
<1>2. why = None /\ launch.built = np_variant_overlay(r)
  BY <1>1
<1>3. np_variant_read(t) /\ ~np_variant_apple_hit(src, r)
  BY <1>2, NoneApart DEF np_variant_build
<1>4. /\ launch.built.kept = (r.files \ variant.removes) \ {Path(f) : f \in taken}
      /\ launch.built.new = {Path(f) : f \in taken}
  BY <1>2 DEF np_variant_overlay, Belongs
<1>5. /\ ~np_variant_bridge_hit(src)
      /\ ~(variant.builds = {} /\ np_variant_wine_hit(src, r))
  BY <1>3 DEF np_variant_read
<1>6. /\ \A p \in variant.removes : ~var_bridge_path(variant, p)
      /\ \A f \in Laid(src) : ~var_bridge_path(variant, Path(f))
  BY <1>5 DEF np_variant_bridge_hit, var_bridge_path, np_variant_dir_arch, var_arch_of
<1>7. variant.builds = {} /\ variant.dst = "lib/wine" => \A f \in Laid(src) : Path(f) \notin r.files
  BY <1>5 DEF np_variant_wine_hit
<1>8. \A f \in Laid(src) : Path(f) \notin r.restricted
  BY <1>3 DEF np_variant_apple_hit
<1> HIDE DEF r
<1>9. \A p \in r.files \cup launch.built.new :
         var_bridge_path(variant, p) => p \in r.files /\ p \in launch.built.kept
  BY <1>4, <1>6
<1>10. /\ variant.builds = {} /\ variant.dst = "lib/wine" => launch.built.new \cap r.files = {}
       /\ launch.built.new \cap r.restricted = {}
  BY <1>4, <1>7, <1>8
<1> QED BY <1>1, <1>9, <1>10 DEF BuiltKeepsBridge, r

(* What is served is one form of the page with every part that has to be   *)
(* there, the settings page and the Windows filter whole or not at all,    *)
(* and nothing that needs the platform lists without them.                 *)
THEOREM ServedIsWhole == Spec => []PatchIsWhole
<1>1. PanelInv => PatchIsWhole
  BY DEF PanelInv, PageInv, IsWhole, FormIsWhole, FilterIsWhole, PatchIsWhole
<1> QED BY <1>1, PanelInvariant, PTL

(* A page shows the plugins and variants as they are, unless the disk      *)
(* changed since it was opened.                                            *)
THEOREM ServedIsFresh == Spec => []PageIsFresh
<1>1. PanelInv => PageIsFresh
  BY DEF PanelInv, PageInv, IsFresh, PageIsFresh
<1> QED BY <1>1, PanelInvariant, PTL

(* No row offers a variant whose descriptor, paths or entitlements make    *)
(* the launch refuse it, none that a launch goes on to lay is missing, and *)
(* the dylib is the one a launch loads.                                    *)
THEOREM OffersMatchLaunches == Spec => []OfferMatchesLaunch
<1> DEFINE Kept == plugin \in world.plugins /\ src \in world.trees \cup {None}
<1>1. ASSUME PanelInv, Kept PROVE OfferMatchesLaunch
  <2> SUFFICES ASSUME page # None, page.quiet, HasShape(page.chunk), launch # None
               PROVE  OfferMatchesLaunch
    BY DEF OfferMatchesLaunch
  <2>1. page.vars = var_build(Tools) /\ page.feats = feat_build
    BY <1>1 DEF PanelInv, PageInv, IsFresh
  <2>2. PICK t \in Tools : \E why \in np_variant_build(t) : launch = Taken(t, why)
    BY <1>1 DEF PanelInv, LaunchInv
  <2>3. PICK why \in np_variant_build(t) : launch = Taken(t, why)
    BY <2>2
  <2>4. launch.tool = t /\ launch.lib = np_feat_requires /\ launch.refused = why
    BY <2>3 DEF Taken
  <2>5. ASSUME src = None \/ Walked(src) = Laid(src)
        PROVE  /\ t \in page.vars => why \notin {"read", "apple"}
               /\ why \notin {"read", "apple", "failed"} => t \in page.vars
    <3>1. t \in page.vars <=> np_variant_read(t) /\ ~np_variant_apple_hit(src, runner[t.build])
      <4>1. src # None => \A f \in src : Len(f.dir) \in Nat
        BY <1>1, OfferConstants DEF PanelInv, OpenInv
      <4> QED BY <2>1, <2>5, <4>1, SameVerdict
    <3>2. Refusals(runner[t.build]) \subseteq {"native", "unsignable", "nothing"}
      BY DEF Refusals
    <3>3. CASE ~np_variant_read(t)
      BY <2>3, <3>1, <3>3 DEF np_variant_build
    <3>4. CASE np_variant_read(t) /\ np_variant_apple_hit(src, runner[t.build])
      BY <2>3, <3>1, <3>4 DEF np_variant_build
    <3>5. CASE np_variant_read(t) /\ ~np_variant_apple_hit(src, runner[t.build])
      BY <2>3, <3>1, <3>2, <3>5, NoneApart DEF np_variant_build
    <3> QED BY <3>3, <3>4, <3>5
  <2>6. page.feats.rq = launch.lib
    BY <1>1, <2>1, <2>4, SameFile DEF PanelInv
  <2>7. plugin.inject /\ plugin.requires # <<>> => (page.feats.ready <=> launch.lib # None)
    <3>1. /\ feat_build.ready <=> (plugin.requires = <<>> \/ resolved(plugin) # None)
          /\ plugin.inject => feat_build.rq = resolved(plugin)
      BY DEF feat_build
    <3> QED BY <2>1, <2>6, <3>1
  <2> QED BY <2>4, <2>5, <2>6, <2>7 DEF OfferMatchesLaunch
<1>2. Init => Kept
  BY DEF Init, OffersInit
<1>3. Kept /\ [Next]_vars => Kept'
  BY DEF Next, vars, Open, ThreadStep, Publish, Begin, Spawn, ReadOutput, WaitHelper, Settle, BuildFeats, BuildVars,
     Expanded, Serve, Fail, HelperStep, Deadline, Change, Disturb, LaunchGame, Launch, offers, disk
<1>4. PanelInv /\ Kept => OfferMatchesLaunch
  BY <1>1
<1> HIDE DEF Kept
<1>5. Spec => []Kept
  BY <1>2, <1>3, PTL DEF Spec
<1> QED BY <1>4, <1>5, PanelInvariant, PTL

(* A runner built for a variant keeps the files of the Steam bridge, those *)
(* of Wine unless it names its build, and those Apple signed.              *)
THEOREM BuiltRunnersKeepBridge == Spec => []BuiltKeepsBridge
<1>1. ASSUME PanelInv PROVE BuiltKeepsBridge
  <2>1. CASE launch = None
    BY <2>1 DEF BuiltKeepsBridge
  <2>2. CASE launch # None
    BY <1>1, <2>2, TakenKeepsBridge DEF PanelInv, LaunchInv
  <2> QED BY <2>1, <2>2
<1>2. PanelInv => BuiltKeepsBridge
  BY <1>1
<1> QED BY <1>2, PanelInvariant, PTL

-----------------------------------------------------------------------------
(* Readers of descriptor files.                                            *)

(* A reader has these fields.                                              *)
Is(r, id, fields, code, header, dropped, seen, told) ==
    r \in [id : {id}, fields : {fields}, code : {code}, header : {header},
           dropped : {dropped}, seen : {seen}, told : {told}]

IsReader(r) == Is(r, r.id, r.fields, r.code, r.header, r.dropped, r.seen, r.told)

(* Where conf.c is when it is asked for the first line of a file, while    *)
(* the awk program has not seen that one yet.                              *)
Turned(r) == startfile(flush(r))

(* In a file: the two readers are alike, or both pass over what is left.   *)
Together(r, s) ==
    \/ r = s /\ ~r.dropped /\ (~r.header => r.id = Nil)
    \/ r.dropped /\ s.dropped /\ r.id = Nil /\ s.id = Nil /\ r.seen = s.seen /\ r.told = s.told

ReadersInv ==
    /\ text \in Seq(Seq(corpus.lines)) /\ text # <<>>
    /\ IsReader(c) /\ IsReader(w) /\ (w.dropped => w.id = Nil)
    /\ IF done THEN c.told = w.told
       ELSE IF Last = <<>> THEN c = Turned(w) ELSE Together(c, w)

\* The fields of a reader are what it has.
LEMMA ReaderFields ==
    ASSUME NEW r, NEW i, NEW f, NEW o, NEW h, NEW d, NEW s, NEW t, Is(r, i, f, o, h, d, s, t)
    PROVE  /\ r.id = i /\ r.fields = f /\ r.code = o /\ r.header = h
           /\ r.dropped = d /\ r.seen = s /\ r.told = t /\ IsReader(r)
BY DEF IsReader, Is

\* There is one reader with these fields.
LEMMA SameReader ==
    ASSUME NEW i, NEW f, NEW o, NEW h, NEW d, NEW s, NEW t,
           NEW r, Is(r, i, f, o, h, d, s, t), NEW q, Is(q, i, f, o, h, d, s, t)
    PROVE  r = q
BY DEF Is

\* What a record that ends leaves.
LEMMA EmitGives ==
    ASSUME NEW r, IsReader(r)
    PROVE  /\ Is(conf_emit(r), Nil, <<>>, r.code, r.header, r.dropped, conf_emit(r).seen, conf_emit(r).told)
           /\ r.id = Nil => conf_emit(r).seen = r.seen /\ conf_emit(r).told = r.told
<1>1. CASE r.id = Nil
  <2>1. Is(conf_emit(r), Nil, <<>>, r.code, r.header, r.dropped, r.seen, r.told)
    BY <1>1 DEF conf_emit, IsReader, Is
  <2> QED BY <1>1, <2>1, ReaderFields
<1>2. CASE r.id # Nil
  <2> DEFINE x == Append(r.told, [id |-> r.id, fields |-> r.fields, code |-> Verdict(r)])
             y == IF Verdict(r) = Nil THEN r.seen \cup {r.id} ELSE r.seen
  <2>1. conf_emit(r) = [r EXCEPT !.id = Nil, !.fields = <<>>, !.told = x, !.seen = y]
    BY <1>2 DEF conf_emit
  <2> HIDE DEF x, y
  <2>2. Is(conf_emit(r), Nil, <<>>, r.code, r.header, r.dropped, y, x)
    BY <2>1 DEF IsReader, Is
  <2> QED BY <1>2, <2>2, ReaderFields
<1> QED BY <1>1, <1>2

\* flush() ends the record as conf_emit does, and clears what it was.
LEMMA FlushGives ==
    ASSUME NEW r, IsReader(r)
    PROVE  Is(flush(r), Nil, <<>>, Nil, r.header, r.dropped, conf_emit(r).seen, conf_emit(r).told)
<1> DEFINE e == conf_emit(r)
<1>1. CASE r.id = Nil
  <2>1. Is(flush(r), Nil, <<>>, Nil, r.header, r.dropped, r.seen, r.told)
    BY <1>1 DEF flush, reset, IsReader, Is
  <2> QED BY <1>1, <2>1, EmitGives
<1>2. CASE r.id # Nil
  <2>1. flush(r) = reset(e)
    BY <1>2 DEF flush
  <2>2. Is(e, Nil, <<>>, r.code, r.header, r.dropped, e.seen, e.told)
    BY EmitGives
  <2> HIDE DEF e
  <2>3. Is(reset(e), Nil, <<>>, Nil, r.header, r.dropped, e.seen, e.told)
    BY <2>2 DEF reset, Is
  <2> QED BY <2>1, <2>3 DEF e
<1> QED BY <1>1, <1>2

\* At the turn of a file nothing of the one before is left.
LEMMA TurnedGives ==
    ASSUME NEW r, IsReader(r)
    PROVE  Is(Turned(r), Nil, <<>>, Nil, FALSE, FALSE, conf_emit(r).seen, conf_emit(r).told)
<1> DEFINE f == flush(r)
           y == conf_emit(r).seen
           x == conf_emit(r).told
<1>1. Is(f, Nil, <<>>, Nil, r.header, r.dropped, y, x)
  BY FlushGives
<1> HIDE DEF f, x, y
<1>2. Is(startfile(f), Nil, <<>>, Nil, FALSE, FALSE, y, x)
  BY <1>1 DEF startfile, Is
<1> QED BY <1>2 DEF Turned, f, x, y

\* The end of a file in conf.c is where awk comes to at the turn.
LEMMA EndGives ==
    ASSUME NEW r, IsReader(r)
    PROVE  /\ r.dropped => Is(conf_read_end(r), Nil, <<>>, Nil, FALSE, FALSE, r.seen, r.told)
           /\ ~r.dropped => Is(conf_read_end(r), Nil, <<>>, Nil, FALSE, FALSE, conf_emit(r).seen, conf_emit(r).told)
<1> DEFINE e == conf_emit(r)
<1>1. CASE r.dropped
  BY <1>1 DEF conf_read_end, IsReader, Is
<1>2. CASE ~r.dropped
  <2>1. Is(e, Nil, <<>>, r.code, r.header, r.dropped, e.seen, e.told)
    BY EmitGives
  <2>2. conf_read_end(r) = [e EXCEPT !.id = Nil, !.fields = <<>>, !.code = Nil, !.header = FALSE, !.dropped = FALSE]
    BY <1>2 DEF conf_read_end
  <2> HIDE DEF e
  <2>3. Is(conf_read_end(r), Nil, <<>>, Nil, FALSE, FALSE, e.seen, e.told)
    BY <2>1, <2>2 DEF Is
  <2> QED BY <1>2, <2>3 DEF e
<1> QED BY <1>1, <1>2

\* A header does the same to both.
LEMMA HeaderAlike ==
    ASSUME NEW r, IsReader(r), ~r.dropped, NEW l
    PROVE  /\ CHeader(r, l) = AwkHeader(r, l)
           /\ IsReader(CHeader(r, l)) /\ ~CHeader(r, l).dropped /\ CHeader(r, l).header
<1> DEFINE m == conf_emit(r)
           y == m.seen
           x == m.told
           f == flush(r)
           ce == [m EXCEPT !.code = Nil, !.header = TRUE]
           we == [f EXCEPT !.header = TRUE, !.id = l.id]
           d == r.dropped
<1>1. Is(m, Nil, <<>>, r.code, r.header, d, y, x) /\ Is(f, Nil, <<>>, Nil, r.header, d, y, x)
  BY EmitGives, FlushGives
<1> HIDE DEF m, f, x, y
<1>2. Is(ce, Nil, <<>>, Nil, TRUE, d, y, x)
  BY <1>1 DEF Is
<1>3. Is(we, l.id, <<>>, Nil, TRUE, d, y, x)
  BY <1>1 DEF Is
<1> HIDE DEF ce, we
<1>4. CASE l.id = Nil
  <2>1. CHeader(r, l) = Tell(ce, Refusal("file", "bad-id"))
    BY <1>4 DEF CHeader, ce, m
  <2>2. AwkHeader(r, l) = Tell(we, Refusal("file", "bad-id"))
    BY <1>4 DEF AwkHeader, we, f
  <2>3. ce = we
    BY <1>2, <1>3, <1>4, SameReader
  <2>4. Is(Tell(ce, Refusal("file", "bad-id")), Nil, <<>>, Nil, TRUE, d, y, Append(x, Refusal("file", "bad-id")))
    BY <1>2 DEF Tell, Is
  <2> QED BY <2>1, <2>2, <2>3, <2>4, ReaderFields DEF Is, IsReader
<1>5. CASE l.id # Nil
  <2> DEFINE b == IF conf_id_ok(l.id) THEN Nil ELSE "bad-id"
  <2>1. CHeader(r, l) = [ce EXCEPT !.id = l.id, !.code = b]
    BY <1>5 DEF CHeader, ce, m
  <2>2. Is(CHeader(r, l), l.id, <<>>, b, TRUE, d, y, x)
    BY <1>2, <2>1 DEF Is
  <2>3. AwkHeader(r, l) = IF conf_id_ok(l.id) THEN we ELSE [we EXCEPT !.code = "bad-id"]
    BY <1>5 DEF AwkHeader, we, f
  <2>4. Is(AwkHeader(r, l), l.id, <<>>, b, TRUE, d, y, x)
    BY <1>3, <2>3 DEF Is
  <2> HIDE DEF b
  <2>5. CHeader(r, l) = AwkHeader(r, l)
    BY <2>2, <2>4, SameReader
  <2>6. IsReader(CHeader(r, l)) /\ CHeader(r, l).dropped = d /\ CHeader(r, l).header = TRUE
    BY <2>2 DEF Is, IsReader
  <2> QED BY <2>5, <2>6
<1> QED BY <1>4, <1>5

\* So does a field.
LEMMA FieldAlike ==
    ASSUME NEW r, IsReader(r), ~r.dropped, ~r.header => r.id = Nil, NEW l
    PROVE  Together(CField(r, l), AwkField(r, l)) /\ IsReader(CField(r, l)) /\ IsReader(AwkField(r, l))
<1>1. CASE ~r.header
  <2> DEFINE a == [r EXCEPT !.dropped = TRUE]
             b == [reset(r) EXCEPT !.dropped = TRUE]
             f == Refusal("file", "no-header")
  <2>1. CField(r, l) = Tell(a, f) /\ AwkField(r, l) = Tell(b, f)
    BY <1>1 DEF CField, AwkField
  <2>2. Is(a, Nil, r.fields, r.code, r.header, TRUE, r.seen, r.told)
    BY <1>1 DEF IsReader, Is
  <2>3. Is(b, Nil, <<>>, Nil, r.header, TRUE, r.seen, r.told)
    BY DEF IsReader, Is, reset
  <2> HIDE DEF f, a, b
  <2>4. Is(Tell(a, f), Nil, r.fields, r.code, r.header, TRUE, r.seen, Append(r.told, f))
    BY <2>2 DEF Tell, Is
  <2>5. Is(Tell(b, f), Nil, <<>>, Nil, r.header, TRUE, r.seen, Append(r.told, f))
    BY <2>3 DEF Tell, Is
  <2>6. /\ IsReader(Tell(a, f)) /\ Tell(a, f).dropped = TRUE /\ Tell(a, f).id = Nil
        /\ Tell(a, f).seen = r.seen /\ Tell(a, f).told = Append(r.told, f)
    BY <2>4 DEF Is, IsReader
  <2>7. /\ IsReader(Tell(b, f)) /\ Tell(b, f).dropped = TRUE /\ Tell(b, f).id = Nil
        /\ Tell(b, f).seen = r.seen /\ Tell(b, f).told = Append(r.told, f)
    BY <2>5 DEF Is, IsReader
  <2> QED BY <2>1, <2>6, <2>7 DEF Together
<1>2. CASE r.header /\ r.code # Nil
  BY <1>2 DEF CField, AwkField, Together
<1>3. CASE r.header /\ r.code = Nil /\ field_code(r.fields, l) # Nil
  <2> DEFINE o == field_code(r.fields, l)
  <2>1. CField(r, l) = [r EXCEPT !.code = o] /\ AwkField(r, l) = [r EXCEPT !.code = o]
    BY <1>3 DEF CField, AwkField
  <2> HIDE DEF o
  <2>2. Is(CField(r, l), r.id, r.fields, o, r.header, r.dropped, r.seen, r.told)
    BY <2>1 DEF IsReader, Is
  <2> QED BY <1>3, <2>1, <2>2, SMT DEF Together, Is, IsReader
<1>4. CASE r.header /\ r.code = Nil /\ field_code(r.fields, l) = Nil
  <2> DEFINE x == Append(r.fields, [name |-> l.name, value |-> l.value])
  <2>1. CField(r, l) = [r EXCEPT !.fields = x] /\ AwkField(r, l) = [r EXCEPT !.fields = x]
    BY <1>4 DEF CField, AwkField
  <2> HIDE DEF x
  <2>2. Is(CField(r, l), r.id, x, r.code, r.header, r.dropped, r.seen, r.told)
    BY <2>1 DEF IsReader, Is
  <2> QED BY <1>4, <2>1, <2>2, SMT DEF Together, Is, IsReader
<1> QED BY <1>1, <1>2, <1>3, <1>4

\* A line does the same to two readers that are alike.
LEMMA LineAlike ==
    ASSUME NEW r, IsReader(r), ~r.dropped, ~r.header => r.id = Nil, NEW l
    PROVE  /\ Together(conf_read_line(r, l), awk_line(r, FALSE, l))
           /\ IsReader(conf_read_line(r, l)) /\ IsReader(awk_line(r, FALSE, l))
<1>1. CASE l.kind = "long"
  <2> DEFINE f == Refusal("file", "line-too-long")
             a == [r EXCEPT !.id = Nil, !.dropped = TRUE]
             b == [reset(r) EXCEPT !.dropped = TRUE]
  <2>1. conf_read_line(r, l) = Tell(a, f) /\ awk_line(r, FALSE, l) = Tell(b, f)
    BY <1>1 DEF conf_read_line, awk_line
  <2>2. Is(a, Nil, r.fields, r.code, r.header, TRUE, r.seen, r.told)
    BY DEF IsReader, Is
  <2>3. Is(b, Nil, <<>>, Nil, r.header, TRUE, r.seen, r.told)
    BY DEF IsReader, Is, reset
  <2> HIDE DEF f, a, b
  <2>4. Is(Tell(a, f), Nil, r.fields, r.code, r.header, TRUE, r.seen, Append(r.told, f))
    BY <2>2 DEF Tell, Is
  <2>5. Is(Tell(b, f), Nil, <<>>, Nil, r.header, TRUE, r.seen, Append(r.told, f))
    BY <2>3 DEF Tell, Is
  <2>6. /\ IsReader(Tell(a, f)) /\ Tell(a, f).dropped = TRUE /\ Tell(a, f).id = Nil
        /\ Tell(a, f).seen = r.seen /\ Tell(a, f).told = Append(r.told, f)
    BY <2>4 DEF Is, IsReader
  <2>7. /\ IsReader(Tell(b, f)) /\ Tell(b, f).dropped = TRUE /\ Tell(b, f).id = Nil
        /\ Tell(b, f).seen = r.seen /\ Tell(b, f).told = Append(r.told, f)
    BY <2>5 DEF Is, IsReader
  <2> QED BY <2>1, <2>6, <2>7 DEF Together
<1>2. CASE l.kind = "header"
  <2>1. conf_read_line(r, l) = CHeader(r, l) /\ awk_line(r, FALSE, l) = AwkHeader(r, l)
    BY <1>2 DEF conf_read_line, awk_line
  <2> QED BY <2>1, HeaderAlike DEF Together
<1>3. CASE l.kind = "field"
  <2>1. conf_read_line(r, l) = CField(r, l) /\ awk_line(r, FALSE, l) = AwkField(r, l)
    BY <1>3 DEF conf_read_line, awk_line
  <2> QED BY <2>1, FieldAlike
<1>4. CASE l.kind \notin {"long", "header", "field"}
  BY <1>4 DEF conf_read_line, awk_line, Together
<1> QED BY <1>1, <1>2, <1>3, <1>4

\* The first line of a file comes to awk after what the last one left.
LEMMA FirstLine ==
    ASSUME NEW r, NEW l
    PROVE  awk_line(r, TRUE, l) = awk_line(Turned(r), FALSE, l)
BY DEF awk_line, Turned

(* A text with one more line of its last file.                             *)
LineAdded(tx, l) == [tx EXCEPT ![Len(tx)] = Append(@, l)]

\* One more line of a text.
LEMMA LineText ==
    ASSUME NEW L, NEW tx \in Seq(Seq(L)), tx # <<>>, NEW l \in L
    PROVE  /\ LineAdded(tx, l) \in Seq(Seq(L)) /\ Len(LineAdded(tx, l)) = Len(tx)
           /\ LineAdded(tx, l) # <<>> /\ LineAdded(tx, l)[Len(tx)] # <<>>
           /\ DOMAIN LineAdded(tx, l) = 1 .. Len(tx) /\ LineAdded(tx, l)[Len(tx)] = Append(tx[Len(tx)], l)
           /\ \A i \in 1 .. Len(tx) : i # Len(tx) => LineAdded(tx, l)[i] = tx[i]
<1> DEFINE n == Len(tx)
           e == Append(tx[n], l)
           S == Seq(L)
           ty == LineAdded(tx, l)
<1>1. n \in Nat \ {0} /\ n \in 1 .. Len(tx) /\ n = Len(tx) /\ tx[n] \in Seq(L)
  BY EmptySeq, ElementOfSeq, LenProperties
<1>2. e \in S /\ e # <<>> /\ tx \in Seq(S)
  BY <1>1, AppendProperties
<1>3. ty = [tx EXCEPT ![n] = e]
  BY DEF LineAdded
<1> HIDE DEF e, S, n, ty
<1>8. tx \in [1 .. n -> S] /\ ty \in [1 .. n -> S] /\ \A i \in 1 .. n : ty[i] = IF i = n THEN e ELSE tx[i]
  <2>1. tx \in [1 .. n -> S]
    BY <1>1, <1>2, LenProperties
  <2> QED BY <1>1, <1>2, <1>3, <2>1
<1>9. ty \in Seq(S)
  <2>1. Seq(S) = UNION {[1 .. m -> S] : m \in Nat}
    BY SeqDef
  <2>2. \E m \in Nat : ty \in [1 .. m -> S]
    BY <1>1, <1>8
  <2> QED BY <2>1, <2>2
<1>10. Len(ty) = n
  <2>1. Len(ty) \in Nat /\ ty \in [1 .. Len(ty) -> S]
    BY <1>9, LenProperties
  <2>2. 1 .. Len(ty) = 1 .. n
    BY <1>8, <2>1
  <2>3. n \in 1 .. n
    BY <1>1
  <2>4. n \in 1 .. Len(ty)
    BY <2>2, <2>3
  <2>5. Len(ty) \in 1 .. Len(ty)
    BY <2>1, <2>4
  <2>6. Len(ty) \in 1 .. n
    BY <2>2, <2>5
  <2> DEFINE m == Len(ty)
  <2>7. m \in Nat /\ n \in Nat /\ n \in 1 .. m /\ m \in 1 .. n
    BY <1>1, <2>1, <2>4, <2>6
  <2> HIDE DEF m
  <2>8. m = n
    BY <2>7
  <2> QED BY <2>8 DEF m
<1>4. ty \in Seq(S) /\ Len(ty) = n /\ \A i \in 1 .. n : ty[i] = IF i = n THEN e ELSE tx[i]
  BY <1>8, <1>9, <1>10
<1>5. DOMAIN ty = 1 .. n /\ ty # <<>>
  BY <1>1, <1>4, LenProperties, EmptySeq
<1>6. ty[n] = e /\ \A i \in 1 .. n : i # n => ty[i] = tx[i]
  BY <1>1, <1>4
<1>7. ty[n] # <<>>
  BY <1>2, <1>6
<1> QED BY <1>1, <1>4, <1>5, <1>6, <1>7 DEF e, S, n, ty

\* Reading a line keeps the readers together.
LEMMA ReadLineTogether ==
    ASSUME ReadersInv, ReadLine
    PROVE  ReadersInv'
<1>1. PICK l \in corpus.lines :
         /\ text' = LineAdded(text, l)
         /\ c' = conf_read_line(c, l) /\ w' = awk_line(w, Last = <<>>, l)
  BY DEF LineAdded, ReadLine
<1>2. ~done /\ ~done' /\ corpus' = corpus
  BY DEF ReadLine
<1>3. text' \in Seq(Seq(corpus'.lines)) /\ text' # <<>> /\ Last' # <<>>
  <2>1. text \in Seq(Seq(corpus.lines)) /\ text # <<>>
    BY DEF ReadersInv
  <2>2. text' \in Seq(Seq(corpus.lines)) /\ text' # <<>> /\ text'[Len(text')] # <<>>
    BY <1>1, <2>1, LineText
  <2> QED BY <1>2, <2>2 DEF Last
<1>4. Together(c', w') /\ IsReader(c') /\ IsReader(w')
  <2>1. CASE Last = <<>>
    <3>1. c = Turned(w)
      BY <1>2, <2>1 DEF ReadersInv
    <3>2. Is(c, Nil, <<>>, Nil, FALSE, FALSE, conf_emit(w).seen, conf_emit(w).told)
      BY <3>1, TurnedGives DEF ReadersInv
    <3>3. c.id = Nil /\ c.dropped = FALSE
      BY <3>2 DEF Is
    <3>4. w' = awk_line(c, FALSE, l)
      BY <1>1, <2>1, <3>1, FirstLine
    <3> QED BY <1>1, <3>3, <3>4, LineAlike DEF ReadersInv
  <2>2. CASE Last # <<>>
    <3>1. Together(c, w) /\ w' = awk_line(w, FALSE, l)
      BY <1>1, <1>2, <2>2 DEF ReadersInv
    <3>2. CASE c.dropped
      BY <1>1, <3>1, <3>2 DEF Together, conf_read_line, awk_line, ReadersInv
    <3>3. CASE ~c.dropped
      <4>1. c = w /\ (~c.header => c.id = Nil)
        BY <3>1, <3>3 DEF Together
      <4> QED BY <1>1, <3>1, <3>3, <4>1, LineAlike DEF ReadersInv
    <3> QED BY <3>2, <3>3
  <2> QED BY <2>1, <2>2
<1>5. w'.dropped => w'.id = Nil
  BY <1>4 DEF Together
<1> QED BY <1>2, <1>3, <1>4, <1>5 DEF ReadersInv

\* Where conf.c comes to at the end of a file is what awk comes to later.
LEMMA EndIsTurn ==
    ASSUME NEW r, IsReader(r), NEW s, IsReader(s), s.dropped => s.id = Nil,
           r = Turned(s) \/ Together(r, s)
    PROVE  conf_read_end(r) = Turned(s) /\ IsReader(conf_read_end(r))
<1>1. Is(Turned(s), Nil, <<>>, Nil, FALSE, FALSE, conf_emit(s).seen, conf_emit(s).told)
  BY TurnedGives
<1>5. IsReader(Turned(s))
  BY <1>1 DEF Is, IsReader
<1>2. CASE r = Turned(s)
  <2>1. r.id = Nil /\ r.dropped = FALSE /\ r.seen = conf_emit(s).seen /\ r.told = conf_emit(s).told
    BY <1>1, <1>2 DEF Is
  <2>2. Is(conf_read_end(r), Nil, <<>>, Nil, FALSE, FALSE, r.seen, r.told)
    BY <2>1, EmitGives, EndGives
  <2>3. Is(Turned(s), Nil, <<>>, Nil, FALSE, FALSE, r.seen, r.told)
    BY <1>1, <2>1
  <2>4. conf_read_end(r) = Turned(s)
    BY <2>2, <2>3, SameReader
  <2> QED BY <1>5, <2>4
<1>3. CASE Together(r, s) /\ ~r.dropped
  <2>1. Is(conf_read_end(r), Nil, <<>>, Nil, FALSE, FALSE, conf_emit(r).seen, conf_emit(r).told) /\ r = s
    BY <1>3, EndGives DEF Together
  <2>2. conf_read_end(r) = Turned(s)
    BY <1>1, <2>1, SameReader
  <2> QED BY <1>5, <2>2
<1>4. CASE Together(r, s) /\ r.dropped
  <2>1. r.seen = s.seen /\ r.told = s.told /\ s.id = Nil
    BY <1>4 DEF Together
  <2>2. conf_emit(s).seen = r.seen /\ conf_emit(s).told = r.told
    BY <2>1, EmitGives
  <2>3. Is(conf_read_end(r), Nil, <<>>, Nil, FALSE, FALSE, r.seen, r.told)
    BY <1>4, EndGives
  <2>4. Is(Turned(s), Nil, <<>>, Nil, FALSE, FALSE, r.seen, r.told)
    BY <1>1, <2>2
  <2>5. conf_read_end(r) = Turned(s)
    BY <2>3, <2>4, SameReader
  <2> QED BY <1>5, <2>5
<1> QED BY <1>2, <1>3, <1>4

\* What a reader leaves depends on the reader only.
LEMMA TurnStays == ASSUME corpus' = corpus PROVE Turned(w)' = Turned(w')
BY DEF Turned, startfile, flush, reset, conf_emit, Verdict, conf_schema, conf_admit, slider_shape_wrong, off_slider,
   range_wrong, has, values, np_conf_get, np_conf_num, np_conf_count

\* The readers go through a directory together.
LEMMA ReadersStep == ASSUME ReadersInv, [RecordsNext]_recordsVars PROVE ReadersInv'
<1>1. CASE ReadLine
  BY <1>1, ReadLineTogether
<1>2. CASE NextFile
  <2>1. ~done /\ ~done' /\ corpus' = corpus /\ w' = w /\ c' = conf_read_end(c) /\ text' = Append(text, <<>>)
    BY <1>2 DEF NextFile
  <2>2. c = Turned(w) \/ Together(c, w)
    BY <2>1 DEF ReadersInv
  <2>3. c' = Turned(w) /\ IsReader(c')
    BY <2>1, <2>2, EndIsTurn DEF ReadersInv
  <2>4. /\ text' \in Seq(Seq(corpus.lines)) /\ text' # <<>> /\ Last' = <<>>
    BY <2>1, AppendProperties, EmptySeq DEF ReadersInv, Last
  <2>5. Turned(w)' = Turned(w)
    BY <2>1, TurnStays
  <2> QED BY <2>1, <2>3, <2>4, <2>5 DEF ReadersInv
<1>3. CASE EndOfDirectory
  <2>1. /\ ~done /\ done' = TRUE /\ corpus' = corpus /\ text' = text /\ c' = conf_read_end(c) /\ w' = flush(w)
    BY <1>3 DEF EndOfDirectory
  <2>2. c = Turned(w) \/ Together(c, w)
    BY <2>1 DEF ReadersInv
  <2>3. c' = Turned(w) /\ IsReader(c')
    BY <2>1, <2>2, EndIsTurn DEF ReadersInv
  <2>4. /\ Is(w', Nil, <<>>, Nil, w.header, w.dropped, conf_emit(w).seen, conf_emit(w).told)
        /\ Is(c', Nil, <<>>, Nil, FALSE, FALSE, conf_emit(w).seen, conf_emit(w).told)
    BY <2>1, <2>3, FlushGives, TurnedGives DEF ReadersInv
  <2>5. IsReader(w') /\ w'.id = Nil /\ c'.told = w'.told
    BY <2>4 DEF Is, IsReader
  <2> QED BY <2>1, <2>3, <2>5 DEF ReadersInv
<1>4. CASE UNCHANGED recordsVars
  <2>1. Turned(w)' = Turned(w)
    BY <1>4, TurnStays DEF recordsVars
  <2> QED BY <1>4, <2>1 DEF ReadersInv, recordsVars, Last, Together, IsReader, Is
<1> QED BY <1>1, <1>2, <1>3, <1>4 DEF RecordsNext

\* Before the first line nothing is told.
LEMMA ReadersStart == RecordsInit => ReadersInv
<1> SUFFICES ASSUME RecordsInit PROVE ReadersInv
  OBVIOUS
<1>1. Is(Fresh, Nil, <<>>, Nil, FALSE, FALSE, {}, <<>>)
  BY DEF Fresh, Is
<1>2. IsReader(Fresh) /\ Fresh.id = Nil /\ Fresh.seen = {} /\ Fresh.told = <<>>
  BY <1>1, ReaderFields
<1>3. Is(Turned(Fresh), Nil, <<>>, Nil, FALSE, FALSE, {}, <<>>)
  BY <1>2, TurnedGives, EmitGives
<1>4. Fresh = Turned(Fresh)
  BY <1>1, <1>3, SameReader
<1>5. text \in Seq(Seq(corpus.lines)) /\ text # <<>> /\ Last = <<>>
  <2>1. text = << <<>> >> /\ <<>> \in Seq(corpus.lines)
    BY EmptySeq DEF RecordsInit
  <2>2. text \in Seq(Seq(corpus.lines))
    <3> DEFINE S == Seq(corpus.lines)
    <3>1. text = << <<>> >> /\ <<>> \in S
      BY <2>1
    <3> HIDE DEF S
    <3>2. text \in Seq(S)
      BY <3>1
    <3> QED BY <3>2 DEF S
  <2> QED BY <2>1, <2>2 DEF Last
<1> QED BY <1>2, <1>4, <1>5 DEF RecordsInit, ReadersInv, Turned

(* The panel and the launch read every directory alike: the same records   *)
(* with the same fields, and the same refusals in the same order.          *)
THEOREM ReadersTellTheSame == RecordsSpec => []ReadersAgree
<1>1. ReadersInv => ReadersAgree
  BY DEF ReadersInv, ReadersAgree
<1>2. ReadersInv /\ [RecordsNext]_recordsVars => ReadersInv'
  BY ReadersStep
<1> QED BY <1>1, <1>2, ReadersStart, PTL DEF RecordsSpec

-----------------------------------------------------------------------------
(* Totals.                                                                 *)

(* Sums of the first numbers.                                              *)
Sums(f, n, u) == u \in [0 .. n -> Nat] /\ u[0] = 0 /\ \A i \in 1 .. n : u[i] = u[i - 1] + f[i]

\* Numbers have sums.
LEMMA SumsExist ==
    ASSUME NEW f, NEW n \in Nat, \A i \in 1 .. n : f[i] \in Nat
    PROVE  \E u : Sums(f, n, u)
<1> DEFINE T == {m \in 0 .. n : ~\E u : Sums(f, m, u)}
<1>1. CASE T = {}
  BY <1>1
<1>2. CASE T # {}
  <2>1. \E m \in T : \A y \in T : m <= y
    <3>1. T \in SUBSET Nat
      OBVIOUS
    <3> HIDE DEF T
    <3> QED BY <1>2, <3>1, Least
  <2>2. PICK m \in T : \A y \in T : m <= y
    BY <2>1
  <2>3. m # 0
    <3> DEFINE z == [i \in 0 .. 0 |-> 0]
    <3>1. z \in [0 .. 0 -> Nat] /\ z[0] = 0 /\ \A i \in 1 .. 0 : FALSE
      OBVIOUS
    <3> HIDE DEF z
    <3>2. Sums(f, 0, z)
      BY <3>1 DEF Sums
    <3> QED BY <2>2, <3>2
  <2>4. m - 1 \in 0 .. n /\ m - 1 \notin T
    BY <2>2, <2>3
  <2>5. PICK u : Sums(f, m - 1, u)
    BY <2>4
  <2> DEFINE v == [i \in 0 .. m |-> IF i = m THEN u[m - 1] + f[m] ELSE u[i]]
  <2>6. f[m] \in Nat /\ m \in 1 .. n
    BY <2>2, <2>3
  <2>7. Sums(f, m, v)
    BY <2>5, <2>6 DEF Sums
  <2> QED BY <2>2, <2>7
<1> QED BY <1>1, <1>2

\* There is one way to sum them.
LEMMA SumsAgree ==
    ASSUME NEW n \in Nat, NEW f, NEW u, NEW v,
           u[0] = v[0], \A i \in 1 .. n : u[i] = u[i - 1] + f[i] /\ v[i] = v[i - 1] + f[i]
    PROVE  \A i \in 0 .. n : u[i] = v[i]
<1> DEFINE T == {m \in 0 .. n : u[m] # v[m]}
<1>1. CASE T = {}
  BY <1>1
<1>2. CASE T # {}
  <2>1. \E m \in T : \A y \in T : m <= y
    <3>1. T \in SUBSET Nat
      OBVIOUS
    <3> HIDE DEF T
    <3> QED BY <1>2, <3>1, Least
  <2>2. PICK m \in T : \A y \in T : m <= y
    BY <2>1
  <2>3. m \in 1 .. n
    <3>1. u[m] # v[m] /\ m \in 0 .. n
      BY <2>2
    <3> QED BY <2>2, <3>1
  <2>4. u[m - 1] = v[m - 1]
    <3>1. m - 1 \in 0 .. n /\ ~(m <= m - 1)
      BY <2>3
    <3>2. m - 1 \notin T
      BY <2>2, <3>1
    <3> QED BY <3>1, <3>2
  <2> QED BY <2>2, <2>3, <2>4
<1> QED BY <1>1, <1>2

\* A total is the last of the sums.
LEMMA TotalIs ==
    ASSUME NEW n \in Nat, NEW f, NEW u, Sums(f, n, u)
    PROVE  Total(f, n) = u[n]
<1> DEFINE up == CHOOSE F : F = [i \in 0 .. n |-> IF i = 0 THEN 0 ELSE F[i - 1] + f[i]]
<1>1. Total(f, n) = up[n]
  BY DEF Total
<1>2. u = [i \in 0 .. n |-> IF i = 0 THEN 0 ELSE u[i - 1] + f[i]]
  BY DEF Sums
<1>3. up = [i \in 0 .. n |-> IF i = 0 THEN 0 ELSE up[i - 1] + f[i]]
  BY <1>2
<1> HIDE DEF up
<1>4. up[0] = u[0] /\ \A i \in 1 .. n : up[i] = up[i - 1] + f[i] /\ u[i] = u[i - 1] + f[i]
  BY <1>3 DEF Sums
<1> QED BY <1>1, <1>4, SumsAgree

\* A total, one number after the other.
LEMMA TotalGoes ==
    ASSUME NEW n \in Nat, NEW f, \A i \in 1 .. n + 1 : f[i] \in Nat
    PROVE  Total(f, 0) = 0 /\ Total(f, n) \in Nat /\ Total(f, n + 1) = Total(f, n) + f[n + 1]
<1>1. PICK u : Sums(f, n + 1, u)
  BY SumsExist
<1> DEFINE v == [i \in 0 .. n |-> u[i]]
           z == [i \in 0 .. 0 |-> u[i]]
<1>2. Sums(f, n, v)
  BY <1>1 DEF Sums
<1>3. Sums(f, 0, z)
  BY <1>1 DEF Sums
<1>4. Total(f, n + 1) = u[n + 1] /\ Total(f, n) = v[n] /\ Total(f, 0) = z[0]
  BY <1>1, <1>2, <1>3, TotalIs
<1>5. u[n + 1] = u[n] + f[n + 1] /\ u[n] \in Nat /\ v[n] = u[n] /\ z[0] = 0
  BY <1>1 DEF Sums
<1> QED BY <1>4, <1>5

\* A total is of its numbers.
LEMMA TotalSame ==
    ASSUME NEW n \in Nat, NEW f, NEW g, \A i \in 1 .. n : f[i] \in Nat /\ f[i] = g[i]
    PROVE  Total(f, n) = Total(g, n) /\ Total(f, n) \in Nat
<1>1. PICK u : Sums(f, n, u)
  BY SumsExist
<1>2. Sums(g, n, u) /\ u[n] \in Nat
  BY <1>1 DEF Sums
<1> QED BY <1>1, <1>2, TotalIs

\* The last number changes.
LEMMA TotalLast ==
    ASSUME NEW n \in Nat \ {0}, NEW f, NEW g,
           \A i \in 1 .. n : f[i] \in Nat /\ g[i] \in Nat, \A i \in 1 .. n - 1 : g[i] = f[i]
    PROVE  Total(f, n) \in Nat /\ Total(g, n) \in Nat /\ Total(g, n) + f[n] = Total(f, n) + g[n]
<1>1. n - 1 \in Nat /\ (n - 1) + 1 = n /\ \A i \in 1 .. n - 1 : i \in 1 .. n
  OBVIOUS
<1>2. Total(f, n - 1) \in Nat /\ Total(f, (n - 1) + 1) = Total(f, n - 1) + f[(n - 1) + 1]
  BY <1>1, TotalGoes
<1>3. Total(g, (n - 1) + 1) = Total(g, n - 1) + g[(n - 1) + 1]
  BY <1>1, TotalGoes
<1>4. Total(g, n - 1) = Total(f, n - 1)
  BY <1>1, TotalSame
<1>5. f[n] \in Nat /\ g[n] \in Nat
  OBVIOUS
<1> QED BY <1>1, <1>2, <1>3, <1>4, <1>5

\* One more number, which is none.
LEMMA TotalMore ==
    ASSUME NEW n \in Nat, NEW f, NEW g, \A i \in 1 .. n : f[i] \in Nat /\ g[i] = f[i], g[n + 1] = 0
    PROVE  Total(g, n + 1) = Total(f, n)
<1>1. \A i \in 1 .. n + 1 : g[i] \in Nat
  <2>1. \A i \in 1 .. n + 1 : i = n + 1 \/ i \in 1 .. n
    OBVIOUS
  <2> QED BY <2>1
<1>2. Total(g, n + 1) = Total(g, n) + g[n + 1]
  BY <1>1, TotalGoes
<1>3. Total(g, n) = Total(f, n) /\ Total(f, n) \in Nat
  BY TotalSame
<1> QED BY <1>2, <1>3

-----------------------------------------------------------------------------
(* What conf.c holds.                                                      *)

FieldSet == [name : {l.name : l \in corpus.lines}, value : {l.value : l \in corpus.lines}]

HeldOk(r) ==
    /\ r.id \in Ids \cup {BadId, Nil}
    /\ r.id # Nil /\ r.code = Nil => r.id \in Ids
    /\ r.seen \subseteq Ids /\ IsFiniteSet(r.seen) /\ Cardinality(r.seen) <= RecordsMax
    /\ r.fields \in Seq(FieldSet) /\ kvlen(r.fields) <= RecBuf

HeldInv ==
    /\ ReadersInv /\ corpus \in Corpora
    /\ Len(text) <= corpus.files /\ LineCount <= corpus.most
    /\ HeldOk(c)

\* The fields of a record, counted by what they are.
LEMMA IndexCount ==
    ASSUME NEW S, NEW q \in Seq(S), NEW P \in SUBSET (1 .. Len(q))
    PROVE  /\ IsFiniteSet(P) /\ Cardinality(P) \in Nat
           /\ Cardinality(P \cup {Len(q) + 1}) = Cardinality(P) + 1
<1>1. Len(q) \in Nat
  BY LenProperties
<1>2. IsFiniteSet(1 .. Len(q))
  BY <1>1, FS_Interval
<1>3. IsFiniteSet(P) /\ Cardinality(P) \in Nat
  BY <1>2, FS_Subset, FS_CardinalityType
<1>4. Len(q) + 1 \notin P
  BY <1>1
<1> QED BY <1>3, <1>4, FS_AddElement

\* No fields take no room.
LEMMA KvNone == kvlen(<<>>) = 0
<1>1. {i \in DOMAIN <<>> : <<>>[i].value # "big"} = {} /\ {i \in DOMAIN <<>> : <<>>[i].value = "big"} = {}
  OBVIOUS
<1>2. RecBuf * 0 = 0
  BY PluginConstants
<1> QED BY <1>1, <1>2, FS_EmptySet DEF kvlen

\* One more field takes its own room.
LEMMA KvAppend ==
    ASSUME NEW S, NEW q \in Seq(S), NEW x \in S
    PROVE  kvlen(q) \in Nat /\ kvlen(Append(q, x)) = kvlen(q) + Size(x.value)
<1> DEFINE a == Append(q, x)
           n == Len(q)
           A == {i \in DOMAIN q : q[i].value # "big"}
           B == {i \in DOMAIN q : q[i].value = "big"}
           A1 == {i \in DOMAIN a : a[i].value # "big"}
           B1 == {i \in DOMAIN a : a[i].value = "big"}
<1>1. /\ n \in Nat /\ DOMAIN q = 1 .. n /\ DOMAIN a = 1 .. n + 1 /\ a[n + 1] = x
      /\ \A i \in 1 .. n : a[i] = q[i]
  BY LenProperties, AppendProperties
<1> HIDE DEF a
<1>2. x.value = "big" => A1 = A /\ B1 = B \cup {n + 1}
  BY <1>1
<1>9. x.value # "big" => A1 = A \cup {n + 1} /\ B1 = B
  BY <1>1
<1>3. A \in SUBSET (1 .. n) /\ B \in SUBSET (1 .. n)
  BY <1>1
<1>4. /\ kvlen(q) = Cardinality(A) + RecBuf * Cardinality(B)
      /\ kvlen(a) = Cardinality(A1) + RecBuf * Cardinality(B1)
  BY DEF kvlen, a
<1> HIDE DEF A, B, A1, B1, n
<1>5. /\ Cardinality(A) \in Nat /\ Cardinality(A \cup {n + 1}) = Cardinality(A) + 1
      /\ Cardinality(B) \in Nat /\ Cardinality(B \cup {n + 1}) = Cardinality(B) + 1
  BY <1>3, IndexCount DEF n
<1> DEFINE p == Cardinality(A)
           r == Cardinality(B)
<1>6. RecBuf \in Nat /\ RecBuf * r \in Nat /\ RecBuf * (r + 1) = RecBuf * r + RecBuf
  BY <1>5, PluginConstants
<1>7. CASE x.value = "big"
  <2>1. kvlen(a) = p + RecBuf * (r + 1)
    BY <1>2, <1>4, <1>5, <1>7
  <2> QED BY <2>1, <1>4, <1>5, <1>6, <1>7 DEF Size, a
<1>8. CASE x.value # "big"
  <2>1. kvlen(a) = (p + 1) + RecBuf * r
    BY <1>9, <1>4, <1>5, <1>8
  <2> QED BY <2>1, <1>4, <1>5, <1>6, <1>8 DEF Size, a
<1> QED BY <1>7, <1>8

\* A record of a reader that holds its tables is admitted within them.
LEMMA AdmitHeld ==
    ASSUME NEW r, HeldOk(r), r.id # Nil, Verdict(r) = Nil
    PROVE  LET s == r.seen \cup {r.id}
           IN  s \subseteq Ids /\ IsFiniteSet(s) /\ Cardinality(s) <= RecordsMax
<1>1. r.code = Nil /\ conf_admit(r.seen, r.id) = Nil
  BY DEF Verdict
<1>2. r.id \notin r.seen /\ ~(Cardinality(r.seen) >= RecordsMax)
  BY <1>1, PluginConstants DEF conf_admit, Codes
<1>3. r.id \in Ids /\ IsFiniteSet(r.seen)
  BY <1>1 DEF HeldOk
<1>4. /\ Cardinality(r.seen) \in Nat /\ IsFiniteSet(r.seen \cup {r.id})
      /\ Cardinality(r.seen \cup {r.id}) = Cardinality(r.seen) + 1
  BY <1>2, <1>3, FS_AddElement, FS_CardinalityType
<1> QED BY <1>2, <1>3, <1>4, PluginConstants DEF HeldOk

\* A record that ends leaves the tables as they have to be.
LEMMA EmitHeld ==
    ASSUME NEW r, IsReader(r), HeldOk(r)
    PROVE  LET e == conf_emit(r)
           IN  /\ e.seen \subseteq Ids /\ IsFiniteSet(e.seen) /\ Cardinality(e.seen) <= RecordsMax
               /\ e.fields = <<>> /\ e.id = Nil
<1> DEFINE e == conf_emit(r)
<1>1. e.fields = <<>> /\ e.id = Nil
  <2>1. Is(e, Nil, <<>>, r.code, r.header, r.dropped, e.seen, e.told)
    BY EmitGives
  <2> HIDE DEF e
  <2> QED BY <2>1, ReaderFields
<1>2. CASE r.id = Nil
  <2>1. e.seen = r.seen
    BY <1>2, EmitGives
  <2> QED BY <1>1, <2>1 DEF HeldOk
<1>3. CASE r.id # Nil
  <2>1. e.seen = IF Verdict(r) = Nil THEN r.seen \cup {r.id} ELSE r.seen
    BY <1>3 DEF conf_emit, IsReader, Is
  <2>2. CASE Verdict(r) = Nil
    BY <1>1, <1>3, <2>1, <2>2, AdmitHeld
  <2>3. CASE Verdict(r) # Nil
    BY <1>1, <2>1, <2>3 DEF HeldOk
  <2> QED BY <2>2, <2>3
<1> QED BY <1>2, <1>3

\* A field is taken when there is room for it.
LEMMA FieldHeld ==
    ASSUME NEW r, IsReader(r), HeldOk(r), NEW l \in corpus.lines
    PROVE  HeldOk(CField(r, l))
<1>1. CASE ~r.header
  <2> DEFINE f == Refusal("file", "no-header")
             a == [r EXCEPT !.dropped = TRUE]
  <2>1. CField(r, l) = Tell(a, f)
    BY <1>1 DEF CField
  <2>2. Is(a, r.id, r.fields, r.code, r.header, TRUE, r.seen, r.told)
    BY DEF IsReader, Is
  <2> HIDE DEF a, f
  <2>3. Is(Tell(a, f), r.id, r.fields, r.code, r.header, TRUE, r.seen, Append(r.told, f))
    BY <2>2 DEF Tell, Is
  <2>4. /\ Tell(a, f).id = r.id /\ Tell(a, f).code = r.code
        /\ Tell(a, f).seen = r.seen /\ Tell(a, f).fields = r.fields
    BY <2>3 DEF Is
  <2> QED BY <2>1, <2>4 DEF HeldOk
<1>2. CASE r.header /\ r.code # Nil
  BY <1>2 DEF CField
<1>3. CASE r.header /\ r.code = Nil /\ field_code(r.fields, l) # Nil
  <2> DEFINE o == field_code(r.fields, l)
             a == [r EXCEPT !.code = o]
  <2>1. CField(r, l) = a /\ o # Nil
    BY <1>3 DEF CField
  <2> HIDE DEF o
  <2>2. /\ a.id = r.id /\ a.code = o /\ a.seen = r.seen /\ a.fields = r.fields
    BY DEF IsReader, Is
  <2> HIDE DEF a
  <2> QED BY <2>1, <2>2 DEF HeldOk
<1>4. CASE r.header /\ r.code = Nil /\ field_code(r.fields, l) = Nil
  <2> DEFINE x == [name |-> l.name, value |-> l.value]
             q == Append(r.fields, x)
             a == [r EXCEPT !.fields = q]
  <2>1. CField(r, l) = a
    BY <1>4 DEF CField
  <2>2. x \in FieldSet /\ x.value = l.value
    BY DEF FieldSet
  <2>3. ~(kvlen(r.fields) + Size(l.value) > RecBuf)
    BY <1>4, PluginConstants DEF field_code, Codes
  <2>4. kvlen(r.fields) \in Nat /\ kvlen(q) = kvlen(r.fields) + Size(l.value) /\ Size(l.value) \in Nat
    BY <2>2, KvAppend, PluginConstants DEF HeldOk, Size
  <2>5. q \in Seq(FieldSet)
    BY <2>2, AppendProperties DEF HeldOk
  <2> HIDE DEF q, x
  <2>6. /\ a.id = r.id /\ a.code = r.code /\ a.seen = r.seen /\ a.fields = q
    BY DEF IsReader, Is
  <2> HIDE DEF a
  <2>7. kvlen(q) <= RecBuf
    BY <2>3, <2>4, PluginConstants
  <2> QED BY <2>1, <2>5, <2>6, <2>7 DEF HeldOk
<1> QED BY <1>1, <1>2, <1>3, <1>4

\* A header begins a record with no fields.
LEMMA HeaderHeld ==
    ASSUME NEW r, IsReader(r), HeldOk(r), corpus \in Corpora, NEW l \in corpus.lines
    PROVE  HeldOk(CHeader(r, l))
<1> DEFINE m == conf_emit(r)
           e == [m EXCEPT !.code = Nil, !.header = TRUE]
           f == Refusal("file", "bad-id")
           b == IF conf_id_ok(l.id) THEN Nil ELSE "bad-id"
<1>1. /\ Is(m, Nil, <<>>, r.code, r.header, r.dropped, m.seen, m.told)
      /\ m.seen \subseteq Ids /\ IsFiniteSet(m.seen) /\ Cardinality(m.seen) <= RecordsMax
  BY EmitGives, EmitHeld
<1>2. l.id \in Ids \cup {BadId, Nil}
  BY PluginConstants
<1>3. <<>> \in Seq(FieldSet) /\ kvlen(<<>>) <= RecBuf
  BY KvNone, EmptySeq, PluginConstants
<1>4. /\ l.id = Nil => CHeader(r, l) = Tell(e, f)
      /\ l.id # Nil => CHeader(r, l) = [e EXCEPT !.id = l.id, !.code = b]
  BY DEF CHeader
<1>5. b = Nil => l.id \in Ids
  BY PluginConstants DEF Codes, conf_id_ok
<1> HIDE DEF m, b, f
<1>6. Is(e, Nil, <<>>, Nil, TRUE, r.dropped, m.seen, m.told)
  BY <1>1 DEF Is
<1> HIDE DEF e
<1>7. CASE l.id = Nil
  <2>1. Is(CHeader(r, l), Nil, <<>>, Nil, TRUE, r.dropped, m.seen, Append(m.told, f))
    BY <1>4, <1>6, <1>7 DEF Tell, Is
  <2>2. CHeader(r, l).id = Nil /\ CHeader(r, l).fields = <<>> /\ CHeader(r, l).seen = m.seen
    BY <2>1 DEF Is
  <2> QED BY <1>1, <1>3, <2>2 DEF HeldOk
<1>8. CASE l.id # Nil
  <2>1. Is(CHeader(r, l), l.id, <<>>, b, TRUE, r.dropped, m.seen, m.told)
    BY <1>4, <1>6, <1>8 DEF Is
  <2>2. /\ CHeader(r, l).id = l.id /\ CHeader(r, l).fields = <<>> /\ CHeader(r, l).seen = m.seen
        /\ CHeader(r, l).code = b
    BY <2>1 DEF Is
  <2> QED BY <1>1, <1>2, <1>3, <1>5, <2>2 DEF HeldOk
<1> QED BY <1>7, <1>8

\* A line leaves what conf.c holds within its tables.
LEMMA LineHeld ==
    ASSUME NEW r, IsReader(r), HeldOk(r), corpus \in Corpora, NEW l \in corpus.lines
    PROVE  HeldOk(conf_read_line(r, l))
<1>1. CASE r.dropped
  BY <1>1 DEF conf_read_line
<1>2. CASE ~r.dropped /\ l.kind = "long"
  <2> DEFINE f == Refusal("file", "line-too-long")
             a == [r EXCEPT !.id = Nil, !.dropped = TRUE]
  <2>1. conf_read_line(r, l) = Tell(a, f)
    BY <1>2 DEF conf_read_line
  <2>2. Is(a, Nil, r.fields, r.code, r.header, TRUE, r.seen, r.told)
    BY DEF IsReader, Is
  <2> HIDE DEF a, f
  <2>3. Is(Tell(a, f), Nil, r.fields, r.code, r.header, TRUE, r.seen, Append(r.told, f))
    BY <2>2 DEF Tell, Is
  <2>4. Tell(a, f).id = Nil /\ Tell(a, f).seen = r.seen /\ Tell(a, f).fields = r.fields
    BY <2>3 DEF Is
  <2> QED BY <2>1, <2>4 DEF HeldOk
<1>3. CASE ~r.dropped /\ l.kind = "header"
  BY <1>3, HeaderHeld DEF conf_read_line
<1>4. CASE ~r.dropped /\ l.kind = "field"
  BY <1>4, FieldHeld DEF conf_read_line
<1>5. CASE ~r.dropped /\ l.kind \notin {"long", "header", "field"}
  BY <1>5 DEF conf_read_line
<1> QED BY <1>1, <1>2, <1>3, <1>4, <1>5

\* So does the end of a file.
LEMMA EndHeld ==
    ASSUME NEW r, IsReader(r), HeldOk(r)
    PROVE  HeldOk(conf_read_end(r))
<1> DEFINE e == conf_read_end(r)
           y == IF r.dropped THEN r.seen ELSE conf_emit(r).seen
           x == IF r.dropped THEN r.told ELSE conf_emit(r).told
<1>1. Is(e, Nil, <<>>, Nil, FALSE, FALSE, y, x)
  BY EndGives
<1>2. y \subseteq Ids /\ IsFiniteSet(y) /\ Cardinality(y) <= RecordsMax
  BY EmitHeld DEF HeldOk
<1>3. <<>> \in Seq(FieldSet) /\ kvlen(<<>>) <= RecBuf
  BY KvNone, EmptySeq, PluginConstants
<1> HIDE DEF e, y, x
<1>4. e.id = Nil /\ e.fields = <<>> /\ e.seen = y
  BY <1>1 DEF Is
<1> QED BY <1>2, <1>3, <1>4 DEF HeldOk, e

\* A line more is one more, an empty file is none.
LEMMA CountGoes ==
    ASSUME NEW L, text \in Seq(Seq(L)), text # <<>>
    PROVE  /\ LineCount \in Nat
           /\ \A l \in L : text' = LineAdded(text, l) => LineCount' = LineCount + 1
           /\ text' = Append(text, <<>>) => LineCount' = LineCount
<1> DEFINE n == Len(text)
           f == [i \in DOMAIN text |-> Len(text[i])]
           g == [i \in DOMAIN text' |-> Len(text'[i])]
<1>1. /\ n \in Nat \ {0} /\ DOMAIN text = 1 .. n
      /\ \A i \in 1 .. n : text[i] \in Seq(L) /\ Len(text[i]) \in Nat
  BY EmptySeq, LenProperties, ElementOfSeq
<1>2. \A i \in 1 .. n : f[i] = Len(text[i]) /\ f[i] \in Nat
  BY <1>1
<1>3. LineCount = Total(f, n) /\ LineCount' = Total(g, Len(text'))
  BY DEF LineCount
<1>5. ASSUME NEW l \in L, text' = LineAdded(text, l)
      PROVE  LineCount' = LineCount + 1
  <2>1. /\ DOMAIN text' = 1 .. n /\ Len(text') = n /\ text'[n] = Append(text[n], l)
        /\ \A i \in 1 .. n : i # n => text'[i] = text[i]
    BY <1>5, LineText
  <2>2. Len(text'[n]) = Len(text[n]) + 1
    <3> HIDE DEF n
    <3>2. n \in 1 .. n
      BY <1>1
    <3>1. text'[n] = Append(text[n], l) /\ text[n] \in Seq(L)
      BY <1>1, <2>1, <3>2
    <3> QED BY <3>1, AppendProperties
  <2>3. \A i \in 1 .. n : g[i] = Len(text'[i])
    BY <2>1
  <2> HIDE DEF g, f, n
  <2>8. n \in 1 .. n /\ \A i \in 1 .. n - 1 : i \in 1 .. n /\ i # n
    BY <1>1
  <2>4. g[n] = f[n] + 1 /\ g[n] \in Nat /\ \A i \in 1 .. n - 1 : g[i] = f[i] /\ g[i] \in Nat
    BY <1>1, <1>2, <2>1, <2>2, <2>3, <2>8
  <2>5. \A i \in 1 .. n : f[i] \in Nat /\ g[i] \in Nat
    <3>1. \A i \in 1 .. n : i = n \/ i \in 1 .. n - 1
      BY <1>1
    <3> QED BY <1>2, <2>4, <3>1
  <2>6. Total(f, n) \in Nat /\ Total(g, n) + f[n] = Total(f, n) + g[n] /\ Total(g, n) \in Nat
    BY <1>1, <2>4, <2>5, TotalLast
  <2>7. f[n] \in Nat
    BY <1>1, <1>2
  <2> QED BY <1>3, <2>1, <2>4, <2>6, <2>7
<1>6. ASSUME text' = Append(text, <<>>)
      PROVE  LineCount' = LineCount
  <2>1. /\ DOMAIN text' = 1 .. n + 1 /\ Len(text') = n + 1 /\ text'[n + 1] = <<>>
        /\ \A i \in 1 .. n : text'[i] = text[i]
    BY <1>1, <1>6, EmptySeq, AppendProperties
  <2>2. Len(text'[n + 1]) = 0
    BY <2>1, EmptySeq
  <2>3. \A i \in 1 .. n + 1 : g[i] = Len(text'[i])
    BY <2>1
  <2>4. g[n + 1] = 0 /\ \A i \in 1 .. n : g[i] = f[i] /\ g[i] \in Nat
    BY <1>1, <1>2, <2>1, <2>2, <2>3
  <2> HIDE DEF g, f, n
  <2>5. Total(g, n + 1) = Total(f, n)
    BY <1>1, <1>2, <2>4, TotalMore
  <2> QED BY <1>3, <2>1, <2>5
<1>7. LineCount \in Nat
  <2> HIDE DEF f, n
  <2> QED BY <1>1, <1>2, <1>3, TotalSame
<1> QED BY <1>5, <1>6, <1>7

\* Reading keeps what conf.c holds within its tables.
LEMMA HeldStep == ASSUME HeldInv, [RecordsNext]_recordsVars PROVE HeldInv'
<1>1. ReadersInv'
  BY ReadersStep DEF HeldInv
<1>2. corpus' = corpus
  BY DEF RecordsNext, ReadLine, NextFile, EndOfDirectory, recordsVars
<1>3. text \in Seq(Seq(corpus.lines)) /\ text # <<>> /\ IsReader(c) /\ Len(text) \in Nat
  BY LenProperties DEF HeldInv, ReadersInv
<1>4. corpus.most \in Nat /\ corpus.files \in Nat
  BY PluginConstants DEF HeldInv
<1>5. HeldOk(c') => HeldOk(c)'
  BY <1>2 DEF HeldOk, FieldSet, kvlen
<1>6. CASE ReadLine
  <2>1. PICK l \in corpus.lines :
           /\ text' = LineAdded(text, l) /\ c' = conf_read_line(c, l)
    BY <1>6 DEF LineAdded, ReadLine
  <2>2. LineCount \in Nat /\ LineCount' = LineCount + 1 /\ LineCount < corpus.most
    BY <1>3, <1>6, <2>1, CountGoes DEF ReadLine
  <2>3. Len(text') = Len(text)
    BY <1>3, <2>1, LineText
  <2>4. HeldOk(c')
    BY <1>3, <2>1, LineHeld DEF HeldInv
  <2> QED BY <1>1, <1>2, <1>4, <1>5, <2>2, <2>3, <2>4 DEF HeldInv
<1>7. CASE NextFile
  <2>1. text' = Append(text, <<>>) /\ c' = conf_read_end(c) /\ Len(text) < corpus.files
    BY <1>7 DEF NextFile
  <2>2. LineCount' = LineCount
    BY <1>3, <2>1, CountGoes
  <2>3. Len(text') = Len(text) + 1
    BY <1>3, <2>1, EmptySeq, AppendProperties
  <2>4. HeldOk(c')
    BY <1>3, <2>1, EndHeld DEF HeldInv
  <2> QED BY <1>1, <1>2, <1>3, <1>4, <1>5, <2>1, <2>2, <2>3, <2>4 DEF HeldInv
<1>8. CASE EndOfDirectory
  <2>1. text' = text /\ c' = conf_read_end(c)
    BY <1>8 DEF EndOfDirectory
  <2>2. HeldOk(c')
    BY <1>3, <2>1, EndHeld DEF HeldInv
  <2> QED BY <1>1, <1>2, <1>5, <2>1, <2>2 DEF HeldInv, LineCount
<1>9. CASE UNCHANGED recordsVars
  BY <1>1, <1>2, <1>5, <1>9 DEF HeldInv, recordsVars, LineCount
<1> QED BY <1>6, <1>7, <1>8, <1>9 DEF RecordsNext

\* It begins with nothing.
LEMMA HeldStart == RecordsInit => HeldInv
<1> SUFFICES ASSUME RecordsInit PROVE HeldInv
  OBVIOUS
<1>1. corpus \in Corpora /\ c = Fresh /\ text = << <<>> >>
  BY DEF RecordsInit
<1>2. Is(Fresh, Nil, <<>>, Nil, FALSE, FALSE, {}, <<>>)
  BY DEF Fresh, Is
<1>3. Fresh.id = Nil /\ Fresh.fields = <<>> /\ Fresh.seen = {}
  BY <1>2 DEF Is
<1>4. <<>> \in Seq(FieldSet) /\ kvlen(<<>>) <= RecBuf
  BY KvNone, EmptySeq, PluginConstants
<1>5. HeldOk(c)
  BY <1>1, <1>3, <1>4, FS_EmptySet, PluginConstants DEF HeldOk
<1>6. LineCount = 0
  <2> DEFINE f == [i \in DOMAIN text |-> Len(text[i])]
  <2>1. Len(text) = 1 /\ f[1] = 0 /\ \A i \in 1 .. 1 : f[i] \in Nat
    BY <1>1, EmptySeq
  <2>2. LineCount = Total(f, 1)
    BY <2>1 DEF LineCount
  <2> HIDE DEF f
  <2>3. Total(f, 0) = 0 /\ Total(f, 0 + 1) = Total(f, 0) + f[0 + 1]
    BY <2>1, TotalGoes
  <2> QED BY <2>1, <2>2, <2>3
<1>7. Len(text) = 1 /\ corpus.files \in Nat \ {0} /\ corpus.most \in Nat
  BY <1>1, PluginConstants
<1> QED BY <1>1, <1>5, <1>6, <1>7, ReadersStart DEF HeldInv

(* What conf.c holds of a directory fits its tables: the ids it admitted,  *)
(* and the fields of the record it is in.                                  *)
THEOREM RecordsFit == RecordsSpec => []RecordsTypeOK
<1>1. ASSUME HeldInv PROVE RecordsTypeOK
  <2>1. text \in Seq(Seq(corpus.lines)) /\ text # <<>>
    BY <1>1 DEF HeldInv, ReadersInv
  <2>2. Len(text) \in Nat \ {0}
    BY <2>1, EmptySeq
  <2>3. corpus.files \in Nat
    BY <1>1, PluginConstants DEF HeldInv
  <2> QED BY <1>1, <2>2, <2>3 DEF HeldInv, HeldOk, RecordsTypeOK
<1>2. HeldInv => RecordsTypeOK
  BY <1>1
<1>3. HeldInv /\ [RecordsNext]_recordsVars => HeldInv'
  BY HeldStep
<1> QED BY <1>2, <1>3, HeldStart, PTL DEF RecordsSpec
-----------------------------------------------------------------------------
(* What is told of the records.                                            *)

IsSeq(q) == \E S : q \in Seq(S)

One(b) == IF b THEN 1 ELSE 0

(* A line a file is given up at.                                           *)
BadAt(file, j) ==
    \/ file[j].kind = "long"
    \/ file[j].kind = "field" /\ \A h \in 1 .. j - 1 : file[h].kind # "header"

(* Headers with another one after them.                                    *)
Followed(file, h, e) == \E j \in h + 1 .. e : file[j].kind = "header"

Headers(file, e, id) == {h \in 1 .. e : file[h].kind = "header" /\ file[h].id = id}

ToldIn(told, id) == Cardinality({i \in DOMAIN told : told[i].id = id})

\* One more thing told.
LEMMA ToldMore ==
    ASSUME NEW q, IsSeq(q), NEW x, NEW id
    PROVE  /\ IsSeq(Append(q, x)) /\ ToldIn(q, id) \in Nat
           /\ ToldIn(Append(q, x), id) = ToldIn(q, id) + One(x.id = id)
<1>1. PICK S : q \in Seq(S)
  BY DEF IsSeq
<1>2. q \in Seq(S \cup {x})
  BY <1>1, SeqMonotonic
<1> DEFINE a == Append(q, x)
           n == Len(q)
           P == {i \in DOMAIN q : q[i].id = id}
           Q == {i \in DOMAIN a : a[i].id = id}
<1>3. a \in Seq(S \cup {x})
  BY <1>2, AppendProperties
<1>4. /\ n \in Nat /\ DOMAIN q = 1 .. n /\ DOMAIN a = 1 .. n + 1 /\ a[n + 1] = x
      /\ \A i \in 1 .. n : a[i] = q[i]
  BY <1>2, LenProperties, AppendProperties
<1> HIDE DEF a
<1>5. Q = IF x.id = id THEN P \cup {n + 1} ELSE P
  BY <1>4
<1>6. P \in SUBSET (1 .. n)
  BY <1>4
<1> HIDE DEF P, Q, n
<1>7. Cardinality(P) \in Nat /\ Cardinality(P \cup {n + 1}) = Cardinality(P) + 1
  BY <1>2, <1>6, IndexCount DEF n
<1>8. ToldIn(q, id) = Cardinality(P) /\ ToldIn(a, id) = Cardinality(Q)
  BY DEF ToldIn, P, Q
<1>9. IsSeq(a)
  BY <1>3 DEF IsSeq
<1> QED BY <1>5, <1>7, <1>8, <1>9 DEF One, a

\* What a file is to tell, when it is read to its end and when it is not.
LEMMA ToTellGives ==
    ASSUME NEW L, NEW file \in Seq(L), NEW id
    PROVE  /\ (\A j \in DOMAIN file : ~BadAt(file, j)) =>
                 ToTell(file, id) = Cardinality(Headers(file, Len(file), id))
           /\ \A g \in DOMAIN file : BadAt(file, g) /\ (\A j \in 1 .. g - 1 : ~BadAt(file, j)) =>
                 ToTell(file, id) = Cardinality({h \in Headers(file, g - 1, id) : Followed(file, h, g - 1)})
<1> DEFINE n == Len(file)
           bad == {j \in DOMAIN file : BadAt(file, j)}
           first == CHOOSE j \in bad : \A k \in bad : j <= k
<1>1. n \in Nat /\ DOMAIN file = 1 .. n
  BY LenProperties
<1>2. GivenUpAt(file) = IF bad = {} THEN n + 1 ELSE first
  BY DEF GivenUpAt, BadAt
<1>3. ASSUME \A j \in DOMAIN file : ~BadAt(file, j)
      PROVE  ToTell(file, id) = Cardinality(Headers(file, Len(file), id))
  <2>1. GivenUpAt(file) = n + 1
    BY <1>2, <1>3
  <2>2. /\ 1 .. GivenUpAt(file) - 1 = 1 .. n /\ ~(GivenUpAt(file) <= Len(file))
    BY <1>1, <2>1
  <2> QED BY <2>2 DEF ToTell, Headers
<1>4. ASSUME NEW g \in DOMAIN file, BadAt(file, g), \A j \in 1 .. g - 1 : ~BadAt(file, j)
      PROVE  ToTell(file, id) = Cardinality({h \in Headers(file, g - 1, id) : Followed(file, h, g - 1)})
  <2>1. g \in bad /\ \A k \in bad : g <= k
    BY <1>1, <1>4
  <2>2. \A j \in bad : (\A k \in bad : j <= k) => j = g
    BY <1>1, <2>1
  <2>3. GivenUpAt(file) = g
    BY <1>2, <2>1, <2>2
  <2>4. GivenUpAt(file) <= Len(file)
    BY <1>1, <2>3
  <2> DEFINE A == {h \in 1 .. GivenUpAt(file) - 1 :
                      /\ file[h].kind = "header" /\ file[h].id = id
                      /\ GivenUpAt(file) <= Len(file) =>
                            \E j \in h + 1 .. GivenUpAt(file) - 1 : file[j].kind = "header"}
  <2>5. ToTell(file, id) = Cardinality(A)
    BY DEF ToTell
  <2>6. A = {h \in Headers(file, g - 1, id) : Followed(file, h, g - 1)}
    BY <2>3, <2>4 DEF Headers, Followed
  <2> QED BY <2>5, <2>6
<1> QED BY <1>3, <1>4

\* The first line a file is given up at.
LEMMA FirstBad ==
    ASSUME NEW L, NEW file \in Seq(L), NEW k \in DOMAIN file, BadAt(file, k)
    PROVE  \E g \in DOMAIN file : BadAt(file, g) /\ \A j \in 1 .. g - 1 : ~BadAt(file, j)
<1> DEFINE bad == {j \in DOMAIN file : BadAt(file, j)}
<1>1. Len(file) \in Nat /\ DOMAIN file = 1 .. Len(file)
  BY LenProperties
<1>2. bad \in SUBSET Nat /\ bad # {}
  BY <1>1
<1> HIDE DEF bad
<1>3. PICK g \in bad : \A y \in bad : g <= y
  BY <1>2, Least
<1>4. g \in DOMAIN file /\ BadAt(file, g)
  BY <1>3 DEF bad
<1>5. ASSUME NEW j \in 1 .. g - 1 PROVE ~BadAt(file, j)
  <2>1. j \in DOMAIN file /\ ~(g <= j)
    BY <1>1, <1>4
  <2> QED BY <1>3, <2>1 DEF bad
<1> QED BY <1>4, <1>5

\* A line more leaves the lines before as they are.
LEMMA LineMore ==
    ASSUME NEW L, NEW file \in Seq(L), NEW l \in L
    PROVE  LET F == Append(file, l)
               n == Len(file)
           IN  /\ n \in Nat /\ F \in Seq(L) /\ Len(F) = n + 1 /\ DOMAIN file = 1 .. n /\ DOMAIN F = 1 .. n + 1
               /\ F[n + 1] = l /\ \A i \in 1 .. n : F[i] = file[i]
               /\ \A j \in 1 .. n : BadAt(F, j) <=> BadAt(file, j)
<1> DEFINE F == Append(file, l)
           n == Len(file)
<1>1. /\ n \in Nat /\ F \in Seq(L) /\ Len(F) = n + 1 /\ DOMAIN file = 1 .. n /\ DOMAIN F = 1 .. n + 1
      /\ F[n + 1] = l /\ \A i \in 1 .. n : F[i] = file[i]
  BY LenProperties, AppendProperties
<1> HIDE DEF F, n
<1>2. ASSUME NEW j \in 1 .. n PROVE BadAt(F, j) <=> BadAt(file, j)
  <2>1. F[j] = file[j] /\ \A h \in 1 .. j - 1 : F[h] = file[h]
    <3>1. \A h \in 1 .. j - 1 : h \in 1 .. n
      BY <1>1
    <3> QED BY <1>1, <3>1
  <2> QED BY <2>1 DEF BadAt
<1> QED BY <1>1, <1>2 DEF F, n

\* What a file has to tell, when it gets a line more.
LEMMA ToTellGoes ==
    ASSUME NEW L, NEW file \in Seq(L), NEW l \in L, NEW id
    PROVE  LET F == Append(file, l)
               n == Len(file)
           IN  /\ ToTell(file, id) \in Nat /\ ToTell(F, id) \in Nat
               /\ (\E k \in 1 .. n : BadAt(file, k)) => ToTell(F, id) = ToTell(file, id)
               /\ (\A k \in 1 .. n : ~BadAt(file, k)) /\ ~BadAt(F, n + 1) =>
                     ToTell(F, id) = ToTell(file, id) + One(l.kind = "header" /\ l.id = id)
               /\ (\A k \in 1 .. n : ~BadAt(file, k)) /\ BadAt(F, n + 1) =>
                     /\ (\A h \in 1 .. n : file[h].kind # "header") => ToTell(F, id) = ToTell(file, id)
                     /\ \A h \in 1 .. n : file[h].kind = "header" /\ ~Followed(file, h, n) =>
                           ToTell(F, id) + One(file[h].id = id) = ToTell(file, id)
<1> DEFINE F == Append(file, l)
           n == Len(file)
           H == Headers(file, n, id)
           K == {h \in Headers(F, n, id) : Followed(F, h, n)}
<1>1. /\ n \in Nat /\ F \in Seq(L) /\ Len(F) = n + 1 /\ DOMAIN file = 1 .. n /\ DOMAIN F = 1 .. n + 1
      /\ F[n + 1] = l /\ \A i \in 1 .. n : F[i] = file[i]
      /\ \A j \in 1 .. n : BadAt(F, j) <=> BadAt(file, j)
  BY LineMore
<1> HIDE DEF F
<1>2. \A e \in 0 .. n : Headers(F, e, id) = Headers(file, e, id)
  BY <1>1 DEF Headers
<1>3. \A e \in 0 .. n : \A h \in 1 .. e : Followed(F, h, e) <=> Followed(file, h, e)
  BY <1>1 DEF Followed
<1>4. ASSUME NEW P, P \in SUBSET (1 .. n) PROVE Cardinality(P) \in Nat /\ IsFiniteSet(P) /\ Cardinality(P \cup {n + 1}) = Cardinality(P) + 1
  BY <1>4, IndexCount
<1>5. H \in SUBSET (1 .. n) /\ K \in SUBSET (1 .. n)
  BY DEF Headers
<1>6. CASE \E k \in 1 .. n : BadAt(file, k)
  <2>1. PICK g \in 1 .. n : BadAt(file, g) /\ \A j \in 1 .. g - 1 : ~BadAt(file, j)
    BY <1>1, <1>6, FirstBad
  <2> DEFINE A == {h \in Headers(file, g - 1, id) : Followed(file, h, g - 1)}
             B == {h \in Headers(F, g - 1, id) : Followed(F, h, g - 1)}
  <2>2. ToTell(file, id) = Cardinality(A)
    BY <1>1, <2>1, ToTellGives
  <2>3. BadAt(F, g) /\ \A j \in 1 .. g - 1 : ~BadAt(F, j)
    <3>1. \A j \in 1 .. g - 1 : j \in 1 .. n
      BY <1>1
    <3> QED BY <1>1, <2>1, <3>1
  <2>4. ToTell(F, id) = Cardinality(B)
    BY <1>1, <2>3, ToTellGives
  <2>5. g - 1 \in 0 .. n
    BY <1>1
  <2>6. A = B /\ A \in SUBSET (1 .. n)
    BY <1>1, <1>2, <1>3, <2>5 DEF Headers
  <2> HIDE DEF A, B
  <2> QED BY <1>4, <1>6, <2>2, <2>4, <2>6 DEF F
<1>7. ASSUME \A k \in 1 .. n : ~BadAt(file, k)
      PROVE  ToTell(file, id) = Cardinality(H)
  BY <1>1, <1>7, ToTellGives
<1>8. CASE (\A k \in 1 .. n : ~BadAt(file, k)) /\ ~BadAt(F, n + 1)
  <2>1. \A j \in DOMAIN F : ~BadAt(F, j)
    <3>1. \A j \in 1 .. n + 1 : j = n + 1 \/ j \in 1 .. n
      BY <1>1
    <3> QED BY <1>1, <1>8, <3>1
  <2>2. ToTell(F, id) = Cardinality(Headers(F, n + 1, id))
    BY <1>1, <2>1, ToTellGives
  <2>3. Headers(F, n + 1, id) = IF l.kind = "header" /\ l.id = id THEN H \cup {n + 1} ELSE H
    <3>1. \A j \in 1 .. n + 1 : j = n + 1 \/ j \in 1 .. n
      BY <1>1
    <3>2. n + 1 \in 1 .. n + 1 /\ \A j \in 1 .. n : j \in 1 .. n + 1
      BY <1>1
    <3> QED BY <1>1, <3>1, <3>2 DEF Headers
  <2> HIDE DEF H
  <2>5. ToTell(file, id) = Cardinality(H) /\ Cardinality(H) \in Nat /\ Cardinality(H \cup {n + 1}) = Cardinality(H) + 1
    BY <1>4, <1>5, <1>7, <1>8
  <2>6. CASE l.kind = "header" /\ l.id = id
    <3>1. ToTell(F, id) = Cardinality(H \cup {n + 1})
      BY <2>2, <2>3, <2>6
    <3> QED BY <1>8, <2>5, <2>6, <3>1 DEF One, F
  <2>7. CASE ~(l.kind = "header" /\ l.id = id)
    <3>1. ToTell(F, id) = Cardinality(H)
      BY <2>2, <2>3, <2>7
    <3> QED BY <1>8, <2>5, <2>7, <3>1 DEF One, F
  <2> QED BY <2>6, <2>7
<1>9. CASE (\A k \in 1 .. n : ~BadAt(file, k)) /\ BadAt(F, n + 1)
  <2>1. ToTell(F, id) = Cardinality(K)
    <3>1. n + 1 \in DOMAIN F /\ (n + 1) - 1 = n /\ \A j \in 1 .. n : ~BadAt(F, j)
      BY <1>1, <1>9
    <3> QED BY <1>1, <1>9, <3>1, ToTellGives
  <2>2. K = {h \in H : Followed(file, h, n)}
    <3>1. n \in 0 .. n
      BY <1>1
    <3> QED BY <1>2, <1>3, <3>1 DEF Headers
  <2>3. ASSUME \A h \in 1 .. n : file[h].kind # "header" PROVE K = H
    BY <2>2, <2>3 DEF Headers
  <2>4. ASSUME NEW h \in 1 .. n, file[h].kind = "header", ~Followed(file, h, n)
        PROVE  Cardinality(K) + One(file[h].id = id) = Cardinality(H)
    <3>1. \A k \in H : k # h => Followed(file, k, n)
      <4> SUFFICES ASSUME NEW k \in H, k # h PROVE Followed(file, k, n)
        OBVIOUS
      <4>1. k \in 1 .. n /\ file[k].kind = "header"
        BY DEF Headers
      <4>2. ~(h < k)
        BY <1>1, <2>4, <4>1 DEF Followed
      <4>3. h \in k + 1 .. n
        BY <1>1, <4>1, <4>2
      <4> QED BY <2>4, <4>3 DEF Followed
    <3>2. CASE file[h].id = id
      <4>1. h \in H /\ H = K \cup {h} /\ h \notin K
        BY <2>2, <2>4, <3>1, <3>2 DEF Headers
      <4> HIDE DEF H, K
      <4>3. IsFiniteSet(K)
        BY <1>4, <1>5
      <4>2. Cardinality(K \cup {h}) = Cardinality(K) + 1
        BY <4>1, <4>3, FS_AddElement
      <4> QED BY <3>2, <4>1, <4>2 DEF One
    <3>3. CASE file[h].id # id
      <4>1. h \notin H /\ K = H
        BY <2>2, <3>1, <3>3 DEF Headers
      <4> HIDE DEF H, K
      <4>2. Cardinality(H) \in Nat
        BY <1>4, <1>5
      <4> QED BY <3>3, <4>1, <4>2 DEF One
    <3> QED BY <3>2, <3>3
  <2>5. ToTell(file, id) = Cardinality(H)
    BY <1>7, <1>9
  <2> HIDE DEF H, K
  <2>6. ToTell(file, id) \in Nat /\ ToTell(F, id) \in Nat
    BY <1>4, <1>5, <2>1, <2>5
  <2> QED BY <1>9, <2>1, <2>3, <2>4, <2>5, <2>6 DEF F
<1> QED BY <1>6, <1>8, <1>9 DEF F

\* A file without lines has nothing to tell, and others some number.
LEMMA ToTellSize ==
    ASSUME NEW L, NEW file \in Seq(L), NEW id
    PROVE  ToTell(file, id) \in Nat /\ ToTell(<<>>, id) = 0
<1> DEFINE n == Len(file)
<1>1. n \in Nat /\ DOMAIN file = 1 .. n
  BY LenProperties
<1>2. ASSUME NEW P, P \in SUBSET (1 .. n) PROVE Cardinality(P) \in Nat
  BY <1>2, IndexCount
<1>3. ToTell(file, id) \in Nat
  <2>1. CASE \A j \in DOMAIN file : ~BadAt(file, j)
    <3>1. Headers(file, n, id) \in SUBSET (1 .. n)
      BY DEF Headers
    <3> QED BY <1>2, <2>1, <3>1, ToTellGives
  <2>2. CASE \E k \in DOMAIN file : BadAt(file, k)
    <3>1. PICK g \in DOMAIN file : BadAt(file, g) /\ \A j \in 1 .. g - 1 : ~BadAt(file, j)
      BY <2>2, FirstBad
    <3> DEFINE A == {h \in Headers(file, g - 1, id) : Followed(file, h, g - 1)}
    <3>2. ToTell(file, id) = Cardinality(A)
      BY <3>1, ToTellGives
    <3>3. A \in SUBSET (1 .. n)
      BY <1>1 DEF Headers
    <3> HIDE DEF A
    <3> QED BY <1>2, <3>2, <3>3
  <2> QED BY <2>1, <2>2
<1>4. ToTell(<<>>, id) = 0
  <2>1. <<>> \in Seq(L) /\ Len(<<>>) = 0 /\ DOMAIN <<>> = {}
    BY EmptySeq
  <2>2. ToTell(<<>>, id) = Cardinality(Headers(<<>>, 0, id))
    BY <2>1, ToTellGives
  <2>3. Headers(<<>>, 0, id) = {}
    BY DEF Headers
  <2> QED BY <2>2, <2>3, FS_EmptySet
<1> QED BY <1>3, <1>4

(* What is told of an id, with the record that is being read.              *)
Balance(r, id) == ToldIn(r.told, id) + One(r.id = id)

\* A record that ends is told.
LEMMA EmitBalance ==
    ASSUME NEW r, IsReader(r), IsSeq(r.told), NEW id, id # Nil
    PROVE  /\ IsSeq(conf_emit(r).told)
           /\ ToldIn(conf_emit(r).told, id) = Balance(r, id)
           /\ Balance(r, id) \in Nat
<1>1. ToldIn(r.told, id) \in Nat
  BY ToldMore
<1>2. CASE r.id = Nil
  <2>1. conf_emit(r).told = r.told
    BY <1>2, EmitGives
  <2> QED BY <1>1, <1>2, <2>1 DEF Balance, One
<1>3. CASE r.id # Nil
  <2> DEFINE x == [id |-> r.id, fields |-> r.fields, code |-> Verdict(r)]
             q == Append(r.told, x)
  <2>1. conf_emit(r).told = q
    BY <1>3 DEF conf_emit, IsReader, Is
  <2>2. x.id = r.id
    OBVIOUS
  <2> HIDE DEF x
  <2>3. IsSeq(q) /\ ToldIn(q, id) = ToldIn(r.told, id) + One(x.id = id)
    BY ToldMore
  <2>4. One(x.id = id) = One(r.id = id) /\ One(r.id = id) \in Nat
    BY <2>2 DEF One
  <2> QED BY <1>1, <2>1, <2>3, <2>4 DEF Balance
<1> QED BY <1>2, <1>3

\* The refusal of a file is not one of a record.
LEMMA RefusalTold ==
    ASSUME NEW q, IsSeq(q), NEW code, NEW id \in Ids \cup {BadId}
    PROVE  /\ IsSeq(Append(q, Refusal("file", code)))
           /\ ToldIn(Append(q, Refusal("file", code)), id) = ToldIn(q, id)
<1> DEFINE x == Refusal("file", code)
<1>1. x.id # id
  BY PluginConstants DEF Refusal
<1> HIDE DEF x
<1>2. /\ IsSeq(Append(q, x)) /\ ToldIn(q, id) \in Nat
      /\ ToldIn(Append(q, x), id) = ToldIn(q, id) + One(x.id = id)
  BY ToldMore
<1> QED BY <1>1, <1>2 DEF One, x

\* The end of a file tells its last record.
LEMMA EndBalance ==
    ASSUME NEW r, IsReader(r), IsSeq(r.told), r.dropped => r.id = Nil, NEW id, id # Nil
    PROVE  /\ IsSeq(conf_read_end(r).told) /\ Balance(conf_read_end(r), id) = Balance(r, id)
           /\ conf_read_end(r).id = Nil /\ ~conf_read_end(r).dropped /\ ~conf_read_end(r).header
<1> DEFINE e == conf_read_end(r)
           y == IF r.dropped THEN r.seen ELSE conf_emit(r).seen
           x == IF r.dropped THEN r.told ELSE conf_emit(r).told
<1>1. Is(e, Nil, <<>>, Nil, FALSE, FALSE, y, x)
  BY EndGives
<1>2. IsSeq(x) /\ ToldIn(x, id) = Balance(r, id) /\ Balance(r, id) \in Nat
  BY EmitBalance, EmitGives
<1> HIDE DEF e, y, x
<1>3. e.id = Nil /\ e.told = x /\ e.dropped = FALSE /\ e.header = FALSE
  BY <1>1 DEF Is
<1>4. Balance(e, id) = ToldIn(x, id)
  BY <1>2, <1>3 DEF Balance, One
<1> QED BY <1>2, <1>3, <1>4 DEF e

\* A header begins a record that is to be told.
LEMMA HeaderBalance ==
    ASSUME NEW r, IsReader(r), IsSeq(r.told), NEW id \in Ids \cup {BadId}, NEW l
    PROVE  /\ IsSeq(CHeader(r, l).told)
           /\ Balance(CHeader(r, l), id) = Balance(r, id) + One(l.id = id)
           /\ CHeader(r, l).id = l.id
<1> DEFINE m == conf_emit(r)
           x == m.told
           e == [m EXCEPT !.code = Nil, !.header = TRUE]
           f == Refusal("file", "bad-id")
           b == IF conf_id_ok(l.id) THEN Nil ELSE "bad-id"
<1>1. id # Nil
  BY PluginConstants
<1>2. IsSeq(x) /\ ToldIn(x, id) = Balance(r, id) /\ Balance(r, id) \in Nat
  BY <1>1, EmitBalance
<1>3. Is(m, Nil, <<>>, r.code, r.header, r.dropped, m.seen, x)
  BY EmitGives
<1>4. /\ l.id = Nil => CHeader(r, l) = Tell(e, f)
      /\ l.id # Nil => CHeader(r, l) = [e EXCEPT !.id = l.id, !.code = b]
  BY DEF CHeader
<1>5. IsSeq(Append(x, f)) /\ ToldIn(Append(x, f), id) = ToldIn(x, id)
  BY <1>2, RefusalTold
<1> HIDE DEF m, x, f, b
<1>6. Is(e, Nil, <<>>, Nil, TRUE, r.dropped, m.seen, x)
  BY <1>3 DEF Is
<1> HIDE DEF e
<1>7. CASE l.id = Nil
  <2>1. Is(CHeader(r, l), Nil, <<>>, Nil, TRUE, r.dropped, m.seen, Append(x, f))
    BY <1>4, <1>6, <1>7 DEF Tell, Is
  <2>2. CHeader(r, l).id = Nil /\ CHeader(r, l).told = Append(x, f)
    BY <2>1 DEF Is
  <2>3. Balance(CHeader(r, l), id) = ToldIn(x, id) /\ One(l.id = id) = 0
    BY <1>1, <1>2, <1>5, <1>7, <2>2 DEF Balance, One
  <2> QED BY <1>2, <1>5, <1>7, <2>2, <2>3
<1>8. CASE l.id # Nil
  <2>1. Is(CHeader(r, l), l.id, <<>>, b, TRUE, r.dropped, m.seen, x)
    BY <1>4, <1>6, <1>8 DEF Tell, Is
  <2>2. CHeader(r, l).id = l.id /\ CHeader(r, l).told = x
    BY <2>1 DEF Is
  <2> QED BY <1>2, <2>2 DEF Balance
<1> QED BY <1>7, <1>8

\* A field tells of no record.
LEMMA FieldBalance ==
    ASSUME NEW r, IsReader(r), IsSeq(r.told), ~r.dropped, NEW id \in Ids \cup {BadId}, NEW l
    PROVE  /\ IsSeq(CField(r, l).told) /\ Balance(CField(r, l), id) = Balance(r, id)
           /\ CField(r, l).id = r.id /\ CField(r, l).header = r.header
           /\ CField(r, l).dropped <=> ~r.header
<1>1. CASE ~r.header
  <2> DEFINE f == Refusal("file", "no-header")
             a == [r EXCEPT !.dropped = TRUE]
  <2>1. CField(r, l) = Tell(a, f)
    BY <1>1 DEF CField
  <2>2. Is(a, r.id, r.fields, r.code, r.header, TRUE, r.seen, r.told)
    BY DEF IsReader, Is
  <2>5. IsSeq(Append(r.told, f)) /\ ToldIn(Append(r.told, f), id) = ToldIn(r.told, id)
    BY RefusalTold
  <2> HIDE DEF a, f
  <2>3. Is(Tell(a, f), r.id, r.fields, r.code, r.header, TRUE, r.seen, Append(r.told, f))
    BY <2>2 DEF Tell, Is
  <2>4. /\ Tell(a, f).id = r.id /\ Tell(a, f).told = Append(r.told, f)
        /\ Tell(a, f).header = r.header /\ Tell(a, f).dropped = TRUE
    BY <2>3 DEF Is
  <2> QED BY <1>1, <2>1, <2>4, <2>5 DEF Balance
<1>2. CASE r.header /\ r.code # Nil
  BY <1>2 DEF CField
<1>3. CASE r.header /\ r.code = Nil /\ field_code(r.fields, l) # Nil
  <2> DEFINE o == field_code(r.fields, l)
             a == [r EXCEPT !.code = o]
  <2>1. CField(r, l) = a
    BY <1>3 DEF CField
  <2> HIDE DEF o
  <2>2. a.id = r.id /\ a.told = r.told /\ a.header = r.header /\ a.dropped = r.dropped
    BY DEF IsReader, Is
  <2> HIDE DEF a
  <2> QED BY <1>3, <2>1, <2>2 DEF Balance
<1>4. CASE r.header /\ r.code = Nil /\ field_code(r.fields, l) = Nil
  <2> DEFINE q == Append(r.fields, [name |-> l.name, value |-> l.value])
             a == [r EXCEPT !.fields = q]
  <2>1. CField(r, l) = a
    BY <1>4 DEF CField
  <2> HIDE DEF q
  <2>2. a.id = r.id /\ a.told = r.told /\ a.header = r.header /\ a.dropped = r.dropped
    BY DEF IsReader, Is
  <2> HIDE DEF a
  <2> QED BY <1>4, <2>1, <2>2 DEF Balance
<1> QED BY <1>1, <1>2, <1>3, <1>4

\* A line that is too long loses the record.
LEMMA LongBalance ==
    ASSUME NEW r, IsReader(r), IsSeq(r.told), ~r.dropped, NEW id \in Ids \cup {BadId},
           NEW l, l.kind = "long"
    PROVE  LET e == conf_read_line(r, l)
           IN  /\ IsSeq(e.told) /\ Balance(e, id) + One(r.id = id) = Balance(r, id)
               /\ e.id = Nil /\ e.dropped
<1> DEFINE f == Refusal("file", "line-too-long")
           a == [r EXCEPT !.id = Nil, !.dropped = TRUE]
<1>1. conf_read_line(r, l) = Tell(a, f)
  BY DEF conf_read_line
<1>2. Is(a, Nil, r.fields, r.code, r.header, TRUE, r.seen, r.told)
  BY DEF IsReader, Is
<1>3. IsSeq(Append(r.told, f)) /\ ToldIn(Append(r.told, f), id) = ToldIn(r.told, id)
  BY RefusalTold
<1>4. ToldIn(r.told, id) \in Nat /\ id # Nil
  BY ToldMore, PluginConstants
<1> HIDE DEF a, f
<1>5. Is(Tell(a, f), Nil, r.fields, r.code, r.header, TRUE, r.seen, Append(r.told, f))
  BY <1>2 DEF Tell, Is
<1>6. Tell(a, f).id = Nil /\ Tell(a, f).told = Append(r.told, f) /\ Tell(a, f).dropped = TRUE
  BY <1>5 DEF Is
<1>7. Balance(Tell(a, f), id) = ToldIn(r.told, id)
  BY <1>3, <1>4, <1>6 DEF Balance, One
<1> QED BY <1>1, <1>3, <1>4, <1>6, <1>7 DEF Balance, One

(* What a reader knows of the file it reads.                               *)
FileOk(r, file) ==
    IF r.dropped THEN r.id = Nil /\ \E k \in 1 .. Len(file) : BadAt(file, k)
    ELSE /\ \A k \in 1 .. Len(file) : ~BadAt(file, k)
         /\ IF r.header
            THEN \E h \in 1 .. Len(file) :
                    file[h].kind = "header" /\ ~Followed(file, h, Len(file)) /\ file[h].id = r.id
            ELSE r.id = Nil /\ \A h \in 1 .. Len(file) : file[h].kind # "header"

\* What is told of an id is some number.
LEMMA BalanceSize ==
    ASSUME NEW r, IsSeq(r.told), NEW id
    PROVE  Balance(r, id) \in Nat
<1>1. ToldIn(r.told, id) \in Nat
  BY ToldMore
<1> QED BY <1>1 DEF Balance, One

\* A header or a field where a record may stand does not give a file up.
LEMMA BadMore ==
    ASSUME NEW L, NEW file \in Seq(L), NEW l \in L
    PROVE  LET F == Append(file, l)
               n == Len(file)
           IN  /\ l.kind = "long" => BadAt(F, n + 1)
               /\ l.kind \notin {"long", "field"} => ~BadAt(F, n + 1)
               /\ l.kind = "field" => (BadAt(F, n + 1) <=> \A h \in 1 .. n : file[h].kind # "header")
               /\ l.kind = "header" => ~Followed(F, n + 1, n + 1)
               /\ l.kind # "header" => \A h \in 1 .. n : Followed(F, h, n + 1) <=> Followed(file, h, n)
<1> DEFINE F == Append(file, l)
           n == Len(file)
<1>1. /\ n \in Nat /\ F \in Seq(L) /\ Len(F) = n + 1 /\ DOMAIN file = 1 .. n /\ DOMAIN F = 1 .. n + 1
      /\ F[n + 1] = l /\ \A i \in 1 .. n : F[i] = file[i]
  BY LineMore
<1> HIDE DEF F, n
<1>3. ASSUME l.kind # "header", NEW h \in 1 .. n
      PROVE  Followed(F, h, n + 1) <=> Followed(file, h, n)
  <2>1. \A j \in h + 1 .. n + 1 : j = n + 1 \/ j \in h + 1 .. n
    BY <1>1
  <2>2. \A j \in h + 1 .. n : j \in h + 1 .. n + 1 /\ j \in 1 .. n
    BY <1>1
  <2> QED BY <1>1, <1>3, <2>1, <2>2 DEF Followed
<1>4. BadAt(F, n + 1) <=> (l.kind = "long" \/ (l.kind = "field" /\ \A h \in 1 .. n : file[h].kind # "header"))
  <2>1. /\ \A h \in 1 .. (n + 1) - 1 : h \in 1 .. n /\ F[h] = file[h]
        /\ \A h \in 1 .. n : h \in 1 .. (n + 1) - 1 /\ F[h] = file[h]
    BY <1>1
  <2>2. BadAt(F, n + 1) <=>
           (F[n + 1].kind = "long" \/ (F[n + 1].kind = "field" /\ \A h \in 1 .. (n + 1) - 1 : F[h].kind # "header"))
    BY DEF BadAt
  <2>3. (\A h \in 1 .. (n + 1) - 1 : F[h].kind # "header") <=> \A h \in 1 .. n : file[h].kind # "header"
    BY <2>1
  <2> QED BY <1>1, <2>2, <2>3
<1>5. ~Followed(F, n + 1, n + 1)
  <2>1. \A j \in (n + 1) + 1 .. n + 1 : FALSE
    BY <1>1
  <2> QED BY <2>1 DEF Followed
<1>6. /\ l.kind = "long" => BadAt(F, n + 1)
      /\ l.kind \notin {"long", "field"} => ~BadAt(F, n + 1)
      /\ l.kind = "field" => (BadAt(F, n + 1) <=> \A h \in 1 .. n : file[h].kind # "header")
  BY <1>4
<1> QED BY <1>3, <1>5, <1>6 DEF F, n

\* What a reader has told goes with what the file has to tell.
LEMMA LineTells ==
    ASSUME NEW L, NEW file \in Seq(L), NEW l \in L, NEW id \in Ids \cup {BadId},
           NEW r, IsReader(r), IsSeq(r.told), FileOk(r, file)
    PROVE  LET e == conf_read_line(r, l)
               F == Append(file, l)
           IN  /\ IsSeq(e.told) /\ FileOk(e, F)
               /\ Balance(e, id) + ToTell(file, id) = Balance(r, id) + ToTell(F, id)
<1> DEFINE F == Append(file, l)
           n == Len(file)
           e == conf_read_line(r, l)
<1>1. /\ n \in Nat /\ F \in Seq(L) /\ Len(F) = n + 1 /\ F[n + 1] = l /\ \A i \in 1 .. n : F[i] = file[i]
      /\ \A j \in 1 .. n : BadAt(F, j) <=> BadAt(file, j)
  BY LineMore
<1>2. /\ l.kind = "long" => BadAt(F, n + 1)
      /\ l.kind \notin {"long", "field"} => ~BadAt(F, n + 1)
      /\ l.kind = "field" => (BadAt(F, n + 1) <=> \A h \in 1 .. n : file[h].kind # "header")
      /\ l.kind = "header" => ~Followed(F, n + 1, n + 1)
      /\ l.kind # "header" => \A h \in 1 .. n : Followed(F, h, n + 1) <=> Followed(file, h, n)
  BY BadMore
<1>3. /\ ToTell(file, id) \in Nat /\ ToTell(F, id) \in Nat
      /\ (\E k \in 1 .. n : BadAt(file, k)) => ToTell(F, id) = ToTell(file, id)
      /\ (\A k \in 1 .. n : ~BadAt(file, k)) /\ ~BadAt(F, n + 1) =>
            ToTell(F, id) = ToTell(file, id) + One(l.kind = "header" /\ l.id = id)
      /\ (\A k \in 1 .. n : ~BadAt(file, k)) /\ BadAt(F, n + 1) =>
            /\ (\A h \in 1 .. n : file[h].kind # "header") => ToTell(F, id) = ToTell(file, id)
            /\ \A h \in 1 .. n : file[h].kind = "header" /\ ~Followed(file, h, n) =>
                  ToTell(F, id) + One(file[h].id = id) = ToTell(file, id)
  BY ToTellGoes
<1>4. Balance(r, id) \in Nat /\ id # Nil
  BY BalanceSize, PluginConstants
<1>5. /\ \A k \in 1 .. n + 1 : k = n + 1 \/ k \in 1 .. n
      /\ n + 1 \in 1 .. n + 1 /\ \A k \in 1 .. n : k \in 1 .. n + 1
  BY <1>1
<1>6. FileOk(r, file) = IF r.dropped THEN r.id = Nil /\ \E k \in 1 .. n : BadAt(file, k)
                        ELSE /\ \A k \in 1 .. n : ~BadAt(file, k)
                             /\ IF r.header
                                THEN \E h \in 1 .. n : file[h].kind = "header" /\ ~Followed(file, h, n) /\ file[h].id = r.id
                                ELSE r.id = Nil /\ \A h \in 1 .. n : file[h].kind # "header"
  BY DEF FileOk
<1>7. FileOk(e, F) = IF e.dropped THEN e.id = Nil /\ \E k \in 1 .. n + 1 : BadAt(F, k)
                     ELSE /\ \A k \in 1 .. n + 1 : ~BadAt(F, k)
                          /\ IF e.header
                             THEN \E h \in 1 .. n + 1 : F[h].kind = "header" /\ ~Followed(F, h, n + 1) /\ F[h].id = e.id
                             ELSE e.id = Nil /\ \A h \in 1 .. n + 1 : F[h].kind # "header"
  BY <1>1 DEF FileOk
<1> HIDE DEF F, n, e
<1> SUFFICES /\ IsSeq(e.told) /\ FileOk(e, F)
             /\ Balance(e, id) + ToTell(file, id) = Balance(r, id) + ToTell(F, id)
  BY DEF F, e
<1>10. CASE r.dropped
  <2>1. e = r
    BY <1>10 DEF conf_read_line, e
  <2>2. FileOk(e, F)
    BY <1>1, <1>5, <1>6, <1>7, <1>10, <2>1
  <2>3. ToTell(F, id) = ToTell(file, id)
    BY <1>3, <1>6, <1>10
  <2> QED BY <1>3, <1>4, <2>1, <2>2, <2>3
<1>11. CASE ~r.dropped /\ l.kind = "long"
  <2>1. IsSeq(e.told) /\ Balance(e, id) + One(r.id = id) = Balance(r, id) /\ e.id = Nil /\ e.dropped
    BY <1>11, LongBalance DEF e
  <2>2. FileOk(e, F)
    BY <1>2, <1>5, <1>7, <1>11, <2>1
  <2>3. Balance(e, id) \in Nat
    BY <2>1, BalanceSize
  <2>4. ToTell(F, id) + One(r.id = id) = ToTell(file, id)
    <3>1. CASE r.header
      <4>1. PICK h \in 1 .. n : file[h].kind = "header" /\ ~Followed(file, h, n) /\ file[h].id = r.id
        BY <1>6, <1>11, <3>1
      <4>2. ToTell(F, id) + One(file[h].id = id) = ToTell(file, id)
        BY <1>2, <1>3, <1>6, <1>11, <4>1
      <4> QED BY <4>1, <4>2
    <3>2. CASE ~r.header
      <4>1. ToTell(F, id) = ToTell(file, id) /\ r.id = Nil
        BY <1>2, <1>3, <1>6, <1>11, <3>2
      <4> QED BY <1>3, <1>4, <4>1 DEF One
    <3> QED BY <3>1, <3>2
  <2>5. One(r.id = id) \in Nat
    BY DEF One
  <2> QED BY <1>3, <1>4, <2>1, <2>2, <2>3, <2>4, <2>5
<1>12. CASE ~r.dropped /\ l.kind = "header"
  <2>1. e = CHeader(r, l)
    BY <1>12 DEF conf_read_line, e
  <2>2. IsSeq(e.told) /\ Balance(e, id) = Balance(r, id) + One(l.id = id) /\ e.id = l.id
    <3>1. /\ IsSeq(CHeader(r, l).told)
          /\ Balance(CHeader(r, l), id) = Balance(r, id) + One(l.id = id)
          /\ CHeader(r, l).id = l.id
      BY HeaderBalance
    <3> QED BY <2>1, <3>1
  <2>3. ~e.dropped /\ e.header
    BY <1>12, <2>1, HeaderAlike
  <2>4. FileOk(e, F)
    BY <1>1, <1>2, <1>5, <1>6, <1>7, <1>12, <2>2, <2>3
  <2>5. ToTell(F, id) = ToTell(file, id) + One(l.kind = "header" /\ l.id = id)
    BY <1>2, <1>3, <1>6, <1>12
  <2>6. One(l.kind = "header" /\ l.id = id) = One(l.id = id) /\ One(l.id = id) \in Nat
    BY <1>12 DEF One
  <2> QED BY <1>3, <1>4, <2>2, <2>4, <2>5, <2>6
<1>13. CASE ~r.dropped /\ l.kind \notin {"long", "header"}
  <2>1. One(l.kind = "header" /\ l.id = id) = 0
    BY <1>13 DEF One
  <2>2. /\ IsSeq(e.told) /\ Balance(e, id) = Balance(r, id) /\ e.id = r.id /\ e.header = r.header
        /\ e.dropped <=> l.kind = "field" /\ ~r.header
    <3>1. CASE l.kind = "field"
      <4>1. e = CField(r, l)
        BY <1>13, <3>1 DEF conf_read_line, e
      <4> QED BY <1>13, <3>1, <4>1, FieldBalance
    <3>2. CASE l.kind # "field"
      BY <1>13, <3>2 DEF conf_read_line, e
    <3> QED BY <3>1, <3>2
  <2>3. CASE l.kind = "field" /\ ~r.header
    <3>1. ToTell(F, id) = ToTell(file, id) /\ BadAt(F, n + 1) /\ r.id = Nil
      BY <1>2, <1>3, <1>6, <1>13, <2>3
    <3>2. FileOk(e, F)
      BY <1>5, <1>7, <2>2, <2>3, <3>1
    <3> QED BY <1>3, <1>4, <2>2, <3>1, <3>2
  <2>4. CASE ~(l.kind = "field" /\ ~r.header)
    <3>1. ~BadAt(F, n + 1)
      BY <1>2, <1>6, <1>13, <2>4
    <3>2. ToTell(F, id) = ToTell(file, id)
      BY <1>3, <1>6, <1>13, <2>1, <3>1
    <3>3. \A k \in 1 .. n + 1 : ~BadAt(F, k)
      BY <1>1, <1>5, <1>6, <1>13, <3>1
    <3>4. CASE r.header
      <4>1. PICK h \in 1 .. n : file[h].kind = "header" /\ ~Followed(file, h, n) /\ file[h].id = r.id
        BY <1>6, <1>13, <3>4
      <4>2. h \in 1 .. n + 1 /\ F[h].kind = "header" /\ ~Followed(F, h, n + 1) /\ F[h].id = e.id
        BY <1>1, <1>2, <1>5, <1>13, <2>2, <4>1
      <4>3. FileOk(e, F)
        BY <1>7, <2>2, <2>4, <3>3, <3>4, <4>2
      <4> QED BY <1>3, <1>4, <2>2, <3>2, <4>3
    <3>5. CASE ~r.header
      <4>1. r.id = Nil /\ \A h \in 1 .. n + 1 : F[h].kind # "header"
        BY <1>1, <1>5, <1>6, <1>13, <3>5
      <4>2. FileOk(e, F)
        BY <1>7, <2>2, <2>4, <3>3, <3>5, <4>1
      <4> QED BY <1>3, <1>4, <2>2, <3>2, <4>2
    <3> QED BY <3>4, <3>5
  <2> QED BY <2>3, <2>4
<1> QED BY <1>10, <1>11, <1>12, <1>13

(* What the files are to tell of an id, so far.                            *)
Wanted(id) == Total([n \in DOMAIN text |-> ToTell(text[n], id)], Len(text))

TellInv ==
    /\ ReadersInv /\ IsSeq(c.told)
    /\ ~done => FileOk(c, Last)
    /\ \A id \in Ids \cup {BadId} : Wanted(id) = Balance(c, id)

\* What is wanted goes with the last file, and a new one adds nothing.
LEMMA WantedGoes ==
    ASSUME NEW L, text \in Seq(Seq(L)), text # <<>>, NEW id
    PROVE  /\ Wanted(id) \in Nat
           /\ \A l \in L : text' = LineAdded(text, l) =>
                 /\ Wanted(id)' \in Nat
                 /\ Wanted(id)' + ToTell(Last, id) = Wanted(id) + ToTell(Append(Last, l), id)
           /\ text' = Append(text, <<>>) => Wanted(id)' = Wanted(id)
<1> DEFINE n == Len(text)
           f == [i \in DOMAIN text |-> ToTell(text[i], id)]
           g == [i \in DOMAIN text' |-> ToTell(text'[i], id)]
<1>1. /\ n \in Nat \ {0} /\ DOMAIN text = 1 .. n
      /\ \A i \in 1 .. n : text[i] \in Seq(L)
  BY EmptySeq, LenProperties, ElementOfSeq
<1>2. \A i \in 1 .. n : f[i] = ToTell(text[i], id) /\ f[i] \in Nat
  BY <1>1, ToTellSize
<1>3. Wanted(id) = Total(f, n) /\ Wanted(id)' = Total(g, Len(text'))
  BY DEF Wanted, ToTell, GivenUpAt
<1>4. Wanted(id) \in Nat
  <2> HIDE DEF f, n
  <2> QED BY <1>1, <1>2, <1>3, TotalSame
<1>5. ASSUME NEW l \in L, text' = LineAdded(text, l)
      PROVE  /\ Wanted(id)' \in Nat
             /\ Wanted(id)' + ToTell(Last, id) = Wanted(id) + ToTell(Append(Last, l), id)
  <2>1. /\ DOMAIN text' = 1 .. n /\ Len(text') = n /\ text'[n] = Append(text[n], l)
        /\ \A i \in 1 .. n : i # n => text'[i] = text[i]
    BY <1>5, LineText
  <2>2. text'[n] \in Seq(L)
    <3> HIDE DEF n
    <3>2. n \in 1 .. n
      BY <1>1
    <3>1. text'[n] = Append(text[n], l) /\ text[n] \in Seq(L)
      BY <1>1, <2>1, <3>2
    <3> QED BY <3>1, AppendProperties
  <2>3. \A i \in 1 .. n : g[i] = ToTell(text'[i], id)
    BY <2>1
  <2>4. \A i \in 1 .. n - 1 : i \in 1 .. n /\ g[i] = f[i] /\ g[i] \in Nat
    <3> HIDE DEF g, f, n
    <3>1. \A i \in 1 .. n - 1 : i \in 1 .. n /\ i # n
      BY <1>1
    <3> QED BY <1>2, <2>1, <2>3, <3>1
  <2>5. f[n] = ToTell(text[n], id) /\ g[n] = ToTell(Append(text[n], l), id) /\ g[n] \in Nat
    <3>1. n \in 1 .. n /\ ToTell(text'[n], id) \in Nat
      BY <1>1, <2>2, ToTellSize
    <3>2. f[n] = ToTell(text[n], id) /\ g[n] = ToTell(text'[n], id)
      BY <1>2, <2>3, <3>1
    <3> QED BY <2>1, <3>1, <3>2
  <2> HIDE DEF g, f, n
  <2>6. \A i \in 1 .. n : f[i] \in Nat /\ g[i] \in Nat
    <3>1. \A i \in 1 .. n : i = n \/ i \in 1 .. n - 1
      BY <1>1
    <3> QED BY <1>2, <2>4, <2>5, <3>1
  <2>7. Total(g, n) \in Nat /\ Total(g, n) + f[n] = Total(f, n) + g[n]
    BY <1>1, <2>4, <2>6, TotalLast
  <2>8. Last = text[n]
    BY DEF Last, n
  <2> QED BY <1>3, <2>1, <2>5, <2>7, <2>8
<1>6. ASSUME text' = Append(text, <<>>)
      PROVE  Wanted(id)' = Wanted(id)
  <2>1. /\ DOMAIN text' = 1 .. n + 1 /\ Len(text') = n + 1 /\ text'[n + 1] = <<>>
        /\ \A i \in 1 .. n : text'[i] = text[i]
    BY <1>1, <1>6, EmptySeq, AppendProperties
  <2>2. \A i \in 1 .. n + 1 : g[i] = ToTell(text'[i], id)
    BY <2>1
  <2>3. ToTell(<<>>, id) = 0
    BY <1>1, ToTellSize
  <2>4. g[n + 1] = 0 /\ \A i \in 1 .. n : g[i] = f[i] /\ g[i] \in Nat
    BY <1>1, <1>2, <2>1, <2>2, <2>3
  <2> HIDE DEF g, f, n
  <2>5. Total(g, n + 1) = Total(f, n)
    BY <1>1, <1>2, <2>4, TotalMore
  <2> QED BY <1>3, <2>1, <2>5
<1> QED BY <1>4, <1>5, <1>6

\* Before the first line there is nothing to tell.
LEMMA TellStart == RecordsInit => TellInv
<1> SUFFICES ASSUME RecordsInit PROVE TellInv
  OBVIOUS
<1>1. text = << <<>> >> /\ c = Fresh
  BY DEF RecordsInit
<1>2. Is(Fresh, Nil, <<>>, Nil, FALSE, FALSE, {}, <<>>)
  BY DEF Fresh, Is
<1>3. Fresh.id = Nil /\ Fresh.told = <<>> /\ Fresh.dropped = FALSE /\ Fresh.header = FALSE
  BY <1>2 DEF Is
<1>4. IsSeq(<<>>)
  <2>1. <<>> \in Seq({})
    BY EmptySeq
  <2> QED BY <2>1 DEF IsSeq
<1>5. FileOk(c, Last)
  <2>1. Last = <<>> /\ Len(<<>>) = 0
    BY <1>1, EmptySeq DEF Last
  <2> QED BY <1>1, <1>3, <2>1 DEF FileOk
<1>6. ASSUME NEW id \in Ids \cup {BadId} PROVE Wanted(id) = Balance(c, id)
  <2> DEFINE f == [n \in DOMAIN text |-> ToTell(text[n], id)]
  <2>1. ToTell(<<>>, id) = 0
    <3>1. <<>> \in Seq({})
      BY EmptySeq
    <3> QED BY <3>1, ToTellSize
  <2>2. Len(text) = 1 /\ f[1] = 0 /\ \A i \in 1 .. 0 + 1 : f[i] \in Nat
    BY <1>1, <2>1, EmptySeq
  <2>3. Wanted(id) = Total(f, 1)
    BY <2>2 DEF Wanted
  <2> HIDE DEF f
  <2>4. Total(f, 0) = 0 /\ Total(f, 0 + 1) = Total(f, 0) + f[0 + 1]
    BY <2>2, TotalGoes
  <2>5. ToldIn(<<>>, id) = 0
    <3>1. {i \in DOMAIN <<>> : <<>>[i].id = id} = {}
      BY EmptySeq
    <3> QED BY <3>1, FS_EmptySet DEF ToldIn
  <2>6. Balance(c, id) = 0
    BY <1>1, <1>3, <2>5, PluginConstants DEF Balance, One
  <2> QED BY <2>2, <2>3, <2>4, <2>6
<1> QED BY <1>1, <1>3, <1>4, <1>5, <1>6, ReadersStart DEF TellInv

\* What is told keeps up with what is read.
LEMMA TellStep == ASSUME TellInv, [RecordsNext]_recordsVars PROVE TellInv'
<1>1. ReadersInv' /\ ReadersInv
  BY ReadersStep DEF TellInv
<1> DEFINE L == corpus.lines
<1>2. text \in Seq(Seq(L)) /\ text # <<>> /\ IsReader(c) /\ IsSeq(c.told)
  BY DEF TellInv, ReadersInv
<1>3. Len(text) \in 1 .. Len(text) /\ Last \in Seq(L)
  BY <1>2, EmptySeq, LenProperties, ElementOfSeq DEF Last
<1>4. \A id \in Ids \cup {BadId} : Wanted(id) = Balance(c, id)
  BY DEF TellInv
<1>5. BadId \in Ids \cup {BadId} /\ \A id \in Ids \cup {BadId} : id # Nil
  BY PluginConstants
<1> HIDE DEF L
<1>7. CASE ReadLine
  <2>1. PICK l \in L : text' = LineAdded(text, l) /\ c' = conf_read_line(c, l)
    BY <1>7 DEF LineAdded, ReadLine, L
  <2>2. FileOk(c, Last) /\ ~done
    BY <1>7 DEF ReadLine, TellInv
  <2>3. Last' = Append(Last, l)
    BY <1>2, <1>3, <2>1, LineText DEF Last
  <2>4. IsSeq(c'.told) /\ FileOk(c', Last')
    BY <1>2, <1>3, <1>5, <2>1, <2>2, <2>3, LineTells
  <2>5. ASSUME NEW id \in Ids \cup {BadId} PROVE Wanted(id)' = Balance(c', id)
    <3>1. Balance(c', id) + ToTell(Last, id) = Balance(c, id) + ToTell(Append(Last, l), id)
      BY <1>2, <1>3, <2>1, <2>2, LineTells
    <3>2. Wanted(id)' \in Nat /\ Wanted(id)' + ToTell(Last, id) = Wanted(id) + ToTell(Append(Last, l), id)
      BY <1>2, <2>1, WantedGoes
    <3>3. Balance(c, id) \in Nat /\ Balance(c', id) \in Nat
      BY <1>2, <2>4, BalanceSize
    <3>4. ToTell(Last, id) \in Nat
      BY <1>3, ToTellSize
    <3> QED BY <1>4, <3>1, <3>2, <3>3, <3>4
  <2> QED BY <1>1, <2>4, <2>5 DEF TellInv
<1>8. CASE NextFile \/ EndOfDirectory
  <2>1. c' = conf_read_end(c) /\ ~done /\ FileOk(c, Last)
    BY <1>8 DEF NextFile, EndOfDirectory, TellInv
  <2>2. c.dropped => c.id = Nil
    BY <2>1 DEF FileOk
  <2>3. \A id \in Ids \cup {BadId} : Balance(c', id) = Balance(c, id)
    BY <1>2, <1>5, <2>1, <2>2, EndBalance
  <2>4. IsSeq(c'.told) /\ c'.id = Nil /\ ~c'.dropped /\ ~c'.header
    BY <1>2, <1>5, <2>1, <2>2, EndBalance
  <2>5. CASE NextFile
    <3>1. text' = Append(text, <<>>)
      BY <2>5 DEF NextFile
    <3>2. Last' = <<>> /\ Len(<<>>) = 0
      BY <1>2, <3>1, AppendProperties, EmptySeq DEF Last
    <3>3. FileOk(c', Last')
      BY <2>4, <3>2 DEF FileOk
    <3>4. \A id \in Ids \cup {BadId} : Wanted(id)' = Wanted(id)
      BY <1>2, <3>1, WantedGoes
    <3> QED BY <1>1, <1>4, <2>3, <2>4, <3>3, <3>4 DEF TellInv
  <2>6. CASE EndOfDirectory
    <3>1. text' = text /\ done'
      BY <2>6 DEF EndOfDirectory
    <3>2. \A id \in Ids \cup {BadId} : Wanted(id)' = Wanted(id)
      BY <3>1 DEF Wanted
    <3> QED BY <1>1, <1>4, <2>3, <2>4, <3>1, <3>2 DEF TellInv
  <2> QED BY <1>8, <2>5, <2>6
<1>9. CASE UNCHANGED recordsVars
  <2>1. c' = c /\ text' = text /\ done' = done
    BY <1>9 DEF recordsVars
  <2>2. Last' = Last /\ \A id \in Ids \cup {BadId} : Wanted(id)' = Wanted(id)
    BY <2>1 DEF Wanted, Last
  <2> QED BY <1>1, <2>1, <2>2 DEF TellInv
<1> QED BY <1>7, <1>8, <1>9 DEF RecordsNext

(* No record is lost and none is told twice, over all the files of a       *)
(* directory: each named header that was passed has one verdict, but for   *)
(* the record that is being read and those of a file that was given up.    *)
THEOREM EachRecordOnce == RecordsSpec => []EveryRecordIsTold
<1>1. ASSUME TellInv PROVE EveryRecordIsTold
  <2> SUFFICES ASSUME NEW id \in Ids \cup {BadId}
               PROVE  Wanted(id) = Told(id) + (IF c.id = id THEN 1 ELSE 0)
    BY DEF EveryRecordIsTold, Wanted
  <2>1. Wanted(id) = Balance(c, id)
    BY <1>1 DEF TellInv
  <2> QED BY <2>1 DEF Balance, One, Told, ToldIn
<1>2. TellInv => EveryRecordIsTold
  BY <1>1
<1>3. TellInv /\ [RecordsNext]_recordsVars => TellInv'
  BY TellStep
<1> QED BY <1>2, <1>3, TellStart, PTL DEF RecordsSpec
-----------------------------------------------------------------------------
(* What is accepted.                                                       *)

Own(l) == [name |-> l.name, value |-> l.value]

(* How many of these lines have a name.                                    *)
NamedIn(file, own, f) == Cardinality({k \in own : file[k].name = f})

(* These fields are the lines of the record that begins at h, so far.      *)
AreOwn(fields, file, h) ==
    /\ AreFieldsOf(fields, file, OwnLines(file, h))
    /\ \A f : np_conf_count(fields, f) = NamedIn(file, OwnLines(file, h), f)

(* No line of it is refused on its own.                                    *)
Admissible(file, h) ==
    LET own == OwnLines(file, h)
        most == Most[corpus.kind]
    IN  \A j \in own :
           /\ file[j].name \in DOMAIN most /\ file[j].value \notin {"", "\t"}
           /\ NamedIn(file, own, file[j].name) <= most[file[j].name]

(* A header's lines are a record with these fields.                        *)
Proper(file, h, id, fields) ==
    /\ file[h].kind = "header" /\ file[h].id = id
    /\ \A j \in OwnLines(file, h) : ~Faulty(file, OwnLines(file, h), j)
    /\ AreFieldsOf(fields, file, OwnLines(file, h))

(* The record that is being read.                                          *)
Begun(r, file) ==
    ~r.dropped /\ r.id # Nil /\ r.code = Nil =>
        /\ IsSeq(r.fields)
        /\ \E h \in 1 .. Len(file) :
              /\ file[h].kind = "header" /\ ~Followed(file, h, Len(file)) /\ file[h].id = r.id
              /\ AreOwn(r.fields, file, h) /\ Admissible(file, h)

(* A record with these fields is in the text, and was read to its end.     *)
IsWritten(tx, fin, id, fields) ==
    \E n \in DOMAIN tx : \E h \in DOMAIN tx[n] :
        /\ n < Len(tx) \/ fin \/ Followed(tx[n], h, Len(tx[n]))
        /\ Proper(tx[n], h, id, fields)

(* What was told of records that were accepted.                            *)
IsSound(told, seen, tx, fin) ==
    /\ \A i \in DOMAIN told : told[i].code = Nil =>
          told[i].id \in seen /\ IsWritten(tx, fin, told[i].id, told[i].fields)
    /\ \A i, j \in DOMAIN told :
          told[i].code = Nil /\ told[j].code = Nil /\ told[i].id = told[j].id => i = j

SoundInv ==
    /\ TellInv /\ corpus \in Corpora
    /\ ~done => Begun(c, Last)
    /\ IsSound(c.told, c.seen, text, done)

\* A line more belongs to the last header, if it is a field.
LEMMA OwnGoes ==
    ASSUME NEW L, NEW file \in Seq(L), NEW l \in L, NEW h \in 1 .. Len(file)
    PROVE  LET F == Append(file, l)
               n == Len(file)
           IN  /\ OwnLines(file, h) \in SUBSET (1 .. n)
               /\ (Followed(file, h, n) \/ l.kind # "field") => OwnLines(F, h) = OwnLines(file, h)
               /\ ~Followed(file, h, n) /\ l.kind = "field" => OwnLines(F, h) = OwnLines(file, h) \cup {n + 1}
<1> DEFINE F == Append(file, l)
           n == Len(file)
           A == OwnLines(file, h)
           B == OwnLines(F, h)
<1>1. /\ n \in Nat /\ F \in Seq(L) /\ Len(F) = n + 1 /\ F[n + 1] = l /\ \A i \in 1 .. n : F[i] = file[i]
  BY LineMore
<1> HIDE DEF F
<1>2. A = {j \in h + 1 .. n : file[j].kind = "field" /\ \A k \in h + 1 .. j : file[k].kind # "header"}
  BY DEF OwnLines
<1>3. B = {j \in h + 1 .. n + 1 : F[j].kind = "field" /\ \A k \in h + 1 .. j : F[k].kind # "header"}
  BY <1>1 DEF OwnLines
<1> HIDE DEF A, B
<1>4. \A j \in h + 1 .. n : j \in B <=> j \in A
  <2> SUFFICES ASSUME NEW j \in h + 1 .. n PROVE j \in B <=> j \in A
    OBVIOUS
  <2>1. j \in 1 .. n /\ j \in h + 1 .. n + 1 /\ F[j] = file[j]
    BY <1>1
  <2>2. \A k \in h + 1 .. j : F[k] = file[k]
    BY <1>1, <2>1
  <2> QED BY <1>2, <1>3, <2>1, <2>2
<1>5. \A j \in h + 1 .. n + 1 : j = n + 1 \/ j \in h + 1 .. n
  BY <1>1
<1>6. n + 1 \in h + 1 .. n + 1 /\ n + 1 \notin h + 1 .. n /\ \A j \in h + 1 .. n : j \in 1 .. n /\ j \in h + 1 .. n + 1
  BY <1>1
<1>7. Followed(file, h, n) \/ l.kind # "field" => n + 1 \notin B
  BY <1>1, <1>3, <1>6 DEF Followed
<1>8. ~Followed(file, h, n) /\ l.kind = "field" => n + 1 \in B
  BY <1>1, <1>3, <1>5, <1>6 DEF Followed
<1>9. A \in SUBSET (h + 1 .. n) /\ B \in SUBSET (h + 1 .. n + 1)
  BY <1>2, <1>3
<1>10. n + 1 \notin B => B = A
  BY <1>4, <1>5, <1>9
<1>11. n + 1 \in B => B = A \cup {n + 1}
  BY <1>4, <1>5, <1>9
<1> QED BY <1>6, <1>7, <1>8, <1>9, <1>10, <1>11 DEF F, A, B

\* Lines that were there are told apart as before.
LEMMA ProperStays ==
    ASSUME NEW L, NEW file \in Seq(L), NEW l \in L, NEW h \in 1 .. Len(file), NEW id, NEW fields,
           Followed(file, h, Len(file)) \/ l.kind # "field", Proper(file, h, id, fields)
    PROVE  Proper(Append(file, l), h, id, fields)
<1> DEFINE F == Append(file, l)
           n == Len(file)
           own == OwnLines(file, h)
<1>1. /\ n \in Nat /\ \A i \in 1 .. n : F[i] = file[i]
  BY LineMore
<1>2. own \in SUBSET (1 .. n) /\ OwnLines(F, h) = own
  BY OwnGoes
<1>3. file[h].kind = "header" /\ file[h].id = id /\ (\A j \in own : ~Faulty(file, own, j)) /\ AreFieldsOf(fields, file, own)
  BY DEF Proper
<1> HIDE DEF F, own, n
<1>4. \A j \in own : F[j] = file[j]
  BY <1>1, <1>2
<1>5. \A f : {k \in own : F[k].name = f} = {k \in own : file[k].name = f}
  BY <1>4
<1>6. \A j \in own : ~Faulty(F, own, j)
  BY <1>3, <1>4, <1>5 DEF Faulty
<1>7. AreFieldsOf(fields, F, own)
  BY <1>3, <1>4 DEF AreFieldsOf
<1>8. F[h] = file[h]
  BY <1>1 DEF n
<1> QED BY <1>2, <1>3, <1>6, <1>7, <1>8 DEF Proper, F

\* A field more, counted by its name.
LEMMA NameMore ==
    ASSUME NEW q, IsSeq(q), NEW x, NEW f
    PROVE  /\ np_conf_count(q, f) \in Nat
           /\ np_conf_count(Append(q, x), f) = np_conf_count(q, f) + One(x.name = f)
<1>1. PICK S : q \in Seq(S)
  BY DEF IsSeq
<1>2. q \in Seq(S \cup {x})
  BY <1>1, SeqMonotonic
<1> DEFINE a == Append(q, x)
           n == Len(q)
           P == {i \in DOMAIN q : q[i].name = f}
           Q == {i \in DOMAIN a : a[i].name = f}
<1>3. /\ n \in Nat /\ DOMAIN q = 1 .. n /\ DOMAIN a = 1 .. n + 1 /\ a[n + 1] = x
      /\ \A i \in 1 .. n : a[i] = q[i]
  BY <1>2, LenProperties, AppendProperties
<1> HIDE DEF a
<1>4. Q = IF x.name = f THEN P \cup {n + 1} ELSE P
  BY <1>3
<1>5. P \in SUBSET (1 .. n)
  BY <1>3
<1> HIDE DEF P, Q, n
<1>6. Cardinality(P) \in Nat /\ Cardinality(P \cup {n + 1}) = Cardinality(P) + 1
  BY <1>2, <1>5, IndexCount DEF n
<1>7. np_conf_count(q, f) = Cardinality(P) /\ np_conf_count(a, f) = Cardinality(Q)
  BY DEF np_conf_count, P, Q
<1> QED BY <1>4, <1>6, <1>7 DEF One, a

\* What is known of a field that is taken.
LEMMA TakenField ==
    ASSUME corpus \in Corpora, NEW q, IsSeq(q), NEW l, field_code(q, l) = Nil
    PROVE  LET most == Most[corpus.kind]
           IN  /\ l.name \in DOMAIN most /\ most[l.name] \in Nat /\ l.value \notin {"", "\t"}
               /\ np_conf_count(q, l.name) + 1 <= most[l.name]
<1> DEFINE most == Most[corpus.kind]
<1>1. corpus.kind \in DOMAIN Most
  BY PluginConstants
<1>2. l.name \in DOMAIN most /\ l.value \notin {"", "\t"} /\ ~(np_conf_count(q, l.name) >= most[l.name])
  BY PluginConstants DEF field_code, Codes
<1>3. most[l.name] \in Nat /\ np_conf_count(q, l.name) \in Nat
  BY <1>1, <1>2, NameMore, PluginConstants
<1>4. np_conf_count(q, l.name) + 1 <= most[l.name]
  <2> DEFINE a == np_conf_count(q, l.name)
             b == most[l.name]
  <2>1. a \in Nat /\ b \in Nat /\ ~(a >= b)
    BY <1>2, <1>3
  <2> HIDE DEF a, b
  <2>2. a + 1 <= b
    BY <2>1
  <2> QED BY <2>2 DEF a, b
<1> HIDE DEF most
<1> QED BY <1>2, <1>3, <1>4 DEF most

\* A field that is taken is the next of its header's lines.
LEMMA OwnTaken ==
    ASSUME corpus \in Corpora, NEW L, NEW file \in Seq(L), NEW l \in L, l.kind = "field",
           NEW h \in 1 .. Len(file), ~Followed(file, h, Len(file)),
           NEW q, IsSeq(q), AreOwn(q, file, h), Admissible(file, h), field_code(q, l) = Nil
    PROVE  /\ AreOwn(Append(q, Own(l)), Append(file, l), h) /\ Admissible(Append(file, l), h)
           /\ IsSeq(Append(q, Own(l)))
<1> DEFINE F == Append(file, l)
           n == Len(file)
           A == OwnLines(file, h)
           B == OwnLines(F, h)
           a == Append(q, Own(l))
           m == Len(q)
           most == Most[corpus.kind]
           x == Own(l)
<1>1. /\ n \in Nat /\ F[n + 1] = l /\ \A i \in 1 .. n : F[i] = file[i]
  BY LineMore
<1>2. A \in SUBSET (1 .. n) /\ B = A \cup {n + 1}
  BY OwnGoes
<1>3. PICK S : q \in Seq(S)
  BY DEF IsSeq
<1>4. q \in Seq(S \cup {x})
  BY <1>3, SeqMonotonic
<1>5. /\ a \in Seq(S \cup {x}) /\ m \in Nat /\ Len(a) = m + 1 /\ a[m + 1] = x
      /\ \A i \in 1 .. m : a[i] = q[i]
  BY <1>4, LenProperties, AppendProperties
<1>6. IsSeq(a)
  BY <1>5 DEF IsSeq
<1>7. /\ m = Cardinality(A)
      /\ \A j \in A : q[Cardinality({k \in A : k <= j})] = Own(file[j])
      /\ \A f : np_conf_count(q, f) = NamedIn(file, A, f)
  BY DEF AreOwn, AreFieldsOf, Own
<1>8. \A f : /\ np_conf_count(q, f) \in Nat
             /\ np_conf_count(a, f) = np_conf_count(q, f) + One(x.name = f)
  BY NameMore
<1>9. x.name = l.name /\ x = [name |-> l.name, value |-> l.value]
  BY DEF Own
<1>10. \A j \in A : /\ file[j].name \in DOMAIN most /\ file[j].value \notin {"", "\t"}
                    /\ NamedIn(file, A, file[j].name) <= most[file[j].name]
  BY DEF Admissible
<1>11. /\ l.name \in DOMAIN most /\ most[l.name] \in Nat /\ l.value \notin {"", "\t"}
       /\ np_conf_count(q, l.name) + 1 <= most[l.name]
  BY TakenField
<1>12. ASSUME NEW P, P \in SUBSET A
       PROVE  /\ IsFiniteSet(P) /\ Cardinality(P) \in Nat /\ Cardinality(P) <= Cardinality(A) /\ (P # {} => Cardinality(P) # 0)
              /\ Cardinality(P \cup {n + 1}) = Cardinality(P) + 1
  <2>1. P \in SUBSET (1 .. n) /\ A \in SUBSET (1 .. n)
    BY <1>2, <1>12
  <2>2. IsFiniteSet(A) /\ IsFiniteSet(P) /\ Cardinality(P) \in Nat /\ Cardinality(P \cup {n + 1}) = Cardinality(P) + 1
    BY <2>1, IndexCount
  <2> HIDE DEF A
  <2> QED BY <1>12, <2>2, FS_Subset, FS_EmptySet
<1> HIDE DEF F, n, A, B, a, m, most, x
<1>13. \A i \in A : i \in 1 .. n /\ i # n + 1 /\ ~(n + 1 <= i) /\ i <= n + 1 /\ F[i] = file[i]
  BY <1>1, <1>2
<1>14. Len(a) = Cardinality(B)
  BY <1>2, <1>5, <1>7, <1>12
<1>15. ASSUME NEW j \in B PROVE a[Cardinality({k \in B : k <= j})] = Own(F[j])
  <2>1. CASE j \in A
    <3> DEFINE P == {k \in A : k <= j}
    <3>1. {k \in B : k <= j} = P /\ P \in SUBSET A /\ P # {}
      BY <1>2, <1>13, <2>1
    <3>2. q[Cardinality(P)] = Own(file[j])
      BY <1>7, <2>1
    <3> HIDE DEF P
    <3>5. Cardinality(P) \in Nat /\ Cardinality(P) <= Cardinality(A) /\ Cardinality(P) # 0
      BY <1>12, <3>1
    <3>3. Cardinality(P) \in 1 .. m
      BY <1>5, <1>7, <3>5
    <3>4. a[Cardinality(P)] = Own(file[j])
      BY <1>5, <3>2, <3>3
    <3> QED BY <1>13, <2>1, <3>1, <3>4
  <2>2. CASE j = n + 1
    <3>2. n + 1 <= j /\ \A k \in A : k <= j
      BY <1>1, <1>13, <2>2
    <3>1. {k \in B : k <= j} = B
      BY <1>2, <3>2
    <3> QED BY <1>1, <1>5, <1>14, <2>2, <3>1 DEF x
  <2> QED BY <1>2, <2>1, <2>2
<1>16. AreFieldsOf(a, F, B)
  BY <1>14, <1>15 DEF AreFieldsOf, Own
<1>17. ASSUME NEW f
       PROVE  NamedIn(F, B, f) = NamedIn(file, A, f) + One(l.name = f)
  <2> DEFINE P == {k \in A : file[k].name = f}
             Q == {k \in B : F[k].name = f}
  <2>1. Q = IF l.name = f THEN P \cup {n + 1} ELSE P
    BY <1>1, <1>2, <1>13
  <2>2. P \in SUBSET A
    OBVIOUS
  <2> HIDE DEF P, Q
  <2>3. Cardinality(P) \in Nat /\ Cardinality(P \cup {n + 1}) = Cardinality(P) + 1
    BY <1>12, <2>2
  <2>4. Cardinality(Q) = Cardinality(P) + One(l.name = f)
    BY <2>1, <2>3 DEF One
  <2> QED BY <2>4 DEF P, Q, NamedIn
<1>18. \A f : np_conf_count(a, f) = NamedIn(F, B, f)
  BY <1>7, <1>8, <1>9, <1>17
<1>19. ASSUME NEW j \in B
       PROVE  /\ F[j].name \in DOMAIN most /\ F[j].value \notin {"", "\t"}
              /\ NamedIn(F, B, F[j].name) <= most[F[j].name]
  <2> DEFINE f == F[j].name
  <2>1. /\ np_conf_count(q, f) \in Nat
        /\ NamedIn(F, B, f) = np_conf_count(q, f) + One(l.name = f)
    BY <1>7, <1>8, <1>17
  <2>2. CASE f = l.name
    <3>1. F[j].value \notin {"", "\t"}
      <4>1. CASE j = n + 1
        BY <1>1, <1>11, <4>1
      <4>2. CASE j \in A
        BY <1>10, <1>13, <4>2
      <4> QED BY <1>2, <4>1, <4>2
    <3>2. NamedIn(F, B, f) = np_conf_count(q, l.name) + 1
      BY <2>1, <2>2 DEF One
    <3> QED BY <1>11, <2>2, <3>1, <3>2
  <2>3. CASE f # l.name
    <3>1. j \in A /\ F[j] = file[j]
      BY <1>1, <1>2, <1>13, <2>3
    <3>2. NamedIn(F, B, f) = np_conf_count(q, f)
      BY <2>1, <2>3 DEF One
    <3>3. np_conf_count(q, f) = NamedIn(file, A, file[j].name)
      BY <1>7, <3>1
    <3> QED BY <1>10, <3>1, <3>2, <3>3
  <2> QED BY <2>2, <2>3
<1>20. Admissible(F, h)
  BY <1>19 DEF Admissible, most, B
<1> QED BY <1>6, <1>16, <1>18, <1>20 DEF AreOwn, F, B, a, x

\* The record that is read stays what it is when a line is none of it.
LEMMA OwnStays ==
    ASSUME NEW L, NEW file \in Seq(L), NEW l \in L, NEW h \in 1 .. Len(file), NEW fields,
           l.kind # "field", AreOwn(fields, file, h), Admissible(file, h)
    PROVE  AreOwn(fields, Append(file, l), h) /\ Admissible(Append(file, l), h)
<1> DEFINE F == Append(file, l)
           n == Len(file)
           own == OwnLines(file, h)
<1>1. /\ n \in Nat /\ \A i \in 1 .. n : F[i] = file[i]
  BY LineMore
<1>2. own \in SUBSET (1 .. n) /\ OwnLines(F, h) = own
  BY OwnGoes
<1>3. AreFieldsOf(fields, file, own) /\ \A f : np_conf_count(fields, f) = NamedIn(file, own, f)
  BY DEF AreOwn
<1>4. \A j \in own : /\ file[j].name \in DOMAIN Most[corpus.kind] /\ file[j].value \notin {"", "\t"}
                     /\ NamedIn(file, own, file[j].name) <= Most[corpus.kind][file[j].name]
  BY DEF Admissible
<1> HIDE DEF F, own, n
<1>5. \A j \in own : F[j] = file[j]
  BY <1>1, <1>2
<1>6. ASSUME NEW f PROVE NamedIn(F, own, f) = NamedIn(file, own, f)
  <2>1. {k \in own : F[k].name = f} = {k \in own : file[k].name = f}
    BY <1>5
  <2> QED BY <2>1 DEF NamedIn
<1>7. AreFieldsOf(fields, F, own)
  BY <1>3, <1>5 DEF AreFieldsOf
<1>8. AreOwn(fields, F, h)
  BY <1>2, <1>3, <1>6, <1>7 DEF AreOwn
<1>9. Admissible(F, h)
  BY <1>2, <1>4, <1>5, <1>6 DEF Admissible
<1> QED BY <1>8, <1>9 DEF F

\* A header begins a record without fields.
LEMMA HeaderBegins ==
    ASSUME NEW L, NEW file \in Seq(L), NEW l \in L, l.kind = "header", NEW r, IsReader(r), ~r.dropped
    PROVE  Begun(CHeader(r, l), Append(file, l))
<1> DEFINE F == Append(file, l)
           n == Len(file)
           e == CHeader(r, l)
<1>1. /\ n \in Nat /\ F \in Seq(L) /\ Len(F) = n + 1 /\ F[n + 1] = l
  BY LineMore
<1>2. ~Followed(F, n + 1, n + 1)
  BY BadMore
<1>3. e.fields = <<>> /\ e.id = l.id
  <2> DEFINE m == conf_emit(r)
             d == [m EXCEPT !.code = Nil, !.header = TRUE]
             f == Refusal("file", "bad-id")
             b == IF conf_id_ok(l.id) THEN Nil ELSE "bad-id"
  <2>1. Is(m, Nil, <<>>, r.code, r.header, r.dropped, m.seen, m.told)
    BY EmitGives
  <2>2. e = IF l.id = Nil THEN Tell(d, f) ELSE [d EXCEPT !.id = l.id, !.code = b]
    BY DEF CHeader
  <2> HIDE DEF m, f, b, e
  <2>3. Is(d, Nil, <<>>, Nil, TRUE, r.dropped, m.seen, m.told)
    BY <2>1 DEF Is
  <2> HIDE DEF d
  <2>4. CASE l.id = Nil
    <3>1. Is(e, Nil, <<>>, Nil, TRUE, r.dropped, m.seen, Append(m.told, f))
      BY <2>2, <2>3, <2>4 DEF Tell, Is
    <3> QED BY <2>4, <3>1 DEF Is
  <2>5. CASE l.id # Nil
    <3>1. Is(e, l.id, <<>>, b, TRUE, r.dropped, m.seen, m.told)
      BY <2>2, <2>3, <2>5 DEF Is
    <3> QED BY <3>1 DEF Is
  <2> QED BY <2>4, <2>5
<1> HIDE DEF F, n, e
<1>4. OwnLines(F, n + 1) = {}
  <2>1. (n + 1) + 1 .. n + 1 = {}
    BY <1>1
  <2> QED BY <1>1, <2>1 DEF OwnLines
<1>5. AreFieldsOf(<<>>, F, {})
  BY EmptySeq, FS_EmptySet DEF AreFieldsOf
<1>6. ASSUME NEW f PROVE np_conf_count(<<>>, f) = 0 /\ NamedIn(F, {}, f) = 0
  <2>1. {i \in DOMAIN <<>> : <<>>[i].name = f} = {} /\ {k \in {} : F[k].name = f} = {}
    BY EmptySeq
  <2> QED BY <2>1, FS_EmptySet DEF np_conf_count, NamedIn
<1>7. AreOwn(<<>>, F, n + 1) /\ Admissible(F, n + 1)
  BY <1>4, <1>5, <1>6 DEF AreOwn, Admissible
<1>8. IsSeq(<<>>)
  <2>1. <<>> \in Seq({})
    BY EmptySeq
  <2> QED BY <2>1 DEF IsSeq
<1>9. n + 1 \in 1 .. Len(F)
  BY <1>1
<1>10. Begun(e, F)
  BY <1>1, <1>2, <1>3, <1>7, <1>8, <1>9 DEF Begun
<1> QED BY <1>10 DEF F, e

\* A line leaves the record that is read what its lines say.
LEMMA LineBegun ==
    ASSUME corpus \in Corpora, NEW L, NEW file \in Seq(L), NEW l \in L,
           NEW r, IsReader(r), Begun(r, file)
    PROVE  Begun(conf_read_line(r, l), Append(file, l))
<1> DEFINE F == Append(file, l)
           n == Len(file)
           e == conf_read_line(r, l)
<1>1. /\ n \in Nat /\ Len(F) = n + 1 /\ \A i \in 1 .. n : F[i] = file[i]
  BY LineMore
<1>2. \A h \in 1 .. n : h \in 1 .. n + 1 /\ (l.kind # "header" => (Followed(F, h, n + 1) <=> Followed(file, h, n)))
  BY <1>1, BadMore
<1>3. CASE r.dropped
  <2>1. e = r
    BY <1>3 DEF conf_read_line
  <2> QED BY <1>3, <2>1 DEF Begun
<1>4. CASE ~r.dropped /\ l.kind = "long"
  <2> DEFINE a == [r EXCEPT !.id = Nil, !.dropped = TRUE]
             f == Refusal("file", "line-too-long")
  <2>1. e = Tell(a, f)
    BY <1>4 DEF conf_read_line
  <2> HIDE DEF e, f
  <2>2. Is(a, Nil, r.fields, r.code, r.header, TRUE, r.seen, r.told)
    BY DEF IsReader, Is
  <2> HIDE DEF a
  <2>3. Is(e, Nil, r.fields, r.code, r.header, TRUE, r.seen, Append(r.told, f))
    BY <2>1, <2>2 DEF Tell, Is
  <2>4. e.dropped = TRUE
    BY <2>3 DEF Is
  <2> QED BY <2>4 DEF Begun, e
<1>5. CASE ~r.dropped /\ l.kind = "header"
  BY <1>5, HeaderBegins DEF conf_read_line
<1>6. CASE ~r.dropped /\ l.kind = "field"
  <2>1. e = CField(r, l)
    BY <1>6 DEF conf_read_line
  <2>2. CASE ~r.header
    <3> DEFINE a == [r EXCEPT !.dropped = TRUE]
               f == Refusal("file", "no-header")
    <3>1. e = Tell(a, f)
      BY <2>1, <2>2 DEF CField
    <3> HIDE DEF e, f
    <3>2. Is(a, r.id, r.fields, r.code, r.header, TRUE, r.seen, r.told)
      BY DEF IsReader, Is
    <3> HIDE DEF a
    <3>3. Is(e, r.id, r.fields, r.code, r.header, TRUE, r.seen, Append(r.told, f))
      BY <3>1, <3>2 DEF Tell, Is
    <3>4. e.dropped = TRUE
      BY <3>3 DEF Is
    <3> QED BY <3>4 DEF Begun, e
  <2>3. CASE r.header /\ r.code # Nil
    <3>1. e = r
      BY <2>1, <2>3 DEF CField
    <3> QED BY <2>3, <3>1 DEF Begun
  <2>4. CASE r.header /\ r.code = Nil /\ field_code(r.fields, l) # Nil
    <3> DEFINE o == field_code(r.fields, l)
    <3>1. e = [r EXCEPT !.code = o] /\ o # Nil
      BY <2>1, <2>4 DEF CField
    <3> HIDE DEF e, o
    <3>2. e.code = o
      BY <3>1 DEF IsReader, Is
    <3> QED BY <3>1, <3>2 DEF Begun, e
  <2>5. CASE r.header /\ r.code = Nil /\ field_code(r.fields, l) = Nil
    <3> DEFINE q == Append(r.fields, Own(l))
    <3>1. e = [r EXCEPT !.fields = q]
      BY <2>1, <2>5 DEF CField, Own
    <3> HIDE DEF q, e
    <3>2. e.fields = q /\ e.id = r.id
      BY <3>1 DEF IsReader, Is
    <3>3. CASE r.id = Nil
      BY <3>2, <3>3 DEF Begun, e
    <3>4. CASE r.id # Nil
      <4>1. PICK h \in 1 .. n :
              /\ file[h].kind = "header" /\ ~Followed(file, h, n) /\ file[h].id = r.id
              /\ AreOwn(r.fields, file, h) /\ Admissible(file, h)
        BY <1>6, <2>5, <3>4 DEF Begun
      <4>2. IsSeq(r.fields)
        BY <1>6, <2>5, <3>4 DEF Begun
      <4>3. AreOwn(q, F, h) /\ Admissible(F, h) /\ IsSeq(q)
        BY <1>6, <2>5, <4>1, <4>2, OwnTaken DEF q
      <4>4. h \in 1 .. Len(F) /\ F[h].kind = "header" /\ ~Followed(F, h, Len(F)) /\ F[h].id = e.id
        BY <1>1, <1>2, <1>6, <3>2, <4>1
      <4> HIDE DEF F
      <4> QED BY <3>2, <4>3, <4>4 DEF Begun, F, e
    <3> QED BY <3>3, <3>4
  <2> QED BY <1>6, <2>2, <2>3, <2>4, <2>5
<1>7. CASE ~r.dropped /\ l.kind \notin {"long", "header", "field"}
  <2>1. e = r
    BY <1>7 DEF conf_read_line
  <2>2. CASE r.id = Nil \/ r.code # Nil
    BY <2>1, <2>2 DEF Begun
  <2>3. CASE r.id # Nil /\ r.code = Nil
    <3>1. PICK h \in 1 .. n :
            /\ file[h].kind = "header" /\ ~Followed(file, h, n) /\ file[h].id = r.id
            /\ AreOwn(r.fields, file, h) /\ Admissible(file, h)
      BY <1>7, <2>3 DEF Begun
    <3>2. IsSeq(r.fields)
      BY <1>7, <2>3 DEF Begun
    <3>3. AreOwn(r.fields, F, h) /\ Admissible(F, h)
      BY <1>7, <3>1, OwnStays
    <3>4. h \in 1 .. Len(F) /\ F[h].kind = "header" /\ ~Followed(F, h, Len(F)) /\ F[h].id = r.id
      BY <1>1, <1>2, <1>7, <3>1
    <3> HIDE DEF F
    <3> QED BY <2>1, <3>2, <3>3, <3>4 DEF Begun, F
  <2> QED BY <2>2, <2>3
<1> QED BY <1>3, <1>4, <1>5, <1>6, <1>7

\* A record that is accepted is what its lines say.
LEMMA EmitProper ==
    ASSUME corpus \in Corpora, NEW L, NEW file \in Seq(L), NEW r, ~r.dropped, r.id # Nil, Begun(r, file),
           Verdict(r) = Nil
    PROVE  /\ r.id \notin r.seen
           /\ \E h \in 1 .. Len(file) : ~Followed(file, h, Len(file)) /\ Proper(file, h, r.id, r.fields)
<1> DEFINE n == Len(file)
           q == r.fields
           most == Most[corpus.kind]
<1>1. r.code = Nil /\ conf_schema(q) = Nil /\ conf_admit(r.seen, r.id) = Nil
  BY DEF Verdict
<1>2. r.id \notin r.seen
  BY <1>1, PluginConstants DEF conf_admit, Codes
<1>3. \A i \in DOMAIN q : q[i].value # "bad"
  BY <1>1, PluginConstants DEF conf_schema, Codes
<1>4. PICK h \in 1 .. n :
        /\ file[h].kind = "header" /\ ~Followed(file, h, n) /\ file[h].id = r.id
        /\ AreOwn(q, file, h) /\ Admissible(file, h)
  BY <1>1 DEF Begun
<1>5. IsSeq(q)
  BY <1>1 DEF Begun
<1> DEFINE own == OwnLines(file, h)
<1>6. /\ AreFieldsOf(q, file, own)
      /\ \A f : np_conf_count(q, f) = NamedIn(file, own, f)
  BY <1>4 DEF AreOwn
<1>7. \A j \in own : /\ file[j].name \in DOMAIN most /\ file[j].value \notin {"", "\t"}
                     /\ NamedIn(file, own, file[j].name) <= most[file[j].name]
  BY <1>4 DEF Admissible
<1>8. PICK S : q \in Seq(S)
  BY <1>5 DEF IsSeq
<1>9. Len(q) \in Nat /\ DOMAIN q = 1 .. Len(q)
  BY <1>8, LenProperties
<1>10. own \in SUBSET (1 .. n)
  <2>1. n \in Nat /\ h \in 1 .. n
    BY <1>4, LenProperties
  <2>2. \A j \in h + 1 .. n : j \in 1 .. n
    BY <2>1
  <2> QED BY <2>2 DEF OwnLines
<1> HIDE DEF own, n, q, most
<1>11. \A j \in own : file[j].value # "bad"
  <2> SUFFICES ASSUME NEW j \in own PROVE file[j].value # "bad"
    OBVIOUS
  <2> DEFINE P == {k \in own : k <= j}
  <2>1. q[Cardinality(P)] = [name |-> file[j].name, value |-> file[j].value] /\ Len(q) = Cardinality(own)
    BY <1>6 DEF AreFieldsOf
  <2>2. j \in P /\ P \in SUBSET own /\ P \in SUBSET (1 .. n)
    <3>1. j \in 1 .. n
      BY <1>10
    <3>2. j <= j
      BY <3>1
    <3> QED BY <1>10, <3>2
  <2> HIDE DEF P
  <2>3. IsFiniteSet(own) /\ IsFiniteSet(P) /\ Cardinality(P) \in Nat
    BY <1>10, <2>2, IndexCount DEF n
  <2>4. Cardinality(P) <= Cardinality(own) /\ Cardinality(P) # 0
    BY <2>2, <2>3, FS_Subset, FS_EmptySet
  <2>5. Cardinality(P) \in DOMAIN q
    BY <1>9, <2>1, <2>3, <2>4
  <2>6. q[Cardinality(P)].value # "bad"
    BY <1>3, <2>5
  <2> QED BY <2>1, <2>6
<1>12. ASSUME NEW j \in own PROVE ~Faulty(file, own, j)
  <2>1. file[j].name \in DOMAIN most /\ NamedIn(file, own, file[j].name) <= most[file[j].name]
    BY <1>7
  <2>2. most[file[j].name] \in Nat
    BY <2>1, PluginConstants DEF most
  <2>3. NamedIn(file, own, file[j].name) \in Nat
    BY <1>5, <1>6, NameMore
  <2>4. ~(NamedIn(file, own, file[j].name) > most[file[j].name])
    <3> DEFINE a == NamedIn(file, own, file[j].name)
               b == most[file[j].name]
    <3>1. a \in Nat /\ b \in Nat /\ a <= b
      BY <2>1, <2>2, <2>3
    <3> HIDE DEF a, b
    <3>2. ~(a > b)
      BY <3>1
    <3> QED BY <3>2 DEF a, b
  <2>5. file[j].value \notin {"", "\t", "bad"}
    BY <1>7, <1>11
  <2> QED BY <2>1, <2>4, <2>5 DEF Faulty, NamedIn, most
<1>13. Proper(file, h, r.id, q)
  BY <1>4, <1>6, <1>12 DEF Proper, own
<1> QED BY <1>2, <1>4, <1>13 DEF n, q

\* A refusal accepts nothing.
LEMMA SoundRefusal ==
    ASSUME NEW told, IsSeq(told), NEW seen, NEW tx, NEW fin, IsSound(told, seen, tx, fin),
           NEW x, x.code # Nil
    PROVE  IsSound(Append(told, x), seen, tx, fin)
<1> DEFINE a == Append(told, x)
           n == Len(told)
<1>1. /\ DOMAIN told = 1 .. n /\ n \in Nat /\ DOMAIN a = 1 .. n + 1 /\ a[n + 1] = x /\ \A i \in 1 .. n : a[i] = told[i]
  <2>1. PICK S : told \in Seq(S)
    BY DEF IsSeq
  <2>2. told \in Seq(S \cup {x})
    BY <2>1, SeqMonotonic
  <2> QED BY <2>2, LenProperties, AppendProperties
<1> HIDE DEF a, n
<1>2. \A i \in DOMAIN a : a[i].code = Nil => i \in DOMAIN told /\ a[i] = told[i]
  BY <1>1
<1>3. IsSound(a, seen, tx, fin)
  BY <1>2 DEF IsSound
<1> QED BY <1>3 DEF a

\* A new id may be accepted, with a record that is written.
LEMMA SoundRecord ==
    ASSUME NEW told, IsSeq(told), NEW seen, NEW tx, NEW fin, IsSound(told, seen, tx, fin),
           NEW x, x.id \notin seen, IsWritten(tx, fin, x.id, x.fields)
    PROVE  IsSound(Append(told, x), seen \cup {x.id}, tx, fin)
<1> DEFINE a == Append(told, x)
           n == Len(told)
<1>1. /\ DOMAIN told = 1 .. n /\ n \in Nat /\ DOMAIN a = 1 .. n + 1 /\ a[n + 1] = x /\ \A i \in 1 .. n : a[i] = told[i]
  <2>1. PICK S : told \in Seq(S)
    BY DEF IsSeq
  <2>2. told \in Seq(S \cup {x})
    BY <2>1, SeqMonotonic
  <2> QED BY <2>2, LenProperties, AppendProperties
<1> HIDE DEF a, n
<1>2. \A i \in DOMAIN a : i = n + 1 \/ i \in DOMAIN told
  BY <1>1
<1>3. \A i \in DOMAIN told : a[i] = told[i] /\ (told[i].code = Nil => told[i].id \in seen)
  BY <1>1 DEF IsSound
<1>4. \A i \in DOMAIN a : a[i].code = Nil =>
        a[i].id \in seen \cup {x.id} /\ IsWritten(tx, fin, a[i].id, a[i].fields)
  BY <1>1, <1>2, <1>3 DEF IsSound
<1>5. \A i, j \in DOMAIN a : a[i].code = Nil /\ a[j].code = Nil /\ a[i].id = a[j].id => i = j
  BY <1>1, <1>2, <1>3 DEF IsSound
<1>6. IsSound(a, seen \cup {x.id}, tx, fin)
  BY <1>4, <1>5 DEF IsSound
<1> QED BY <1>6 DEF a

\* A record that ends is refused, or it is written.
LEMMA SoundEmit ==
    ASSUME NEW r, IsReader(r), IsSeq(r.told), NEW tx, NEW fin, IsSound(r.told, r.seen, tx, fin),
           r.id # Nil /\ Verdict(r) = Nil => r.id \notin r.seen /\ IsWritten(tx, fin, r.id, r.fields)
    PROVE  IsSound(conf_emit(r).told, conf_emit(r).seen, tx, fin)
<1>1. CASE r.id = Nil
  BY <1>1, EmitGives
<1>2. CASE r.id # Nil
  <2> DEFINE x == [id |-> r.id, fields |-> r.fields, code |-> Verdict(r)]
  <2>1. /\ conf_emit(r).told = Append(r.told, x)
        /\ conf_emit(r).seen = IF Verdict(r) = Nil THEN r.seen \cup {r.id} ELSE r.seen
    BY <1>2 DEF conf_emit, IsReader, Is
  <2>2. x.id = r.id /\ x.fields = r.fields /\ x.code = Verdict(r)
    OBVIOUS
  <2> HIDE DEF x
  <2>3. CASE Verdict(r) = Nil
    BY <1>2, <2>1, <2>2, <2>3, SoundRecord
  <2>4. CASE Verdict(r) # Nil
    BY <2>1, <2>2, <2>4, SoundRefusal
  <2> QED BY <2>3, <2>4
<1> QED BY <1>1, <1>2

\* What is written stays written.
LEMMA WrittenStays ==
    ASSUME NEW L, NEW tx \in Seq(Seq(L)), tx # <<>>, NEW id, NEW fields, IsWritten(tx, FALSE, id, fields)
    PROVE  /\ \A l \in L : IsWritten(LineAdded(tx, l), FALSE, id, fields)
           /\ IsWritten(Append(tx, <<>>), FALSE, id, fields)
           /\ IsWritten(tx, TRUE, id, fields)
<1> DEFINE m == Len(tx)
<1>1. /\ m \in Nat \ {0} /\ DOMAIN tx = 1 .. m /\ \A i \in 1 .. m : tx[i] \in Seq(L)
  BY EmptySeq, LenProperties, ElementOfSeq
<1>2. PICK n \in DOMAIN tx : \E h \in DOMAIN tx[n] :
         (n < m \/ Followed(tx[n], h, Len(tx[n]))) /\ Proper(tx[n], h, id, fields)
  BY DEF IsWritten
<1>3. PICK h \in DOMAIN tx[n] : (n < m \/ Followed(tx[n], h, Len(tx[n]))) /\ Proper(tx[n], h, id, fields)
  BY <1>2
<1>4. ASSUME NEW l \in L PROVE IsWritten(LineAdded(tx, l), FALSE, id, fields)
  <2> DEFINE ty == LineAdded(tx, l)
  <2>1. /\ DOMAIN ty = 1 .. m /\ Len(ty) = m /\ ty[m] = Append(tx[m], l)
        /\ \A i \in 1 .. m : i # m => ty[i] = tx[i]
    BY LineText
  <2> HIDE DEF ty, m
  <2>2. CASE n # m
    <3>1. ty[n] = tx[n] /\ n < Len(ty) /\ n \in DOMAIN ty
      BY <1>1, <2>1, <2>2
    <3> QED BY <1>3, <3>1 DEF IsWritten, ty
  <2>3. CASE n = m
    <3> DEFINE file == tx[n]
               F == Append(file, l)
    <3>1. file \in Seq(L) /\ h \in 1 .. Len(file) /\ Followed(file, h, Len(file)) /\ ty[n] = F /\ n \in DOMAIN ty
      BY <1>1, <1>2, <1>3, <2>1, <2>3, LenProperties
    <3>2. Proper(F, h, id, fields)
      BY <1>3, <3>1, ProperStays
    <3>3. Len(F) = Len(file) + 1 /\ DOMAIN F = 1 .. Len(file) + 1 /\ Len(file) \in Nat /\ \A i \in 1 .. Len(file) : F[i] = file[i]
      BY <3>1, LineMore
    <3> HIDE DEF file, F
    <3>4. Followed(F, h, Len(F)) /\ h \in DOMAIN F
      <4>1. PICK j \in h + 1 .. Len(file) : file[j].kind = "header"
        BY <3>1 DEF Followed
      <4>2. j \in 1 .. Len(file) /\ j \in h + 1 .. Len(F)
        BY <3>1, <3>3, <4>1
      <4> QED BY <3>1, <3>3, <4>1, <4>2 DEF Followed
    <3> QED BY <3>1, <3>2, <3>4 DEF IsWritten, ty
  <2> QED BY <2>2, <2>3 DEF ty
<1>5. IsWritten(Append(tx, <<>>), FALSE, id, fields)
  <2> DEFINE ty == Append(tx, <<>>)
  <2>1. DOMAIN ty = 1 .. m + 1 /\ Len(ty) = m + 1 /\ \A i \in 1 .. m : ty[i] = tx[i]
    BY <1>1, EmptySeq, AppendProperties
  <2> HIDE DEF ty, m
  <2>2. ty[n] = tx[n] /\ n < Len(ty) /\ n \in DOMAIN ty
    BY <1>1, <1>2, <2>1
  <2> QED BY <1>3, <2>2 DEF IsWritten, ty
<1>6. IsWritten(tx, TRUE, id, fields)
  BY <1>2, <1>3 DEF IsWritten
<1> QED BY <1>4, <1>5, <1>6

\* So does what was told of it.
LEMMA SoundStays ==
    ASSUME NEW L, NEW tx \in Seq(Seq(L)), tx # <<>>, NEW told, NEW seen, IsSound(told, seen, tx, FALSE)
    PROVE  /\ \A l \in L : IsSound(told, seen, LineAdded(tx, l), FALSE)
           /\ IsSound(told, seen, Append(tx, <<>>), FALSE)
           /\ IsSound(told, seen, tx, TRUE)
BY WrittenStays DEF IsSound

\* Why a file is refused is always said.
LEMMA RefusalSays == \A k \in Codes : Refusal("file", k).code # Nil
BY PluginConstants DEF Refusal

\* A line tells of a record only when that is written.
LEMMA LineSound ==
    ASSUME NEW r, IsReader(r), IsSeq(r.told), NEW tx, IsSound(r.told, r.seen, tx, FALSE), NEW l,
           l.kind = "header" /\ ~r.dropped /\ r.id # Nil /\ Verdict(r) = Nil =>
              r.id \notin r.seen /\ IsWritten(tx, FALSE, r.id, r.fields)
    PROVE  LET e == conf_read_line(r, l) IN IsSound(e.told, e.seen, tx, FALSE)
<1> DEFINE e == conf_read_line(r, l)
           long == Refusal("file", "line-too-long")
           none == Refusal("file", "no-header")
           bad == Refusal("file", "bad-id")
<1>1. long.code # Nil /\ none.code # Nil /\ bad.code # Nil
  BY RefusalSays DEF Codes
<1> HIDE DEF long, none, bad
<1>2. CASE r.dropped
  BY <1>2 DEF conf_read_line
<1>3. CASE ~r.dropped /\ l.kind = "long"
  <2> DEFINE a == [r EXCEPT !.id = Nil, !.dropped = TRUE]
  <2>1. e = Tell(a, long)
    BY <1>3 DEF conf_read_line, long
  <2>2. Is(a, Nil, r.fields, r.code, r.header, TRUE, r.seen, r.told)
    BY DEF IsReader, Is
  <2> HIDE DEF a, e
  <2>3. Is(e, Nil, r.fields, r.code, r.header, TRUE, r.seen, Append(r.told, long))
    BY <2>1, <2>2 DEF Tell, Is
  <2>4. e.told = Append(r.told, long) /\ e.seen = r.seen
    BY <2>3 DEF Is
  <2> QED BY <1>1, <2>4, SoundRefusal DEF e
<1>4. CASE ~r.dropped /\ l.kind = "header"
  <2> DEFINE m == conf_emit(r)
             d == [m EXCEPT !.code = Nil, !.header = TRUE]
             b == IF conf_id_ok(l.id) THEN Nil ELSE "bad-id"
  <2>1. IsSound(m.told, m.seen, tx, FALSE)
    BY <1>4, SoundEmit
  <2>2. IsSeq(m.told)
    <3>1. BadId # Nil
      BY PluginConstants
    <3>2. IsSeq(m.told) /\ ToldIn(m.told, BadId) = Balance(r, BadId)
      BY <3>1, EmitBalance
    <3> QED BY <3>2
  <2>3. Is(m, Nil, <<>>, r.code, r.header, r.dropped, m.seen, m.told)
    BY EmitGives
  <2>4. e = IF l.id = Nil THEN Tell(d, bad) ELSE [d EXCEPT !.id = l.id, !.code = b]
    BY <1>4 DEF conf_read_line, CHeader, bad
  <2> HIDE DEF m, b, e
  <2>5. Is(d, Nil, <<>>, Nil, TRUE, r.dropped, m.seen, m.told)
    BY <2>3 DEF Is
  <2> HIDE DEF d
  <2>6. CASE l.id = Nil
    <3>1. Is(e, Nil, <<>>, Nil, TRUE, r.dropped, m.seen, Append(m.told, bad))
      BY <2>4, <2>5, <2>6 DEF Tell, Is
    <3>2. e.told = Append(m.told, bad) /\ e.seen = m.seen
      BY <3>1 DEF Is
    <3> QED BY <1>1, <2>1, <2>2, <3>2, SoundRefusal DEF e
  <2>7. CASE l.id # Nil
    <3>1. Is(e, l.id, <<>>, b, TRUE, r.dropped, m.seen, m.told)
      BY <2>4, <2>5, <2>7 DEF Is
    <3>2. e.told = m.told /\ e.seen = m.seen
      BY <3>1 DEF Is
    <3> QED BY <2>1, <3>2 DEF e
  <2> QED BY <2>6, <2>7
<1>5. CASE ~r.dropped /\ l.kind = "field"
  <2>1. e = CField(r, l)
    BY <1>5 DEF conf_read_line
  <2>2. CASE ~r.header
    <3> DEFINE a == [r EXCEPT !.dropped = TRUE]
    <3>1. e = Tell(a, none)
      BY <2>1, <2>2 DEF CField, none
    <3>2. Is(a, r.id, r.fields, r.code, r.header, TRUE, r.seen, r.told)
      BY DEF IsReader, Is
    <3> HIDE DEF a, e
    <3>3. Is(e, r.id, r.fields, r.code, r.header, TRUE, r.seen, Append(r.told, none))
      BY <3>1, <3>2 DEF Tell, Is
    <3>4. e.told = Append(r.told, none) /\ e.seen = r.seen
      BY <3>3 DEF Is
    <3> QED BY <1>1, <3>4, SoundRefusal DEF e
  <2>3. CASE r.header
    <3>1. e.told = r.told /\ e.seen = r.seen
      <4> DEFINE o == field_code(r.fields, l)
                 q == Append(r.fields, [name |-> l.name, value |-> l.value])
      <4>1. e = r \/ e = [r EXCEPT !.code = o] \/ e = [r EXCEPT !.fields = q]
        BY <2>1, <2>3 DEF CField
      <4> HIDE DEF o, q, e
      <4> QED BY <4>1 DEF IsReader, Is
    <3> QED BY <3>1
  <2> QED BY <2>2, <2>3
<1>6. CASE ~r.dropped /\ l.kind \notin {"long", "header", "field"}
  BY <1>6 DEF conf_read_line
<1> QED BY <1>2, <1>3, <1>4, <1>5, <1>6

\* What is accepted stays sound.
LEMMA SoundStep == ASSUME SoundInv, [RecordsNext]_recordsVars PROVE SoundInv'
<1>1. TellInv' /\ TellInv /\ corpus \in Corpora
  BY TellStep DEF SoundInv
<1>2. corpus' = corpus
  BY DEF RecordsNext, ReadLine, NextFile, EndOfDirectory, recordsVars
<1> DEFINE L == corpus.lines
<1>3. text \in Seq(Seq(L)) /\ text # <<>> /\ IsReader(c) /\ IsSeq(c.told)
  BY <1>1 DEF TellInv, ReadersInv
<1>4. Len(text) \in Nat \ {0} /\ Len(text) \in DOMAIN text /\ Last = text[Len(text)] /\ Last \in Seq(L)
  BY <1>3, EmptySeq, LenProperties, ElementOfSeq DEF Last
<1>5. IsSound(c.told, c.seen, text, done)
  BY DEF SoundInv
<1>6. /\ Begun(c', Last') => Begun(c, Last)'
      /\ IsSound(c'.told, c'.seen, text', done') => IsSound(c.told, c.seen, text, done)'
  BY <1>2 DEF Begun, IsSound, IsWritten, Proper, Faulty, AreOwn, Admissible, Followed
<1>7. ASSUME ~c.dropped, c.id # Nil, Verdict(c) = Nil, ~done
      PROVE  /\ c.id \notin c.seen
             /\ \E h \in 1 .. Len(Last) : ~Followed(Last, h, Len(Last)) /\ Proper(Last, h, c.id, c.fields)
  <2>1. Begun(c, Last)
    BY <1>7 DEF SoundInv
  <2> HIDE DEF L
  <2> QED BY <1>1, <1>4, <1>7, <2>1, EmitProper
<1> HIDE DEF L
<1>8. CASE ReadLine
  <2>1. PICK l \in L : text' = LineAdded(text, l) /\ c' = conf_read_line(c, l)
    BY <1>8 DEF LineAdded, ReadLine, L
  <2>2. done = FALSE /\ done' = FALSE /\ Begun(c, Last)
    <3>1. ~done /\ done' = done
      BY <1>8 DEF ReadLine
    <3> QED BY <3>1 DEF SoundInv
  <2>3. text' \in Seq(Seq(L)) /\ Len(text') = Len(text) /\ Last' = Append(Last, l)
    BY <1>3, <1>4, <2>1, LineText DEF Last
  <2>4. IsSound(c.told, c.seen, text', FALSE)
    BY <1>3, <1>5, <2>1, <2>2, SoundStays
  <2>5. ASSUME l.kind = "header", ~c.dropped, c.id # Nil, Verdict(c) = Nil
        PROVE  c.id \notin c.seen /\ IsWritten(text', FALSE, c.id, c.fields)
    <3>1. PICK h \in 1 .. Len(Last) : Proper(Last, h, c.id, c.fields)
      BY <1>7, <2>2, <2>5
    <3>2. Proper(Last', h, c.id, c.fields)
      BY <1>4, <2>3, <2>5, <3>1, ProperStays
    <3>3. /\ Len(Last) \in Nat /\ Len(Last') = Len(Last) + 1 /\ DOMAIN Last' = 1 .. Len(Last) + 1
          /\ Last'[Len(Last) + 1] = l
      BY <1>4, <2>3, LineMore
    <3>4. h \in DOMAIN Last' /\ Followed(Last', h, Len(Last'))
      <4>1. Len(Last) + 1 \in h + 1 .. Len(Last')
        BY <3>3
      <4> QED BY <2>5, <3>3, <4>1 DEF Followed
    <3>5. Last' = text'[Len(text')] /\ Len(text') \in DOMAIN text'
      BY <1>4, <2>3, LenProperties DEF Last
    <3>6. IsWritten(text', FALSE, c.id, c.fields)
      BY <3>2, <3>4, <3>5 DEF IsWritten
    <3> QED BY <1>7, <2>2, <2>5, <3>6
  <2>6. IsSound(c'.told, c'.seen, text', FALSE)
    BY <1>3, <2>1, <2>4, <2>5, LineSound
  <2>7. Begun(c', Last')
    BY <1>1, <1>3, <1>4, <2>1, <2>2, <2>3, LineBegun
  <2> QED BY <1>1, <1>2, <1>6, <2>2, <2>6, <2>7 DEF SoundInv
<1>9. CASE NextFile \/ EndOfDirectory
  <2> DEFINE e == conf_read_end(c)
             y == IF c.dropped THEN c.seen ELSE conf_emit(c).seen
             x == IF c.dropped THEN c.told ELSE conf_emit(c).told
  <2>1. c' = e /\ ~done
    BY <1>9 DEF NextFile, EndOfDirectory
  <2>2. done = FALSE
    BY <2>1
  <2>3. Is(e, Nil, <<>>, Nil, FALSE, FALSE, y, x)
    BY <1>3, EndGives
  <2>4. ASSUME NEW tx, NEW fin, IsSound(c.told, c.seen, tx, fin),
               \A h \in 1 .. Len(Last) : Proper(Last, h, c.id, c.fields) => IsWritten(tx, fin, c.id, c.fields)
        PROVE  IsSound(x, y, tx, fin)
    <3>1. CASE c.dropped
      BY <2>4, <3>1
    <3>2. CASE ~c.dropped
      <4>1. c.id # Nil /\ Verdict(c) = Nil => c.id \notin c.seen /\ IsWritten(tx, fin, c.id, c.fields)
        BY <1>7, <2>1, <2>4, <3>2
      <4>2. IsSound(conf_emit(c).told, conf_emit(c).seen, tx, fin)
        BY <1>3, <2>4, <4>1, SoundEmit
      <4> QED BY <3>2, <4>2
    <3> QED BY <3>1, <3>2
  <2> HIDE DEF e, x, y
  <2>5. e.told = x /\ e.seen = y /\ e.id = Nil
    BY <2>3 DEF Is
  <2>6. Begun(c', Last')
    BY <2>1, <2>5 DEF Begun
  <2>10. DOMAIN Last = 1 .. Len(Last)
    BY <1>4, LenProperties
  <2>7. CASE NextFile
    <3>1. text' = Append(text, <<>>) /\ done' = FALSE
      BY <2>2, <2>7 DEF NextFile
    <3>2. IsSound(c.told, c.seen, text', FALSE)
      BY <1>3, <1>5, <2>2, <3>1, SoundStays
    <3>3. Len(text) \in DOMAIN text' /\ text'[Len(text)] = Last /\ Len(text) < Len(text')
      BY <1>3, <1>4, <3>1, EmptySeq, AppendProperties
    <3>4. IsSound(x, y, text', FALSE)
      BY <2>4, <2>10, <3>2, <3>3 DEF IsWritten
    <3> QED BY <1>1, <1>2, <1>6, <2>1, <2>5, <2>6, <3>1, <3>4 DEF SoundInv
  <2>8. CASE EndOfDirectory
    <3>1. text' = text /\ done' = TRUE
      BY <2>8 DEF EndOfDirectory
    <3>2. IsSound(c.told, c.seen, text', TRUE)
      BY <1>3, <1>5, <2>2, <3>1, SoundStays
    <3>3. IsSound(x, y, text', TRUE)
      BY <1>4, <2>4, <2>10, <3>1, <3>2 DEF IsWritten
    <3> QED BY <1>1, <1>2, <1>6, <2>1, <2>5, <3>1, <3>3 DEF SoundInv
  <2> QED BY <1>9, <2>7, <2>8
<1>10. CASE UNCHANGED recordsVars
  <2>1. c' = c /\ text' = text /\ done' = done
    BY <1>10 DEF recordsVars
  <2>2. Last' = Last
    BY <2>1 DEF Last
  <2>3. ~done' => Begun(c', Last')
    BY <2>1, <2>2 DEF SoundInv
  <2> QED BY <1>1, <1>2, <1>5, <1>6, <2>1, <2>3 DEF SoundInv
<1> QED BY <1>8, <1>9, <1>10 DEF RecordsNext

\* It begins with nothing accepted.
LEMMA SoundStart == RecordsInit => SoundInv
<1> SUFFICES ASSUME RecordsInit PROVE SoundInv
  OBVIOUS
<1>1. Is(Fresh, Nil, <<>>, Nil, FALSE, FALSE, {}, <<>>) /\ c = Fresh /\ corpus \in Corpora
  BY DEF Fresh, Is, RecordsInit
<1>2. c.id = Nil /\ c.told = <<>>
  BY <1>1 DEF Is
<1>3. IsSound(c.told, c.seen, text, done)
  BY <1>2, EmptySeq DEF IsSound
<1>4. Begun(c, Last)
  BY <1>2 DEF Begun
<1> QED BY <1>1, <1>3, <1>4, TellStart DEF SoundInv

(* A record the panel accepts is one whose own lines are all in order,     *)
(* whatever records, files and stray lines surround it, and it has exactly *)
(* their values; no id is accepted twice in a directory.                   *)
THEOREM AcceptedAreWritten == RecordsSpec => []AcceptedAreSound
<1>1. ASSUME SoundInv PROVE AcceptedAreSound
  <2>1. IsSound(c.told, c.seen, text, done)
    BY <1>1 DEF SoundInv
  <2>2. \A i, j \in Accepted : c.told[i].id = c.told[j].id => i = j
    BY <2>1 DEF IsSound, Accepted
  <2>3. ASSUME NEW i \in Accepted PROVE IsWritten(text, done, c.told[i].id, c.told[i].fields)
    BY <2>1 DEF IsSound, Accepted
  <2>4. ASSUME NEW i \in Accepted
        PROVE  \E n \in DOMAIN text : \E h \in DOMAIN text[n] : Proper(text[n], h, c.told[i].id, c.told[i].fields)
    BY <2>3 DEF IsWritten
  <2> QED BY <2>2, <2>4 DEF AcceptedAreSound, Proper
<1>2. SoundInv => AcceptedAreSound
  BY <1>1
<1>3. SoundInv /\ [RecordsNext]_recordsVars => SoundInv'
  BY SoundStep
<1> QED BY <1>2, <1>3, SoundStart, PTL DEF RecordsSpec
=============================================================================
