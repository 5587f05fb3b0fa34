----------------------------- MODULE PagePatch ------------------------------
(***************************************************************************)
(* Serving the client's scripts: hook_webpatch.c opens a script of the     *)
(* client's pages, webpatch.c replaces the parts it knows (gates), with    *)
(* the lists the panel shows, and nativeplatform.c asks a helper process   *)
(* for the platforms of the games.  What goes wrong on the way serves the  *)
(* file Valve shipped.  Several threads of the client open scripts at a    *)
(* time; lists and flags are thread-local and outlive an open.             *)
(***************************************************************************)
EXTENDS PanelOffers

CONSTANTS
    Threads,
    Gates,         \* gates of each shape, by kind: [must, may, page]
    Fixes,         \* fixes that go with any chunk
    NativeFixes,   \* the two forms of the Apple filter, which need the platform lists
    Anchors,       \* parts of the Windows filter of the library
    Toolbars       \* the two forms of its button, one of which has to match

ASSUME PageConstants ==
    /\ DOMAIN Gates = {"forcetool", "selecttool"}
    /\ \A w \in Worlds : \A ch \in w.chunks : ch.shapes \subseteq DOMAIN Gates

Members(s) == Gates[s].must \cup Gates[s].may \cup Gates[s].page

(* A gate is an entry of one table, and of one kind.                       *)
ASSUME GatesApart ==
    /\ \A s \in DOMAIN Gates :
          /\ Gates[s].page \cap (Gates[s].must \cup Gates[s].may) = {}
          /\ Members(s) \cap (Fixes \cup NativeFixes \cup Anchors \cup Toolbars) = {}
          /\ \A r \in DOMAIN Gates : r # s => Members(r) \cap Members(s) = {}
    /\ (Fixes \cup NativeFixes) \cap (Anchors \cup Toolbars) = {}

VARIABLES
    pc,            \* where each thread is
    chunk,         \* the script it has open: [shapes, ok, barrel], ok what matches as often as expected
    inputs,        \* thread-local: tools, feats, vars
    built,         \* thread-local: g_feat_ready_done and g_var_done that are set
    runs,          \* native fixes still to ask the helper for
    lists,         \* the platform lists of this open, TRUE when there
    helper,        \* the helper process of the thread
    late,          \* its deadline has passed
    quiet,         \* no change of the disk since the open began
    page           \* the page that was served, until a script is opened, or None

threadVars == <<pc, chunk, inputs, built, runs, lists, helper, late, quiet>>
vars == <<offers, threadVars, page>>

NoPage == [tools |-> {}, feats |-> None, vars |-> {}]

-----------------------------------------------------------------------------
(* Which gates are put in, from what a chunk matches.                      *)

(* Gates of a set that a chunk matches as often as it should: names are    *)
(* captured, since the client's scripts are minified.                      *)
matched(ch, gates) == gates \cap ch.ok

ShapeOf(ch) == CHOOSE s \in ch.shapes : TRUE
HasShape(ch) == ch.shapes # {}

(* The two forms the compatibility page has shipped in.                    *)
gates_forcetool == Gates["forcetool"]
gates_selecttool == Gates["selecttool"]
GatesOf(ch) == IF ShapeOf(ch) = "forcetool" THEN gates_forcetool ELSE gates_selecttool

(* Fixes that any chunk may need, and what the library's filter takes.     *)
g_fixes == Fixes \cup NativeFixes
g_library_filters == Anchors \cup Toolbars

(* Some gate of the shape that has to be there is not.                     *)
drifted(ch) == HasShape(ch) /\ matched(ch, GatesOf(ch).must) # GatesOf(ch).must

PagePartly(ch) == matched(ch, GatesOf(ch).page)

(* settle_page: the settings page is put in whole, with Steam's component  *)
(* barrel, or not at all.                                                  *)
settle_page(ch) ==
    IF matched(ch, GatesOf(ch).page) = GatesOf(ch).page /\ ch.barrel THEN GatesOf(ch).page ELSE {}

gates_on(ch) ==
    IF HasShape(ch) THEN GatesOf(ch).must \cup matched(ch, GatesOf(ch).may) \cup settle_page(ch) ELSE {}

(* The Apple filter goes by the platform lists, so it needs them.          *)
fixes_on(ch, have) == matched(ch, g_fixes) \ (IF have THEN {} ELSE NativeFixes)

(* The Windows filter of the library: the Apple filter, every anchor and   *)
(* exactly one of the toolbars.                                            *)
library_on(ch, have) ==
    IF /\ fixes_on(ch, have) \cap NativeFixes # {}
       /\ matched(ch, Anchors) = Anchors
       /\ Cardinality(matched(ch, Toolbars)) = 1
    THEN matched(ch, g_library_filters) ELSE {}

(* Whether there is anything to patch (a chunk with both shapes is left).  *)
patches(ch, have) ==
    /\ Cardinality(ch.shapes) <= 1
    /\ HasShape(ch) \/ fixes_on(ch, have) # {}
    /\ ~drifted(ch)

-----------------------------------------------------------------------------
(* An open.  What fails falls through to the real file.                    *)

Goto(t, l) == pc' = [pc EXCEPT ![t] = l]

(* An open returns, and what it held with it; lists and flags stay.        *)
Return(t) ==
    /\ Goto(t, "idle")
    /\ chunk' = [chunk EXCEPT ![t] = None] /\ quiet' = [quiet EXCEPT ![t] = TRUE]
    /\ lists' = [lists EXCEPT ![t] = FALSE] /\ late' = [late EXCEPT ![t] = FALSE]
    /\ runs' = [runs EXCEPT ![t] = 0]

(* try_serve: a script of the client's pages, opened to be read.           *)
Open(t) ==
    /\ pc[t] = "idle"
    /\ \E ch \in world.chunks : chunk' = [chunk EXCEPT ![t] = ch]
    /\ Goto(t, "publish")
    /\ page' = None /\ launch' = None          \* observed until here
    /\ UNCHANGED <<world, variant, plugin, disk, inputs, built, runs, lists, helper, late, quiet>>

(* drain_fd fails; out of memory, no room to stage the patched bytes.      *)
Fail(t) ==
    /\ pc[t] \in {"publish", "expand", "spill"}
    /\ Return(t)
    /\ UNCHANGED <<offers, page, inputs, built, helper>>

(* np_compatpage_publish: the tools, and so the variants' list is old.     *)
(* The defaults it publishes too are ToolDefaults'.                        *)
Publish(t) ==
    /\ pc[t] = "publish"
    /\ inputs' = [inputs EXCEPT ![t].tools = Tools]
    /\ built' = [built EXCEPT ![t] = @ \ {"vars"}]
    /\ Goto(t, "begin")
    /\ UNCHANGED <<offers, page, chunk, runs, lists, helper, late, quiet>>

NoReset(t) == UNCHANGED built

(* np_webpatch_transform begins by forgetting the lists of the last page.  *)
ResetBuilt(t) == built' = [built EXCEPT ![t] = {}]

Begin(t) ==
    /\ pc[t] = "begin"
    /\ ResetBuilt(t)
    /\ IF Cardinality(chunk[t].shapes) > 1 THEN Return(t)
       ELSE /\ runs' = [runs EXCEPT ![t] = Cardinality(matched(chunk[t], NativeFixes))]
            /\ Goto(t, "fixes")
            /\ UNCHANGED <<chunk, lists, late, quiet>>
    /\ UNCHANGED <<offers, page, inputs, helper>>

(* For each form of the Apple filter that matches, the lists are read      *)
(* anew; the last answer counts.                                           *)
Spawn(t) ==
    /\ pc[t] = "fixes" /\ runs[t] > 0
    /\ runs' = [runs EXCEPT ![t] = @ - 1]
    /\ lists' = [lists EXCEPT ![t] = FALSE]
    /\ \/ Goto(t, "read") /\ helper' = [helper EXCEPT ![t] = "runs"] /\ late' = [late EXCEPT ![t] = FALSE]
       \/ UNCHANGED <<pc, helper, late>>        \* no pipe, no helper
    /\ UNCHANGED <<offers, page, chunk, inputs, built, quiet>>

(* read_output: the helper's output ends, or the time is up, or it prints  *)
(* too much.  With the time up nothing more is read.                       *)
ReadOutput(t) ==
    /\ pc[t] = "read"
    /\ \/ ~late[t] /\ helper[t] # "runs" /\ UNCHANGED helper
       \/ late[t] /\ helper' = [helper EXCEPT ![t] = "killed"]
       \/ helper[t] = "runs" /\ helper' = [helper EXCEPT ![t] = "killed"]
    /\ Goto(t, "wait")
    /\ UNCHANGED <<offers, page, chunk, inputs, built, runs, lists, late, quiet>>

WaitForever(t) ==
    /\ pc[t] = "wait"
    /\ helper[t] \in {"exited", "failed", "killed"}
    /\ \E good \in BOOLEAN : lists' = [lists EXCEPT ![t] = good /\ helper[t] = "exited"]
    /\ helper' = [helper EXCEPT ![t] = "none"]
    /\ Goto(t, "fixes")
    /\ UNCHANGED <<offers, page, chunk, inputs, built, runs, late, quiet>>

(* run_helper waits for the process: one that exits well and printed the   *)
(* two lists counts, one that is late is killed and waited for.            *)
WaitHelper(t) ==
    /\ pc[t] = "wait"
    /\ \/ helper[t] = "exited" /\ \E good \in BOOLEAN : lists' = [lists EXCEPT ![t] = good]
       \/ helper[t] \in {"failed", "killed"} /\ UNCHANGED lists
       \/ helper[t] = "closed" /\ late[t] /\ UNCHANGED lists
    /\ helper' = [helper EXCEPT ![t] = "none"]
    /\ Goto(t, "fixes")
    /\ UNCHANGED <<offers, page, chunk, inputs, built, runs, late, quiet>>

(* The gates are counted: nothing of ours, or moved by an update, or on.   *)
Settle(t) ==
    /\ pc[t] = "fixes" /\ runs[t] = 0
    /\ IF patches(chunk[t], lists[t])
       THEN Goto(t, "expand") /\ UNCHANGED <<chunk, runs, lists, late, quiet>>
       ELSE Return(t)
    /\ UNCHANGED <<offers, page, inputs, built, helper>>

(* The first marker of a list builds it (marker_text).                     *)
BuildFeats(t) ==
    /\ pc[t] = "expand" /\ HasShape(chunk[t]) /\ "feats" \notin built[t]
    /\ inputs' = [inputs EXCEPT ![t].feats = feat_build]
    /\ built' = [built EXCEPT ![t] = @ \cup {"feats"}]
    /\ UNCHANGED <<offers, page, pc, chunk, runs, lists, helper, late, quiet>>

BuildVars(t) ==
    /\ pc[t] = "expand" /\ HasShape(chunk[t]) /\ "vars" \notin built[t]
    /\ inputs' = [inputs EXCEPT ![t].vars = var_build(inputs[t].tools)]
    /\ built' = [built EXCEPT ![t] = @ \cup {"vars"}]
    /\ UNCHANGED <<offers, page, pc, chunk, runs, lists, helper, late, quiet>>

Expanded(t) ==
    /\ pc[t] = "expand"
    /\ HasShape(chunk[t]) => built[t] = {"feats", "vars"}
    /\ Goto(t, "spill")
    /\ UNCHANGED <<offers, page, chunk, inputs, built, runs, lists, helper, late, quiet>>

(* The patched bytes are staged and served.                                *)
Serve(t) ==
    /\ pc[t] = "spill"
    /\ Return(t)
    /\ page' = [chunk |-> chunk[t], quiet |-> quiet[t], lists |-> lists[t],
                feats |-> inputs[t].feats, vars |-> inputs[t].vars,
                on |-> gates_on(chunk[t]) \cup fixes_on(chunk[t], lists[t]) \cup library_on(chunk[t], lists[t])]
    /\ UNCHANGED <<offers, inputs, built, helper>>

(* The helper process: it prints, closes its output and exits, well or     *)
(* not, or hangs; and the clock.                                           *)
HelperStep(t) ==
    /\ \/ helper[t] = "runs" /\ \E s \in {"closed", "failed"} : helper' = [helper EXCEPT ![t] = s]
       \/ helper[t] = "closed" /\ \E s \in {"exited", "failed"} : helper' = [helper EXCEPT ![t] = s]
    /\ UNCHANGED <<offers, page, pc, chunk, inputs, built, runs, lists, late, quiet>>

Deadline(t) ==
    /\ pc[t] \in {"read", "wait"} /\ ~late[t]
    /\ late' = [late EXCEPT ![t] = TRUE]
    /\ UNCHANGED <<offers, page, pc, chunk, inputs, built, runs, lists, helper, quiet>>

ThreadStep(t) ==
    \/ Publish(t) \/ Begin(t) \/ Spawn(t) \/ ReadOutput(t) \/ WaitHelper(t) \/ Settle(t)
    \/ BuildFeats(t) \/ BuildVars(t) \/ Expanded(t) \/ Serve(t) \/ Fail(t)

(* The disk changes under the page.                                        *)
Change ==
    /\ Disturb
    /\ quiet' = [t \in Threads |-> pc[t] = "idle"]
    /\ page' = IF page = None THEN None ELSE [page EXCEPT !.quiet = FALSE]
    /\ UNCHANGED <<pc, chunk, inputs, built, runs, lists, helper, late>>

LaunchGame == (\E t \in Tools : Launch(t)) /\ UNCHANGED <<threadVars, page>>

Init ==
    /\ OffersInit
    /\ pc = [t \in Threads |-> "idle"]
    /\ chunk = [t \in Threads |-> None]
    /\ inputs = [t \in Threads |-> NoPage]
    /\ built = [t \in Threads |-> {}]
    /\ runs = [t \in Threads |-> 0] /\ lists = [t \in Threads |-> FALSE]
    /\ helper = [t \in Threads |-> "none"] /\ late = [t \in Threads |-> FALSE]
    /\ quiet = [t \in Threads |-> TRUE]
    /\ page = None

Next ==
    \/ \E t \in Threads : Open(t) \/ ThreadStep(t) \/ HelperStep(t) \/ Deadline(t)
    \/ Change \/ LaunchGame

(* A thread that is in an open goes on, and time passes.  The helper may   *)
(* hang.                                                                   *)
Fairness == \A t \in Threads : WF_vars(ThreadStep(t)) /\ WF_vars(Deadline(t))

Spec == Init /\ [][Next]_vars /\ Fairness

-----------------------------------------------------------------------------
(* Shapes of the state.                                                    *)
TypeOK ==
    /\ OffersTypeOK
    /\ \A t \in Threads :
          /\ pc[t] \in {"idle", "publish", "begin", "fixes", "read", "wait", "expand", "spill"}
          /\ chunk[t] \in world.chunks \cup {None}
          /\ inputs[t].tools \subseteq Tools /\ inputs[t].vars \subseteq Tools
          /\ helper[t] \in {"none", "runs", "closed", "exited", "failed", "killed"}
          /\ helper[t] # "none" <=> pc[t] \in {"read", "wait"}

(* What is served is whole: of one form of the page every part that has to *)
(* be there, the settings page with all of its parts and the barrel or     *)
(* without any, the Windows filter with every anchor and one button, and   *)
(* nothing that reads the platform lists without them                      *)
(* (np_webpatch_transform, settle_page).                                   *)
PatchIsWhole ==
    page # None =>
        /\ \A s \in DOMAIN Gates :
              LET g == Gates[s]
              IN  IF page.chunk.shapes = {s}
                  THEN /\ g.must \subseteq page.on
                       /\ g.page \cap page.on # {} => g.page \subseteq page.on /\ page.chunk.barrel
                  ELSE (g.must \cup g.page \cup g.may) \cap page.on = {}
        /\ g_library_filters \cap page.on # {} =>
              Anchors \subseteq page.on /\ Cardinality(Toolbars \cap page.on) = 1
        /\ (NativeFixes \cup g_library_filters) \cap page.on # {} => page.lists
        /\ page.on \subseteq page.chunk.ok

(* A page shows the plugins and variants as they are, unless the disk      *)
(* changed after it was opened: no list of an earlier page of the thread   *)
(* is served again (marker_text, g_feat_ready_done, g_var_done).           *)
PageIsFresh ==
    page # None /\ page.quiet /\ HasShape(page.chunk) =>
        page.vars = var_build(Tools) /\ page.feats = feat_build

(* While nothing on the disk changes, the page and the script agree: no    *)
(* offered variant is refused for what its descriptor, its paths and the   *)
(* entitlements of the runner say, and one a launch lays, or begins to     *)
(* lay, was offered; of trees the panel walks whole.  What only the laying *)
(* tells, of a DLL, a signature or a folder that is not there, the panel   *)
(* does not ask.  And a page without the run script inserts the dylib the  *)
(* script would have loaded (var_build, feat_build; np_variant_read,       *)
(* np_variant_apple_hit, np_feat_requires).                                *)
OfferMatchesLaunch ==
    page # None /\ page.quiet /\ HasShape(page.chunk) /\ launch # None =>
        /\ src = None \/ Walked(src) = Laid(src) =>
              /\ launch.tool \in page.vars => launch.refused \notin {"read", "apple"}
              /\ launch.refused \notin {"read", "apple", "failed"} => launch.tool \in page.vars
        /\ page.feats.rq = launch.lib
        /\ plugin.inject /\ plugin.requires # <<>> => (page.feats.ready <=> launch.lib # None)

(* The client gets every script it opens, even when the helper hangs: an   *)
(* open waits for it no longer than its deadline (run_helper, "sp.js is    *)
(* held up until this returns").                                           *)
OpenReturns == \A t \in Threads : pc[t] # "idle" ~> pc[t] = "idle"
=============================================================================
