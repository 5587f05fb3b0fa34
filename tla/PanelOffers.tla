---------------------------- MODULE PanelOffers -----------------------------
(***************************************************************************)
(* Runner variants and plugins, as the panel offers them (var_build and    *)
(* feat_build in webpatch.c) and as a launch takes them (compat_run.sh).   *)
(* A variant is a tree of files laid over a copy of a runner.  The two     *)
(* programs look at the same disk, at different times and by rules each    *)
(* has for itself; the script builds too, and may refuse what it finds     *)
(* then: the body of a file is data, builtin (a DLL of Wine), native (one  *)
(* without its mark), code (signed, or to sign) or unsignable.  A path is  *)
(* the sequence of its folders and a name, below the folder the variant is *)
(* laid into.  PagePatch composes this with the page that shows the rows.  *)
(***************************************************************************)
EXTENDS Naturals, Sequences, FiniteSets

CONSTANTS
    Tools,         \* tools that have a runner: [name, build, arch]
    Worlds,        \* what there may be, together: [variants, trees, runners, plugins, installed, chunks]
                   \*   variants: [builds, removes, dst]; trees: sets of [dir, name, kind, body];
                   \*   runners: [dirs, files, restricted], what a runner's dst holds;
                   \*   plugins: [requires, inject]; installed: the paths that exist
    Arches,        \* known, the architectures a folder may be named for
    VarDepth,      \* folders the panel walks down, where the script has no limit
    None

ASSUME OfferConstants ==
    \A w \in Worlds :
        /\ \A d \in w.variants : d.dst \in {"lib/wine", "other"}
        /\ \A tree \in w.trees : \A f \in tree : Len(f.dir) \in Nat
        /\ \A p \in w.plugins : Len(p.requires) \in Nat /\ DOMAIN p.requires = 1 .. Len(p.requires)
        /\ \A r \in w.runners : r.restricted \subseteq r.files
ASSUME DepthConstant == VarDepth \in Nat
ASSUME NoneApart == None \notin {"read", "apple", "failed", "native", "unsignable", "nothing"}

VARIABLES
    world,         \* the one this is
    variant,       \* the variant's descriptor
    plugin,        \* the plugin's descriptor
    src,           \* its tree, or None when src is not there
    runner,        \* contents of the runners, by build
    there,         \* paths of plugins that exist
    launch         \* a launch: [tool, refused, built, lib], or None; refused and built: None, or why and what

disk == <<src, runner, there>>
offers == <<world, variant, plugin, disk, launch>>

Builds == {t.build : t \in Tools}
Path(f) == <<f.dir, f.name>>

(* Regular files that neither program passes over: no links, no dot        *)
(* entries.                                                                *)
Laid(tree) == {f \in tree : f.kind = "file"}

-----------------------------------------------------------------------------
(* Rules of the panel.                                                     *)

(* What its walks of a tree come to.                                       *)
Walked(tree) == {f \in Laid(tree) : Len(f.dir) <= VarDepth}

(* From a folder of the tree it counts anew.                               *)
var_holds_file(tree, top) == \E f \in Laid(tree) : f.dir # <<>> /\ Head(f.dir) = top /\ Len(f.dir) <= VarDepth + 1

Folders(tree) == {Head(f.dir) : f \in {g \in tree : g.dir # <<>>}}

(* The architecture a folder such as x86_64-windows is named for.          *)
var_arch_of(folder) == IF folder \in DOMAIN Arches THEN Arches[folder] ELSE None

(* A tree that names an architecture has to land one this runner runs.     *)
var_fits(d, tree, r, arch) ==
    LET held == {x \in Folders(tree) : var_holds_file(tree, x)}
        here == {x \in held : <<x>> \in r.dirs}
    IN  /\ \/ \E f \in Laid(tree) : f.dir = <<>> /\ <<>> \in r.dirs
           \/ here # {}
           \/ d.removes \cap r.files # {}
        /\ \/ \A x \in held : var_arch_of(x) = None
           \/ \E x \in here : var_arch_of(x) = arch

(* Files that carry the Steam bridge: ntdll and lsteamclient of any slot.  *)
var_bridge_path(d, p) ==
    d.dst = "lib/wine" /\ Len(p[1]) = 1 /\ var_arch_of(p[1][1]) # None /\ p[2] = "ntdll"

var_bridge_hit(d, tree) ==
    \/ \E p \in d.removes : var_bridge_path(d, p)
    \/ \E f \in Walked(tree) : var_bridge_path(d, Path(f))

(* Wine's own files, which only a variant that names its build replaces.   *)
var_wine_hit(d, tree, r) ==
    d.dst = "lib/wine" /\ \E f \in Walked(tree) : Path(f) \in r.files

(* Files with an entitlement only Apple can sign for.                      *)
var_apple_hit(tree, r) == \E f \in Walked(tree) : Path(f) \in r.restricted

-----------------------------------------------------------------------------
(* The panel.                                                              *)

Pinned(d, build) == d.builds = {} \/ build \in d.builds

OfferWithoutEntitlement(t) ==
    /\ Pinned(variant, t.build)
    /\ src # None
    /\ var_fits(variant, src, runner[t.build], t.arch)
    /\ ~(variant.builds = {} /\ var_wine_hit(variant, src, runner[t.build]))

(* Whether the row of the variant names this tool.                         *)
var_offered(t) ==
    /\ Pinned(variant, t.build)
    /\ src # None
    /\ var_fits(variant, src, runner[t.build], t.arch)
    /\ ~(variant.builds = {} /\ var_wine_hit(variant, src, runner[t.build]))
    /\ ~var_apple_hit(src, runner[t.build])

(* var_build: no row for a tree without files or one that touches the      *)
(* bridge; otherwise a row with the tools it fits, of those the page knows.*)
var_build(known) ==
    LET tree == IF src = None THEN {} ELSE src
    IN  IF (variant.removes = {} /\ Laid(tree) = {}) \/ var_bridge_hit(variant, tree) THEN {}
        ELSE {t \in known : var_offered(t)}

(* The first file a plugin requires that exists.                           *)
resolved(p) ==
    LET present == {i \in DOMAIN p.requires : p.requires[i] \in there}
    IN  IF present = {} THEN None ELSE p.requires[CHOOSE i \in present : \A j \in present : i <= j]

(* feat_build: whether the plugin is ready, and the dylib a page without   *)
(* the run script inserts itself.                                          *)
feat_build ==
    [ready |-> plugin.requires = <<>> \/ resolved(plugin) # None,
     rq |-> IF plugin.inject THEN resolved(plugin) ELSE None]

-----------------------------------------------------------------------------
(* The launch script.                                                      *)

np_variant_dir_arch(folder) == IF folder \in DOMAIN Arches THEN Arches[folder] ELSE None

(* np_variant_fits goes from entry to entry of the top of the tree.        *)
np_variant_fits(tree, r, arch) ==
    LET full  == {Head(f.dir) : f \in {g \in Laid(tree) : g.dir # <<>>}}
        lands == \/ <<>> \in r.dirs /\ \E f \in Laid(tree) : f.dir = <<>>
                 \/ \E x \in full : <<x>> \in r.dirs
                 \/ \E p \in variant.removes : p \in r.files
        named == \E x \in full : np_variant_dir_arch(x) # None
        fits  == \E x \in full : <<x>> \in r.dirs /\ np_variant_dir_arch(x) = arch
    IN  lands /\ (named => fits)

(* Its patterns for ntdll and lsteamclient, over the names to remove and   *)
(* over every file find prints.                                            *)
BridgeIgnoresRemoves(tree) ==
    /\ variant.dst = "lib/wine"
    /\ \E p \in {Path(f) : f \in Laid(tree)} :
          Len(p[1]) = 1 /\ np_variant_dir_arch(p[1][1]) # None /\ p[2] = "ntdll"

np_variant_bridge_hit(tree) ==
    /\ variant.dst = "lib/wine"
    /\ \E p \in variant.removes \cup {Path(f) : f \in Laid(tree)} :
          Len(p[1]) = 1 /\ np_variant_dir_arch(p[1][1]) # None /\ p[2] = "ntdll"

np_variant_wine_hit(tree, r) == variant.dst = "lib/wine" /\ {Path(f) : f \in Laid(tree)} \cap r.files # {}

np_variant_apple_hit(tree, r) == {Path(f) : f \in Laid(tree)} \cap r.restricted # {}

(* np_variant_read, in the script's order.                                 *)
np_variant_read(t) ==
    /\ variant.builds = {} \/ t.build \in variant.builds
    /\ src # None
    /\ np_variant_fits(src, runner[t.build], t.arch)
    /\ ~np_variant_bridge_hit(src)
    /\ ~(variant.builds = {} /\ np_variant_wine_hit(src, runner[t.build]))

(* np_variant_overlay on a copy of the runner: what is removed, then each  *)
(* file whose folder the runner has.  It refuses a DLL without Wine's mark,*)
(* code that cannot be signed, and a tree of which nothing belongs.        *)
Belongs(r) == {f \in Laid(src) : f.dir \in r.dirs}
Refusals(r) ==
    {b \in {"native", "unsignable"} : \E f \in Belongs(r) : f.body = b}
        \cup (IF Belongs(r) = {} /\ variant.removes = {} THEN {"nothing"} ELSE {})
np_variant_overlay(r) ==
    [kept |-> (r.files \ variant.removes) \ {Path(f) : f \in Belongs(r)},
     new |-> {Path(f) : f \in Belongs(r)}]

(* np_variant_build: why it leaves the game on the base runner, or None.   *)
(* A copy or a move may fail, or another launch hold the lock for too long.*)
np_variant_build(t) ==
    LET r == runner[t.build]
    IN  IF ~np_variant_read(t) THEN {"read"}
        ELSE {"failed"} \cup (IF np_variant_apple_hit(src, r) THEN {"apple"}
                              ELSE IF Refusals(r) # {} THEN Refusals(r) ELSE {None})

(* The dylib a switched-on plugin is loaded from.                          *)
np_feat_requires ==
    IF plugin.inject /\ \E i \in DOMAIN plugin.requires : plugin.requires[i] \in there
    THEN LET i == CHOOSE i \in DOMAIN plugin.requires :
                     /\ plugin.requires[i] \in there
                     /\ \A j \in 1 .. i - 1 : plugin.requires[j] \notin there
         IN  plugin.requires[i]
    ELSE None

(* np_variant_resolve with no build of it yet; a refusal leaves the game  *)
(* on the base runner.                                                     *)
Launch(t) ==
    /\ \E why \in np_variant_build(t) :
          launch' = [tool |-> t, refused |-> why, lib |-> np_feat_requires,
                     built |-> IF why = None THEN np_variant_overlay(runner[t.build]) ELSE None]
    /\ UNCHANGED <<world, variant, plugin, disk>>

(* The user moves files about, a runner is replaced: what a page shows and *)
(* what a launch took are of another time.                                 *)
Disturb ==
    /\ launch' = None
    /\ \/ src' \in world.trees \cup {None} /\ UNCHANGED <<there, runner>>
       \/ there' \in world.installed /\ UNCHANGED <<src, runner>>
       \/ \E b \in Builds : \E r \in world.runners : runner' = [runner EXCEPT ![b] = r] /\ UNCHANGED <<src, there>>
    /\ UNCHANGED <<world, variant, plugin>>

OffersInit ==
    /\ world \in Worlds
    /\ variant \in world.variants /\ plugin \in world.plugins
    /\ src \in world.trees \cup {None} /\ there \in world.installed
    /\ runner \in [Builds -> world.runners]
    /\ launch = None

-----------------------------------------------------------------------------
OffersTypeOK ==
    /\ variant \in world.variants /\ plugin \in world.plugins /\ src \in world.trees \cup {None}
    /\ runner \in [Builds -> world.runners] /\ there \in world.installed
    /\ launch # None => launch.tool \in Tools

(* A runner built for a variant keeps the files that carry the Steam       *)
(* bridge as the base runner has them, and, unless the variant names its   *)
(* build, replaces none of Wine's own files (np_variant_read,              *)
(* np_variant_overlay).                                                    *)
BuiltKeepsBridge ==
    launch # None /\ launch.built # None =>
        LET base == runner[launch.tool.build].files
        IN  /\ \A p \in base \cup launch.built.new :
                  var_bridge_path(variant, p) => p \in base /\ p \in launch.built.kept
            /\ variant.builds = {} /\ variant.dst = "lib/wine" => launch.built.new \cap base = {}
            /\ launch.built.new \cap runner[launch.tool.build].restricted = {}
=============================================================================
