---------------------------- MODULE HookInstall -----------------------------
(***************************************************************************)
(* The install thread of the dylib (loader.c): it waits for each image of  *)
(* the client, resolves the signatures of a database against it (sigdb.c,  *)
(* resolver.c, CodeImage) and hooks what it found (hooks.c).  Images load  *)
(* when the client likes, or never; the client is updated on its own, so   *)
(* image and database may be of different builds; Dobby may fail on any    *)
(* hook; and the client may unload the dylib at any moment.                *)
(***************************************************************************)
EXTENDS CodeImage

CONSTANTS
    Machines,      \* [images, profile, disabled]: images that may load as each module,
                   \*   the database (a set of profiles by build), labels switched off
    Modules,       \* the sequence they are installed in
    Hooks,         \* by module, its hooks: [label, signature, mode, optional]
    Timeout,       \* polls before the thread gives up on an image
    NP_CALLS_MAX

ASSUME InstallConstants ==
    /\ Timeout \in Nat \ {0}
    /\ Modules \in Seq({Modules[i] : i \in DOMAIN Modules}) /\ Modules # <<>>
    /\ \A w \in Machines :
          /\ \A p \in w.profiles : p.build \in Nat /\ IsFiniteSet(p.signatures)
          /\ w.profiles = {} \/ \E p \in w.profiles : \A q \in w.profiles : q.build <= p.build

(* Images are what a compiler makes; a name is of one signature of its     *)
(* module, with numbers where numbers are read.                            *)
ASSUME ResolverConstants ==
    \A w \in Machines :
        /\ \A i \in DOMAIN Modules : \A im \in w.images[Modules[i]] : im # Nil /\ WellMade(im)
        /\ \A p \in w.profiles : \A s \in p.signatures :
              /\ \A t \in p.signatures : s.name = t.name /\ s.module = t.module => s = t
              /\ {"name", "module", "off", "aob", "anchor"} \subseteq DOMAIN s /\ "kind" \in DOMAIN s.anchor
              /\ s.off \in Int \cup {Nil} /\ s.anchor.hops \in Int /\ s.anchor.path \in Seq(Int)
              /\ Len(s.anchor.calls) \in Nat /\ DOMAIN s.anchor.calls = 1 .. Len(s.anchor.calls)
              /\ \A i \in DOMAIN s.anchor.calls : s.anchor.calls[i].name # Nil

VARIABLES
    machine,
    image,         \* the image loaded as each module, or Nil
    pc,            \* await, load, resolve, hook, end
    at,            \* the module it works on, an index of Modules
    waited,        \* polls so far
    sigdb,         \* the signatures of the profile
    resolved,      \* np_resolve_result_t: signature to address, Nil where not found
    toHook,        \* hooks of the module still to place
    hooks,         \* hooks in place: [module, label, site]
    broken,        \* hooks Dobby failed on, which stay patched with no original
    unload         \* np_fini: no, asked (it joins the thread), gone

installVars == <<machine, image, pc, at, waited, sigdb, resolved, toHook, hooks, broken, unload>>

module == Modules[at]

-----------------------------------------------------------------------------
(* The database.                                                           *)

(* The latest build of the folder.                                         *)
pick_latest_sigdb(profiles) ==
    IF profiles = {} THEN Nil ELSE CHOOSE p \in profiles : \A q \in profiles : q.build <= p.build

load_insn_pair(a) == a.pair # Nil /\ a.pair.first # "" /\ a.pair.second # ""
load_call_path(a) == Len(a.path) \in 1 .. NP_CALL_PATH_MAX /\ \A i \in DOMAIN a.path : a.path[i] >= 1
load_calls(a) == Len(a.calls) \in 1 .. NP_CALLS_MAX /\ \A i \in DOMAIN a.calls : a.calls[i].name # ""

(* An anchor with a flaw is not used; a negative count would resolve by a  *)
(* different route.                                                        *)
load_anchor(a) ==
    LET counted == a.nth_xref >= 0 /\ a.hops >= 0 /\ (a.tail => a.hops > 0)
        sound == CASE a.kind \in {"string", "insn"} -> counted
                   [] a.kind = "pair" -> load_insn_pair(a) /\ counted
                   [] a.kind = "target" -> load_call_path(a) /\ counted
                   [] a.kind = "vtable" -> a.va # 0
                   [] a.kind = "calls" -> load_calls(a)
                   [] a.kind = "rtti" -> a.str # "" /\ a.slot >= 0
                   [] OTHER -> a.kind = "aob"
    IN  IF sound THEN a ELSE [a EXCEPT !.kind = "none"]

(* np_load_profile: a bad offset takes the pattern with it, and an anchor  *)
(* that is its pattern goes too.                                           *)
Admitted(s) ==
    LET aob == IF s.off = Nil THEN <<>> ELSE s.aob
        a   == load_anchor(s.anchor)
    IN  [s EXCEPT !.aob = aob, !.off = IF s.off = Nil THEN 0 ELSE s.off,
                  !.anchor = IF a.kind = "aob" /\ aob = <<>> THEN [a EXCEPT !.kind = "none"] ELSE a]

np_load_profile(p) == {Admitted(s) : s \in p.signatures}

-----------------------------------------------------------------------------
(* One signature (resolver.c).                                             *)

usable_code_address(im, a) == a % Word = 0 /\ a >= im.lo /\ a <= im.hi - Word

np_aob_site(im, s) ==
    IF s.aob = <<>> THEN Nil
    ELSE Then(np_scan_sole_match(im, s.aob),
              LAMBDA a : IF usable_code_address(im, a - s.off) THEN a - s.off ELSE Nil)

anchor_targets_function_entry(kind) == kind \in {"string", "vtable", "target", "calls", "rtti"}

AnywhereInside(im, kind, a) == np_function_bounds(im, a) # Nil

(* Bytes alone may hit anywhere: where a function is wanted, its start.    *)
aob_site_plausible(im, kind, a) ==
    LET b == np_function_bounds(im, a)
    IN  IF ~anchor_targets_function_entry(kind) THEN b # Nil
        ELSE IF b # Nil THEN b[1] = a ELSE np_looks_like_prologue(im, a)

(* try_anchor: the anchor, and the byte pattern where it fails.            *)
try_anchor(im, s) ==
    LET anchored == IF s.anchor.kind \in {"none", "aob"} THEN Nil ELSE np_locate_anchor(im, s.anchor)
        Plausible(a) == IF aob_site_plausible(im, s.anchor.kind, a) THEN a ELSE Nil
        Usable(a) == IF usable_code_address(im, a) THEN a ELSE Nil
        Fallback == Then(Then(np_aob_site(im, s), Plausible), Usable)
    IN  CHOOSE r \in {IF x = Nil THEN Fallback ELSE Usable(x) : x \in {anchored}} : TRUE

Of(sigs, m) == {s \in sigs : s.module = m}
Required(sigs, m) == {s \in Of(sigs, m) : ~s.deprecated /\ ~s.optional}

np_required_for_module(sigs, m) == Cardinality(Required(sigs, m))
np_module_has_signatures(sigs, m) == \E s \in Of(sigs, m) : ~s.deprecated

(* What np_resolve_signatures returns: the addresses, and how many of the  *)
(* required ones there are.                                                *)
Site(im, s) == IF s.deprecated THEN Nil ELSE try_anchor(im, s)
CountAll(im, sigs, m) == Cardinality({s \in Of(sigs, m) : Site(im, s) # Nil})
Count(im, sigs, m) == Cardinality({s \in Required(sigs, m) : Site(im, s) # Nil})
Sites(im, sigs, m) ==
    [n \in {s.name : s \in Of(sigs, m)} |->
        Site(im, CHOOSE s \in Of(sigs, m) : s.name = n)]

-----------------------------------------------------------------------------
(* The thread.                                                             *)

UsesSteamclient == at = 1
Ends == pc' = "end" /\ toHook' = {}

(* The next module that has signatures, or the end (install_module).       *)
NextModule ==
    LET rest == {i \in at + 1 .. Len(Modules) : np_module_has_signatures(sigdb, Modules[i])}
    IN  /\ toHook' = {} /\ waited' = 0
        /\ IF rest = {} THEN pc' = "end" /\ at' = at
           ELSE /\ pc' = "await"
                /\ \E next \in rest : at' = next /\ \A i \in rest : next <= i

AwaitForever ==
    /\ pc = "await" /\ image[module] # Nil
    /\ pc' = (IF UsesSteamclient THEN "load" ELSE "resolve")
    /\ UNCHANGED <<machine, image, at, waited, toHook, sigdb, resolved, hooks, broken, unload>>

(* np_await_image: a poll, until it is there, it took too long, or the     *)
(* dylib is unloaded.                                                      *)
Await ==
    /\ pc = "await"
    /\ IF unload # "no" \/ waited = Timeout
       THEN IF UsesSteamclient THEN Ends /\ UNCHANGED <<at, waited>> ELSE NextModule
       ELSE IF image[module] # Nil
            THEN pc' = (IF UsesSteamclient THEN "load" ELSE "resolve") /\ UNCHANGED <<at, waited, toHook>>
            ELSE waited' = waited + 1 /\ UNCHANGED <<pc, at, toHook>>
    /\ UNCHANGED <<machine, image, sigdb, resolved, hooks, broken, unload>>

(* The database is read once, for all modules.                             *)
LoadProfile ==
    /\ pc = "load"
    /\ IF pick_latest_sigdb(machine.profiles) = Nil
       THEN Ends /\ UNCHANGED sigdb
       ELSE sigdb' = np_load_profile(pick_latest_sigdb(machine.profiles)) /\ pc' = "resolve" /\ UNCHANGED toHook
    /\ UNCHANGED <<machine, image, at, waited, resolved, hooks, broken, unload>>

(* A miss among the required signatures of steamclient installs nothing;   *)
(* the other modules go without what is missing.  The service binds first, *)
(* which may refuse (CegService).                                          *)
Resolve ==
    /\ pc = "resolve"
    /\ resolved' = Sites(image[module], sigdb, module)
    /\ IF UsesSteamclient /\ Count(image[module], sigdb, module) < np_required_for_module(sigdb, module)
       THEN Ends
       ELSE /\ toHook' \in {Hooks[module]} \cup (IF at = Len(Modules) THEN {{}} ELSE {})
            /\ pc' = "hook"
    /\ UNCHANGED <<machine, image, at, waited, sigdb, hooks, broken, unload>>

np_lookup_address(n) == IF n \in DOMAIN resolved THEN resolved[n] ELSE Nil

(* np_apply_entry: switched off, not found, placed, or half placed.        *)
np_apply_entry(h) ==
    LET site == np_lookup_address(h.signature)
    IN  /\ toHook' = toHook \ {h}
        /\ \/ (h.label \in machine.disabled \/ site = Nil) /\ UNCHANGED <<hooks, broken>>
           \/ /\ h.label \notin machine.disabled /\ site # Nil
              /\ \/ /\ hooks' = hooks \cup {[module |-> module, hook |-> h, site |-> site]}
                    /\ UNCHANGED broken
                 \/ broken' = broken \cup {h.label} /\ UNCHANGED hooks     \* DobbyHook fails

(* In the order of the groups; here, any.                                  *)
Apply ==
    /\ pc = "hook" /\ toHook # {}
    /\ np_apply_entry(CHOOSE h \in toHook : TRUE)
    /\ UNCHANGED <<machine, image, pc, at, waited, sigdb, resolved, unload>>

(* np_hooks_install_all and its like are done.                             *)
Installed ==
    /\ pc = "hook" /\ toHook = {}
    /\ NextModule
    /\ UNCHANGED <<machine, image, sigdb, resolved, hooks, broken, unload>>

-----------------------------------------------------------------------------
(* Dyld loads an image of the client.                                      *)
ImageLoads(m) ==
    /\ image[m] = Nil /\ unload # "gone"
    /\ \E im \in machine.images[m] : image' = [image EXCEPT ![m] = im]
    /\ UNCHANGED <<machine, pc, at, waited, sigdb, resolved, toHook, hooks, broken, unload>>

(* np_fini: it asks the thread to stop, and joins it.                      *)
Unload ==
    /\ unload = "no"
    /\ unload' = "asked"
    /\ UNCHANGED <<machine, image, pc, at, waited, sigdb, resolved, toHook, hooks, broken>>

Join ==
    /\ unload = "asked" /\ pc = "end"
    /\ unload' = "gone"
    /\ UNCHANGED <<machine, image, pc, at, waited, sigdb, resolved, toHook, hooks, broken>>

Thread == Await \/ LoadProfile \/ Resolve \/ Apply \/ Installed
InstallNext == Thread \/ Unload \/ Join \/ \E m \in DOMAIN image : ImageLoads(m)

InstallInit ==
    /\ machine \in Machines
    /\ image = [m \in {Modules[i] : i \in DOMAIN Modules} |-> Nil]
    /\ pc = "await" /\ at = 1 /\ waited = 0
    /\ sigdb = {} /\ resolved = [n \in {} |-> Nil] /\ toHook = {} /\ hooks = {} /\ broken = {}
    /\ unload = "no"

(* The thread runs; the client loads what it likes.                        *)
InstallSpec == InstallInit /\ [][InstallNext]_installVars /\ WF_installVars(Thread) /\ WF_installVars(Join)

-----------------------------------------------------------------------------
(* Shapes of the state.                                                    *)
InstallTypeOK ==
    /\ pc \in {"await", "load", "resolve", "hook", "end"}
    /\ at \in DOMAIN Modules /\ waited \in 0 .. Timeout
    /\ \A m \in DOMAIN image : image[m] \in machine.images[m] \cup {Nil}
    /\ unload \in {"no", "asked", "gone"} /\ (unload = "gone" => pc = "end")
    /\ \A h \in hooks : image[h.module] # Nil /\ h.site \in Text(image[h.module])

(* Hooks of the client's main image go in together: unless every signature *)
(* the database requires of it resolved in the image that is loaded, none  *)
(* of any module is placed (install_thread, "Safety feature").             *)
AllRequiredOrNothing ==
    hooks # {} \/ broken # {} =>
        \A s \in Required(sigdb, Modules[1]) : Site(image[Modules[1]], s) # Nil

(* A hook that replaces a function replaces a whole one: where its anchor  *)
(* names a function, it is placed where one starts, and never inside       *)
(* another, whatever build the image is of (aob_site_plausible,            *)
(* containing_fn, walk_call_path).  im.entries are the real functions.     *)
ReplacedAtEntry ==
    \A h \in hooks : \A s \in Of(sigdb, h.module) :
        (h.hook.signature = s.name /\ anchor_targets_function_entry(s.anchor.kind)
            /\ np_function_bounds(image[h.module], h.site) # Nil)
        => h.site \in image[h.module].entries

(* References of the code to a string: to any copy of it in the first      *)
(* segment that has one.                                                   *)
Copies(im, s) ==
    {e \in UNION {im.cstr[k] : k \in {k \in DOMAIN im.cstr : \A j \in 1 .. k - 1 : \A e \in im.cstr[j] : e.s # s}} :
        e.s = s}
References(im, s) == {x \in Text(im) : \E e \in Copies(im, s) : Refers(im, x, e.at, FALSE)}

(* Branches to an address; a jump inside a function is no tail call of it. *)
Branches(im, t, tail) == {x \in Text(im) : (IF tail THEN b_target(im, x) ELSE bl_target(im, x)) = t}
Callers(im, f, tail) == {x \in Branches(im, f, tail) : tail => containing_fn(im, x) # f}
FunctionsAt(im, places) == {containing_fn(im, x) : x \in places}

(* Functions of the code, and those that make the calls of an exact anchor *)
(* and no others, in order.                                                *)
BoundsOf(im) == {b \in {np_function_bounds(im, e) : e \in im.starts} \ {Nil} : InCode(im, b)}
Makes(im, b, a) ==
    LET made == Calls(im, b[1], b[2])
    IN  /\ Cardinality(made) = Len(a.calls)
        /\ \A i \in DOMAIN a.calls : callee_is_named(im, bl_target(im, Nth(made, i)), a.calls[i])
        /\ \A x \in Words(b[1], b[2]) : im.insn[x].op # "blr" /\ (a.no_data_refs => im.insn[x].op # "adrp")

(* A hook goes to the function its anchor describes and there is no other: *)
(* the one that uses the string, the only function that branches to it,    *)
(* the one that makes these calls (cstring_va, xref_to_va, sole_caller,    *)
(* sole_fn_by_calls).  Ordinals choose among several and are left aside;   *)
(* so is a use of the string that is branched to inside its function, as a *)
(* loop does: the code takes who branches there for the caller.            *)
SoleOf(im, a, site) ==
    LET uses == References(im, a.str)
        Entered == \A x \in uses : Branches(im, x, a.tail) # {} => containing_fn(im, x) = x
    IN  /\ a.kind = "string" /\ a.hops = 0 => FunctionsAt(im, uses) = {site}
        /\ a.kind = "string" /\ a.hops = 1 /\ Entered =>
              \E f \in FunctionsAt(im, uses) :
                  FunctionsAt(im, uses) = {f} /\ FunctionsAt(im, Callers(im, f, a.tail)) = {site}
        /\ a.kind = "calls" /\ a.exact =>
              {b \in BoundsOf(im) : Makes(im, b, a)} = {np_function_bounds(im, site)}

FoundIsSole ==
    \A h \in hooks : \A s \in Of(sigdb, h.module) : \A im \in {image[h.module]} : \A a \in {s.anchor} :
        (/\ h.hook.signature = s.name
         /\ a.kind \in {"string", "calls"} /\ a.nth_xref = 0 /\ ~a.indirect
         /\ np_locate_anchor(im, a) = h.site)
        => SoleOf(im, a, h.site)

(* Unloading returns, also while an image is awaited (np_fini,             *)
(* np_await_stop), and places no hook afterwards.                          *)
UnloadReturns == unload = "asked" ~> unload = "gone"
=============================================================================
