---------------------------- MODULE CompatRoutes ----------------------------
(***************************************************************************)
(* The routes NotProton serves inside the Steam client for the             *)
(* Compatibility and Settings pages: what is read from the client's code   *)
(* (webui.c), the registration on the first route lookup and the handlers  *)
(* (compatsvc.c), and the jobs the client makes for requests.  Requests    *)
(* that change the default settings run the calls of ToolDefaults.         *)
(***************************************************************************)
EXTENDS ToolDefaults

CONSTANTS
    Images,        \* what clients' code may be like
    MinSites,      \* registration sites that have to agree (MIN_SITES)
    MaxRoutes,     \* slots for routes of ours (MAX_ROUTES)
    Asked          \* the routes the pages ask for

ASSUME RoutesConstants == MaxRoutes \in Nat /\ MinSites \in Nat

VARIABLES
    image,         \* the client that is running
    settled,       \* g_routes of compatsvc.c
    table,         \* g_routes of webui.c: the handler in each slot
    count,         \* g_route_count
    served,        \* routes the client knows, with the slot of their factory
    job,           \* the job each thread works on
    notify         \* g_notify_slot found, worked_out

routeVars == <<image, settled, table, count, served, job, notify>>
allVars == <<file, tmp, lock, call, reading, before,
             image, settled, table, count, served, job, notify>>

GetTools == "GetCompatTools"
Specify == "SpecifyCompatTool"
DefaultsRoutes == {"SetDefaults", "SetToolDefaults", "ApplyToolDefaults"}
PrefixRoutes == {"PrefixState", "RebuildPrefix", "BackupAndRebuildPrefix", "OpenPrefixLog"}
RouteNames == {GetTools, Specify} \cup DefaultsRoutes \cup PrefixRoutes

-----------------------------------------------------------------------------
(* What np_webui_init and np_webui_lookup_site read from the code.  An     *)
(* image has the registration sites with the accessor each one names (None *)
(* when it is silent), whether the accessor answers with a registry, the   *)
(* calls of the dispatcher that look like the parse and those that reach   *)
(* the route lookup, the routes it serves already with the response        *)
(* senders in each vtable their factory installs, the routes it refuses to *)
(* register, the message types, and whether some slot broadcasts.          *)

find_accessor ==
    LET named == {image.sites[i] : i \in DOMAIN image.sites} \ {None}
    IN  /\ Cardinality(named) = 1
        /\ Cardinality({i \in DOMAIN image.sites : image.sites[i] # None}) >= MinSites

registry == find_accessor /\ image.registry

lookup_site == image.lookups = 1

(* handler_slot and vtable_from_factory: some vtable of the factory has    *)
(* exactly one slot that sends a response.                                 *)
vtable_from_factory(tables) == \E n \in tables : n = 1

borrow_from_served_route == \E i \in DOMAIN image.factories : vtable_from_factory(image.factories[i])

-----------------------------------------------------------------------------
(* Registration.                                                           *)

(* No room left for a route, or no job class to build its jobs like.      *)

Full(R) == R.count >= MaxRoutes \/ ~borrow_from_served_route

RegisterForgetsSlot(R, name) ==
    LET slot == R.count + 1
    IN  IF Full(R) \/ name \in image.refused THEN [R EXCEPT !.ok = FALSE]
        ELSE [R EXCEPT !.ok = TRUE, !.table = [@ EXCEPT ![slot] = name],
                       !.served = [n \in DOMAIN @ \cup {name} |-> IF n = name THEN slot ELSE @[n]]]

(* np_webui_register_route: the slot is filled before the client is asked, *)
(* and counts only once the client agreed.                                 *)
register_route(R, name) ==
    LET slot == R.count + 1
        filled == [R.table EXCEPT ![slot] = name]
    IN  IF Full(R) THEN [R EXCEPT !.ok = FALSE]
        ELSE IF name \in image.refused THEN [R EXCEPT !.ok = FALSE, !.table = filled]
        ELSE [R EXCEPT !.ok = TRUE, !.table = filled, !.count = slot,
                       !.served = [n \in DOMAIN @ \cup {name} |-> IF n = name THEN slot ELSE @[n]]]

(* A chain of "||": the first route that fails ends it.                    *)
or_else(R, name) == IF R.ok THEN register_route(R, name) ELSE R
Chain(R) == [R EXCEPT !.ok = TRUE]

Bare == [table |-> table, count |-> count, served |-> served, ok |-> TRUE]

WithSpecify == register_route(register_route(Bare, GetTools), Specify)

WithDefaults ==
    or_else(or_else(or_else(Chain(WithSpecify), "SetDefaults"), "SetToolDefaults"), "ApplyToolDefaults")

Whole ==
    or_else(or_else(or_else(or_else(Chain(WithDefaults),
        "PrefixState"), "RebuildPrefix"), "BackupAndRebuildPrefix"), "OpenPrefixLog")

Becomes(R, s) == table' = R.table /\ count' = R.count /\ served' = R.served /\ settled' = s

(* np_compatsvc_register, run before every route lookup.                   *)
np_compatsvc_register ==
    IF settled # "untried" \/ ~registry
    THEN UNCHANGED <<settled, table, count, served>>
    ELSE IF "get" \notin image.types THEN Becomes(Bare, "absent")
    ELSE IF "specify" \notin image.types THEN Becomes(register_route(Bare, GetTools), "absent")
    ELSE Becomes(Whole, "ready")

(* The dispatcher looks a route up and has its factory make a job.         *)
Dispatch(t, name) ==
    /\ job[t] = None /\ At(t, "idle")
    /\ IF lookup_site THEN np_compatsvc_register
                      ELSE UNCHANGED <<settled, table, count, served>>
    /\ job' = [job EXCEPT ![t] =
          IF name \in DOMAIN served' THEN [route |-> name, slot |-> served'[name]] ELSE None]
    /\ UNCHANGED <<image, notify, file, tmp, lock, call, reading, before>>

-----------------------------------------------------------------------------
(* Handlers.  job_handler finds the route by the vtable the factory of the *)
(* job's slot left in it.                                                  *)

handler(t) == IF job[t].slot <= count THEN table[job[t].slot] ELSE None

Waiting(t) == job[t] # None

IsDefaults(h) == h \in DefaultsRoutes

(* A handler that keeps no state of its own here answers at once; a job    *)
(* whose vtable is no route's is answered with a failure.  Either way the  *)
(* response is sent and the job is over.                                   *)
job_handler(t) ==
    /\ Waiting(t) /\ At(t, "idle") /\ ~IsDefaults(handler(t))
    /\ job' = [job EXCEPT ![t] = None]
    /\ UNCHANGED <<image, settled, table, count, served, notify>>
    /\ UNCHANGED <<file, tmp, lock, call, reading, before>>

set_defaults(t) ==
    \E r \in Runners, text \in Texts : np_defaults_save(t, r, text)

set_tool_defaults(t) ==
    \E tool \in Tools, text \in Texts : np_defaults_save_build(t, tool, text)

apply_tool_defaults(t) ==
    \E tool \in Tools : np_defaults_apply_build(t, tool)

DefaultsHandler(t) ==
    /\ Waiting(t)
    /\ \/ handler(t) = "SetDefaults" /\ set_defaults(t)
       \/ handler(t) = "SetToolDefaults" /\ set_tool_defaults(t)
       \/ handler(t) = "ApplyToolDefaults" /\ apply_tool_defaults(t)
    /\ UNCHANGED <<image, settled, table, count, served, job, notify>>

(* A call's return is the result that is sent.                             *)
DefaultsResult(t) ==
    /\ Waiting(t) /\ Return(t)
    /\ job' = [job EXCEPT ![t] = None]
    /\ UNCHANGED <<image, settled, table, count, served, notify>>

(* np_compatsvc_state_changed and np_webui_notify: the slot is looked for  *)
(* once, and only when a transport is there to look at.                    *)
np_webui_notify(up) ==
    IF ~registry \/ ~up \/ notify.found \/ notify.worked_out THEN UNCHANGED notify
    ELSE notify' = [found |-> image.broadcast, worked_out |-> TRUE]

StateChanged ==
    /\ settled = "ready" /\ "changed" \in image.types
    /\ \E up \in BOOLEAN : np_webui_notify(up)
    /\ UNCHANGED <<image, settled, table, count, served, job, file, tmp, lock, call, reading, before>>

DefaultsOnly(A) == A /\ UNCHANGED routeVars

(* Steam ends and starts again with the same client.                       *)
Restart ==
    /\ Ends
    /\ settled' = "untried"
    /\ table' = [i \in 1 .. MaxRoutes |-> None] /\ count' = 0 /\ served' = <<>>
    /\ job' = [t \in Callers |-> None]
    /\ notify' = [found |-> FALSE, worked_out |-> FALSE]
    /\ UNCHANGED image

Init ==
    /\ DefaultsInit
    /\ image \in Images
    /\ settled = "untried"
    /\ table = [i \in 1 .. MaxRoutes |-> None] /\ count = 0 /\ served = <<>>
    /\ job = [t \in Callers |-> None]
    /\ notify = [found |-> FALSE, worked_out |-> FALSE]

Next ==
    \/ \E t \in Callers :
          \/ \E name \in Asked : Dispatch(t, name)
          \/ job_handler(t) \/ DefaultsHandler(t) \/ DefaultsResult(t)
          \/ DefaultsOnly(CallStep(t))
    \/ \E d \in Readers :
          DefaultsOnly(BeginPublish(d)) \/ DefaultsOnly(publish_defaults(d)) \/ DefaultsOnly(ClosePage(d))
    \/ StateChanged \/ Restart

Spec == Init /\ [][Next]_allVars
-----------------------------------------------------------------------------
(* Shapes of the state.                                                    *)
TypeOK ==
    /\ file \in [Paths -> Odd \cup Seq(Lines)] /\ tmp \in [Paths -> Odd \cup Seq(Lines)]
    /\ lock \in Callers \cup {None}
    /\ \A t \in Callers : call[t].pc \in {"idle", "lock", "read", "open", "write", "rename", "list", "remove", "ret"}
    /\ settled \in {"untried", "absent", "ready"}
    /\ count \in 0 .. MaxRoutes
    /\ table \in [1 .. MaxRoutes -> RouteNames \cup {None}]
    /\ DOMAIN served \subseteq RouteNames /\ \A n \in DOMAIN served : served[n] \in 1 .. count
    /\ \A t \in Callers : job[t] = None \/ job[t].route \in RouteNames

(* A call that answers tells what happened to the files, whatever the      *)
(* other threads were doing: a failure changed nothing, a save left its    *)
(* text and nothing else, an apply that says "ok" made the set every       *)
(* version's, "partly" its family's, and no apply touches the files of     *)
(* another runner.  Set aside: an "ok" after the list of versions was cut   *)
(* short (np_defaults_apply_build, save_file under g_save_lock).           *)
AnswerIsTrue ==
    \A t \in Callers : At(t, "ret") /\ lock = t =>
        LET c == call[t]
            fam == <<Family, c.path[2]>>
        IN  /\ c.answer = "fail" => file = before
            /\ c.answer = "ok" /\ c.op = "save" => file = [before EXCEPT ![c.path] = c.body]
            /\ c.answer \in {"ok", "cut", "partly"} /\ c.op = "apply" =>
                  /\ file[fam] = c.body
                  /\ \A p \in Paths : p[2] # c.path[2] => file[p] = before[p]
            /\ c.answer = "ok" /\ c.op = "apply" => \A b \in Builds : ~is_regular(file[<<b, c.path[2]>>])

(* A page that is still current shows for a version exactly the set that   *)
(* applying that version would make every version's: publish_defaults and  *)
(* np_defaults_apply_build choose between a version's own set and its      *)
(* family's in the same way.                                               *)
ShownIsWhatApplies ==
    \A d \in Readers : reading[d].current /\ reading[d].n > Len(ReadOrder) =>
        \A i \in DOMAIN ReadOrder :
            LET p == ReadOrder[i]
                src == source_of(p[1], p[2])
            IN  p[1] # Family /\ shown(d, p).is # "fails" =>
                   ~read_fails(file[src]) /\ shown(d, p) = Yields("set", read_lines(p[2], file[src]))

(* Every job is answered by the handler of the route it was made for,      *)
(* though a route the client refuses leaves its slot to the next one       *)
(* (np_webui_register_route, job_handler).                                 *)
JobIsItsRoutes == \A t \in Callers : Waiting(t) => handler(t) = job[t].route

(* The detailed settings implement the abstract ones: files change by      *)
(* whole checked sets only, and versions lose their own after the family   *)
(* has the set (write_locked, remove_overrides_locked).                    *)
applying ==
    IF lock # None /\ call[lock].op = "apply" /\ call[lock].pc \in {"list", "remove"}
       THEN call[lock].path[2] ELSE Absent

Store == INSTANCE SettingsStore WITH
            Bodies <- LAMBDA r : {text \in Texts : checked_body(r, text)},
            Regular <- is_regular, Kept <- read_lines

StoreSpec == Store!Spec

(* A client that refuses no route serves every route the pages call.       *)
(* dylib/tests/panel-behavior/prefix-row.js:123-128 has the page call      *)
(* OpenPrefixLog after a failed rebuild.                                   *)
PageIsServed == settled = "ready" /\ image.refused = {} /\ borrow_from_served_route => DOMAIN served = RouteNames
=============================================================================
