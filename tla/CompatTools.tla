----------------------------- MODULE CompatTools -----------------------------
(***************************************************************************)
(* The tools Steam is given, from a start of Steam to the launch of a game *)
(* (compat.c, hook_compat.c, compatsvc.c, hook_launch.c, loader.c): the    *)
(* folders are written (ToolFolders), the functions that start children    *)
(* are hooked (SpawnChain), the tools are put into the manager of the      *)
(* client by the first thread that asks it anything, the properties page   *)
(* lists and sets them, and a launch resolves to one of them.              *)
(***************************************************************************)
EXTENDS ToolFolders, SpawnChain, Functions

CONSTANTS Worlds, Threads, Apps, COMPAT_MANAGER_TOOLS_HEADROOM

ASSUME ToolConstants == COMPAT_MANAGER_TOOLS_HEADROOM \in Nat /\ 0 \notin Apps

(* A world has the names of the lists among its folders, and a folder of   *)
(* the user is there, does not look like ours and has no name of a list.   *)
ASSUME WorldConstants ==
    \A w \in Worlds :
        /\ w.placed \subseteq SUBSET Apis
        /\ \A l \in Lists : l # Missing => \A n \in Names(l) : is_tool_name(n) => n \in DOMAIN w.disk
        /\ \A n \in DOMAIN w.disk : IsFolder(w.disk[n])
        /\ \A n \in DOMAIN w.disk : HasTheirs(w.disk[n]) =>
              /\ w.disk[n].files["flavor"] = Absent /\ w.disk[n].files["run"] # Ours
              /\ \A l \in Lists : l # Missing => n \notin Names(l)

(* The fields of a client are where its code reads them.                   *)
ASSUME ClientConstants ==
    \A w \in Worlds :
        /\ w.client.near \in Int /\ w.client.far \in Int
        /\ NearShift(w.client) \in {None, w.client.near}
        /\ probe_oslist_offsets(w.client.oslist) \in
             {None, [from |-> COMPAT_TOOL_FROM_OSLIST_OFF + w.client.far, to |-> COMPAT_TOOL_TO_OSLIST_OFF + w.client.far]}

VARIABLES
    phase,         \* of steam_osx: off, start (np_init), hook, up; bare without the dylib
    procs,         \* steam and helper, None or a process of SpawnChain
    child,         \* what was started last: [path, api, given, env, by]
    manager,       \* [on, seen]: its switch; g_manager is set
    held,          \* tools the manager holds: name to [appid, dir, reads]
    registered,    \* registered of np_compat_register_crossover
    regs,          \* the threads in it: [pc, i]
    map,           \* mappings of the client: an app, or 0, to a tool
    page,          \* what the page shows
    news,          \* [due, behind, missed]: mappings whose notification is still to be sent; a
                   \* mapping changed since the page asked; of that, a notification reached nobody
    launch,        \* the last launch with a tool: see Launch
    count          \* [starts, maps, spawns], bounded by the world

vars == <<world, list, folders, phase, procs, child, manager, held, registered, regs, map, page, news, launch, count>>
tools == <<manager, held, registered, regs>>
shown == <<map, page, news, launch>>

NP_COMPAT_TOOL_NONE == "none"
NoMapping == ""
NoTool == "no tool"      \* a name that is no tool, for the answers

(* No tool has these names.                                                *)
ASSUME NameConstants ==
    \A n \in {NP_COMPAT_TOOL_NONE, NoTool} :
        n \notin OurNames /\ \A w \in Worlds : n \notin DOMAIN w.own /\ n \notin DOMAIN w.disk
ASSUME MappingConstants == \A w \in Worlds : NoTool \notin w.mappings

Windows == "windows"
MacOS == "macos"
Hooked(label) == world.hook[label] = "placed"
NoNews == [due |-> 0, behind |-> FALSE, missed |-> FALSE]
Broken(label) == world.hook[label] = "broken"

-----------------------------------------------------------------------------
(* What the manager holds.                                                 *)

find_tool(name) ==
    /\ Cardinality(DOMAIN held) <= np_compat_manager_tools_max(COMPAT_MANAGER_TOOLS_HEADROOM)
    /\ name \in DOMAIN held

(* The first tool of the list that is held.                                *)
np_compat_registered_tool ==
    LET listed == load_tool_list_once
        i == SelectInSeq(listed, LAMBDA t : find_tool(t.name))
    IN  IF listed = <<>> THEN (IF find_tool("notproton") THEN "notproton" ELSE NoTool)
        ELSE IF i = 0 THEN NoTool ELSE listed[i].name

np_compat_would_force(app) == app # 0 /\ Windows \in world.platforms /\ MacOS \notin world.platforms

np_compat_app_mapping(app) == IF app = 0 \/ map[app] = NoMapping THEN NoTool ELSE map[app]

(* Apps that only have Windows files, by a table of the client; shortcuts  *)
(* to an exe are added to it.                                              *)
WindowsOnlyLookup ==
    IF Broken("WindowsOnlyLookup") THEN FALSE
    ELSE world.windowsOnly
         \/ (Hooked("WindowsOnlyLookup") /\ manager.seen /\ world.exe
             /\ np_compat_is_windows_only_table(world.client, world.client.table))

np_compat_wildcard_mapping(app) ==
    IF app # 0 /\ WindowsOnlyLookup /\ map[0] # NoMapping THEN map[0] ELSE NoTool

(* The resolution of the client.                                           *)
OrigFindTool(app) ==
    LET name == IF app = 0 THEN map[0]
                ELSE IF map[app] # NoMapping THEN map[app] ELSE np_compat_wildcard_mapping(app)
    IN  IF name \in DOMAIN held THEN name ELSE NoTool

hook_FindToolForTargetApp(app) ==
    LET tool == OrigFindTool(app)
    IN  IF Broken("FindToolForTargetApp") THEN NoTool
        ELSE IF ~Hooked("FindToolForTargetApp") \/ tool # NoTool \/ app = 0 THEN tool
        ELSE IF np_compat_app_mapping(app) = NP_COMPAT_TOOL_NONE \/ ~np_compat_would_force(app) THEN NoTool
        ELSE np_compat_registered_tool

-----------------------------------------------------------------------------
(* A start of steam_osx.                                                   *)

Idle == [t \in Threads |-> [pc |-> "idle", i |-> 0]]
Nothing ==
    /\ manager' = [on |-> FALSE, seen |-> FALSE]
    /\ held' = <<>> /\ registered' = FALSE /\ regs' = Idle
    /\ page' = None /\ news' = NoNews /\ launch' = None

(* np_init.                                                                *)
Begin(p) ==
    /\ count.starts < world.starts
    /\ count' = [count EXCEPT !.starts = @ + 1]
    /\ procs' = [steam |-> p, helper |-> None]
    /\ Nothing
    /\ UNCHANGED <<world, list, map>>
    /\ IF p.loaded
       THEN phase' = "start" /\ (np_compat_ensure_tool_manifest \/ NoToolsFolder)
       ELSE phase' = "bare" /\ UNCHANGED folders

(* The app starts it with the dylib and the block list.                    *)
AppStartsSteam ==
    /\ phase = "off"
    /\ child' = None
    /\ Begin(Process([insert |-> {Dylib}, block |-> TRUE, compat |-> FALSE]))

(* Hooks that failed: the functions they left alone, or patched.           *)
Breakable(placed) == {{}, Apis \ placed}

StartStep ==
    /\ phase = "start"
    /\ FolderStep
    /\ UNCHANGED <<world, phase, procs, child, tools, shown, count>>

PlaceSpawn ==
    /\ \E placed \in world.placed : \E broken \in Breakable(placed) :
         procs' = [procs EXCEPT !.steam = np_hooks_spawn_install(@, placed, broken, world.disabled)]
    /\ phase' = "hook"
    /\ UNCHANGED <<world, list, folders, child, tools, shown, count>>

InstallSpawn ==
    /\ phase = "start" /\ work.pc = "done"
    /\ PlaceSpawn

(* The scan of the client looks where np_compat_export_tools_path says,    *)
(* unless the user says otherwise.                                         *)
np_compat_export_tools_path == IF world.elsewhere THEN "elsewhere" ELSE "compatibilitytools.d"
OnDisk ==
    IF np_compat_export_tools_path = "elsewhere" THEN {}
    ELSE {n \in DOMAIN disk : disk[n].files["compatibilitytool.vdf"] \notin {Absent, Torn}}

(* force_enable writes where the probe says the switch is.                 *)
TurnedOn == manager.on \/ np_compat_enabled_off(world.client) = world.client.enabledAt

(* The hooks are in place and the manager is there, with its own tools and *)
(* maybe those of the scan.  It was made before the hooks, or after.       *)
ManagerComes ==
    /\ phase = "hook"
    /\ phase' = "up"
    /\ \E scan \in {{}, OnDisk} :
         held' = [n \in DOMAIN world.own \cup scan |->
                    IF n \in scan THEN [appid |-> 0, dir |-> n, reads |-> TRUE]
                    ELSE [appid |-> world.own[n], dir |-> n, reads |-> TRUE]]
    /\ \E early \in BOOLEAN : manager' = [manager EXCEPT !.on = ~early /\ Hooked("Init") /\ TurnedOn]
    /\ UNCHANGED <<world, list, folders, procs, child, registered, regs, shown, count>>

Kill ==
    /\ phase # "off"
    /\ phase' = "off"
    /\ procs' = [steam |-> None, helper |-> None]
    /\ child' = None
    /\ Nothing
    /\ g_tools' = Unread /\ work' = NoWork /\ present' = FALSE
    /\ UNCHANGED <<world, list, disk, spent, clean, made, map, count>>

ListChanges ==
    /\ AppWritesList
    /\ UNCHANGED <<world, phase, procs, child, tools, shown, count>>

-----------------------------------------------------------------------------
(* Children.                                                               *)

Given(p, path) ==
    CASE path = "game" -> [p.env EXCEPT !.insert = @ \cup {Overlay}]
      [] path = "run" -> [p.env EXCEPT !.insert = @ \cup {Overlay}, !.compat = TRUE]
      [] OTHER -> p.env

Starts(who, api, path) ==
    LET p == procs[who]
    IN  [path |-> path, api |-> api, given |-> Given(p, path),
         env |-> ChildEnv(p, api, path, Given(p, path)), all |-> p.placed = Apis]

(* LaunchServices is no function of Apis.                                  *)
SpawnPaths == [steam |-> {"game", "run", "profiles", "opened"}, helper |-> {"Steam Helper", "profiles"}]

Spawn(who) ==
    /\ phase = "up" /\ procs[who] # None
    /\ count.spawns < world.spawns
    /\ count' = [count EXCEPT !.spawns = @ + 1]
    /\ \E path \in SpawnPaths[who], api \in Apis \ procs[who].broken :
         child' = Starts(who, IF path = "opened" THEN "LaunchServices" ELSE api, path)
    /\ UNCHANGED <<world, list, folders, phase, procs, tools, shown>>

(* Its main process hooks the same functions.                              *)
StartHelper ==
    /\ phase = "up" /\ procs.helper = None
    /\ count.spawns < world.spawns
    /\ count' = [count EXCEPT !.spawns = @ + 1]
    /\ \E api \in Apis \ ({"execve"} \cup procs.steam.broken), placed \in world.placed :
         LET c == Starts("steam", api, "Steam Helper")
             p == Process(c.env)
         IN  /\ child' = c
             /\ \E broken \in Breakable(placed) :
                  procs' = [procs EXCEPT !.helper =
                              IF p.loaded THEN np_hooks_spawn_install(p, placed, broken, world.disabled) ELSE p]
    /\ UNCHANGED <<world, list, folders, phase, tools, shown>>

(* After an update it runs its next image in its place.                    *)
ReExec ==
    /\ phase = "up"
    /\ \E api \in Apis \ procs.steam.broken :
         LET c == Starts("steam", api, "steam_osx")
         IN  child' = c /\ Begin(Process(c.env))

(* np_spawn_filtered without an original: the call ends the process.  (For *)
(* Steam that is Kill.)                                                    *)
HelperCrashes ==
    /\ phase = "up" /\ procs.helper # None /\ procs.helper.broken # {}
    /\ procs' = [procs EXCEPT !.helper = None]
    /\ UNCHANGED <<world, list, folders, phase, child, tools, shown, count>>

-----------------------------------------------------------------------------
(* Any thread of the client that asks the manager: force_enable and        *)
(* register_crossover, whose flag no lock guards.                          *)

Query(t) ==
    /\ phase = "up" /\ Hooked("BIsCompatibilityToolEnabled") /\ regs[t].pc = "idle"
    /\ manager' = [on |-> TurnedOn, seen |-> TRUE]
    /\ regs' = IF registered THEN regs ELSE [regs EXCEPT ![t] = [pc |-> "claim", i |-> 0]]
    /\ UNCHANGED <<world, list, folders, phase, procs, child, held, registered, shown, count>>

Claim(t) ==
    /\ regs[t].pc = "claim"
    /\ registered' = TRUE
    /\ g_tools' = load_tool_list_once
    /\ regs' = [regs EXCEPT ![t] = [pc |-> "tools", i |-> 1]]
    /\ UNCHANGED <<world, list, present, disk, work, spent, clean, made, phase, procs, child, manager, held, shown, count>>

(* A tool that is there already, from the scan, is left alone.  The client *)
(* keeps one entry of a name.                                              *)
RegisterTool(t) ==
    /\ regs[t].pc = "tools"
    /\ IF regs[t].i > Len(g_tools)
       THEN regs' = [regs EXCEPT ![t] = [pc |-> "idle", i |-> 0]] /\ UNCHANGED held
       ELSE LET name == g_tools[regs[t].i].name
                entry == [appid |-> 0, dir |-> name, reads |-> WrittenWhereRead(world.client)]
            IN  /\ held' = IF find_tool(name) THEN held
                           ELSE [n \in DOMAIN held \cup {name} |-> IF n = name THEN entry ELSE held[n]]
                /\ regs' = [regs EXCEPT ![t].i = @ + 1]
    /\ UNCHANGED <<world, list, folders, phase, procs, child, manager, registered, shown, count>>

(* Steam turns its switch off.                                             *)
TurnedOff ==
    /\ phase = "up" /\ manager.on
    /\ manager' = [manager EXCEPT !.on = FALSE]
    /\ UNCHANGED <<world, list, folders, phase, procs, child, held, registered, regs, shown, count>>

-----------------------------------------------------------------------------
(* The page.                                                               *)

Settled == registered /\ \A t \in Threads : regs[t].pc = "idle"
Answer(app, result) ==
    [app |-> app, result |-> result, offers |-> {}, active |-> NoTool, chosen |-> NoTool,
     default |-> NoTool, settled |-> Settled]

offered(name, platforms) ==
    held[name].reads /\ Windows \in platforms /\ (name \notin world.hidden \/ world.bypass)

IsATool(app) == app # 0 /\ ~world.bypass /\ \E n \in DOMAIN held : held[n].appid = app

get_compat_tools(app) ==
    LET platforms == IF app = 0 THEN {Windows} ELSE world.platforms
        chosen == IF app = 0 THEN OrigFindTool(0) ELSE np_compat_app_mapping(app)
        wildcard == np_compat_wildcard_mapping(app)
        fallback == IF wildcard = NoTool /\ (app = 0 \/ np_compat_would_force(app))
                    THEN np_compat_registered_tool ELSE wildcard
        none == app # 0 /\ (fallback # NoTool \/ chosen = NP_COMPAT_TOOL_NONE)
    IN  IF ~manager.seen THEN Answer(app, "ok")
        ELSE IF Cardinality(DOMAIN held) > np_compat_manager_tools_max(COMPAT_MANAGER_TOOLS_HEADROOM)
             THEN Answer(app, "fail")
        ELSE IF IsATool(app) THEN Answer(app, "is a tool")
        ELSE [Answer(app, "ok") EXCEPT
                !.offers = {n \in DOMAIN held : offered(n, platforms)}
                             \cup (IF none THEN {NP_COMPAT_TOOL_NONE} ELSE {}),
                !.active = hook_FindToolForTargetApp(app), !.chosen = chosen, !.default = fallback]

AskPage ==
    /\ phase = "up"
    /\ \E app \in Apps \cup {0} : page' = get_compat_tools(app)
    /\ news' = [news EXCEPT !.behind = FALSE, !.missed = FALSE]
    /\ UNCHANGED <<world, list, folders, phase, procs, child, tools, map, launch, count>>

MapsSilently(app, name) == map' = [map EXCEPT ![app] = name] /\ UNCHANGED news

(* The mapping is made first; then the page is to be told.                 *)
hook_InternalSpecifyCompatTool(app, name) ==
    IF Broken("InternalSpecifyCompatTool") THEN UNCHANGED <<map, news>>
    ELSE /\ map' = [map EXCEPT ![app] = name]
         /\ news' = IF Hooked("InternalSpecifyCompatTool")
                    THEN [news EXCEPT !.due = @ + 1, !.behind = page # None] ELSE news

(* From an entry of the page (specify_compat_tool), or from elsewhere.     *)
Specify ==
    /\ phase = "up" /\ count.maps < world.maps
    /\ count' = [count EXCEPT !.maps = @ + 1]
    /\ \/ /\ page # None /\ manager.seen
          /\ \E name \in page.offers \cup {NoMapping} : hook_InternalSpecifyCompatTool(page.app, name)
       \/ \E app \in Apps \cup {0}, name \in world.mappings : hook_InternalSpecifyCompatTool(app, name)
    /\ UNCHANGED <<world, list, folders, phase, procs, child, tools, page, launch>>

(* The page that is told asks again.  Without the type of the notification *)
(* nothing is sent, and no page may be reached.                            *)
np_compatsvc_state_changed ==
    /\ phase = "up" /\ news.due > 0
    /\ \E reached \in world.notifies :
         IF reached THEN page' = None /\ news' = [NoNews EXCEPT !.due = news.due - 1]
         ELSE news' = [news EXCEPT !.due = @ - 1, !.missed = news.behind] /\ UNCHANGED page
    /\ UNCHANGED <<world, list, folders, phase, procs, child, tools, map, launch, count>>

-----------------------------------------------------------------------------
(* A launch.                                                               *)

np_compat_app_runs_tool(app) == manager.seen /\ is_tool_name(hook_FindToolForTargetApp(app))

(* A tool of Steam's with an app of its own is rewritten to a folder of    *)
(* ours before its depot is looked up.                                     *)
local_redirect(entry) ==
    IF entry.appid = 0 THEN entry ELSE [entry EXCEPT !.appid = 0, !.dir = np_compat_tool_dir]

np_compat_runs_tool(dir) == is_tool_name(dir)

(* The command goes to a shell, which takes one backslash of two, by the   *)
(* folder in it.  The hook that doubles them goes by the tool of the app   *)
(* at that time, and keeps the arguments where it is not in place, has no  *)
(* original, or gets no memory from the allocator of Steam (grown).  The   *)
(* command, too, stays as it is without memory (copied).                   *)
np_launch_shell(dir, copied) == world.shell /\ copied /\ np_compat_runs_tool(dir)
np_hook_vr_support(app, grown) ==
    Hooked("SteamVRSupportCheck") /\ world.shell /\ grown /\ np_compat_app_runs_tool(app)

(* The tool of the app is resolved; then its arguments are made and the    *)
(* command is run, and the mapping may change in between.                  *)
Launch(app) ==
    /\ phase = "up" /\ manager.seen
    /\ LET tool == hook_FindToolForTargetApp(app)
       IN  /\ tool # NoTool
           /\ held' = [held EXCEPT ![tool] = local_redirect(@)]
           /\ launch' = [pc |-> "resolved", app |-> app, tool |-> tool, reads |-> held[tool].reads,
                         dir |-> local_redirect(held[tool]).dir]
    /\ UNCHANGED <<world, list, folders, phase, procs, child, manager, registered, regs, map, page, news, count>>

RunCommand ==
    /\ launch # None /\ launch.pc = "resolved"
    /\ \E grown, copied \in world.grows :
         launch' = [pc |-> "run", app |-> launch.app, tool |-> launch.tool, reads |-> launch.reads,
                    again |-> hook_FindToolForTargetApp(launch.app), grown |-> grown, copied |-> copied,
                    doubled |-> np_hook_vr_support(launch.app, grown), wrapped |-> np_launch_shell(launch.dir, copied)]
    /\ UNCHANGED <<world, list, folders, phase, procs, child, tools, map, page, news, count>>

-----------------------------------------------------------------------------
Init ==
    /\ world \in Worlds
    /\ list \in {l \in Lists : world.lists > 0 \/ l = world.list}
    /\ g_tools = Unread /\ present = FALSE /\ disk = world.disk /\ work = NoWork
    /\ spent = [faults |-> 0, lists |-> 0] /\ clean = FALSE /\ made = {}
    /\ phase = "off" /\ procs = [steam |-> None, helper |-> None] /\ child = None
    /\ manager = [on |-> FALSE, seen |-> FALSE] /\ held = <<>> /\ registered = FALSE /\ regs = Idle
    /\ map = [a \in Apps \cup {0} |-> NoMapping] /\ page = None /\ news = NoNews /\ launch = None
    /\ count = [starts |-> 0, maps |-> 0, spawns |-> 0]

Next ==
    \/ AppStartsSteam \/ StartStep \/ InstallSpawn \/ ManagerComes \/ Kill \/ ListChanges
    \/ \E who \in {"steam", "helper"} : Spawn(who)
    \/ StartHelper \/ ReExec \/ HelperCrashes
    \/ \E t \in Threads : Query(t) \/ Claim(t) \/ RegisterTool(t)
    \/ TurnedOff \/ AskPage \/ Specify \/ np_compatsvc_state_changed
    \/ RunCommand \/ \E app \in Apps : Launch(app)

Spec == Init /\ [][Next]_vars

-----------------------------------------------------------------------------
(* Folders, processes and tools of their kinds; every tool that is held    *)
(* has an entry to launch from.                                            *)
TypeOK ==
    /\ \A n \in DOMAIN disk : disk[n] \in [there : BOOLEAN, foreign : BOOLEAN,
                                           files : [ToSet(Files) -> {Absent, Torn, Ours, "theirs"} \cup Builds \cup Flavors]]
    /\ phase \in {"off", "start", "hook", "up", "bare"}
    /\ phase = "up" => work.pc = "done" /\ procs.steam # None
    /\ \A n \in DOMAIN held : held[n].appid \in {0} \cup Range(world.own) /\ held[n].dir \in DOMAIN held \cup OurNames
    /\ \A a \in DOMAIN map : map[a] \in world.mappings \cup OurNames \cup {NoMapping, NP_COMPAT_TOOL_NONE} \cup DOMAIN world.own
    /\ registered => manager.seen

(* np_hooks_spawn_install, np_spawn_filtered: every image of Steam and     *)
(* every main Steam Helper has the dylib, whichever hooks failed; with all *)
(* of them in place no one else has it, games keep the overlay Steam gave  *)
(* them, and the run script has no insert.                                 *)
ChainHolds ==
    /\ \A who \in {"steam", "helper"} : procs[who] # None => procs[who].loaded
    /\ child # None /\ child.all =>
         IF np_target_keeps_insert(child.path) THEN Dylib \in child.env.insert
         ELSE /\ Dylib \notin child.env.insert
              /\ child.path = "run" => child.env.insert = {}
              /\ child.path = "game" => Overlay \in child.env.insert
              /\ child.env.block => child.path = "opened"

(* What the page shows is what a launch does: the tool in use, the tool an *)
(* unset app falls back to, and that a tool nobody chose can be refused,   *)
(* and a refusal is kept.  A page is out of date only while a change that  *)
(* was made after it asked is on its way to it, or when it could not be    *)
(* told of one: then it stays stale until it is opened again.  (With the   *)
(* tools registered, the hooks in place and a global default that is       *)
(* installed.)                                                             *)
PageMatchesLaunch ==
    page # None /\ page.app # 0 /\ page.result = "ok" /\ page.settled
      /\ Hooked("FindToolForTargetApp") /\ Hooked("InternalSpecifyCompatTool")
      /\ ~(news.behind /\ (news.due > 0 \/ news.missed)) =>
        LET runs == hook_FindToolForTargetApp(page.app)
        IN  /\ page.active = runs
            /\ page.chosen = NP_COMPAT_TOOL_NONE => runs = NoTool
            /\ page.chosen = NoTool /\ map[0] \in DOMAIN held \cup {NoMapping} => page.default = runs
            /\ page.chosen = NP_COMPAT_TOOL_NONE \/ (page.chosen = NoTool /\ runs # NoTool)
                 => NP_COMPAT_TOOL_NONE \in page.offers

(* np_compat_probe_tool_layout, np_hook_vr_support: the tool of a launch   *)
(* was registered where the client reads it, where both ends of an entry   *)
(* vouch for the shift; and a launch under one of our tools has the        *)
(* backslashes of its arguments doubled if, and only if, a shell takes     *)
(* them apart.  Two parts of the client decide that, one by the folder in  *)
(* the command, one by the tool of the app; set aside where the second is  *)
(* not in place, where either gets no memory, and where the app was given  *)
(* another tool while it started.                                          *)
LaunchIsSound ==
    launch # None =>
        /\ np_compat_probe_tool_layout(world.client) # None /\ probe_oslist_offsets(world.client.oslist) # None
             => launch.reads
        /\ launch.pc = "run" /\ is_tool_name(launch.tool) /\ launch.again = launch.tool
             /\ Hooked("SteamVRSupportCheck") /\ launch.grown /\ launch.copied
             => (launch.doubled <=> launch.wrapped)
=============================================================================
