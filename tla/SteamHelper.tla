---------------------------- MODULE SteamHelper -----------------------------
(***************************************************************************)
(* steam.exe of the prefix (steam-shim/steam.cpp): it sets the prefix up   *)
(* for a game, starts the game, answers its DRM, collects what Vulkan      *)
(* needs for VR, waits until the last process of the session is gone, and  *)
(* starts the game again when the game asks.  A game asks by running       *)
(* steam.exe with a command, which another copy of the program handles.    *)
(***************************************************************************)
EXTENDS Naturals, Integers, Sequences, FiniteSets, SequencesExt

CONSTANTS
    Nil,
    Worlds,        \* what a session finds: see MCSteamHelper
    Commands,      \* argument lists processes of the session run steam.exe with
    MaxAsks,       \* commands run, a bound
    MaxRuns        \* starts of the command: one, and one for each order

ASSUME HelperConstants == MaxAsks \in Nat /\ MaxRuns = MaxAsks + 1 /\ Nil \notin 1 .. MaxRuns

VARIABLES
    world,
    stage,         \* of main: setup, attach, prepare, run, drm, system, wait, check, gone; asleep; crashed
    client,        \* what is held of the Steam client
    env,           \* variables the game inherits: battleye, eac, vr_runtime, lc
    folders,       \* libraryfolders.vdf: the paths it numbers from 0; Nil if there is none
    vrpaths,       \* openvrpaths.vrpath of the prefix: the Linux file it is made of, "old", "empty", or Nil
    vr,            \* HKCU\Software\Wine\VR: Nil, [state, thread]: thread is none, server, devices
    params,        \* the command line still has its parameters
    runs,          \* starts of the command, each with the parameters it got
    alive,         \* user processes of the session: numbers of runs, and Other
    child,         \* handle of the last run, Nil for INVALID_HANDLE_VALUE
    wait,          \* what main waits for: none, child, system; a handle that is closed
    restart,       \* PROTON_STEAM_EXE_RESTART_APP: absent, clear, set
    ended,         \* the event of ProcessWineMakeProcessSystem
    asks,          \* commands run
    forwarded,     \* what the last of them gave to the Mac client
    dipc,          \* [consume, produce] and drm: none, waiting, failed
    ack            \* [made, set]: runs whose start event exists, was set; [held]: the one drm keeps

helperVars == <<world, stage, client, env, folders, vrpaths, vr, params, runs, alive, child, wait,
          restart, ended, asks, forwarded, dipc, ack>>

setting == <<client, env, folders, vrpaths>>
session == <<params, runs, alive, child, wait, restart, ended, asks, forwarded>>
drm == <<dipc, ack>>
cmd == world.cmd
Runs == 1 .. MaxRuns
Other == 0              \* what a launcher started

-----------------------------------------------------------------------------
(* The Steam client of the Mac.                                            *)

InitSteps == <<"module", "factory", "iface", "pipe", "user", "utils">>

(* What Wine or the disk of the prefix may not let the helper do.          *)
Refusals == {"folders", "foldersCut", "appdata", "vrpaths", "vrpathsCut", "delete", "system", "lookup"}

(* Lists are lists; the client stops at one of its steps; and what an      *)
(* earlier session left of VR is no file of the Mac.                       *)
ASSUME SessionConstants ==
    \A w \in Worlds :
        /\ w.libraries \in Seq(Range(w.libraries))
        /\ \A l \in Range(w.libraries) : Len(l) \in Nat /\ Front(l) # Nil
        /\ w.fails \in Range(InitSteps) \cup {Nil} /\ Nil \notin Range(InitSteps)
        /\ w.places \in Seq(Range(w.places)) /\ {"old", "empty"} \cap (Range(w.places) \cup {Nil}) = {}
        /\ w.refused \subseteq Refusals

(* What steam_client_init holds when it returns.                           *)
Held(fails) ==
    IF fails = Nil THEN Range(InitSteps)
    ELSE {InitSteps[i] : i \in 1 .. CHOOSE n \in 0 .. Len(InitSteps) - 1 : InitSteps[n + 1] = fails}

(* What steam_client_shutdown gives back: a pipe by its client only.       *)
steam_client_shutdown(held) ==
    IF {"iface", "pipe"} \subseteq held THEN {} ELSE held \cap {"pipe", "user"}

(* A list of languages is respected; one application keeps the system's.   *)
Language(app) == IF ~app.list /\ app.id = "systemlocale" THEN Nil ELSE app.language
Locale(app) == IF app.id = "japanese" THEN "ja" ELSE Language(app)

(* setup_steam_registry, setup_battleye_bridge, setup_eac_bridge; a locale *)
(* that is set is kept.                                                    *)
FromClient(e) ==
    [e EXCEPT !.lc = IF @ = Nil THEN Locale(world.app) ELSE @,
              !.battleye = IF "battleye" \in world.runtimes THEN "installed" ELSE @,
              !.eac = IF "eac" \in world.runtimes THEN "installed" ELSE @]

-----------------------------------------------------------------------------
(* Files of the prefix.                                                    *)

(* A path is the sequence of its parts; one the prefix cannot reach is not *)
(* converted.  A library is named by its steamapps folder.                 *)
Converted(p) == IF p = <<>> \/ Head(p) = "unreachable" THEN <<>> ELSE <<p>>
Library(p) == IF p = <<>> THEN <<>> ELSE Front(p)

LibraryFolders(install, libraries) ==
    (IF install = Nil THEN <<>> ELSE Converted(install))
        \o FlattenSeq([i \in DOMAIN libraries |-> Converted(Library(libraries[i]))])

(* Without its folders, or a file it can open, the list stays as it was;   *)
(* a write that fails then leaves an empty file.                           *)
setup_steam_files(install, libraries) ==
    IF "folders" \in world.refused THEN folders
    ELSE IF "foldersCut" \in world.refused THEN <<>>
    ELSE LibraryFolders(install, libraries)

(* The first variable that is set names the file, whether it exists or not.*)
get_linux_vr_path(places) ==
    IF \A i \in DOMAIN places : places[i] = Nil THEN Nil
    ELSE places[CHOOSE i \in DOMAIN places : places[i] # Nil /\ \A j \in 1 .. i - 1 : places[j] = Nil]

(* [sound, runtime]: the file is read, parsed, and the path of its runtime *)
(* is text.                                                                *)
convert_linux_vrpaths ==
    LET at == get_linux_vr_path(world.places)
        file == IF at = Nil \/ at \notin DOMAIN world.linux THEN Nil ELSE world.linux[at]
    IN  IF file = Nil \/ ~file.parses THEN [sound |-> FALSE, runtime |-> Nil]
        ELSE IF world.override # Nil THEN [sound |-> TRUE, runtime |-> world.override]
        ELSE IF file.runtime = <<>> THEN [sound |-> TRUE, runtime |-> Nil]
        ELSE IF Head(file.runtime) = "number" THEN [sound |-> FALSE, runtime |-> Nil]
        ELSE [sound |-> TRUE, runtime |-> Head(file.runtime)]

(* It says that it wrote the file when it did not (write_string_to_file).  *)
Written(at) ==
    IF "vrpaths" \in world.refused THEN vrpaths
    ELSE IF "vrpathsCut" \in world.refused THEN "empty"
    ELSE at

KeepsOldFile ==
    LET r == convert_linux_vrpaths
    IN  /\ vrpaths' = IF r.sound /\ "appdata" \notin world.refused
                      THEN Written(get_linux_vr_path(world.places)) ELSE vrpaths
        /\ env' = IF r.runtime # Nil THEN [env EXCEPT !.vr_runtime = r.runtime] ELSE env

(* The file of the prefix is deleted where there is nothing to convert, if *)
(* its folder is found and Wine can.                                       *)
setup_vrpaths ==
    LET r == convert_linux_vrpaths
    IN  /\ vrpaths' = IF "appdata" \in world.refused THEN vrpaths
                      ELSE IF r.sound THEN Written(get_linux_vr_path(world.places))
                      ELSE IF "delete" \in world.refused THEN vrpaths ELSE Nil
        /\ env' = IF r.runtime # Nil THEN [env EXCEPT !.vr_runtime = r.runtime] ELSE env

(* The key is volatile: one that is there is of a helper before this one.  *)
setup_vr_registry(e) ==
    IF vr # Nil THEN vr
    ELSE IF e.vr_runtime = Nil THEN [state |-> -1, thread |-> "none"]
    ELSE [state |-> 0, thread |-> "server"]

-----------------------------------------------------------------------------
(* main, up to the start of the game.                                      *)

SetUp ==
    /\ stage = "setup"
    /\ folders' = setup_steam_files(world.install, world.libraries)
    /\ IF world.game
       THEN /\ client' = Held(world.fails)
            /\ env' = IF world.fails = Nil THEN FromClient(env) ELSE env
            /\ stage' = IF world.attach THEN "attach" ELSE "prepare"
       ELSE stage' = "prepare" /\ UNCHANGED <<client, env>>
    /\ UNCHANGED <<world, vrpaths, vr, session, drm>>

(* PROTON_WAIT_ATTACH, until a debugger is there.                          *)
Attached ==
    /\ stage = "attach"
    /\ stage' = "prepare"
    /\ UNCHANGED <<world, setting, vr, session, drm>>

(* steam_client_shutdown, setup_vrpaths, setup_vr_registry.                *)
Prepare ==
    /\ stage = "prepare"
    /\ client' = steam_client_shutdown(client)
    /\ IF cmd = Nil /\ ~world.game
       THEN stage' = "gone" /\ UNCHANGED <<env, vrpaths, vr>>
       ELSE /\ setup_vrpaths
            /\ vr' = IF world.game THEN setup_vr_registry(env') ELSE vr
            /\ stage' = IF cmd = Nil THEN "drm" ELSE "run"
    /\ UNCHANGED <<world, folders, session, drm>>

-----------------------------------------------------------------------------
(* run_process.                                                            *)

should_use_shell_execute(c) == ~c.exe

(* ShellExecuteW is given the command line cut in two, where it lies; a    *)
(* Unix path was copied before.                                            *)
Cuts(c) == should_use_shell_execute(c) /\ ~c.unix
Started(c) ==
    /\ runs' = Append(runs, params)
    /\ alive' = alive \cup {Len(runs) + 1}
    /\ child' = IF should_use_shell_execute(c) THEN Nil ELSE Len(runs) + 1
NotStarted == child' = Nil /\ UNCHANGED <<runs, alive>>

run_process(c) ==
    IF ~c.valid THEN NotStarted /\ UNCHANGED params
    ELSE /\ Started(c) \/ NotStarted
         /\ params' = (params /\ ~Cuts(c))

(* should_await is not written where the command is not valid.             *)
AwaitOf(c) == IF c.valid THEN {~should_use_shell_execute(c)} ELSE BOOLEAN

Run ==
    /\ stage = "run"
    /\ run_process(cmd)
    /\ \E should_await \in AwaitOf(cmd) :
          /\ wait' = IF should_await /\ child' # Nil THEN "child" ELSE "none"
          /\ stage' = IF should_await /\ child' = Nil THEN "gone"
                    ELSE IF world.game THEN "drm"
                    ELSE IF should_await THEN "wait" ELSE "gone"
    /\ UNCHANGED <<world, setting, vr, restart, ended, asks, forwarded, drm>>

(* A thread for the DRM of the game, if its semaphores can be made.        *)
StartDrm ==
    /\ stage = "drm"
    /\ \E d \in {"waiting", "failed"} :
          dipc' = [dipc EXCEPT !.drm = d, !.produce = IF d = "waiting" THEN 1 ELSE 0]
    /\ stage' = "system"
    /\ UNCHANGED <<world, setting, vr, session, ack>>

AwaitsChild ==
    /\ stage = "system"
    /\ restart' \in {"clear", "absent"}
    /\ stage' = "wait"
    /\ UNCHANGED <<world, setting, vr, params, runs, alive, child, wait, ended, asks, forwarded, drm>>

(* From here the helper is no user process, and waits for the last of      *)
(* them.  Where Wine refuses, it waits for its child, and without one it   *)
(* sleeps for ever.                                                        *)
MakeSystem ==
    /\ stage = "system"
    /\ wait' = IF "system" \in world.refused THEN wait ELSE "system"
    /\ IF wait' = "none"
       THEN stage' = "asleep" /\ UNCHANGED restart
       ELSE stage' = "wait" /\ restart' \in {"clear", "absent"}       \* CreateEvent may fail
    /\ UNCHANGED <<world, setting, vr, params, runs, alive, child, ended, asks, forwarded, drm>>

-----------------------------------------------------------------------------
(* main waits.                                                             *)

Signalled == \/ wait = "child" /\ child \notin alive
             \/ wait = "system" /\ ended

(* The first handle that is signalled; the event resets itself.  What the  *)
(* loop compares is whether the answer was the first handle: a wait that   *)
(* fails passes for an order.                                              *)
Wait ==
    /\ stage = "wait"
    /\ \/ Signalled /\ stage' = "gone" /\ UNCHANGED restart
       \/ ~Signalled /\ wait # "closed" /\ restart = "set" /\ restart' = "clear" /\ stage' = "check"
       \/ wait = "closed" /\ stage' = "check" /\ UNCHANGED restart
    /\ UNCHANGED <<world, setting, vr, params, runs, alive, child, wait, ended, asks, forwarded, drm>>

(* The old child's handle is closed before a new one is made.  Where main  *)
(* waits for it, it now waits for nothing, or, if its number is used       *)
(* again, for the new child.                                               *)
WaitAfterClose == IF wait = "system" THEN {wait} ELSE {"closed"} \cup (IF child' = Nil THEN {} ELSE {"child"})

RestartAnyway ==
    /\ stage = "check"
    /\ run_process(cmd)
    /\ Len(runs') <= MaxRuns
    /\ wait' \in WaitAfterClose
    /\ stage' = "wait"
    /\ UNCHANGED <<world, setting, vr, restart, ended, asks, forwarded, drm>>

(* A child that still runs is not started again, and the request is gone.  *)
(* A session with no command has nothing to run.  (MaxRuns bounds starts   *)
(* that follow failed waits; orders alone never come to it.)               *)
Restart ==
    /\ stage = "check"
    /\ IF (child # Nil /\ child \in alive) \/ cmd = Nil
       THEN UNCHANGED <<params, runs, alive, child, wait>>
       ELSE run_process(cmd) /\ Len(runs') <= MaxRuns /\ wait' \in WaitAfterClose
    /\ stage' = "wait"
    /\ UNCHANGED <<world, setting, vr, restart, ended, asks, forwarded, drm>>

-----------------------------------------------------------------------------
(* Threads.                                                                *)

(* Without the names of its game, an acknowledgement is of whatever run.   *)
Names(r) == IF world.sameName THEN 1 ELSE r

DrmStaysSilent ==
    /\ dipc.drm = "waiting" /\ dipc.consume > 0 /\ stage \notin {"gone", "crashed"}
    /\ dipc' = [dipc EXCEPT !.consume = @ - 1, !.produce = @ + 1]
    /\ UNCHANGED <<world, stage, setting, vr, session, ack>>

(* steam_drm_thread: the event is looked for until it is found, and kept.  *)
(* The directory of Wine's objects may not open, nor the event.            *)
DrmStep ==
    /\ dipc.drm = "waiting" /\ dipc.consume > 0 /\ stage \notin {"gone", "crashed"}
    /\ \E h \in IF ack.held # Nil THEN {ack.held}
                ELSE IF ack.made = {} THEN {Nil}
                ELSE ack.made \cup (IF "lookup" \in world.refused THEN {Nil} ELSE {}) :
          ack' = [ack EXCEPT !.held = h, !.set = IF h = Nil THEN @ ELSE @ \cup {h}]
    /\ dipc' = [dipc EXCEPT !.consume = @ - 1, !.produce = @ + 1]
    /\ UNCHANGED <<world, stage, setting, vr, session>>

(* initialize_vr_data, on a thread: the OpenVR server is asked for what it *)
(* needs of Vulkan, then every device is.  Wherever it stops it says so,   *)
(* but where the first value is not written; and a client that could not   *)
(* be made is called all the same.                                         *)
ServerFails == {"load", "symbol", "server", "compositor"}
VrState == IF vr = Nil THEN Nil ELSE vr.state
VrThread(where) ==
    VrState # Nil /\ vr.thread = where /\ stage \notin {"gone", "crashed"}

VrServer ==
    /\ VrThread("server")
    /\ vr' = CASE world.vrfails \in ServerFails -> [state |-> -1, thread |-> "none"]
                [] world.vrfails \in {"core", "value"} -> [vr EXCEPT !.thread = "none"]
                [] OTHER -> [vr EXCEPT !.thread = "devices"]
    /\ stage' = IF world.vrfails = "core" THEN "crashed" ELSE stage
    /\ UNCHANGED <<world, setting, session, drm>>

(* OpenXR may be missing; the rest may not.                                *)
VrDevices ==
    /\ VrThread("devices")
    /\ vr' = [state |-> IF world.vrfails \in {"vulkan", "device", "openxr"} THEN -1 ELSE 1, thread |-> "none"]
    /\ UNCHANGED <<world, stage, setting, session, drm>>

-----------------------------------------------------------------------------
(* steam.exe run by a process of the session.                              *)

IsLink(a) == a \in {"link", "restart"}

(* Whether the command is handled here, and what it does: an order to      *)
(* start this game again, the first link to the Mac client, or nothing.    *)
steam_command_handler(argv) ==
    IF argv = <<>> \/ ~(IsLink(argv[1]) \/ argv[1] \in {"--", "option"}) THEN "game"
    ELSE IF world.game /\ Len(argv) > 1 /\ argv[1] = "--" /\ argv[2] = "restart" THEN "restart"
    ELSE IF \E i \in DOMAIN argv : IsLink(argv[i]) THEN "forward"
    ELSE "drop"

(* The event is opened to be waited for; whether it may be set with that   *)
(* handle is Wine's to say.                                                *)
Command(argv) ==
    /\ alive # {} /\ asks < MaxAsks
    /\ asks' = asks + 1
    /\ CASE steam_command_handler(argv) = "restart" ->
              /\ restart' \in (IF restart = "absent" THEN {restart} ELSE {restart, "set"})
              /\ forwarded' = <<>>
         [] steam_command_handler(argv) = "forward" ->
              /\ forwarded' \in {<<>>, <<SelectSeq(argv, IsLink)[1]>>}
              /\ UNCHANGED restart
         [] OTHER -> forwarded' = <<>> /\ UNCHANGED restart
    /\ UNCHANGED <<world, stage, setting, vr, params, runs, alive, child, wait, ended, drm>>

-----------------------------------------------------------------------------
(* Wine and the game.                                                      *)

(* The event of a run goes with it, unless the helper holds it.            *)
GameExits(p) ==
    /\ p \in alive /\ alive' = alive \ {p}
    /\ LET kept == {Names(q) : q \in alive' \cap Runs} \cup {ack.held}
       IN  ack' = [ack EXCEPT !.made = @ \cap kept, !.set = @ \cap kept]
    /\ UNCHANGED <<world, stage, setting, vr, params, runs, child, wait, restart, ended, asks, forwarded, dipc>>

(* A launcher starts the game proper.                                      *)
GameSpawns ==
    /\ alive \cap Runs # {} /\ Other \notin alive /\ alive' = alive \cup {Other}
    /\ UNCHANGED <<world, stage, setting, vr, params, runs, child, wait, restart, ended, asks, forwarded, drm>>

(* No user process is left; Wine waits for seconds, and main for nothing.  *)
SessionEnds ==
    /\ wait = "system" /\ stage # "check" /\ alive = {} /\ ~ended /\ ended' = TRUE
    /\ UNCHANGED <<world, stage, setting, vr, params, runs, alive, child, wait, restart, asks, forwarded, drm>>

MakesAck(r) ==
    /\ r \in alive /\ Names(r) \notin ack.made /\ ack' = [ack EXCEPT !.made = @ \cup {Names(r)}]
    /\ UNCHANGED <<world, stage, setting, vr, session, dipc>>

Posts(r) ==
    /\ r \in alive /\ dipc.produce > 0
    /\ dipc' = [dipc EXCEPT !.produce = @ - 1, !.consume = @ + 1]
    /\ UNCHANGED <<world, stage, setting, vr, session, ack>>

Main == SetUp \/ Prepare \/ Run \/ StartDrm \/ MakeSystem \/ Wait \/ Restart
Game == GameSpawns \/ \E r \in Runs : GameExits(r) \/ MakesAck(r) \/ Posts(r)
HelperNext ==
    \/ Main \/ Attached \/ DrmStep \/ VrServer \/ VrDevices
    \/ Game \/ GameExits(Other) \/ SessionEnds
    \/ \E argv \in Commands : Command(argv)

HelperInit ==
    /\ world \in Worlds
    /\ stage = "setup" /\ client = {}
    /\ env = [battleye |-> Nil, eac |-> Nil, vr_runtime |-> Nil, lc |-> world.lc]
    /\ folders = world.old.folders /\ vrpaths = world.old.vrpaths /\ vr = world.old.vr
    /\ params = TRUE /\ runs = <<>> /\ alive = {} /\ child = Nil /\ wait = "none"
    /\ restart = "absent" /\ ended = FALSE /\ asks = 0 /\ forwarded = <<>>
    /\ dipc = [drm |-> "none", consume |-> 0, produce |-> 0]
    /\ ack = [made |-> {}, set |-> {}, held |-> Nil]

(* Threads of the helper run, and Wine ends a session that is over.        *)
HelperSpec ==
    /\ HelperInit /\ [][HelperNext]_helperVars
    /\ WF_helperVars(Main) /\ WF_helperVars(DrmStep) /\ WF_helperVars(VrServer \/ VrDevices)
    /\ WF_helperVars(SessionEnds)

-----------------------------------------------------------------------------
(* Shapes of the state.                                                    *)
HelperTypeOK ==
    /\ stage \in {"setup", "attach", "prepare", "run", "drm", "system", "wait", "check", "gone", "asleep", "crashed"}
    /\ client \subseteq Range(InitSteps)
    /\ runs \in Seq(BOOLEAN) /\ Len(runs) <= MaxRuns
    /\ alive \subseteq DOMAIN runs \cup {Other} /\ child \in DOMAIN runs \cup {Nil}
    /\ wait \in {"none", "child", "system", "closed"} /\ restart \in {"absent", "clear", "set"}
    /\ dipc.consume \in Nat /\ dipc.produce \in Nat /\ dipc.consume + dipc.produce <= 1
    /\ ack.set \subseteq ack.made /\ ack.held \in ack.made \cup {Nil}

(* When the game runs, the files of the prefix are of this launch, unless  *)
(* Wine refused the very step that replaces them, which the helper passes  *)
(* over: nothing of an earlier one is left where the Mac has no such file  *)
(* any more, and the libraries are those the launch names (setup_vrpaths,  *)
(* setup_steam_files).  Nothing of the Steam client is still held.         *)
PrefixIsCurrent ==
    runs # <<>> =>
        /\ vrpaths = "old" => world.refused \cap {"appdata", "vrpaths", "delete"} # {}
        /\ \/ Range(folders) = {p \in {world.install} \cup {Front(l) : l \in Range(world.libraries)} :
                                   p \notin {Nil, <<>>} /\ Head(p) # "unreachable"}
           \/ "folders" \in world.refused /\ folders = world.old.folders
           \/ "foldersCut" \in world.refused /\ folders = <<>>
        /\ client = {}

(* A game that is started directly runs once at a time, and again only for *)
(* an order of its own, while the helper is Wine's system process: one     *)
(* that is not may wait for a handle it closed (the loop of main).         *)
OneGame ==
    /\ world.cmd # Nil /\ world.cmd.exe => Cardinality(alive \cap Runs) <= 1
    /\ "system" \notin world.refused => Len(runs) <= 1 + asks

(* When the last process of the session is gone, so is the helper, unless  *)
(* it was ordered to start the game again.  Set aside is a helper Wine     *)
(* refused to make a system process and that has no child to wait for, or  *)
(* closed its handle: main sleeps for ever, or starts the game again.      *)
HelperLeaves ==
    stage \in {"wait", "asleep"} /\ alive = {} /\ ("system" \in world.refused => wait = "child")
        ~> stage = "gone" \/ alive # {} \/ stage = "crashed"

(* A game that made its event and then posted to the helper sees it set:   *)
(* the first game of a session, or one of the same name, where Wine lets   *)
(* the helper look for it (steam_drm_thread, find_ack_event).              *)
AckArrives ==
    \A r \in Runs :
        ack.made = {Names(r)} /\ dipc.consume > 0 /\ "lookup" \notin world.refused
            ~> Names(r) \in ack.set \/ r \notin alive \/ stage \in {"gone", "crashed"}

(* Every start of the game gets the parameters of the command.             *)
SameParameters == \A i \in DOMAIN runs : runs[i]
=============================================================================
