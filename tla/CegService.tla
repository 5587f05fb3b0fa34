----------------------------- MODULE CegService -----------------------------
(***************************************************************************)
(* Service calls for games with CEG, which the library inside Steam runs   *)
(* in the game's prefix (ceg.c, hook_ceg.c), from the installation of the  *)
(* hooks (loader.c, hooks.c) to the unloading of the library (np_fini).    *)
(*                                                                         *)
(* Steam's threads meet here: the ones that run download jobs note the     *)
(* game's tool and folder in a ring of slots; the ones that run service    *)
(* calls look the game up, and one at a time write the input, start a      *)
(* helper in a process group of its own and wait for it; the install       *)
(* thread puts the hooks in place; the thread that unloads the library     *)
(* stops the call that runs.  Steam is gone once np_fini has returned, and *)
(* its threads with it.                                                    *)
(*                                                                         *)
(* A call has files of its own, named after its callid.  A helper is its   *)
(* group: a signal to the group reaches it, and it can be waited for until *)
(* it is reaped, after which its pid may be anyone's.  Steam may reap a    *)
(* child that is not its own (Reaper), which waitid reports as ECHILD.     *)
(* What a slot holds is cut down to whether the tool and the folder are    *)
(* there.                                                                  *)
(*                                                                         *)
(* A definition whose name starts with Bad is a plausible bug in the one   *)
(* that follows it; no specification uses it.                              *)
(***************************************************************************)
EXTENDS Naturals, FiniteSets

CONSTANTS
    Apps,       \* games, by their appid
    Calls,      \* service calls, by their callid; bounds how many there are
    NumSlots,   \* NP_CEG_APPS
    Wrap,       \* where the unsigned g_next_app wraps, 2^32
    Reaper,     \* whether Steam reaps children it did not start
    None        \* no game, no call

ASSUME NoneIsApart == None \notin Apps \cup Calls

ASSUME RingFits ==
    /\ NumSlots \in Nat \ {0}
    /\ Wrap \in Nat /\ NumSlots <= Wrap
    /\ Wrap % NumSlots = 0

ASSUME ReaperIsBoolean == Reaper \in BOOLEAN

VARIABLES
    \* The install thread and np_fini.
    loader,     \* where install_thread is
    hook,       \* whether CWorkItemFunctionCall::ThreadProcess is hooked
    ready,      \* g_service_ready
    fini,       \* where np_fini is
    stopping,   \* g_stopping
    \* The ring.
    slots,      \* g_apps
    next,       \* g_next_app
    job,        \* the game whose job has read the tool and has not noted the folder yet;
                \* one at a time is followed, while any game's tool may change
    taken,      \* whether a job was ever taken from the client
    \* Calls.
    pc,         \* where each call is
    callLock,   \* who holds g_call_lock
    active,     \* whose files g_active_in and g_active_out name
    pgid,       \* whose helper g_call_pgid names
    late,       \* calls whose helper has had NP_CEG_CALL_TIMEOUT_S
    status,     \* what run_in_prefix returned
    result,     \* what the call is about to return
    got,        \* the output it is about to return
    \* Outside of Steam.
    helper,     \* [Calls -> the state of the helper's process]
    inFile,     \* calls whose servicecall_<callid>.in exists
    outFile     \* [Calls -> what servicecall_<callid>.out holds]

loaderVars == <<loader, hook, ready>>
finiVars   == <<fini, stopping>>
ringVars   == <<slots, next, job, taken>>
lockVars   == <<callLock, active, pgid>>
callVars   == <<pc, late, status, result, got>>
worldVars  == <<helper, inFile, outFile>>
vars == <<loaderVars, finiVars, ringVars, lockVars, callVars, worldVars>>

Indices == 0 .. NumSlots - 1
Slot == [app : Apps \cup {None}, tool : BOOLEAN, folder : BOOLEAN]
Empty == [app |-> None, tool |-> FALSE, folder |-> FALSE]

\* Between the lock and the unlock of g_call_lock.
Inside == {"entered", "named", "written", "spawned", "watching", "looking", "killing",
           "exited", "reaping", "judging", "reading", "leaving"}
CallSteps == Inside \cup {"idle", "waiting", "done"}
Zombies == {"zombie ok", "zombie bad"}
HelperStates == Zombies \cup {"none", "running", "reaped", "stolen"}
Outputs == {"none", "half", "whole", "big"}

TypeOK ==
    /\ loader \in {"waiting", "absent", "client", "bound", "hooked", "ended"}
    /\ hook \in BOOLEAN /\ ready \in BOOLEAN
    /\ fini \in {"up", "flagged", "killed", "unlinked", "gone"}
    /\ stopping \in BOOLEAN
    /\ slots \in [Indices -> Slot]
    /\ next \in 0 .. Wrap - 1
    /\ job \in Apps \cup {None}
    /\ taken \in BOOLEAN
    /\ pc \in [Calls -> CallSteps]
    /\ callLock \in Calls \cup {None}
    /\ active \in Calls \cup {None}
    /\ pgid \in Calls \cup {None}
    /\ late \subseteq Calls
    /\ status \in [Calls -> {"none", "ok", "bad", "unknown"}]
    /\ result \in [Calls -> {"none", "ok", "failed", "too big"}]
    /\ got \in [Calls -> Outputs]
    /\ helper \in [Calls -> HelperStates]
    /\ inFile \subseteq Calls
    /\ outFile \in [Calls -> Outputs]

\* Steam's threads run until the process is gone.
Alive == fini # "gone"

-----------------------------------------------------------------------------
(* The install thread.                                                     *)

Load(from, to) == Alive /\ loader = from /\ loader' = to

\* steamclient.dylib is there and its signatures resolve: the hooks of the jobs are in.
InstallClient ==
    /\ Load("waiting", "client")
    /\ UNCHANGED <<hook, ready, finiVars, ringVars, lockVars, callVars, worldVars>>

\* steamservice.dylib is there: its allocator and its directory are known.
BindService ==
    /\ Load("client", "bound")
    /\ UNCHANGED <<hook, ready, finiVars, ringVars, lockVars, callVars, worldVars>>

\* The image does not appear or np_await_stop says not to wait, or the signatures do not
\* resolve: no hook at all.
NoClient ==
    /\ Load("waiting", "absent")
    /\ UNCHANGED <<hook, ready, finiVars, ringVars, lockVars, callVars, worldVars>>

\* The same for steamservice.dylib, or its allocator is not found.
NoService ==
    /\ Load("client", "ended")
    /\ UNCHANGED <<hook, ready, finiVars, ringVars, lockVars, callVars, worldVars>>

HookService ==
    /\ Load("bound", "hooked")
    /\ hook' = TRUE
    /\ UNCHANGED <<ready, finiVars, ringVars, lockVars, callVars, worldVars>>

\* The hook is disabled, or Dobby fails, which may leave the function patched.
HookFails ==
    /\ Load("bound", "ended")
    /\ hook' \in BOOLEAN
    /\ UNCHANGED <<ready, finiVars, ringVars, lockVars, callVars, worldVars>>

ServiceInstalled ==
    /\ Load("hooked", "ended")
    /\ ready' = TRUE
    /\ UNCHANGED <<hook, finiVars, ringVars, lockVars, callVars, worldVars>>

-----------------------------------------------------------------------------
(* Download jobs and the ring.                                             *)

\* The client's hooks are in once the install thread is past steamclient.dylib.
ClientHooked == Alive /\ loader \notin {"waiting", "absent"}

SlotsOf(a) == {i \in Indices : slots[i].app = a}

\* slot_for: the game's own slot, or the next one in turn.
SlotFor(a) == IF SlotsOf(a) # {} THEN CHOOSE i \in SlotsOf(a) : TRUE ELSE next % NumSlots

\* g_next_app++, when slot_for takes the next one.
Turn(a) == IF SlotsOf(a) # {} THEN next ELSE (next + 1) % Wrap

\* RequestCustomBinary: np_ceg_note_tool with the game's tool, if it has one.
NoteTool(a) ==
    /\ ClientHooked
    /\ \E tool \in BOOLEAN :
          slots' = [slots EXCEPT ![SlotFor(a)] = [app |-> a, tool |-> tool, folder |-> FALSE]]
    /\ next' = Turn(a)
    /\ UNCHANGED <<job, taken, loaderVars, finiVars, lockVars, callVars, worldVars>>

HasTool(a) == \E i \in SlotsOf(a) : slots[i].tool
IsNoted(a) == \E i \in SlotsOf(a) : slots[i].tool /\ slots[i].folder

\* The job's hook, up to the look at g_service_ready.
LookUpTool(a) ==
    /\ ClientHooked
    /\ job = None
    /\ HasTool(a) /\ ready
    /\ job' = a
    /\ UNCHANGED <<slots, next, taken, loaderVars, finiVars, lockVars, callVars, worldVars>>

\* The GUIDs are read and np_ceg_note_app finds the tool still there.
TakeJob(a) ==
    /\ Alive
    /\ job = a
    /\ HasTool(a)
    /\ slots' = [i \in Indices |->
          IF i \in SlotsOf(a) /\ slots[i].tool THEN [slots[i] EXCEPT !.folder = TRUE] ELSE slots[i]]
    /\ job' = None
    /\ taken' = TRUE
    /\ UNCHANGED <<next, loaderVars, finiVars, lockVars, callVars, worldVars>>

\* The executable has no GUIDs or is not in a library, or the tool went meanwhile: the
\* original function has the job.  (It has it from the start, and nothing changes, where
\* there is no tool or no service hook.)
LeaveJob(a) ==
    /\ Alive
    /\ job = a
    /\ job' = None
    /\ UNCHANGED <<slots, next, taken, loaderVars, finiVars, lockVars, callVars, worldVars>>

-----------------------------------------------------------------------------
(* Service calls.                                                          *)

Step(c, from, to) == Alive /\ pc[c] = from /\ pc' = [pc EXCEPT ![c] = to]

\* On to the end of np_ceg_service_call with this result.
Leave(c, from, how) == Step(c, from, "leaving") /\ result' = [result EXCEPT ![c] = how]

\* hook_ThreadProcess: the module is loaded and find_app copies the game's slot.
BeginCall(c) ==
    /\ hook
    /\ Step(c, "idle", "waiting")
    /\ \E a \in Apps : IsNoted(a)
    /\ UNCHANGED <<late, status, result, got, loaderVars, finiVars, ringVars, lockVars, worldVars>>

\* The module is not loaded, or no job set up the game.
RefuseCall(c) ==
    /\ hook
    /\ Step(c, "idle", "done")
    /\ UNCHANGED <<late, status, result, got, loaderVars, finiVars, ringVars, lockVars, worldVars>>

\* g_call_lock, then the look at g_stopping.
EnterCall(c) ==
    /\ callLock = None
    /\ callLock' = c
    /\ Step(c, "waiting", IF stopping THEN "leaving" ELSE "entered")
    /\ result' = [result EXCEPT ![c] = IF stopping THEN "failed" ELSE "none"]
    /\ UNCHANGED <<active, pgid, late, status, got, loaderVars, finiVars, ringVars, worldVars>>

NameFiles(c) ==
    /\ Step(c, "entered", "named")
    /\ active' = c
    /\ UNCHANGED <<callLock, pgid, late, status, result, got, loaderVars, finiVars, ringVars, worldVars>>

\* place_module, the removal of an old output and the new input.
WriteInput(c) ==
    /\ Step(c, "named", "written")
    /\ inFile' = inFile \cup {c}
    /\ outFile' = [outFile EXCEPT ![c] = "none"]
    /\ UNCHANGED <<late, status, result, got, loaderVars, finiVars, ringVars, lockVars, helper>>

\* legacycompat cannot be made, a file cannot be written, or posix_spawn fails.
CannotRun(c) ==
    /\ pc[c] \in {"entered", "named", "written"}
    /\ Leave(c, pc[c], "failed")
    /\ UNCHANGED <<late, status, got, loaderVars, finiVars, ringVars, lockVars, worldVars>>

SpawnHelper(c) ==
    /\ Step(c, "written", "spawned")
    /\ helper' = [helper EXCEPT ![c] = "running"]
    /\ UNCHANGED <<late, status, result, got, loaderVars, finiVars, ringVars, lockVars, inFile, outFile>>

SetCallPgid(c) ==
    /\ Step(c, "spawned", "watching")
    /\ pgid' = c
    /\ UNCHANGED <<callLock, active, late, status, result, got, loaderVars, finiVars, ringVars, worldVars>>

\* waitid: the helper has ended, it runs, or (ECHILD) someone else reaped it.
PollHelper(c) ==
    /\ IF helper[c] = "stolen"
       THEN /\ Step(c, "watching", "judging")
            /\ pgid' = None
            /\ status' = [status EXCEPT ![c] = "unknown"]
       ELSE /\ Step(c, "watching", IF helper[c] \in Zombies THEN "exited" ELSE "looking")
            /\ UNCHANGED <<pgid, status>>
    /\ UNCHANGED <<callLock, active, late, result, got, loaderVars, finiVars, ringVars, worldVars>>

KeepWaiting(c) ==
    /\ ~stopping /\ c \notin late
    /\ Step(c, "looking", "watching")
    /\ UNCHANGED <<late, status, result, got, loaderVars, finiVars, ringVars, lockVars, worldVars>>

\* SIGTERM, and up to five seconds in which the helper may end.
EndHelper(c) ==
    /\ stopping \/ c \in late
    /\ Step(c, "looking", "killing")
    /\ UNCHANGED <<late, status, result, got, loaderVars, finiVars, ringVars, lockVars, worldVars>>

\* A signal that ends the group, if it is still there.
Killed(h) == IF h = "running" THEN "zombie bad" ELSE h

\* SIGTERM is trusted to have been enough.
BadKillHelper(c) ==
    /\ Step(c, "killing", "exited")
    /\ status' = [status EXCEPT ![c] = "bad"]
    /\ UNCHANGED <<late, result, got, loaderVars, finiVars, ringVars, lockVars, worldVars>>

\* SIGKILL: whatever reap finds, the call fails.
KillHelper(c) ==
    /\ Step(c, "killing", "exited")
    /\ helper' = [helper EXCEPT ![c] = Killed(@)]
    /\ status' = [status EXCEPT ![c] = "bad"]
    /\ UNCHANGED <<late, result, got, loaderVars, finiVars, ringVars, lockVars, inFile, outFile>>

\* The pid is forgotten only after the call.
BadForgetPgid(c) ==
    /\ Step(c, "exited", "reaping")
    /\ UNCHANGED <<late, status, result, got, loaderVars, finiVars, ringVars, lockVars, worldVars>>

\* The first line of reap.
ForgetPgid(c) ==
    /\ Step(c, "exited", "reaping")
    /\ pgid' = None
    /\ UNCHANGED <<callLock, active, late, status, result, got, loaderVars, finiVars, ringVars, worldVars>>

\* waitpid, which waits for the helper to end.
Reap(c) ==
    /\ helper[c] \in Zombies \cup {"stolen"}
    /\ Step(c, "reaping", "judging")
    /\ helper' = [helper EXCEPT ![c] = IF @ = "stolen" THEN @ ELSE "reaped"]
    /\ status' = [status EXCEPT ![c] =
          IF @ = "bad" THEN "bad"
          ELSE CASE helper[c] = "stolen" -> "unknown"
                 [] helper[c] = "zombie ok" -> "ok"
                 [] OTHER -> "bad"]
    /\ UNCHANGED <<late, result, got, loaderVars, finiVars, ringVars, lockVars, inFile, outFile>>

\* The exit status of the helper is not looked at.
BadJudgeCall(c) ==
    /\ IF outFile[c] \in {"none", "big"}
       THEN Leave(c, "judging", IF outFile[c] = "big" THEN "too big" ELSE "failed")
       ELSE Step(c, "judging", "reading") /\ UNCHANGED result
    /\ UNCHANGED <<late, status, got, loaderVars, finiVars, ringVars, lockVars, worldVars>>

\* The status, then the output's size.
JudgeCall(c) ==
    /\ IF status[c] = "bad" \/ outFile[c] \in {"none", "big"}
       THEN Leave(c, "judging", IF status[c] # "bad" /\ outFile[c] = "big" THEN "too big" ELSE "failed")
       ELSE Step(c, "judging", "reading") /\ UNCHANGED result
    /\ UNCHANGED <<late, status, got, loaderVars, finiVars, ringVars, lockVars, worldVars>>

\* An output of no bytes is not read: the call succeeds even if it is removed meanwhile.
AcceptEmpty(c) ==
    /\ status[c] # "bad" /\ outFile[c] \notin {"none", "big"}
    /\ Leave(c, "judging", "ok")
    /\ got' = [got EXCEPT ![c] = outFile[c]]
    /\ UNCHANGED <<late, status, loaderVars, finiVars, ringVars, lockVars, worldVars>>

ReadOutput(c) ==
    /\ outFile[c] # "none"
    /\ Leave(c, "reading", "ok")
    /\ got' = [got EXCEPT ![c] = outFile[c]]
    /\ UNCHANGED <<late, status, loaderVars, finiVars, ringVars, lockVars, worldVars>>

\* np_ceg_stop removed the output since, it cannot be read, or Steam has no memory for it.
CannotRead(c) ==
    /\ Leave(c, "reading", "failed")
    /\ UNCHANGED <<late, status, got, loaderVars, finiVars, ringVars, lockVars, worldVars>>

\* What the call had on its stack goes with it.
Return(c) ==
    /\ late' = late \ {c}
    /\ status' = [status EXCEPT ![c] = "none"]
    /\ result' = [result EXCEPT ![c] = "none"]
    /\ got' = [got EXCEPT ![c] = "none"]

\* The files go and both locks are released.
FinishCall(c) ==
    /\ Step(c, "leaving", "done")
    /\ inFile' = inFile \ {c}
    /\ outFile' = [outFile EXCEPT ![c] = "none"]
    /\ active' = None
    /\ callLock' = None
    /\ Return(c)
    /\ UNCHANGED <<pgid, loaderVars, finiVars, ringVars, helper>>

-----------------------------------------------------------------------------
(* The helper, its parent and time.                                        *)

HelperWrites(c) ==
    /\ helper[c] = "running"
    /\ outFile' = [outFile EXCEPT ![c] = IF @ = "none" THEN "half" ELSE @]
    /\ outFile' # outFile
    /\ UNCHANGED <<loaderVars, finiVars, ringVars, lockVars, callVars, helper, inFile>>

\* A helper that succeeds has written all it had to write, if anything.
HelperSucceeds(c) ==
    /\ helper[c] = "running"
    /\ helper' = [helper EXCEPT ![c] = "zombie ok"]
    /\ \E o \in IF outFile[c] = "none" THEN {"none", "whole", "big"} ELSE {"whole", "big"} :
          outFile' = [outFile EXCEPT ![c] = o]
    /\ UNCHANGED <<loaderVars, finiVars, ringVars, lockVars, callVars, inFile>>

\* It exits with an error, or something kills it.
HelperFails(c) ==
    /\ helper[c] = "running"
    /\ helper' = [helper EXCEPT ![c] = "zombie bad"]
    /\ UNCHANGED <<loaderVars, finiVars, ringVars, lockVars, callVars, inFile, outFile>>

SteamReaps(c) ==
    /\ Reaper /\ Alive
    /\ helper[c] \in Zombies
    /\ helper' = [helper EXCEPT ![c] = "stolen"]
    /\ UNCHANGED <<loaderVars, finiVars, ringVars, lockVars, callVars, inFile, outFile>>

Deadline(c) ==
    /\ pc[c] \in {"watching", "looking"}
    /\ c \notin late
    /\ late' = late \cup {c}
    /\ UNCHANGED <<pc, status, result, got, loaderVars, finiVars, ringVars, lockVars, worldVars>>

-----------------------------------------------------------------------------
(* np_fini.                                                                *)

Unload(from, to) == fini = from /\ fini' = to

SetStopping ==
    /\ Unload("up", "flagged")
    /\ stopping' = TRUE
    /\ UNCHANGED <<loaderVars, ringVars, lockVars, callVars, worldVars>>

\* Under g_pgid_lock.
StopHelper ==
    /\ Unload("flagged", "killed")
    /\ helper' = IF pgid = None THEN helper ELSE [helper EXCEPT ![pgid] = Killed(@)]
    /\ UNCHANGED <<stopping, loaderVars, ringVars, lockVars, callVars, inFile, outFile>>

\* Under g_active_lock.
RemoveActive ==
    /\ Unload("killed", "unlinked")
    /\ inFile' = inFile \ {active}
    /\ outFile' = IF active = None THEN outFile ELSE [outFile EXCEPT ![active] = "none"]
    /\ UNCHANGED <<stopping, loaderVars, ringVars, lockVars, callVars, helper>>

\* np_await_stop, pthread_join of the install thread, and the process ends.
SteamExits ==
    /\ Unload("unlinked", "gone")
    /\ loader \in {"absent", "ended"}
    /\ UNCHANGED <<stopping, loaderVars, ringVars, lockVars, callVars, worldVars>>

-----------------------------------------------------------------------------

Init ==
    /\ loader = "waiting" /\ hook = FALSE /\ ready = FALSE
    /\ fini = "up" /\ stopping = FALSE
    /\ slots = [i \in Indices |-> Empty]
    /\ next = 0
    /\ job = None /\ taken = FALSE
    /\ pc = [c \in Calls |-> "idle"]
    /\ callLock = None /\ active = None /\ pgid = None
    /\ late = {}
    /\ status = [c \in Calls |-> "none"]
    /\ result = [c \in Calls |-> "none"]
    /\ got = [c \in Calls |-> "none"]
    /\ helper = [c \in Calls |-> "none"]
    /\ inFile = {}
    /\ outFile = [c \in Calls |-> "none"]

InstallStep ==
    \/ InstallClient \/ NoClient \/ BindService \/ NoService \/ HookService \/ HookFails
    \/ ServiceInstalled

JobStep(a) == NoteTool(a) \/ LookUpTool(a) \/ TakeJob(a) \/ LeaveJob(a)

\* What a thread does with a call once it has it.
CallStep(c) ==
    \/ EnterCall(c) \/ NameFiles(c) \/ WriteInput(c) \/ CannotRun(c) \/ SpawnHelper(c)
    \/ SetCallPgid(c) \/ PollHelper(c) \/ KeepWaiting(c) \/ EndHelper(c) \/ KillHelper(c)
    \/ ForgetPgid(c) \/ Reap(c) \/ JudgeCall(c) \/ AcceptEmpty(c) \/ ReadOutput(c)
    \/ CannotRead(c) \/ FinishCall(c)

HelperStep(c) == HelperWrites(c) \/ HelperSucceeds(c) \/ HelperFails(c)

FiniStep == SetStopping \/ StopHelper \/ RemoveActive \/ SteamExits

Next ==
    \/ InstallStep
    \/ \E a \in Apps : JobStep(a)
    \/ \E c \in Calls : BeginCall(c) \/ RefuseCall(c) \/ CallStep(c) \/ HelperStep(c)
                        \/ SteamReaps(c) \/ Deadline(c)
    \/ FiniStep

Spec == Init /\ [][Next]_vars

\* Threads run on and time passes.  Nothing is assumed of the helper, of Steam's jobs and
\* calls, or of the player who quits.  A call waits for g_call_lock behind a finite number
\* of others, so a mutex that lets any of them through is enough.
FairSpec ==
    /\ Spec
    /\ \A c \in Calls : WF_vars(CallStep(c)) /\ WF_vars(Deadline(c))

-----------------------------------------------------------------------------
(* Properties.                                                             *)

\* A call that succeeds hands Steam a whole output, never one that "a killed run can
\* leave half written" (ceg.c:426), unless Steam itself reaped the helper and with it the
\* exit status.
AnswerIsWhole ==
    \A c \in Calls : result[c] = "ok" => got[c] = "whole" \/ status[c] = "unknown"

\* At most one helper works in legacycompat, and the call it works for waits for it, also
\* when it was told to stop, is late or ignores SIGTERM.
OneHelper == \A c \in Calls : helper[c] = "running" => callLock = c

\* The pid that np_ceg_stop would kill, and the one a late call kills, is still the
\* helper's: we have not reaped it.
PgidIsOurs ==
    /\ pgid # None => helper[pgid] \notin {"none", "reaped"}
    /\ \A c \in Calls : pc[c] \in {"looking", "killing"} => helper[c] # "reaped"

\* A call that has returned leaves neither its input nor its output, "a survey of the
\* machine" (ceg-check.c:328), whichever way it ended.
FilesAreRemoved == \A c \in Calls : pc[c] = "done" => c \notin inFile /\ outFile[c] = "none"

\* No game is in two slots, so what a job notes is what a call finds.
OneSlotEach ==
    \A i, j \in Indices : slots[i].app = slots[j].app /\ slots[i].app # None => i = j

\* A game loses its slot only when every slot is in use.
NoEarlyEviction ==
    [][\A i \in Indices : slots[i].app # None /\ slots'[i].app # slots[i].app =>
          \A j \in Indices : slots[j].app # None]_vars

\* "Steam crashes when a CEG game launches if the steamservice hook didn't install"
\* (hook_ceg.c:33): no job is taken from the client before the hook is in.
TakenJobsAreServed == taken => hook

\* Every call returns, however its helper behaves, unless Steam ends first.
CallReturns == \A c \in Calls : pc[c] = "waiting" ~> pc[c] = "done" \/ fini = "gone"

\* "no call starts once Steam is stopping" (src/dylib/tests/ceg-check.c:422).
NoCallOnceStopping ==
    [][\A c \in Calls : helper[c] = "none" /\ helper'[c] = "running" => ~stopping]_vars
=============================================================================
