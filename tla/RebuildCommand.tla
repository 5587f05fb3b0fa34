---------------------------- MODULE RebuildCommand ----------------------------
(***************************************************************************)
(* A rebuild of one game's prefix that Steam starts: the app run with      *)
(* --rebuild-prefix, and the two who start it and wait for it in their     *)
(* own ways.                                                               *)
(*                                                                         *)
(*   - A launch script (run_rebuild) starts it in a subshell that leaves   *)
(*     the app's exit status in notproton-rebuild-exit, and waits for that *)
(*     file.                                                               *)
(*   - The Compatibility page in the Steam client starts it detached and   *)
(*     polls notproton-rebuild, the progress file the app rewrites.        *)
(*                                                                         *)
(* .notproton-rebuild.lock is held by the app while it rebuilds, and by    *)
(* the page while it writes the first progress for an app it starts.  The  *)
(* installation lock is what rebuilds of other games and installs hold.    *)
(* PrefixLifecycle models what a rebuild does to the directories.  Whether *)
(* the prefix needs one, its machine not being that of the selected tool,  *)
(* can change at any time and is an input here.                            *)
(*                                                                         *)
(* A definition whose name starts with Bad is a plausible bug in the one   *)
(* that follows it; no specification uses it.                              *)
(***************************************************************************)
EXTENDS Naturals

CONSTANTS
    Scripts,    \* launches that ask for a rebuild
    Apps,       \* runs of the app; bounds how many rebuilds are started at all
    Page,       \* the Compatibility page, and the client that serves it
    Other,      \* an install, or the rebuild of another game
    None,
    Prompt      \* TRUE if a process does within its grace what the grace is for

ASSUME RolesAreApart ==
    /\ Page \notin Apps \cup {None}
    /\ Other \notin Apps \cup {None}
    /\ None \notin Apps \cup Scripts

ASSUME PromptIsBoolean == Prompt \in BOOLEAN

VARIABLES
    status,       \* notproton-rebuild: phase, pid (None for 0), younger than its limit
    exitFile,     \* notproton-rebuild-exit: what it says, and whose subshell wrote it
    rebuildLock,  \* who holds .notproton-rebuild.lock
    installLock,  \* who holds the installation lock
    apc,          \* where each run of the app is
    subshell,     \* the script whose subshell waits for it
    spc,          \* where each script is
    mine,         \* the run of the app a script has started
    answer,       \* the exit status a script has read
    ppc,          \* where the page's request is
    seen,         \* what the request has read so far
    shown         \* what the row on the page says

files  == <<status, exitFile>>
locks  == <<rebuildLock, installLock>>
apps   == <<apc, subshell>>
script == <<spc, mine, answer>>
page   == <<ppc, seen, shown>>
vars == <<files, locks, apps, script, page>>

Active == {"setup", "copy", "finish"}
Phases == Active \cup {"none", "done", "failed"}

Statuses == [phase : Phases, by : Apps \cup {None}, fresh : BOOLEAN]
Exits    == [code : {"none", "ok", "bad"}, by : Apps \cup {None}]

NoStatus == [phase |-> "none", by |-> None, fresh |-> FALSE]
NoExit   == [code |-> "none", by |-> None]

\* From the claim on, the app holds the rebuild lock; in the second set it has reported.
Working == {"queued", "setup", "copy", "finish", "swapped", "failing", "ok", "bad"}
Holding == Working \cup {"claimed"}
AppSteps == Holding \cup {"unused", "started", "exit ok", "exit bad", "gone"}

TypeOK ==
    /\ status \in Statuses
    /\ exitFile \in Exits
    /\ rebuildLock \in Apps \cup {Page, None}
    /\ installLock \in Apps \cup {Other, None}
    /\ apc \in [Apps -> AppSteps]
    /\ subshell \in [Apps -> Scripts \cup {None}]
    /\ spc \in [Scripts -> {"idle", "waiting", "grace", "read", "accepted", "refused",
                            "judged", "told"}]
    /\ mine \in [Scripts -> Apps \cup {None}]
    /\ answer \in [Scripts -> Exits]
    /\ ppc \in {"idle", "polling", "asking", "claiming", "claimed", "recorded"}
    /\ seen \in Statuses
    /\ shown \in {"", "need", "active", "done", "failed"}

-----------------------------------------------------------------------------
(* The app, RebuildPrefixCommand.run.                                      *)

App(a, from, to) == apc[a] = from /\ apc' = [apc EXCEPT ![a] = to]

\* A write that fails is not noticed (try?): the file says what it said before.
Report(a, phase) ==
    \/ status' = [phase |-> phase, by |-> a, fresh |-> TRUE]
    \/ UNCHANGED status

\* A new run of the app, with the subshell of script s waiting for it or none.
Start(a, s) ==
    /\ App(a, "unused", "started")
    /\ subshell' = [subshell EXCEPT ![a] = s]

\* What is left of the app when it exits: a subshell that has its exit status.
Exit(a, how) ==
    apc' = [apc EXCEPT ![a] = IF subshell[a] = None THEN "gone" ELSE how]

ClaimRebuild(a) ==
    /\ App(a, "started", "claimed")
    /\ rebuildLock = None
    /\ rebuildLock' = a
    /\ UNCHANGED <<files, installLock, subshell, script, page>>

\* The request names no prefix or no installed tool, or the lock stays taken for a
\* second: nothing has been reported and nothing is.
RefuseRebuild(a) ==
    /\ apc[a] = "started"
    /\ Exit(a, "exit bad")
    /\ UNCHANGED <<files, locks, subshell, script, page>>

\* The rebuild lock is let go while the app queues for the installation lock.
BadReportSetup(a) ==
    /\ App(a, "claimed", "queued")
    /\ Report(a, "setup")
    /\ rebuildLock' = None
    /\ UNCHANGED <<exitFile, installLock, subshell, script, page>>

ReportSetup(a) ==
    /\ App(a, "claimed", "queued")
    /\ Report(a, "setup")
    /\ UNCHANGED <<exitFile, locks, subshell, script, page>>

\* acquireInstallationLock, then the request is checked again and recreate begins.
TakeInstallationLock(a) ==
    /\ App(a, "queued", "setup")
    /\ installLock = None
    /\ installLock' = a
    /\ Report(a, "setup")
    /\ UNCHANGED <<exitFile, rebuildLock, subshell, script, page>>

\* 120 seconds without the installation lock.
WaitTooLong(a) ==
    /\ App(a, "queued", "failing")
    /\ installLock # None
    /\ UNCHANGED <<files, locks, subshell, script, page>>

ReportCopy(a) ==
    /\ App(a, "setup", "copy")
    /\ Report(a, "copy")
    /\ UNCHANGED <<exitFile, locks, subshell, script, page>>

ReportFinish(a) ==
    /\ App(a, "copy", "finish")
    /\ Report(a, "finish")
    /\ UNCHANGED <<exitFile, locks, subshell, script, page>>

SwapPrefix(a) ==
    /\ App(a, "finish", "swapped")
    /\ UNCHANGED <<files, locks, subshell, script, page>>

ReportDone(a) ==
    /\ App(a, "swapped", "ok")
    /\ Report(a, "done")
    /\ UNCHANGED <<exitFile, locks, subshell, script, page>>

\* Any step of recreate throws, the build record after the swap included.  Leaving the
\* do block gives up the installation lock before the failure is reported.
FailRebuild(a) ==
    /\ apc[a] \in Active \cup {"swapped"}
    /\ apc' = [apc EXCEPT ![a] = "failing"]
    /\ installLock' = None
    /\ UNCHANGED <<files, rebuildLock, subshell, script, page>>

ReportFailed(a) ==
    /\ App(a, "failing", "bad")
    /\ Report(a, "failed")
    /\ UNCHANGED <<exitFile, locks, subshell, script, page>>

DropLocks(a) ==
    /\ rebuildLock' = IF rebuildLock = a THEN None ELSE rebuildLock
    /\ installLock' = IF installLock = a THEN None ELSE installLock

LeaveRebuild(a) ==
    /\ apc[a] \in {"ok", "bad"}
    /\ DropLocks(a)
    /\ Exit(a, IF apc[a] = "ok" THEN "exit ok" ELSE "exit bad")
    /\ UNCHANGED <<files, subshell, script, page>>

\* Killed at any step: the kernel closes both locks, the progress stays as it is.
KillApp(a) ==
    /\ apc[a] \in Holding \cup {"started"}
    /\ DropLocks(a)
    /\ Exit(a, "exit bad")
    /\ UNCHANGED <<files, subshell, script, page>>

\* The subshell writes the app's exit status to a file of its own and renames it.
WriteExit(a) ==
    /\ apc[a] \in {"exit ok", "exit bad"}
    /\ apc' = [apc EXCEPT ![a] = "gone"]
    /\ exitFile' = [code |-> IF apc[a] = "exit ok" THEN "ok" ELSE "bad", by |-> a]
    /\ UNCHANGED <<status, locks, subshell, script, page>>

-----------------------------------------------------------------------------
(* The launch script, run_rebuild and rebuild_prefix.                      *)

Script(s, from, to) == spc[s] = from /\ spc' = [spc EXCEPT ![s] = to]

\* The player chose to rebuild: an older answer goes and the app is started.
AskForRebuild(s) ==
    /\ Script(s, "idle", "waiting")
    /\ exitFile' = NoExit
    /\ \E a \in Apps : /\ Start(a, s)
                      /\ mine' = [mine EXCEPT ![s] = a]
    /\ answer' = [answer EXCEPT ![s] = NoExit]
    /\ UNCHANGED <<status, locks, page>>

\* The loop ends when the file is there.
ReadExit(s) ==
    /\ spc[s] \in {"waiting", "grace"}
    /\ exitFile # NoExit
    /\ spc' = [spc EXCEPT ![s] = "read"]
    /\ answer' = [answer EXCEPT ![s] = exitFile]
    /\ UNCHANGED <<files, locks, apps, mine, page>>

\* After 30 seconds the lock is probed once a second; the grace covers the app's startup.
GraceOver(s) ==
    /\ Script(s, "waiting", "grace")
    /\ exitFile = NoExit
    /\ rebuildLock = None
    /\ Prompt => apc[mine[s]] # "started"
    /\ UNCHANGED <<files, locks, apps, mine, answer, page>>

\* Two seconds later, enough for a subshell to leave its answer, there still is none.
GiveUp(s) ==
    /\ Script(s, "grace", "refused")
    /\ exitFile = NoExit
    /\ Prompt => apc[mine[s]] \notin {"exit ok", "exit bad"}
    /\ UNCHANGED <<files, locks, apps, mine, answer, page>>

TakeAnswer(s) ==
    /\ Script(s, "read", IF answer[s].code = "ok" THEN "accepted" ELSE "refused")
    /\ exitFile' = NoExit
    /\ UNCHANGED <<status, locks, apps, mine, answer, page>>

EndScript(s) ==
    /\ spc' = [spc EXCEPT ![s] = "idle"]
    /\ mine' = [mine EXCEPT ![s] = None]
    /\ answer' = [answer EXCEPT ![s] = NoExit]

\* The rebuild succeeded: its progress goes and the launch goes on.
AcceptRebuild(s) ==
    /\ spc[s] = "accepted"
    /\ status' = NoStatus
    /\ EndScript(s)
    /\ UNCHANGED <<exitFile, locks, apps, page>>

\* The progress of a rebuild that failed is removed, because the dialog says so instead;
\* that of any other is left.
JudgeRefusal(s) ==
    /\ Script(s, "refused", IF status.phase = "failed" THEN "judged" ELSE "told")
    /\ UNCHANGED <<files, locks, apps, mine, answer, page>>

RemoveFailed(s) ==
    /\ Script(s, "judged", "told")
    /\ status' = NoStatus
    /\ UNCHANGED <<exitFile, locks, apps, mine, answer, page>>

\* The dialog of show_rebuild_failure is closed.
CloseDialog(s) ==
    /\ spc[s] = "told"
    /\ EndScript(s)
    /\ UNCHANGED <<files, locks, apps, page>>

\* The shell that waits for an app is killed.
EndSubshell(a) ==
    /\ subshell' = [subshell EXCEPT ![a] = None]
    /\ apc' = [apc EXCEPT ![a] = IF @ \in {"exit ok", "exit bad"} THEN "gone" ELSE @]

\* Stop in Steam kills the process group of the script, and with it the subshell.  The
\* app is in a session of its own and goes on.
StopScript(s) ==
    /\ spc[s] # "idle"
    /\ EndScript(s)
    /\ EndSubshell(mine[s])
    /\ UNCHANGED <<files, locks, page>>

KillSubshell(a) ==
    /\ subshell[a] # None
    /\ EndSubshell(a)
    /\ UNCHANGED <<files, locks, script, page>>

-----------------------------------------------------------------------------
(* The page: np_prefix_state, start_rebuild and the row of the panel.      *)

Ask(from, to) == ppc = from /\ ppc' = to

\* The progress file is read before the lock is probed.
ReadState == seen' = status

\* A progress without anyone behind it counts as running.
BadReadRebuild == seen.phase

\* read_rebuild, from what was read of the file and the lock as it is now.
ReadRebuild ==
    LET alive == rebuildLock # None \/ (seen.by = None /\ seen.fresh)
    IN  CASE seen.phase \in Active -> IF alive THEN seen.phase ELSE "failed"
          [] seen.phase \in {"done", "failed"} /\ seen.fresh -> seen.phase
          [] OTHER -> "none"

PollState ==
    /\ Ask("idle", "polling")
    /\ ReadState
    /\ UNCHANGED <<files, locks, apps, script, shown>>

\* What draw() makes of the answer.
ShowState ==
    /\ Ask("polling", "idle")
    /\ \E needed \in BOOLEAN :
          shown' = CASE ReadRebuild \in Active -> "active"
                     [] ReadRebuild = "failed" -> "failed"
                     [] ReadRebuild \in {"none", "done"} /\ needed -> "need"
                     [] ReadRebuild = "done" /\ ~needed -> "done"
                     [] ReadRebuild = "none" /\ ~needed -> ""
    /\ seen' = NoStatus
    /\ UNCHANGED <<files, locks, apps, script>>

\* A button of the row: the bar is drawn, and start_rebuild reads the state for itself.
ClickRebuild ==
    /\ shown \in {"need", "failed"}
    /\ Ask("idle", "asking")
    /\ shown' = "active"
    /\ ReadState
    /\ UNCHANGED <<files, locks, apps, script>>

\* Refused for "none", "busy", "running" or "app"; the row is refreshed.
ConsiderRebuild ==
    /\ \/ Ask("asking", "claiming") /\ ReadRebuild \notin Active
       \/ Ask("asking", "idle")
    /\ seen' = NoStatus
    /\ UNCHANGED <<files, locks, apps, script, shown>>

\* The state that was read is trusted: the lock is not taken.
BadClaimForPage ==
    /\ Ask("claiming", "claimed")
    /\ UNCHANGED <<files, locks, apps, script, seen, shown>>

ClaimForPage ==
    /\ Ask("claiming", "claimed")
    /\ rebuildLock = None
    /\ rebuildLock' = Page
    /\ UNCHANGED <<files, installLock, apps, script, seen, shown>>

\* Ten tries, ten milliseconds apart.
PageFindsBusy ==
    /\ Ask("claiming", "idle")
    /\ rebuildLock # None
    /\ UNCHANGED <<files, locks, apps, script, seen, shown>>

DropPageLock == rebuildLock' = IF rebuildLock = Page THEN None ELSE rebuildLock

RecordStart ==
    /\ Ask("claimed", "recorded")
    /\ status' = [phase |-> "setup", by |-> None, fresh |-> TRUE]
    /\ UNCHANGED <<exitFile, locks, apps, script, seen, shown>>

\* The progress file is a link, or cannot be written.
CannotRecord ==
    /\ Ask("claimed", "idle")
    /\ DropPageLock
    /\ shown' = "failed"
    /\ UNCHANGED <<files, installLock, apps, script, seen>>

\* The shell puts the app in the background and exits, and the lock is let go.
SpawnApp ==
    /\ Ask("recorded", "idle")
    /\ \E a \in Apps : Start(a, None)
    /\ DropPageLock
    /\ UNCHANGED <<files, installLock, script, seen, shown>>

CannotSpawn ==
    /\ Ask("recorded", "idle")
    /\ status' = NoStatus
    /\ DropPageLock
    /\ shown' = "failed"
    /\ UNCHANGED <<exitFile, installLock, apps, script, seen>>

\* The client quits or crashes, and with it the page.
QuitSteam ==
    /\ ppc # "idle" \/ shown # ""
    /\ ppc' = "idle"
    /\ seen' = NoStatus
    /\ shown' = ""
    /\ DropPageLock
    /\ UNCHANGED <<files, installLock, apps, script>>

-----------------------------------------------------------------------------
(* Time, the player and the rest of the machine.                           *)

\* The progress passes its age limit: 30 seconds for a start no app has reported on, 600
\* for a result.
Age ==
    /\ status.fresh
    /\ status.phase \in {"done", "failed"} \/ status.by = None
    /\ (Prompt /\ status.by = None) =>
          /\ ppc # "recorded"
          /\ \A a \in Apps : apc[a] \notin {"started", "claimed"}
    /\ status' = [status EXCEPT !.fresh = FALSE]
    /\ UNCHANGED <<exitFile, locks, apps, script, page>>

TakeForOther ==
    /\ installLock = None
    /\ installLock' = Other
    /\ UNCHANGED <<files, rebuildLock, apps, script, page>>

DropForOther ==
    /\ installLock = Other
    /\ installLock' = None
    /\ UNCHANGED <<files, rebuildLock, apps, script, page>>

-----------------------------------------------------------------------------
Init ==
    /\ status = NoStatus
    /\ exitFile = NoExit
    /\ rebuildLock = None
    /\ installLock \in {Other, None}
    /\ apc = [a \in Apps |-> "unused"]
    /\ subshell = [a \in Apps |-> None]
    /\ spc = [s \in Scripts |-> "idle"]
    /\ mine = [s \in Scripts |-> None]
    /\ answer = [s \in Scripts |-> NoExit]
    /\ ppc = "idle"
    /\ seen = NoStatus
    /\ shown = ""

\* What a run of the app does by itself.
AppStep(a) ==
    \/ ClaimRebuild(a) \/ RefuseRebuild(a) \/ ReportSetup(a) \/ TakeInstallationLock(a)
    \/ WaitTooLong(a) \/ ReportCopy(a) \/ ReportFinish(a) \/ SwapPrefix(a) \/ ReportDone(a)
    \/ FailRebuild(a) \/ ReportFailed(a) \/ LeaveRebuild(a) \/ WriteExit(a)

ScriptStep(s) ==
    \/ ReadExit(s) \/ GraceOver(s) \/ GiveUp(s) \/ TakeAnswer(s) \/ AcceptRebuild(s)
    \/ JudgeRefusal(s) \/ RemoveFailed(s) \/ CloseDialog(s)

\* The row polls by itself only while it shows the bar.
PageStep ==
    \/ shown = "active" /\ PollState
    \/ ShowState \/ ConsiderRebuild \/ ClaimForPage \/ PageFindsBusy \/ RecordStart
    \/ CannotRecord \/ SpawnApp \/ CannotSpawn

Next ==
    \/ \E a \in Apps : AppStep(a) \/ KillApp(a) \/ KillSubshell(a)
    \/ \E s \in Scripts : ScriptStep(s) \/ AskForRebuild(s) \/ StopScript(s)
    \/ PageStep \/ PollState \/ ClickRebuild \/ QuitSteam
    \/ Age \/ TakeForOther \/ DropForOther

Spec == Init /\ [][Next]_vars

\* A process runs on, the app's installation lock wait ends after 120 seconds, and time
\* passes.  The script probes the lock every second and the page holds it for
\* milliseconds, so the probe does not meet a held lock for ever while the lock is let go
\* again and again.  Nothing is assumed of the player, of Stop, of a kill or an install.
FairSpec ==
    /\ Spec
    /\ \A a \in Apps : WF_vars(AppStep(a))
    /\ \A s \in Scripts : WF_vars(ScriptStep(s)) /\ SF_vars(GraceOver(s))
    /\ WF_vars(PageStep)
    /\ WF_vars(Age)

-----------------------------------------------------------------------------
(* Properties.                                                             *)

\* At most one run of the app rebuilds the prefix and it holds the rebuild lock until it
\* is done, which is claimRebuild's "One rebuild per prefix"; and it changes the prefix
\* only while no install and no other game's rebuild is under way.
OneRebuild ==
    \A a \in Apps :
        /\ apc[a] \in Holding => rebuildLock = a
        /\ apc[a] \in Active \cup {"swapped", "ok"} => installLock = a

\* The phase an app reports where it is.
Reported(a) ==
    CASE apc[a] \in {"queued", "setup"} -> "setup"
      [] apc[a] \in {"copy", "finish"} -> apc[a]
      [] apc[a] = "ok" -> "done"
      [] OTHER -> "failed"

\* From an app's claim to its end nothing but its own reports is written to the progress
\* file, whichever of them fail: no second app, and no page that starts one, writes over
\* it.  It may be removed, and it grows old.
ProgressIsOwn ==
    [][\A a \in Apps : apc[a] \in Holding =>
          \/ status' \in {status, NoStatus, [status EXCEPT !.fresh = FALSE]}
          \/ status' = [phase |-> Reported(a)', by |-> a, fresh |-> TRUE]]_vars

\* A script that stops waiting without an answer has no rebuild of its own left, and no
\* answer of it is still to come.
NotAbandoned ==
    [][\A s \in Scripts : spc[s] = "grace" /\ spc'[s] = "refused" =>
          apc[mine[s]] = "gone"]_vars

\* The bar on the page does not run forever.
BarEnds == shown = "active" ~> shown # "active"

\* A launch that goes on because its rebuild succeeded does so after that rebuild: "The
\* script only waits for the exit status the subshell leaves behind" (compat_run.sh:1400).
AcceptedIsDone ==
    \A s \in Scripts : spc[s] = "accepted" => apc[mine[s]] \notin Holding \cup {"started"}
=============================================================================
