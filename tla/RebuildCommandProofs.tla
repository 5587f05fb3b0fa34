------------------------- MODULE RebuildCommandProofs -------------------------
(***************************************************************************)
(* Theorems about RebuildCommand, for any number of scripts and runs of    *)
(* the app.  The invariant says who holds the rebuild lock: an app from    *)
(* its claim on, the page from its own claim until the app is spawned.     *)
(* Who writes the progress of a rebuild holds it.                          *)
(***************************************************************************)
EXTENDS RebuildCommand, TLAPS

\* The page holds the rebuild lock while it records and spawns.
PageHolds == ppc \in {"claimed", "recorded"} => rebuildLock = Page

\* A script that waits has started a run of the app, and one in its grace has seen that
\* run give up the lock, or never take it.
OwnRun ==
    \A s \in Scripts : spc[s] # "idle" =>
        /\ mine[s] \in Apps
        /\ apc[mine[s]] # "unused"
        /\ Prompt /\ spc[s] = "grace" => apc[mine[s]] \in {"exit ok", "exit bad", "gone"}

IInv == TypeOK /\ OneRebuild /\ PageHolds /\ OwnRun

-----------------------------------------------------------------------------
(* Types.                                                                  *)

\* The records the files hold are of their types.
LEMMA Records ==
    /\ NoStatus \in Statuses
    /\ NoExit \in Exits
    /\ \A p \in Phases, a \in Apps \cup {None} :
          [phase |-> p, by |-> a, fresh |-> TRUE] \in Statuses
    /\ \A c \in {"none", "ok", "bad"}, a \in Apps : [code |-> c, by |-> a] \in Exits
    /\ \A s \in Statuses : [s EXCEPT !.fresh = FALSE] \in Statuses
    /\ \A s \in Statuses : s.phase \in Phases
BY DEF NoStatus, NoExit, Statuses, Exits, Phases, Active

\* Phases an app reports.
LEMMA PhaseNames ==
    /\ {"none", "setup", "copy", "finish", "done", "failed"} = Phases
    /\ \A a \in Apps, p \in {"setup", "copy", "finish", "done", "failed"} :
          [phase |-> p, by |-> a, fresh |-> TRUE] \in Statuses
BY DEF Phases, Active, Statuses

\* The app and its subshell keep every variable to its type.
LEMMA AppType ==
    ASSUME TypeOK, NEW a \in Apps, AppStep(a) \/ KillApp(a) \/ KillSubshell(a)
    PROVE  TypeOK'
<1> USE Records, PhaseNames DEF TypeOK, files, locks, script, page, App, Report, Exit,
        DropLocks, AppSteps, Holding, Working, Active
<1>1. CASE ClaimRebuild(a) \/ RefuseRebuild(a) \/ WaitTooLong(a) \/ SwapPrefix(a) \/ FailRebuild(a)
  BY <1>1 DEF ClaimRebuild, RefuseRebuild, WaitTooLong, SwapPrefix, FailRebuild
<1>2. CASE ReportSetup(a) \/ TakeInstallationLock(a)
  BY <1>2 DEF ReportSetup, TakeInstallationLock
<1>3. CASE ReportCopy(a) \/ ReportFinish(a)
  BY <1>3 DEF ReportCopy, ReportFinish
<1>7. CASE ReportDone(a) \/ ReportFailed(a)
  BY <1>7 DEF ReportDone, ReportFailed
<1>4. CASE LeaveRebuild(a) \/ KillApp(a)
  BY <1>4 DEF LeaveRebuild, KillApp
<1>5. CASE WriteExit(a)
  BY <1>5 DEF WriteExit
<1>6. CASE KillSubshell(a)
  BY <1>6 DEF KillSubshell, EndSubshell
<1> QED BY <1>1, <1>2, <1>3, <1>4, <1>5, <1>6, <1>7 DEF AppStep

\* So does the script.
LEMMA ScriptType ==
    ASSUME TypeOK, NEW s \in Scripts, ScriptStep(s) \/ AskForRebuild(s) \/ StopScript(s)
    PROVE  TypeOK'
<1> USE Records DEF TypeOK, files, locks, apps, page, Script, EndScript,
        AppSteps, Holding, Working, Active
<1>1. CASE ReadExit(s) \/ GraceOver(s) \/ GiveUp(s)
  BY <1>1 DEF ReadExit, GraceOver, GiveUp
<1>2. CASE TakeAnswer(s) \/ JudgeRefusal(s)
  BY <1>2 DEF TakeAnswer, JudgeRefusal
<1>5. CASE AcceptRebuild(s) \/ CloseDialog(s)
  BY <1>5 DEF AcceptRebuild, CloseDialog
<1>6. CASE RemoveFailed(s)
  BY <1>6 DEF RemoveFailed
<1>3. CASE AskForRebuild(s)
  <2>1. PICK a \in Apps : Start(a, s) /\ mine' = [mine EXCEPT ![s] = a]
    BY <1>3 DEF AskForRebuild
  <2>2. /\ apc' \in [Apps -> AppSteps]
        /\ subshell' \in [Apps -> Scripts \cup {None}]
        /\ mine' \in [Scripts -> Apps \cup {None}]
    BY <2>1 DEF Start, App
  <2> QED BY <1>3, <2>2 DEF AskForRebuild
<1>4. CASE StopScript(s)
  BY <1>4 DEF StopScript, EndSubshell
<1> QED BY <1>1, <1>2, <1>3, <1>4, <1>5, <1>6 DEF ScriptStep

\* So does the page.
LEMMA PageType ==
    ASSUME TypeOK, PageStep \/ PollState \/ ClickRebuild \/ QuitSteam
    PROVE  TypeOK'
<1> USE Records, PhaseNames DEF TypeOK, files, locks, apps, script, Ask, ReadState,
        DropPageLock
<1>1. CASE PollState \/ ClickRebuild \/ ConsiderRebuild
  BY <1>1 DEF PollState, ClickRebuild, ConsiderRebuild
<1>2. CASE ShowState
  <2>1. PICK needed \in BOOLEAN :
          shown' = CASE ReadRebuild \in Active -> "active"
                     [] ReadRebuild = "failed" -> "failed"
                     [] ReadRebuild \in {"none", "done"} /\ needed -> "need"
                     [] ReadRebuild = "done" /\ ~needed -> "done"
                     [] ReadRebuild = "none" /\ ~needed -> ""
    BY <1>2 DEF ShowState
  <2>2. ReadRebuild \in Phases
    BY DEF ReadRebuild, Active
  <2>3. shown' \in {"", "need", "active", "done", "failed"}
    <3>1. CASE ReadRebuild \in Active
      BY <2>1, <3>1
    <3>2. CASE ReadRebuild = "failed"
      BY <2>1, <3>2 DEF Active
    <3>3. CASE ReadRebuild = "done"
      BY <2>1, <3>3 DEF Active
    <3>4. CASE ReadRebuild = "none"
      BY <2>1, <3>4 DEF Active
    <3> QED BY <2>2, <3>1, <3>2, <3>3, <3>4 DEF Phases
  <2> QED BY <1>2, <2>3 DEF ShowState
<1>3. CASE ClaimForPage \/ PageFindsBusy \/ RecordStart \/ CannotRecord \/ CannotSpawn
  BY <1>3 DEF ClaimForPage, PageFindsBusy, RecordStart, CannotRecord, CannotSpawn
<1>4. CASE SpawnApp
  BY <1>4 DEF SpawnApp, Start, App, AppSteps
<1>5. CASE QuitSteam
  BY <1>5 DEF QuitSteam
<1> QED BY <1>1, <1>2, <1>3, <1>4, <1>5 DEF PageStep

\* So does what happens around them.
LEMMA RestType ==
    ASSUME TypeOK, Age \/ TakeForOther \/ DropForOther
    PROVE  TypeOK'
BY Records DEF TypeOK, Age, TakeForOther, DropForOther, files, locks, apps, script, page

\* Every variable keeps to its type.
THEOREM TypeCorrect == Spec => []TypeOK
<1>1. Init => TypeOK
  BY Records DEF Init, TypeOK, AppSteps
<1>2. TypeOK /\ [Next]_vars => TypeOK'
  <2> SUFFICES ASSUME TypeOK, [Next]_vars PROVE TypeOK'
    OBVIOUS
  <2>1. CASE UNCHANGED vars
    BY <2>1 DEF TypeOK, vars, files, locks, apps, script, page
  <2>2. CASE Next
    BY <2>2, AppType, ScriptType, PageType, RestType DEF Next
  <2> QED BY <2>1, <2>2
<1> QED BY <1>1, <1>2, PTL DEF Spec

-----------------------------------------------------------------------------
(* The locks and the progress file.                                        *)


\* Who rebuilds, and the page while it starts a rebuild, hold their locks.
LEMMA LocksHeld ==
    ASSUME TypeOK, OneRebuild, PageHolds, Next
    PROVE  OneRebuild' /\ PageHolds'
<1> USE RolesAreApart DEF TypeOK, files, locks, apps, script, page, App, Exit,
        Holding, Working, Active
<1>1. ASSUME NEW a \in Apps, AppStep(a) \/ KillApp(a) \/ KillSubshell(a)
      PROVE  OneRebuild' /\ PageHolds'
  <2>1. CASE ClaimRebuild(a)
    BY <2>1 DEF ClaimRebuild, OneRebuild, PageHolds
  <2>2. CASE RefuseRebuild(a) \/ WriteExit(a)
    BY <2>2 DEF RefuseRebuild, WriteExit, OneRebuild, PageHolds
  <2>3. CASE ReportSetup(a) \/ WaitTooLong(a)
    BY <2>3 DEF ReportSetup, WaitTooLong, OneRebuild, PageHolds
  <2>4. CASE TakeInstallationLock(a)
    BY <2>4 DEF TakeInstallationLock, OneRebuild, PageHolds
  <2>5. CASE ReportCopy(a) \/ ReportFinish(a) \/ SwapPrefix(a) \/ ReportDone(a)
    BY <2>5 DEF ReportCopy, ReportFinish, SwapPrefix, ReportDone, OneRebuild, PageHolds
  <2>6. CASE FailRebuild(a)
    BY <2>6 DEF FailRebuild, OneRebuild, PageHolds
  <2>9. CASE ReportFailed(a)
    BY <2>9 DEF ReportFailed, OneRebuild, PageHolds
  <2>7. CASE LeaveRebuild(a) \/ KillApp(a)
    <3>1. DropLocks(a) /\ UNCHANGED ppc
      BY <2>7 DEF LeaveRebuild, KillApp
    <3>2. \A b \in Apps : /\ b # a => apc'[b] = apc[b]
                         /\ apc'[a] \in {"exit ok", "exit bad", "gone"}
      BY <2>7 DEF LeaveRebuild, KillApp
    <3> QED BY <3>1, <3>2 DEF DropLocks, OneRebuild, PageHolds
  <2>8. CASE KillSubshell(a)
    BY <2>8 DEF KillSubshell, EndSubshell, OneRebuild, PageHolds
  <2> QED BY <1>1, <2>1, <2>2, <2>3, <2>4, <2>5, <2>6, <2>7, <2>8, <2>9 DEF AppStep
<1>2. ASSUME NEW s \in Scripts, ScriptStep(s) \/ AskForRebuild(s) \/ StopScript(s)
      PROVE  OneRebuild' /\ PageHolds'
  <2>1. CASE ScriptStep(s)
    BY <2>1 DEF ScriptStep, ReadExit, GraceOver, GiveUp, TakeAnswer, AcceptRebuild,
                JudgeRefusal, RemoveFailed, CloseDialog, OneRebuild, PageHolds
  <2>2. CASE AskForRebuild(s)
    BY <2>2 DEF AskForRebuild, Start, OneRebuild, PageHolds
  <2>3. CASE StopScript(s)
    BY <2>3 DEF StopScript, EndSubshell, OneRebuild, PageHolds
  <2> QED BY <1>2, <2>1, <2>2, <2>3
<1>3. ASSUME PageStep \/ PollState \/ ClickRebuild \/ QuitSteam
      PROVE  OneRebuild' /\ PageHolds'
  <2> USE DEF Ask, DropPageLock, OneRebuild, PageHolds
  <2>1. CASE PollState \/ ClickRebuild \/ ConsiderRebuild \/ ShowState
    BY <2>1 DEF PollState, ClickRebuild, ConsiderRebuild, ShowState
  <2>2. CASE ClaimForPage \/ PageFindsBusy \/ RecordStart \/ CannotRecord
    BY <2>2 DEF ClaimForPage, PageFindsBusy, RecordStart, CannotRecord
  <2>3. CASE SpawnApp \/ CannotSpawn \/ QuitSteam
    BY <2>3 DEF SpawnApp, CannotSpawn, QuitSteam, Start
  <2> QED BY <1>3, <2>1, <2>2, <2>3 DEF PageStep
<1>4. ASSUME Age \/ TakeForOther \/ DropForOther
      PROVE  OneRebuild' /\ PageHolds'
  BY <1>4 DEF Age, TakeForOther, DropForOther, OneRebuild, PageHolds
<1> QED BY <1>1, <1>2, <1>3, <1>4 DEF Next
-----------------------------------------------------------------------------
(* The progress file.                                                      *)

\* Every step leaves the progress to the app that holds the lock.
LEMMA ProgressKept ==
    ASSUME TypeOK, OneRebuild, PageHolds, Next, NEW b \in Apps, apc[b] \in Holding
    PROVE  \/ status' \in {status, NoStatus, [status EXCEPT !.fresh = FALSE]}
           \/ status' = [phase |-> Reported(b)', by |-> b, fresh |-> TRUE]
<1> DEFINE Kept == status' \in {status, NoStatus, [status EXCEPT !.fresh = FALSE]}
           Own == status' = [phase |-> Reported(b)', by |-> b, fresh |-> TRUE]
<1> SUFFICES Kept \/ Own
  OBVIOUS
<1> USE DEF files, locks, apps, script, page
<1>1. ASSUME NEW a \in Apps, AppStep(a) \/ KillApp(a) \/ KillSubshell(a)
      PROVE  Kept \/ Own
  <2>1. CASE apc[a] \in Holding /\ a # b
    BY <2>1, RolesAreApart DEF OneRebuild
  <2>2. CASE a = b
    <3> USE <2>2 DEF App, Report, Reported, TypeOK
    <3>1. CASE ReportSetup(a) \/ TakeInstallationLock(a)
      BY <3>1 DEF ReportSetup, TakeInstallationLock
    <3>2. CASE ReportCopy(a) \/ ReportFinish(a)
      BY <3>2 DEF ReportCopy, ReportFinish
    <3>3. CASE ReportDone(a) \/ ReportFailed(a)
      BY <3>3 DEF ReportDone, ReportFailed
    <3>4. CASE ClaimRebuild(a) \/ RefuseRebuild(a) \/ WaitTooLong(a) \/ SwapPrefix(a)
                 \/ FailRebuild(a) \/ LeaveRebuild(a) \/ WriteExit(a) \/ KillApp(a) \/ KillSubshell(a)
      BY <3>4 DEF ClaimRebuild, RefuseRebuild, WaitTooLong, SwapPrefix, FailRebuild, LeaveRebuild,
                  WriteExit, KillApp, KillSubshell
    <3> QED BY <1>1, <3>1, <3>2, <3>3, <3>4 DEF AppStep
  <2>3. CASE apc[a] \notin Holding
    BY <1>1, <2>3 DEF AppStep, ClaimRebuild, RefuseRebuild, ReportSetup, TakeInstallationLock,
         WaitTooLong, ReportCopy, ReportFinish, SwapPrefix, ReportDone, FailRebuild, ReportFailed,
         LeaveRebuild, WriteExit, KillApp, KillSubshell, App, Holding, Working, Active
  <2> QED BY <2>1, <2>2, <2>3
<1>2. ASSUME NEW s \in Scripts, ScriptStep(s) \/ AskForRebuild(s) \/ StopScript(s)
      PROVE  Kept \/ Own
  BY <1>2 DEF ScriptStep, ReadExit, GraceOver, GiveUp, TakeAnswer, AcceptRebuild,
       JudgeRefusal, RemoveFailed, CloseDialog, AskForRebuild, StopScript
<1>3. ASSUME PageStep \/ PollState \/ ClickRebuild \/ QuitSteam
      PROVE  Kept \/ Own
  <2>1. CASE RecordStart
    BY <2>1, RolesAreApart DEF RecordStart, Ask, OneRebuild, PageHolds
  <2>2. CASE ~RecordStart
    BY <1>3, <2>2 DEF PageStep, PollState, ClickRebuild, QuitSteam, ShowState, ConsiderRebuild,
         ClaimForPage, PageFindsBusy, CannotRecord, SpawnApp, CannotSpawn
  <2> QED BY <2>1, <2>2
<1>4. ASSUME Age \/ TakeForOther \/ DropForOther
      PROVE  Kept \/ Own
  BY <1>4 DEF Age, TakeForOther, DropForOther
<1> QED BY <1>1, <1>2, <1>3, <1>4 DEF Next

\* A script in its grace has an app that is past its claim for good.
LEMMA OwnRunKept ==
    ASSUME TypeOK, OneRebuild, OwnRun, Next
    PROVE  OwnRun'
<1> USE RolesAreApart DEF TypeOK, files, locks, apps, script, page, App, Exit, OwnRun,
        AppSteps, Holding, Working, Active
<1>1. ASSUME NEW a \in Apps, AppStep(a) \/ KillApp(a) \/ KillSubshell(a)
      PROVE  OwnRun'
  <2>1. \A b \in Apps :
          /\ apc[b] # "unused" => apc'[b] # "unused"
          /\ apc[b] \in {"exit ok", "exit bad", "gone"}
                => apc'[b] \in {"exit ok", "exit bad", "gone"}
    <3>1. CASE ClaimRebuild(a) \/ RefuseRebuild(a) \/ ReportSetup(a) \/ TakeInstallationLock(a)
      BY <3>1 DEF ClaimRebuild, RefuseRebuild, ReportSetup, TakeInstallationLock
    <3>2. CASE WaitTooLong(a) \/ ReportCopy(a) \/ ReportFinish(a) \/ SwapPrefix(a)
      BY <3>2 DEF WaitTooLong, ReportCopy, ReportFinish, SwapPrefix
    <3>3. CASE ReportDone(a) \/ FailRebuild(a) \/ ReportFailed(a) \/ LeaveRebuild(a)
      BY <3>3 DEF ReportDone, FailRebuild, ReportFailed, LeaveRebuild
    <3>4. CASE KillApp(a) \/ WriteExit(a)
      BY <3>4 DEF KillApp, WriteExit
    <3>5. CASE KillSubshell(a)
      BY <3>5 DEF KillSubshell, EndSubshell
    <3> QED BY <1>1, <3>1, <3>2, <3>3, <3>4, <3>5 DEF AppStep
  <2>2. UNCHANGED script
    BY <1>1 DEF AppStep, ClaimRebuild, RefuseRebuild, ReportSetup, TakeInstallationLock,
                WaitTooLong, ReportCopy, ReportFinish, SwapPrefix, ReportDone, FailRebuild,
                ReportFailed, LeaveRebuild, WriteExit, KillApp, KillSubshell
  <2> QED BY <2>1, <2>2
<1>2. ASSUME NEW s \in Scripts, ScriptStep(s) \/ AskForRebuild(s) \/ StopScript(s)
      PROVE  OwnRun'
  <2> USE DEF Script, EndScript
  <2>1. CASE ReadExit(s) \/ GiveUp(s) \/ TakeAnswer(s) \/ JudgeRefusal(s) \/ RemoveFailed(s)
    BY <2>1 DEF ReadExit, GiveUp, TakeAnswer, JudgeRefusal, RemoveFailed
  <2>2. CASE GraceOver(s)
    BY <2>2 DEF GraceOver, OneRebuild
  <2>3. CASE AcceptRebuild(s) \/ CloseDialog(s)
    BY <2>3 DEF AcceptRebuild, CloseDialog
  <2>4. CASE AskForRebuild(s)
    <3>1. PICK a \in Apps : Start(a, s) /\ mine' = [mine EXCEPT ![s] = a]
      BY <2>4 DEF AskForRebuild
    <3>2. spc' = [spc EXCEPT ![s] = "waiting"] /\ UNCHANGED rebuildLock
      BY <2>4 DEF AskForRebuild
    <3>3. \A b \in Apps : apc'[b] = IF b = a THEN "started" ELSE apc[b]
      BY <3>1 DEF Start
    <3>4. apc[a] = "unused"
      BY <3>1 DEF Start
    <3> QED BY <3>1, <3>2, <3>3, <3>4
  <2>5. CASE StopScript(s)
    BY <2>5 DEF StopScript, EndSubshell
  <2> QED BY <1>2, <2>1, <2>2, <2>3, <2>4, <2>5 DEF ScriptStep
<1>3. ASSUME PageStep \/ PollState \/ ClickRebuild \/ QuitSteam
      PROVE  OwnRun'
  <2>1. CASE SpawnApp
    BY <2>1 DEF SpawnApp, Start
  <2>2. CASE ~SpawnApp
    BY <1>3, <2>2 DEF PageStep, PollState, ClickRebuild, QuitSteam, ShowState,
                 ConsiderRebuild, ClaimForPage, PageFindsBusy, RecordStart, CannotRecord,
                 CannotSpawn
  <2> QED BY <2>1, <2>2
<1>4. ASSUME Age \/ TakeForOther \/ DropForOther
      PROVE  OwnRun'
  BY <1>4 DEF Age, TakeForOther, DropForOther
<1> QED BY <1>1, <1>2, <1>3, <1>4 DEF Next

-----------------------------------------------------------------------------
(* The theorems.                                                           *)

\* The invariant holds from the start and every step keeps it.
THEOREM Inductive == Spec => []IInv
<1>1. Init => IInv
  <2> SUFFICES ASSUME Init PROVE IInv
    OBVIOUS
  <2>1. TypeOK
    BY Records DEF Init, TypeOK, AppSteps
  <2>2. OneRebuild /\ PageHolds /\ OwnRun
    BY DEF Init, OneRebuild, PageHolds, OwnRun, Holding, Working, Active
  <2> QED BY <2>1, <2>2 DEF IInv
<1>2. IInv /\ [Next]_vars => IInv'
  <2> SUFFICES ASSUME IInv, [Next]_vars PROVE IInv'
    OBVIOUS
  <2>1. CASE UNCHANGED vars
    BY <2>1 DEF IInv, OneRebuild, PageHolds, OwnRun, TypeOK, vars, files, locks, apps, script, page
  <2>2. CASE Next
    <3>1. TypeOK'
      BY <2>2, AppType, ScriptType, PageType, RestType DEF IInv, Next
    <3>2. OneRebuild' /\ PageHolds'
      BY <2>2, LocksHeld DEF IInv
    <3>3. OwnRun'
      BY <2>2, OwnRunKept DEF IInv
    <3> QED BY <3>1, <3>2, <3>3 DEF IInv
  <2> QED BY <2>1, <2>2
<1> QED BY <1>1, <1>2, PTL DEF Spec

\* One rebuild of a prefix at a time, with both locks, however the app, the scripts and
\* the page interleave and whatever is killed.
THEOREM OneAtATime == Spec => []OneRebuild
BY Inductive, PTL DEF IInv

\* A rebuild's progress is never written over by anyone else, whichever of its own
\* reports fail.
THEOREM ProgressIsNotOverwritten == Spec => ProgressIsOwn
<1>1. IInv /\ [Next]_vars
        => [\A a \in Apps : apc[a] \in Holding =>
              \/ status' \in {status, NoStatus, [status EXCEPT !.fresh = FALSE]}
              \/ status' = [phase |-> Reported(a)', by |-> a, fresh |-> TRUE]]_vars
  BY ProgressKept DEF IInv
<1> QED BY <1>1, Inductive, PTL DEF Spec, ProgressIsOwn

\* A script that gives up leaves no rebuild of its own behind, as long as an app claims
\* the rebuild lock within 30 seconds and a subshell writes its answer within two.
THEOREM GivingUpIsRight == Prompt /\ Spec => NotAbandoned
<1>1. Prompt /\ IInv /\ [Next]_vars
        => [\A s \in Scripts : spc[s] = "grace" /\ spc'[s] = "refused"
              => apc[mine[s]] = "gone"]_vars
  <2> SUFFICES ASSUME Prompt, IInv, Next,
                      NEW s \in Scripts, spc[s] = "grace", spc'[s] = "refused"
               PROVE  apc[mine[s]] = "gone"
    BY DEF vars
  <2>1. GiveUp(s)
    <3> USE DEF vars, files, locks, apps, script, page
    <3>1. ASSUME NEW t \in Scripts, ScriptStep(t) \/ AskForRebuild(t) \/ StopScript(t)
          PROVE  GiveUp(s)
      BY <3>1 DEF IInv, TypeOK, ScriptStep, ReadExit, GraceOver, GiveUp, TakeAnswer,
           AcceptRebuild, JudgeRefusal, RemoveFailed, CloseDialog, AskForRebuild,
           StopScript, Script, EndScript
    <3>2. ASSUME NEW a \in Apps, AppStep(a) \/ KillApp(a) \/ KillSubshell(a)
          PROVE  FALSE
      BY <3>2 DEF AppStep, ClaimRebuild, RefuseRebuild, ReportSetup, TakeInstallationLock,
           WaitTooLong, ReportCopy, ReportFinish, SwapPrefix, ReportDone, FailRebuild,
           ReportFailed, LeaveRebuild, WriteExit, KillApp, KillSubshell
    <3>3. ASSUME PageStep \/ PollState \/ ClickRebuild \/ QuitSteam \/ Age
                   \/ TakeForOther \/ DropForOther
          PROVE  FALSE
      BY <3>3 DEF PageStep, PollState, ClickRebuild, QuitSteam, ShowState, ConsiderRebuild,
           ClaimForPage, PageFindsBusy, RecordStart, CannotRecord, SpawnApp, CannotSpawn,
           Age, TakeForOther, DropForOther
    <3> QED BY <3>1, <3>2, <3>3 DEF Next
  <2> QED BY <2>1 DEF IInv, OwnRun, GiveUp
<1>2. CASE Prompt
  <2>1. IInv /\ [Next]_vars => [\A s \in Scripts : spc[s] = "grace" /\ spc'[s] = "refused"
              => apc[mine[s]] = "gone"]_vars
    BY <1>1, <1>2
  <2> QED BY <2>1, Inductive, PTL DEF Spec, NotAbandoned
<1> QED BY <1>2
=============================================================================
