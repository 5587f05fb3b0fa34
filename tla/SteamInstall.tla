---------------------------- MODULE SteamInstall ----------------------------
(***************************************************************************)
(* NotProton's presence in copies of Steam.app, shared by the accounts of  *)
(* a Mac: installing (SteamInstaller.run, finish), repairing               *)
(* (SteamRepair.run), removing everything (Uninstall.run), choosing        *)
(* another copy (SystemStatus.chooseSteam), and the list each account      *)
(* keeps of the copies it may have changed (SteamModifications).           *)
(*                                                                         *)
(* An operation holds its account's folder lock from start to end, so an   *)
(* account has one operation at a time and pc[a] says how far it is.       *)
(* Copies are shared: the lock of the folder a copy lies in is taken       *)
(* without waiting, and not at all while the folder's volume is away.      *)
(* An operation may throw or be killed before any of its steps.            *)
(***************************************************************************)
EXTENDS Integers, FiniteSets

CONSTANTS
    Accounts,      \* accounts of the Mac, each with its own support folder
    Bundles,       \* paths of copies of Steam.app
    DefaultBundle, \* /Applications/Steam.app
    Removable,     \* copies on volumes that come and go
    CanWrite,      \* CanWrite[a]: the copies account a may change
    MaxBuild,      \* builds of NotProton are 1..MaxBuild, newer is larger
    AppBuilds,     \* AppBuilds[a]: the builds account a has an app of
    Legacy,        \* accounts that may have installed with an early release
    Foreign,       \* copies that may insert another program's dylib already
    MaxEvents,     \* bound on what users start and do, for model checking
    NoOne          \* the holder of a free lock

ASSUME ConstantsAssumption ==
    /\ DefaultBundle \in Bundles
    /\ Removable \subseteq Bundles \ {DefaultBundle}
    /\ CanWrite \in [Accounts -> SUBSET Bundles]
    /\ MaxBuild \in Nat \ {0}
    /\ AppBuilds \in [Accounts -> SUBSET (1..MaxBuild)]
    /\ Legacy \subseteq Accounts /\ Foreign \subseteq Bundles
    /\ MaxEvents \in Nat
    /\ NoOne \notin Accounts

Builds == 1..MaxBuild
None == 0      \* no build: file missing
Mixed == -1    \* an account's files, some of one build and some of another

VARIABLES
    at,      \* at[b]: "present", "absent" or "away" (its volume is not mounted)
    insert,  \* insert[b]: the dylib Info.plist inserts: "none", "ours", "foreign"
    dylib,   \* dylib[b]: build of the notproton.dylib in the bundle
    sig,     \* sig[b]: "valve", "adhoc", or "broken" when codesign --verify fails
    lock,    \* lock[b]: who holds the flock on the folder b lies in
    listed,  \* listed[a]: notproton-steam-bundles.json exists
    tracked, \* tracked[a]: the copies it names
    record,  \* record[a]: build of install-build.json
    hashed,  \* hashed[a]: that record carries the dylib's hashes
    stamp,   \* stamp[a]: build of dylib.version
    files,   \* files[a]: build of the components in the account's folders
    chosen,  \* chosen[a]: the copy the account uses (SupportPaths.Steam.app)
    pc,      \* pc[a]: the step a's operation takes next
    job,     \* job[a]: the local values of that operation
    events   \* how much the users started and did so far

bundleVars == <<at, insert, dylib, sig>>
listVars == <<listed, tracked>>
buildVars == <<record, hashed, stamp, files>>
vars == <<bundleVars, lock, listVars, buildVars, chosen, pc, job, events>>

InstallSteps == {"preflight", "patching", "stage", "copy", "files", "insert",
                 "sign", "verify", "finish", "record"}
RepairSteps == {"fetch", "replace", "retire"}
DetachSteps == {"clear", "drop", "resign"}
TargetSteps == {"inspect", "settle"} \cup DetachSteps
Steps == {"idle", "loop", "removing"} \cup InstallSteps \cup RepairSteps \cup TargetSteps

\* Steps taken on one copy, under its lock when the copy's folder is there.
OnTarget == InstallSteps \cup RepairSteps \cup TargetSteps

(* The local values: the running app's build, the copy worked on, whether   *)
(* the bundle is patched, the insert found before it was written, and of a  *)
(* removal the targets left, the ones out of reach, whether one failed, and *)
(* whether the client was stopped.                                          *)
Jobs == [build: Builds \cup {None}, target: Bundles, patching: BOOLEAN,
         prior: {"none", "ours", "foreign"}, removing: BOOLEAN,
         todo: SUBSET Bundles, missing: SUBSET Bundles,
         failed: BOOLEAN, checked: BOOLEAN]
NoJob == [build |-> None, target |-> DefaultBundle, patching |-> FALSE,
          prior |-> "none", removing |-> FALSE, todo |-> {}, missing |-> {},
          failed |-> FALSE, checked |-> FALSE]

TypeOK ==
    /\ at \in [Bundles -> {"present", "absent", "away"}]
    /\ insert \in [Bundles -> {"none", "ours", "foreign"}]
    /\ dylib \in [Bundles -> Builds \cup {None}]
    /\ sig \in [Bundles -> {"valve", "adhoc", "broken"}]
    /\ lock \in [Bundles -> Accounts \cup {NoOne}]
    /\ listed \in [Accounts -> BOOLEAN]
    /\ tracked \in [Accounts -> SUBSET Bundles]
    /\ record \in [Accounts -> Builds \cup {None}]
    /\ hashed \in [Accounts -> BOOLEAN]
    /\ stamp \in [Accounts -> Builds \cup {None}]
    /\ files \in [Accounts -> Builds \cup {None, Mixed}]
    /\ chosen \in [Accounts -> Bundles]
    /\ pc \in [Accounts -> Steps]
    /\ job \in [Accounts -> Jobs]
    /\ events \in 0..MaxEvents

(* Accounts in legacy installed with a release that kept neither the list   *)
(* nor the hashes; that release only knew /Applications.                    *)
Init ==
    /\ at \in [Bundles -> {"present", "away"}]
    /\ \A b \in Bundles \ Removable : at[b] = "present"
    /\ lock = [b \in Bundles |-> NoOne]
    /\ \E legacy \in SUBSET Legacy, patched \in BOOLEAN, foreign \in SUBSET Foreign :
         /\ patched => legacy # {} /\ DefaultBundle \notin foreign
         /\ insert = [b \in Bundles |-> IF b \in foreign THEN "foreign"
                                        ELSE IF b = DefaultBundle /\ patched THEN "ours"
                                        ELSE "none"]
         /\ dylib = [b \in Bundles |-> IF b = DefaultBundle /\ patched THEN 1 ELSE None]
         /\ sig = [b \in Bundles |-> IF insert[b] = "none" THEN "valve" ELSE "adhoc"]
         /\ record = [a \in Accounts |-> IF a \in legacy THEN 1 ELSE None]
         /\ stamp = record
         /\ files = record
    /\ hashed = [a \in Accounts |-> FALSE]
    /\ listed = [a \in Accounts |-> FALSE]
    /\ tracked = [a \in Accounts |-> {}]
    /\ chosen = [a \in Accounts |-> DefaultBundle]
    /\ pc = [a \in Accounts |-> "idle"]
    /\ job = [a \in Accounts |-> NoJob]
    /\ events = 0

-----------------------------------------------------------------------------
(* SteamModifications *)

\* What is NotProton's in a copy, wherever its volume is.
Changed(b) == insert[b] = "ours" \/ dylib[b] # None \/ sig[b] = "broken"

\* A valid ad hoc signature with nothing of ours left counts as clean.
Inspect(b) == CASE at[b] = "away" -> "unreachable"
                [] at[b] = "absent" -> "absent"
                [] at[b] = "present" -> IF Changed(b) THEN "modified" ELSE "clean"

Paths(a) == IF listed[a] THEN tracked[a]
            ELSE IF record[a] # None THEN {DefaultBundle} ELSE {}

WriteList(a, bs) ==
    /\ tracked' = [tracked EXCEPT ![a] = bs]
    /\ listed' = [listed EXCEPT ![a] = TRUE]

Prepare(a) == WriteList(a, Paths(a))
Mark(a, b) == WriteList(a, Paths(a) \cup {b})

\* Mutant: the copy is forgotten without a look at it.
RetireUnseen(a, b) == WriteList(a, Paths(a) \ {b})

RetireIfClean(a, b) ==
    IF Inspect(b) \in {"absent", "clean"}
    THEN WriteList(a, Paths(a) \ {b})
    ELSE UNCHANGED listVars

-----------------------------------------------------------------------------
(* Locks and the end of an operation *)

\* A folder that is not there is not locked and does not refuse.
CanLock(b) == at[b] = "away" \/ lock[b] = NoOne
Locked(a, b) == IF at[b] = "away" THEN lock ELSE [lock EXCEPT ![b] = a]
Released(a) == [b \in Bundles |-> IF lock[b] = a THEN NoOne ELSE lock[b]]

Goto(a, step) == pc' = [pc EXCEPT ![a] = step]

Happens == events < MaxEvents /\ events' = events + 1

Begin(a, step) ==
    /\ Happens
    /\ pc[a] = "idle"
    /\ Goto(a, step)

Leave(a) ==
    /\ Goto(a, "idle")
    /\ job' = [job EXCEPT ![a] = NoJob]
    /\ lock' = Released(a)

\* The next copy of a removal, after one that failed or was dealt with.
NextOf(a, failed, missing) ==
    /\ Goto(a, "loop")
    /\ job' = [job EXCEPT ![a].todo = @ \ {job[a].target},
                          ![a].failed = @ \/ failed,
                          ![a].missing = @ \cup missing]
    /\ lock' = Released(a)

-----------------------------------------------------------------------------
(* Installing *)

StartInstall(a, n) ==
    /\ Begin(a, "preflight")
    /\ CanLock(chosen[a])
    /\ lock' = Locked(a, chosen[a])
    /\ job' = [job EXCEPT ![a].build = n, ![a].target = chosen[a]]
    /\ UNCHANGED <<bundleVars, listVars, buildVars, chosen>>

\* DeploymentContent.inspect refuses: a newer build is recorded, or the dylib
\* in Steam is not the one this account's record has the hashes of.
NewerInstalled(a) == record[a] > job[a].build \/ stamp[a] > job[a].build

HashesDiffer(a) ==
    LET b == job[a].target
    IN  /\ record[a] # None /\ hashed[a]
        /\ dylib[b] \notin {None, job[a].build, record[a]}

Preflight(a) ==
    LET b == job[a].target
    IN  /\ pc[a] = "preflight"
        /\ at[b] = "present" /\ insert[b] # "foreign"
        /\ ~NewerInstalled(a) /\ ~HashesDiffer(a)
        /\ Mark(a, b)
        /\ Goto(a, "patching")
        /\ UNCHANGED <<bundleVars, lock, buildVars, chosen, job, events>>

\* The signature of the bundle is not looked at.
NeedsPatching(a) ==
    LET b == job[a].target
        deployed == insert[b] = "ours" /\ dylib[b] = job[a].build
    IN  /\ pc[a] = "patching"
        /\ deployed \/ b \in CanWrite[a]
        /\ job' = [job EXCEPT ![a].patching = ~deployed]
        /\ Goto(a, "stage")
        /\ UNCHANGED <<bundleVars, lock, listVars, buildVars, chosen, events>>

\* Stops the client, then stages the bridge and patches the runners.
Stage(a) ==
    /\ pc[a] = "stage"
    /\ files' = [files EXCEPT ![a] = IF @ = job[a].build THEN @ ELSE Mixed]
    /\ Goto(a, IF job[a].patching THEN "copy" ELSE "files")
    /\ UNCHANGED <<bundleVars, lock, listVars, record, hashed, stamp, chosen, job, events>>

CopyDylib(a) ==
    LET b == job[a].target
    IN  /\ pc[a] = "copy"
        /\ dylib' = [dylib EXCEPT ![b] = job[a].build]
        /\ sig' = [sig EXCEPT ![b] = "broken"]
        /\ Goto(a, "files")
        /\ UNCHANGED <<at, insert, lock, listVars, buildVars, chosen, job, events>>

InstallFiles(a) ==
    /\ pc[a] = "files"
    /\ files' = [files EXCEPT ![a] = job[a].build]
    /\ Goto(a, IF job[a].patching THEN "insert" ELSE "verify")
    /\ UNCHANGED <<bundleVars, lock, listVars, record, hashed, stamp, chosen, job, events>>

SetInsert(a) ==
    LET b == job[a].target
    IN  /\ pc[a] = "insert"
        /\ job' = [job EXCEPT ![a].prior = insert[b]]
        /\ insert' = [insert EXCEPT ![b] = "ours"]
        /\ sig' = [sig EXCEPT ![b] = "broken"]
        /\ Goto(a, "sign")
        /\ UNCHANGED <<at, dylib, lock, listVars, buildVars, chosen, events>>

\* The dylib, steam_osx and then the bundle: only the last makes it verify.
AdHocSign(a) ==
    LET b == job[a].target
    IN  /\ pc[a] = "sign"
        /\ sig' = [sig EXCEPT ![b] = "adhoc"]
        /\ Goto(a, "verify")
        /\ UNCHANGED <<at, insert, dylib, lock, listVars, buildVars, chosen, job, events>>

\* Writing the plist or a signature throws: revertPlist writes the plist found
\* and signs the bundle again, and either may fail.
SigningFails(a) ==
    LET b == job[a].target
        found == IF pc[a] = "insert" THEN insert[b] ELSE job[a].prior
    IN  /\ pc[a] \in {"insert", "sign"}
        /\ \E bytes \in {found, insert[b]}, seal \in {"adhoc", sig[b]} :
             /\ insert' = [insert EXCEPT ![b] = bytes]
             /\ sig' = [sig EXCEPT ![b] = seal]
        /\ Leave(a)
        /\ UNCHANGED <<at, dylib, listVars, buildVars, chosen, events>>

IsCurrent(a) == dylib[job[a].target] = job[a].build /\ files[a] = job[a].build

\* The last checks of run, before the runner is set up and Valve's files come.
Verify(a) ==
    /\ pc[a] = "verify"
    /\ insert[job[a].target] = "ours" /\ IsCurrent(a)
    /\ Goto(a, "finish")
    /\ UNCHANGED <<bundleVars, lock, listVars, buildVars, chosen, job, events>>

FinishStamp(a) ==
    /\ pc[a] = "finish"
    /\ ~NewerInstalled(a) /\ IsCurrent(a)
    /\ stamp' = [stamp EXCEPT ![a] = job[a].build]
    /\ Goto(a, "record")
    /\ UNCHANGED <<bundleVars, lock, listVars, record, hashed, files, chosen, job, events>>

FinishRecord(a) ==
    /\ pc[a] = "record"
    /\ record' = [record EXCEPT ![a] = job[a].build]
    /\ hashed' = [hashed EXCEPT ![a] = TRUE]
    /\ Leave(a)
    /\ UNCHANGED <<bundleVars, listVars, stamp, files, chosen, events>>

-----------------------------------------------------------------------------
(* Repairing: the button's operation, and a part of a removal *)

StartRepair(a) ==
    /\ Begin(a, "fetch")
    /\ CanLock(chosen[a])
    /\ lock' = Locked(a, chosen[a])
    /\ job' = [job EXCEPT ![a].target = chosen[a]]
    /\ UNCHANGED <<bundleVars, listVars, buildVars, chosen>>

\* Downloads and verifies Valve's copy, stops the client, writes the list.
Fetch(a) ==
    /\ pc[a] = "fetch"
    /\ Prepare(a)
    /\ Goto(a, "replace")
    /\ UNCHANGED <<bundleVars, lock, buildVars, chosen, job, events>>

Fresh(b) ==
    /\ at' = [at EXCEPT ![b] = "present"]
    /\ insert' = [insert EXCEPT ![b] = "none"]
    /\ dylib' = [dylib EXCEPT ![b] = None]
    /\ sig' = [sig EXCEPT ![b] = "valve"]

Replace(a) ==
    LET b == job[a].target
    IN  /\ pc[a] = "replace"
        /\ at[b] # "away" /\ b \in CanWrite[a]
        /\ Fresh(b)
        /\ Goto(a, "retire")
        /\ UNCHANGED <<lock, listVars, buildVars, chosen, job, events>>

RepairRetires(a) ==
    /\ pc[a] = "retire"
    /\ RetireIfClean(a, job[a].target)
    /\ IF job[a].removing
       THEN Goto(a, "settle") /\ UNCHANGED <<lock, job>>
       ELSE Leave(a)
    /\ UNCHANGED <<bundleVars, buildVars, chosen, events>>

\* A removal goes on after a repair that throws.
RepairFails(a) ==
    /\ pc[a] \in RepairSteps /\ job[a].removing
    /\ Goto(a, "settle")
    /\ UNCHANGED <<bundleVars, lock, listVars, buildVars, chosen, job, events>>

-----------------------------------------------------------------------------
(* Removing everything *)

StartRemove(a) ==
    /\ Begin(a, "loop")
    /\ Prepare(a)
    /\ job' = [job EXCEPT ![a].removing = TRUE, ![a].todo = Paths(a) \cup {chosen[a]}]
    /\ UNCHANGED <<bundleVars, lock, buildVars, chosen>>

NextTarget(a) ==
    /\ pc[a] = "loop"
    /\ \E b \in job[a].todo :
         IF CanLock(b)
         THEN /\ lock' = Locked(a, b)
              /\ job' = [job EXCEPT ![a].target = b]
              /\ Goto(a, "inspect")
         ELSE /\ job' = [job EXCEPT ![a].todo = @ \ {b}, ![a].failed = TRUE]
              /\ UNCHANGED <<lock, pc>>
    /\ UNCHANGED <<bundleVars, listVars, buildVars, chosen, events>>

TargetUnreachable(a) ==
    LET b == job[a].target
    IN  /\ pc[a] = "inspect" /\ Inspect(b) = "unreachable"
        /\ NextOf(a, FALSE, {b} \cap tracked[a])
        /\ UNCHANGED <<bundleVars, listVars, buildVars, chosen, events>>

TargetClean(a) ==
    LET b == job[a].target
    IN  /\ pc[a] = "inspect" /\ Inspect(b) \in {"absent", "clean"}
        /\ IF b \in tracked[a] THEN RetireIfClean(a, b) ELSE UNCHANGED listVars
        /\ NextOf(a, FALSE, {})
        /\ UNCHANGED <<bundleVars, buildVars, chosen, events>>

TargetModified(a) ==
    LET b == job[a].target
    IN  /\ pc[a] = "inspect" /\ Inspect(b) = "modified"
        /\ Mark(a, b)
        /\ Goto(a, "clear")
        /\ UNCHANGED <<bundleVars, lock, buildVars, chosen, job, events>>

\* Mutant: only another program's insert is dropped.
ClearForeignOnly(a) ==
    LET b == job[a].target
    IN  /\ pc[a] = "clear"
        /\ job' = [job EXCEPT ![a].checked = TRUE, ![a].prior = insert[b]]
        /\ insert' = [insert EXCEPT ![b] = IF @ = "foreign" THEN "none" ELSE @]
        /\ Goto(a, "drop")
        /\ UNCHANGED <<at, dylib, sig, lock, listVars, buildVars, chosen, events>>

\* Stops the client; whatever the insert names is dropped.
ClearInsert(a) ==
    LET b == job[a].target
    IN  /\ pc[a] = "clear"
        /\ insert[b] = "none" \/ b \in CanWrite[a]
        /\ job' = [job EXCEPT ![a].checked = TRUE, ![a].prior = insert[b]]
        /\ insert' = [insert EXCEPT ![b] = "none"]
        /\ sig' = [sig EXCEPT ![b] = IF insert[b] = "none" THEN @ ELSE "broken"]
        /\ Goto(a, "drop")
        /\ UNCHANGED <<at, dylib, lock, listVars, buildVars, chosen, events>>

DropDylib(a) ==
    LET b == job[a].target
    IN  /\ pc[a] = "drop"
        /\ dylib[b] = None \/ b \in CanWrite[a]
        /\ dylib' = [dylib EXCEPT ![b] = None]
        /\ sig' = [sig EXCEPT ![b] = IF dylib[b] = None THEN @ ELSE "broken"]
        /\ Goto(a, IF job[a].prior # "none" \/ dylib[b] # None THEN "resign" ELSE "fetch")
        /\ UNCHANGED <<at, insert, lock, listVars, buildVars, chosen, job, events>>

Resign(a) ==
    LET b == job[a].target
    IN  /\ pc[a] = "resign"
        /\ sig' = [sig EXCEPT ![b] = "adhoc"]
        /\ Goto(a, "fetch")
        /\ UNCHANGED <<at, insert, dylib, lock, listVars, buildVars, chosen, job, events>>

\* detach throws; what it had changed already is signed again if that works.
DetachFails(a) ==
    LET b == job[a].target
        changed == pc[a] = "resign" \/ (pc[a] = "drop" /\ job[a].prior # "none")
    IN  /\ pc[a] \in DetachSteps
        /\ \E seal \in IF changed THEN {"adhoc", sig[b]} ELSE {sig[b]} :
             sig' = [sig EXCEPT ![b] = seal]
        /\ NextOf(a, TRUE, {})
        /\ UNCHANGED <<at, insert, dylib, listVars, buildVars, chosen, events>>

\* Reading or locking the target, or writing the list, throws.
TargetFails(a) ==
    /\ pc[a] \in {"inspect", "settle"}
    /\ NextOf(a, TRUE, {})
    /\ UNCHANGED <<bundleVars, listVars, buildVars, chosen, events>>

Settle(a) ==
    LET b == job[a].target
    IN  /\ pc[a] = "settle"
        /\ RetireIfClean(a, b)
        /\ NextOf(a, Inspect(b) \notin {"absent", "clean"}, {})
        /\ UNCHANGED <<bundleVars, buildVars, chosen, events>>

\* A client that no target stopped is stopped under the lock of the chosen copy.
AfterTargets(a) ==
    /\ pc[a] = "loop" /\ job[a].todo = {} /\ ~job[a].failed
    /\ job[a].checked \/ CanLock(chosen[a])
    /\ Goto(a, "removing")
    /\ UNCHANGED <<bundleVars, lock, listVars, buildVars, chosen, job, events>>

\* The folder goes file by file, in no particular order.
RemoveFile(a) ==
    /\ pc[a] = "removing"
    /\ \/ /\ record[a] # None
          /\ record' = [record EXCEPT ![a] = None]
          /\ hashed' = [hashed EXCEPT ![a] = FALSE]
          /\ UNCHANGED <<stamp, files>>
       \/ /\ stamp[a] # None
          /\ stamp' = [stamp EXCEPT ![a] = None]
          /\ UNCHANGED <<record, hashed, files>>
       \/ /\ files[a] # None
          /\ files' = [files EXCEPT ![a] = IF @ = Mixed THEN None ELSE Mixed]
          /\ UNCHANGED <<record, hashed, stamp>>
    /\ UNCHANGED <<bundleVars, lock, listVars, chosen, pc, job, events>>

Removed(a) ==
    /\ pc[a] = "removing"
    /\ record[a] = None /\ stamp[a] = None /\ files[a] = None
    /\ Leave(a)
    /\ UNCHANGED <<bundleVars, listVars, buildVars, chosen, events>>

-----------------------------------------------------------------------------
(* Choosing a copy; throwing or being killed; what happens to the copies *)

ChooseSteam(a, b) ==
    /\ Happens
    /\ pc[a] = "idle"
    /\ b # chosen[a] /\ at[b] = "present"
    /\ CanLock(chosen[a])
    /\ ~(at[chosen[a]] = "present" /\ insert[chosen[a]] = "ours")
    /\ chosen' = [chosen EXCEPT ![a] = b]
    /\ UNCHANGED <<bundleVars, lock, listVars, buildVars, pc, job>>

\* Killed, or thrown out of where nothing catches.
Stops(a) ==
    /\ pc[a] # "idle"
    /\ Leave(a)
    /\ UNCHANGED <<bundleVars, listVars, buildVars, chosen, events>>

\* No operation looks at b, and none has its folder open.
Untouched(b) ==
    /\ lock[b] = NoOne
    /\ \A a \in Accounts : pc[a] \in OnTarget => job[a].target # b

Mount(b) ==
    /\ Happens
    /\ b \in Removable /\ Untouched(b) /\ at[b] = "away"
    /\ at' = [at EXCEPT ![b] = "present"]
    /\ UNCHANGED <<insert, dylib, sig, lock, listVars, buildVars, chosen, pc, job>>

Unmount(b) ==
    /\ Happens
    /\ b \in Removable /\ Untouched(b) /\ at[b] = "present"
    /\ at' = [at EXCEPT ![b] = "away"]
    /\ UNCHANGED <<insert, dylib, sig, lock, listVars, buildVars, chosen, pc, job>>

UserReinstalls(b) ==
    /\ Happens
    /\ Untouched(b) /\ at[b] # "away"
    /\ Fresh(b)
    /\ UNCHANGED <<lock, listVars, buildVars, chosen, pc, job>>

UserDeletes(b) ==
    /\ Happens
    /\ Untouched(b) /\ at[b] = "present"
    /\ at' = [at EXCEPT ![b] = "absent"]
    /\ insert' = [insert EXCEPT ![b] = "none"]
    /\ dylib' = [dylib EXCEPT ![b] = None]
    /\ sig' = [sig EXCEPT ![b] = "valve"]
    /\ UNCHANGED <<lock, listVars, buildVars, chosen, pc, job>>

Install(a) ==
    \/ \E n \in AppBuilds[a] : StartInstall(a, n)
    \/ Preflight(a) \/ NeedsPatching(a) \/ Stage(a) \/ CopyDylib(a) \/ InstallFiles(a)
    \/ SetInsert(a) \/ AdHocSign(a) \/ SigningFails(a)
    \/ Verify(a) \/ FinishStamp(a) \/ FinishRecord(a)

Repair(a) ==
    StartRepair(a) \/ Fetch(a) \/ Replace(a) \/ RepairRetires(a) \/ RepairFails(a)

Remove(a) ==
    \/ StartRemove(a) \/ NextTarget(a)
    \/ TargetUnreachable(a) \/ TargetClean(a) \/ TargetModified(a) \/ TargetFails(a)
    \/ ClearInsert(a) \/ DropDylib(a) \/ Resign(a) \/ DetachFails(a)
    \/ Settle(a) \/ AfterTargets(a) \/ RemoveFile(a) \/ Removed(a)

Outside(b) == Mount(b) \/ Unmount(b) \/ UserReinstalls(b) \/ UserDeletes(b)

Next ==
    \/ \E a \in Accounts : Install(a) \/ Repair(a) \/ Remove(a) \/ Stops(a)
    \/ \E a \in Accounts, b \in Bundles : ChooseSteam(a, b)
    \/ \E b \in Bundles : Outside(b)

Spec == Init /\ [][Next]_vars

-----------------------------------------------------------------------------
(* Properties *)

(* A copy that holds anything of NotProton's is in the list of some         *)
(* account, whichever operation was interrupted wherever, and also while    *)
(* its volume is away: mark comes before the first change                   *)
(* (SteamInstaller.swift:123), retireIfClean looks before it forgets, and   *)
(* the list is written out before the record it was derived from goes.      *)
ModifiedIsTracked ==
    \A b \in Bundles : Changed(b) => \E a \in Accounts : b \in Paths(a)

(* Info.plist never inserts a dylib that is not there, so Steam can always  *)
(* start: an install copies the dylib before it sets the insert, a removal  *)
(* clears the insert before it deletes the dylib, and a revert of a failed  *)
(* signing puts back an insert whose dylib was replaced, not removed.       *)
InsertHasDylib ==
    \A b \in Bundles : insert[b] = "ours" => dylib[b] # None

(* The support folder is deleted only when every copy this account still    *)
(* has in its list is one it could not reach and reports as such            *)
(* (Uninstall.swift:87-133): a target that failed keeps everything, and the *)
(* list outlives the record it may have been derived from.                  *)
SupportGoesLast ==
    \A a \in Accounts :
        pc[a] = "removing" => listed[a] /\ tracked[a] \subseteq job[a].missing

(* An account whose record carries hashes never puts an older dylib over a  *)
(* newer one, not even after an update that was cut short before its record *)
(* was written or one made from another account: the check of the hashes    *)
(* (DeploymentContent.swift:147-155) still holds when the dylib is copied.  *)
HashedNeverDowngrades == [][
    \A b \in Bundles :
        dylib'[b] # None /\ dylib'[b] < dylib[b]
        => \E a \in Accounts :
              /\ pc[a] = "copy" /\ job[a].target = b
              /\ ~(record[a] # None /\ hashed[a])]_vars

(* install-build.json is written only while the copy declares our insert    *)
(* and its dylib and the account's files are all of that very build, though *)
(* minutes pass and other accounts work between the checks and the write    *)
(* (SteamInstaller.swift:177-191 and 223-229).                              *)
RecordIsVerified == [][
    \A a \in Accounts :
        record'[a] # None /\ (record'[a] # record[a] \/ (hashed'[a] /\ ~hashed[a]))
        => LET b == job[a].target
           IN  /\ insert[b] = "ours" /\ at[b] = "present"
               /\ dylib[b] = record'[a] /\ files[a] = record'[a]]_vars

(* A finished install leaves a bundle whose seal verifies, as the test      *)
(* "The bundle is signed inner to outer, so every seal verifies afterwards" *)
(* says. It does not hold: see the README.                                  *)
InstalledIsSealed == [][
    \A a \in Accounts : FinishRecord(a) => sig[job[a].target] # "broken"]_vars

=============================================================================
