------------------------- MODULE SteamInstallProofs -------------------------
(***************************************************************************)
(* Proofs about SteamInstall, for any accounts, copies and builds.         *)
(*                                                                         *)
(* LockInv: an operation past its first look at a copy holds the copy's    *)
(* lock, and nobody else works on it.  ListInv: it has listed the copy     *)
(* before it changes it.  PatchInv: what an install and a detachment have  *)
(* established at each of their steps.  LoopInv: what a removal has listed *)
(* is still to do or out of reach, unless a target failed.                 *)
(***************************************************************************)
EXTENDS SteamInstall, TLAPS

\* Steps that come after a look at the copy, which was there.
Patching == (InstallSteps \ {"preflight"}) \cup DetachSteps

\* Steps a removal, and nothing else, takes.
Removing == TargetSteps \cup {"loop", "removing"}

LockInv ==
    /\ \A a \in Accounts : pc[a] \in OnTarget =>
          lock[job[a].target] = a \/ at[job[a].target] = "away"
    /\ \A b \in Bundles : lock[b] # NoOne =>
          pc[lock[b]] \in OnTarget /\ job[lock[b]].target = b
    /\ \A a \in Accounts : pc[a] \in Patching =>
          lock[job[a].target] = a /\ at[job[a].target] = "present"

ListInv ==
    /\ \A a \in Accounts : pc[a] \in Patching =>
          listed[a] /\ job[a].target \in tracked[a]
    /\ \A b \in Bundles : at[b] = "absent" => ~Changed(b)

PatchInv ==
    \A a \in Accounts :
        LET b == job[a].target
            n == job[a].build
        IN  /\ pc[a] \in InstallSteps => n \in Builds
            /\ pc[a] = "files" /\ job[a].patching => dylib[b] = n
            /\ pc[a] \in {"insert", "sign"} => dylib[b] = n
            /\ pc[a] = "drop" => insert[b] = "none"
            /\ pc[a] \in {"finish", "record"} => insert[b] = "ours"
            /\ pc[a] = "record" => dylib[b] = n /\ files[a] = n
            /\ pc[a] \in {"patching", "stage", "copy"} /\ record[a] # None /\ hashed[a] =>
                  dylib[b] \in {None, n, record[a]} /\ record[a] <= n

LoopInv ==
    \A a \in Accounts :
        /\ pc[a] = "idle" => ~job[a].removing
        /\ pc[a] \in Removing => job[a].removing
        /\ pc[a] = "inspect" => job[a].target \in job[a].todo
        /\ pc[a] # "idle" /\ job[a].removing => listed[a]
        /\ pc[a] # "idle" /\ job[a].removing /\ ~job[a].failed =>
              tracked[a] \subseteq job[a].missing \cup job[a].todo
        /\ pc[a] = "removing" => ~job[a].failed /\ job[a].todo = {}
        /\ pc[a] \in InstallSteps => ~job[a].removing

\* The step of HashedNeverDowngrades, and that of RecordIsVerified.
NoHashedDowngrade ==
    \A b \in Bundles :
        dylib'[b] # None /\ dylib'[b] < dylib[b]
        => \E a \in Accounts :
              /\ pc[a] = "copy" /\ job[a].target = b
              /\ ~(record[a] # None /\ hashed[a])

VerifiedRecord ==
    \A a \in Accounts :
        record'[a] # None /\ (record'[a] # record[a] \/ (hashed'[a] /\ ~hashed[a]))
        => LET b == job[a].target
           IN  /\ insert[b] = "ours" /\ at[b] = "present"
               /\ dylib[b] = record'[a] /\ files[a] = record'[a]


\* The fields of a job.
LEMMA JobFields ==
    ASSUME NEW j \in Jobs
    PROVE  /\ j.build \in Builds \cup {None} /\ j.target \in Bundles
           /\ j.patching \in BOOLEAN /\ j.prior \in {"none", "ours", "foreign"}
           /\ j.removing \in BOOLEAN /\ j.failed \in BOOLEAN /\ j.checked \in BOOLEAN
           /\ j.todo \in SUBSET Bundles /\ j.missing \in SUBSET Bundles
BY DEF Jobs

\* The changes the operations make to a job leave it a job.
LEMMA JobInstalls ==
    ASSUME NEW j \in Jobs, NEW n \in Builds, NEW b \in Bundles
    PROVE  [j EXCEPT !.build = n, !.target = b] \in Jobs
BY DEF Jobs

\* A job with another target.
LEMMA JobTarget ==
    ASSUME NEW j \in Jobs, NEW b \in Bundles
    PROVE  [j EXCEPT !.target = b] \in Jobs
BY DEF Jobs

\* A job that begins a removal.
LEMMA JobRemoves ==
    ASSUME NEW j \in Jobs, NEW bs \in SUBSET Bundles
    PROVE  [j EXCEPT !.removing = TRUE, !.todo = bs] \in Jobs
BY DEF Jobs

\* A job that gives up a target.
LEMMA JobSkips ==
    ASSUME NEW j \in Jobs, NEW b \in Bundles
    PROVE  [j EXCEPT !.todo = j.todo \ {b}, !.failed = TRUE] \in Jobs
BY DEF Jobs

\* A job that learned what it has to patch, or what it found.
LEMMA JobPatches ==
    ASSUME NEW j \in Jobs, NEW p \in BOOLEAN, NEW i \in {"none", "ours", "foreign"}
    PROVE  /\ [j EXCEPT !.patching = p] \in Jobs
           /\ [j EXCEPT !.prior = i] \in Jobs
           /\ [j EXCEPT !.checked = TRUE, !.prior = i] \in Jobs
BY DEF Jobs

\* A job that goes on to its next target.
LEMMA JobGoesOn ==
    ASSUME NEW j \in Jobs, NEW f \in BOOLEAN,
           NEW ts \in SUBSET Bundles, NEW ms \in SUBSET Bundles
    PROVE  [j EXCEPT !.todo = ts, !.failed = f, !.missing = ms] \in Jobs
BY DEF Jobs

\* An account without an operation has a job all the same.
LEMMA NoJobIsAJob == NoJob \in Jobs
BY ConstantsAssumption DEF NoJob, Jobs, Builds, None

\* The names of all steps.
LEMMA StepNames == Steps =
    {"idle", "loop", "removing", "preflight", "patching", "stage", "copy", "files", "insert",
     "sign", "verify", "finish", "record", "fetch", "replace", "retire", "inspect", "settle",
     "clear", "drop", "resign"}
BY DEF Steps, InstallSteps, RepairSteps, TargetSteps, DetachSteps

\* The helpers of the actions keep the types of what they change.
LEMMA GotoTypes ==
    ASSUME TypeOK, NEW a \in Accounts, NEW s \in Steps, Goto(a, s)
    PROVE  pc' \in [Accounts -> Steps]
BY DEF TypeOK, Goto

\* The count of events stays within its bound.
LEMMA HappensTypes ==
    ASSUME TypeOK, Happens
    PROVE  events' \in 0..MaxEvents
BY ConstantsAssumption DEF TypeOK, Happens

\* Taking and giving back a lock.
LEMMA LockTypes ==
    ASSUME TypeOK, NEW a \in Accounts, NEW b \in Bundles
    PROVE  /\ Locked(a, b) \in [Bundles -> Accounts \cup {NoOne}]
           /\ Released(a) \in [Bundles -> Accounts \cup {NoOne}]
BY DEF TypeOK, Locked, Released

\* What paths() returns are copies.
LEMMA PathsTypes ==
    ASSUME TypeOK, NEW a \in Accounts
    PROVE  Paths(a) \in SUBSET Bundles
BY ConstantsAssumption DEF TypeOK, Paths

\* Writing the list.
LEMMA ListTypes ==
    ASSUME TypeOK, NEW a \in Accounts, NEW bs \in SUBSET Bundles, WriteList(a, bs)
    PROVE  listed' \in [Accounts -> BOOLEAN] /\ tracked' \in [Accounts -> SUBSET Bundles]
BY DEF TypeOK, WriteList

\* Forgetting a clean copy.
LEMMA RetireTypes ==
    ASSUME TypeOK, NEW a \in Accounts, NEW b \in Bundles, RetireIfClean(a, b)
    PROVE  listed' \in [Accounts -> BOOLEAN] /\ tracked' \in [Accounts -> SUBSET Bundles]
<1>1. CASE WriteList(a, Paths(a) \ {b})
  <2>1. Paths(a) \ {b} \in SUBSET Bundles
    BY PathsTypes
  <2> QED BY <1>1, <2>1, ListTypes
<1>2. CASE UNCHANGED listVars
  BY <1>2 DEF TypeOK, listVars
<1> QED BY <1>1, <1>2 DEF RetireIfClean

\* The end of an operation.
LEMMA LeaveTypes ==
    ASSUME TypeOK, NEW a \in Accounts, Leave(a)
    PROVE  /\ pc' \in [Accounts -> Steps] /\ job' \in [Accounts -> Jobs]
           /\ lock' \in [Bundles -> Accounts \cup {NoOne}]
<1>1. pc' \in [Accounts -> Steps]
  BY GotoTypes, StepNames DEF Leave
<1>2. job' \in [Accounts -> Jobs]
  BY NoJobIsAJob DEF TypeOK, Leave
<1>3. lock' \in [Bundles -> Accounts \cup {NoOne}]
  BY DEF TypeOK, Leave, Released
<1> QED BY <1>1, <1>2, <1>3

\* The next copy of a removal.
LEMMA NextOfTypes ==
    ASSUME TypeOK, NEW a \in Accounts, NEW f \in BOOLEAN, NEW ms \in SUBSET Bundles,
           NextOf(a, f, ms)
    PROVE  /\ pc' \in [Accounts -> Steps] /\ job' \in [Accounts -> Jobs]
           /\ lock' \in [Bundles -> Accounts \cup {NoOne}]
<1>1. pc' \in [Accounts -> Steps]
  BY GotoTypes, StepNames DEF NextOf
<1>2. job' \in [Accounts -> Jobs]
  BY JobFields, JobGoesOn DEF TypeOK, NextOf
<1>3. lock' \in [Bundles -> Accounts \cup {NoOne}]
  BY DEF TypeOK, NextOf, Released
<1> QED BY <1>1, <1>2, <1>3

\* The start of an operation.
LEMMA BeginTypes ==
    ASSUME TypeOK, NEW a \in Accounts, NEW s \in Steps, Begin(a, s)
    PROVE  pc' \in [Accounts -> Steps] /\ events' \in 0..MaxEvents
BY GotoTypes, HappensTypes DEF Begin

\* An app the account has is of one of the builds.
LEMMA AppBuildsAreBuilds ==
    ASSUME NEW a \in Accounts, NEW n \in AppBuilds[a]
    PROVE  n \in Builds
BY ConstantsAssumption DEF Builds

\* An operation that is off its copy and gave its lock back leaves the locks in order.
LEMMA ReleaseLock ==
    ASSUME TypeOK, LockInv, NEW a \in Accounts, UNCHANGED at,
           pc'[a] \notin OnTarget, \A c \in Accounts \ {a} : pc'[c] = pc[c],
           \A c \in Accounts \ {a} : job'[c] = job[c],
           \A b \in Bundles : lock'[b] = IF lock[b] = a THEN NoOne ELSE lock[b]
    PROVE  LockInv'
<1>1. pc'[a] \notin Patching
  BY DEF OnTarget, Patching, TargetSteps
<1>2. \A c \in Accounts : c # a => job'[c] = job[c] /\ pc'[c] = pc[c] /\ job[c].target \in Bundles
  BY JobFields DEF TypeOK
<1>3. \A c \in Accounts : pc'[c] \in OnTarget =>
          lock'[job'[c].target] = c \/ at'[job'[c].target] = "away"
  BY <1>2 DEF LockInv
<1>4. \A c \in Accounts : pc'[c] \in Patching =>
          lock'[job'[c].target] = c /\ at'[job'[c].target] = "present"
  BY <1>1, <1>2 DEF LockInv
<1>5. ASSUME NEW b \in Bundles, lock'[b] # NoOne
      PROVE  pc'[lock'[b]] \in OnTarget /\ job'[lock'[b]].target = b
  <2>1. lock[b] # NoOne /\ lock[b] # a /\ lock'[b] = lock[b]
    BY <1>5
  <2>2. lock[b] \in Accounts
    BY <2>1 DEF TypeOK
  <2> QED BY <2>1, <2>2, <1>2 DEF LockInv
<1> QED BY <1>3, <1>4, <1>5 DEF LockInv

\* So does one that ends,
LEMMA LeaveLock ==
    ASSUME TypeOK, LockInv, NEW a \in Accounts, Leave(a), UNCHANGED at
    PROVE  LockInv'
<1>1. /\ pc'[a] = "idle" /\ \A c \in Accounts \ {a} : pc'[c] = pc[c]
      /\ \A c \in Accounts \ {a} : job'[c] = job[c]
      /\ \A b \in Bundles : lock'[b] = IF lock[b] = a THEN NoOne ELSE lock[b]
  BY DEF TypeOK, Leave, Goto, Released
<1>2. "idle" \notin OnTarget
  BY DEF OnTarget, InstallSteps, RepairSteps, TargetSteps, DetachSteps
<1> QED BY <1>1, <1>2, ReleaseLock

\* and a removal that goes to its next copy.
LEMMA NextOfLock ==
    ASSUME TypeOK, LockInv, NEW a \in Accounts, NEW f \in BOOLEAN, NEW ms \in SUBSET Bundles,
           NextOf(a, f, ms), UNCHANGED at
    PROVE  LockInv'
<1>1. /\ pc'[a] = "loop" /\ \A c \in Accounts \ {a} : pc'[c] = pc[c]
      /\ \A c \in Accounts \ {a} : job'[c] = job[c]
      /\ \A b \in Bundles : lock'[b] = IF lock[b] = a THEN NoOne ELSE lock[b]
  BY DEF TypeOK, NextOf, Goto, Released
<1>2. "loop" \notin OnTarget
  BY DEF OnTarget, InstallSteps, RepairSteps, TargetSteps, DetachSteps
<1> QED BY <1>1, <1>2, ReleaseLock

\* What NextOf does to the operation that takes it and to the others.
LEMMA NextOfJob ==
    ASSUME TypeOK, NEW a \in Accounts, NEW f \in BOOLEAN, NEW ms \in SUBSET Bundles,
           NextOf(a, f, ms)
    PROVE  /\ pc'[a] = "loop"
           /\ job'[a].todo = job[a].todo \ {job[a].target}
           /\ job'[a].failed = (job[a].failed \/ f)
           /\ job'[a].missing = job[a].missing \cup ms
           /\ job'[a].removing = job[a].removing
           /\ \A c \in Accounts : c # a => pc'[c] = pc[c] /\ job'[c] = job[c]
BY DEF TypeOK, NextOf, Goto, Jobs

\* What Leave does to the operation that takes it and to the others.
LEMMA LeaveJob ==
    ASSUME TypeOK, NEW a \in Accounts, Leave(a)
    PROVE  /\ pc'[a] = "idle" /\ job'[a].removing = FALSE
           /\ \A c \in Accounts : c # a => pc'[c] = pc[c] /\ job'[c] = job[c]
BY DEF TypeOK, Leave, Goto, NoJob

\* Going to the next copy disturbs no install and no detachment.
LEMMA NextOfPatch ==
    ASSUME TypeOK, PatchInv, NEW a \in Accounts, NEW f \in BOOLEAN, NEW ms \in SUBSET Bundles,
           NextOf(a, f, ms), UNCHANGED <<insert, dylib, files, record, hashed>>
    PROVE  PatchInv'
<1>1. pc'[a] = "loop" /\ \A c \in Accounts : c # a => pc'[c] = pc[c] /\ job'[c] = job[c]
  BY NextOfJob
<1>2. "loop" \notin InstallSteps
  BY DEF InstallSteps
<1> QED BY <1>1, <1>2 DEF PatchInv

\* An operation that ends disturbs no removal.
LEMMA LeaveLoop ==
    ASSUME TypeOK, LoopInv, NEW a \in Accounts, Leave(a), UNCHANGED listVars
    PROVE  LoopInv'
<1>1. /\ pc'[a] = "idle" /\ job'[a].removing = FALSE
      /\ \A c \in Accounts : c # a => pc'[c] = pc[c] /\ job'[c] = job[c]
  BY LeaveJob
<1>2. "idle" \notin InstallSteps /\ "idle" \notin Removing
  BY DEF InstallSteps, Removing, TargetSteps, DetachSteps
<1> QED BY <1>1, <1>2 DEF LoopInv, listVars

\* A copy that fails, or is out of reach and noted so, or is not in the list any more.
LEMMA NextOfLoop ==
    ASSUME TypeOK, LoopInv, NEW a \in Accounts, NEW f \in BOOLEAN, NEW ms \in SUBSET Bundles,
           NextOf(a, f, ms), pc[a] # "idle", job[a].removing,
           \A c \in Accounts : c # a => tracked'[c] = tracked[c] /\ listed'[c] = listed[c],
           listed'[a], tracked'[a] \subseteq tracked[a],
           ~f => job[a].target \notin tracked'[a] \/ job[a].target \in ms
    PROVE  LoopInv'
<1>1. /\ pc'[a] = "loop"
      /\ job'[a].todo = job[a].todo \ {job[a].target}
      /\ job'[a].failed = (job[a].failed \/ f)
      /\ job'[a].missing = job[a].missing \cup ms
      /\ job'[a].removing = job[a].removing
      /\ \A c \in Accounts : c # a => pc'[c] = pc[c] /\ job'[c] = job[c]
  BY NextOfJob
<1>2. "loop" \notin InstallSteps /\ "loop" \in Removing
  BY DEF InstallSteps, Removing
<1>3. ~job'[a].failed => tracked'[a] \subseteq job'[a].missing \cup job'[a].todo
  <2>1. SUFFICES ASSUME ~job[a].failed, ~f
                 PROVE  tracked'[a] \subseteq job'[a].missing \cup job'[a].todo
    BY <1>1
  <2>2. tracked[a] \subseteq job[a].missing \cup job[a].todo
    BY <2>1 DEF LoopInv
  <2> QED BY <1>1, <2>1, <2>2
<1> QED BY <1>1, <1>2, <1>3 DEF LoopInv

\* What RetireIfClean does to the lists once this account's is written.
LEMMA RetireLists ==
    ASSUME TypeOK, NEW a \in Accounts, NEW b \in Bundles, RetireIfClean(a, b), listed[a]
    PROVE  /\ \A c \in Accounts : c # a => tracked'[c] = tracked[c] /\ listed'[c] = listed[c]
           /\ listed'[a] /\ tracked'[a] \subseteq tracked[a]
           /\ Inspect(b) \in {"absent", "clean"} => b \notin tracked'[a]
           /\ Inspect(b) \notin {"absent", "clean"} => tracked' = tracked /\ listed' = listed
<1>1. CASE Inspect(b) \in {"absent", "clean"}
  <2>1. WriteList(a, tracked[a] \ {b})
    BY <1>1 DEF RetireIfClean, Paths
  <2> QED BY <1>1, <2>1 DEF TypeOK, WriteList
<1>2. CASE Inspect(b) \notin {"absent", "clean"}
  BY <1>2 DEF RetireIfClean, listVars
<1> QED BY <1>1, <1>2

\* Every step keeps the types.
LEMMA TypeStep ==
    ASSUME TypeOK, [Next]_vars
    PROVE  TypeOK'
<1>1. ASSUME NEW a \in Accounts, Install(a) PROVE TypeOK'
  <2>1. ASSUME NEW n \in AppBuilds[a], StartInstall(a, n) PROVE TypeOK'
    <3>1. pc' \in [Accounts -> Steps] /\ events' \in 0..MaxEvents
      BY <2>1, BeginTypes, StepNames DEF StartInstall
    <3>2. lock' \in [Bundles -> Accounts \cup {NoOne}]
      BY <2>1, LockTypes DEF StartInstall, TypeOK
    <3>3. job' \in [Accounts -> Jobs]
      BY <2>1, AppBuildsAreBuilds, JobInstalls DEF StartInstall, TypeOK
    <3> QED BY <2>1, <3>1, <3>2, <3>3
            DEF StartInstall, TypeOK, bundleVars, listVars, buildVars
  <2>2. CASE Preflight(a)
    BY <2>2, TypeOK, JobFields, ListTypes, PathsTypes, GotoTypes, StepNames
      DEF Preflight, listVars, buildVars, bundleVars, TypeOK, Mark
  <2>3. CASE NeedsPatching(a)
    BY <2>3, TypeOK, JobFields, GotoTypes, StepNames, JobPatches
      DEF NeedsPatching, listVars, buildVars, bundleVars, TypeOK
  <2>4. CASE Stage(a)
    BY <2>4, TypeOK, JobFields, GotoTypes, StepNames
      DEF Stage, listVars, buildVars, bundleVars, TypeOK
  <2>5. CASE CopyDylib(a)
    BY <2>5, TypeOK, JobFields, GotoTypes, StepNames
      DEF CopyDylib, listVars, buildVars, bundleVars, TypeOK
  <2>6. CASE InstallFiles(a)
    BY <2>6, TypeOK, JobFields, GotoTypes, StepNames
      DEF InstallFiles, listVars, buildVars, bundleVars, TypeOK
  <2>7. CASE SetInsert(a)
    BY <2>7, TypeOK, JobFields, GotoTypes, StepNames, JobPatches
      DEF SetInsert, listVars, buildVars, bundleVars, TypeOK
  <2>8. CASE AdHocSign(a)
    BY <2>8, TypeOK, JobFields, GotoTypes, StepNames
      DEF AdHocSign, listVars, buildVars, bundleVars, TypeOK
  <2>9. CASE SigningFails(a)
    BY <2>9, TypeOK, JobFields, LeaveTypes
      DEF SigningFails, listVars, buildVars, bundleVars, TypeOK
  <2>10. CASE Verify(a)
    BY <2>10, TypeOK, JobFields, GotoTypes, StepNames
      DEF Verify, listVars, buildVars, bundleVars, TypeOK
  <2>11. CASE FinishStamp(a)
    BY <2>11, TypeOK, JobFields, GotoTypes, StepNames
      DEF FinishStamp, listVars, buildVars, bundleVars, TypeOK
  <2>12. CASE FinishRecord(a)
    BY <2>12, TypeOK, JobFields, LeaveTypes
      DEF FinishRecord, listVars, buildVars, bundleVars, TypeOK
  <2> QED BY <1>1, <2>1, <2>2, <2>3, <2>4, <2>5, <2>6, <2>7, <2>8, <2>9, <2>10,
         <2>11, <2>12 DEF Install
<1>2. ASSUME NEW a \in Accounts, Repair(a) PROVE TypeOK'
  <2>1. CASE StartRepair(a)
    <3>1. pc' \in [Accounts -> Steps] /\ events' \in 0..MaxEvents
      BY <2>1, BeginTypes, StepNames DEF StartRepair
    <3>2. lock' \in [Bundles -> Accounts \cup {NoOne}]
      BY <2>1, LockTypes DEF StartRepair, TypeOK
    <3>3. job' \in [Accounts -> Jobs]
      <4>1. [job[a] EXCEPT !.target = chosen[a]] \in Jobs
        BY JobTarget DEF TypeOK
      <4> QED BY <2>1, <4>1 DEF StartRepair, TypeOK
    <3> QED BY <2>1, <3>1, <3>2, <3>3
            DEF StartRepair, TypeOK, bundleVars, listVars, buildVars
  <2>2. CASE Fetch(a)
    BY <2>2, TypeOK, JobFields, ListTypes, PathsTypes, GotoTypes, StepNames
      DEF Fetch, listVars, buildVars, bundleVars, TypeOK, Prepare
  <2>3. CASE Replace(a)
    BY <2>3, TypeOK, JobFields, GotoTypes, StepNames
      DEF Replace, listVars, buildVars, bundleVars, TypeOK, Fresh
  <2>4. CASE RepairRetires(a)
    BY <2>4, TypeOK, JobFields, RetireTypes, LeaveTypes, GotoTypes, StepNames
      DEF RepairRetires, listVars, buildVars, bundleVars, TypeOK
  <2>5. CASE RepairFails(a)
    BY <2>5, TypeOK, JobFields, GotoTypes, StepNames
      DEF RepairFails, listVars, buildVars, bundleVars, TypeOK
  <2> QED BY <1>2, <2>1, <2>2, <2>3, <2>4, <2>5 DEF Repair
<1>3. ASSUME NEW a \in Accounts, Remove(a) PROVE TypeOK'
  <2>1. CASE StartRemove(a)
    <3>1. pc' \in [Accounts -> Steps] /\ events' \in 0..MaxEvents
      BY <2>1, BeginTypes, StepNames DEF StartRemove
    <3>2. listed' \in [Accounts -> BOOLEAN] /\ tracked' \in [Accounts -> SUBSET Bundles]
      BY <2>1, PathsTypes, ListTypes DEF StartRemove, Prepare
    <3>3. job' \in [Accounts -> Jobs]
      <4>1. Paths(a) \cup {chosen[a]} \in SUBSET Bundles
        BY PathsTypes DEF TypeOK
      <4>2. [job[a] EXCEPT !.removing = TRUE, !.todo = Paths(a) \cup {chosen[a]}] \in Jobs
        BY <4>1, JobRemoves DEF TypeOK
      <4> QED BY <2>1, <4>2 DEF StartRemove, TypeOK
    <3> QED BY <2>1, <3>1, <3>2, <3>3 DEF StartRemove, TypeOK, bundleVars, buildVars
  <2>2. CASE NextTarget(a)
    <3>1. PICK b \in job[a].todo :
            \/ /\ lock' = Locked(a, b) /\ Goto(a, "inspect")
               /\ job' = [job EXCEPT ![a].target = b]
            \/ /\ UNCHANGED <<lock, pc>>
               /\ job' = [job EXCEPT ![a].todo = @ \ {b}, ![a].failed = TRUE]
      BY <2>2 DEF NextTarget
    <3>2. b \in Bundles
      BY <3>1, JobFields DEF TypeOK
    <3>3. pc' \in [Accounts -> Steps] /\ lock' \in [Bundles -> Accounts \cup {NoOne}]
      BY <3>1, <3>2, GotoTypes, StepNames, LockTypes DEF TypeOK
    <3>4. [job[a] EXCEPT !.target = b] \in Jobs
      BY <3>2, JobTarget DEF TypeOK
    <3>5. [job[a] EXCEPT !.todo = job[a].todo \ {b}, !.failed = TRUE] \in Jobs
      BY <3>2, JobSkips DEF TypeOK
    <3>6. job' \in [Accounts -> Jobs]
      BY <3>1, <3>4, <3>5 DEF TypeOK
    <3> QED BY <2>2, <3>3, <3>6 DEF NextTarget, TypeOK, bundleVars, listVars, buildVars
  <2>3. CASE TargetUnreachable(a)
    BY <2>3, TypeOK, JobFields, NextOfTypes
      DEF TargetUnreachable, listVars, buildVars, bundleVars, TypeOK
  <2>4. CASE TargetClean(a)
    BY <2>4, TypeOK, JobFields, NextOfTypes, RetireTypes
      DEF TargetClean, listVars, buildVars, bundleVars, TypeOK
  <2>5. CASE TargetModified(a)
    BY <2>5, TypeOK, JobFields, ListTypes, PathsTypes, GotoTypes, StepNames
      DEF TargetModified, listVars, buildVars, bundleVars, TypeOK, Mark
  <2>6. CASE TargetFails(a)
    BY <2>6, TypeOK, JobFields, NextOfTypes
      DEF TargetFails, listVars, buildVars, bundleVars, TypeOK
  <2>7. CASE ClearInsert(a)
    BY <2>7, TypeOK, JobFields, GotoTypes, StepNames, JobPatches
      DEF ClearInsert, listVars, buildVars, bundleVars, TypeOK
  <2>8. CASE DropDylib(a)
    BY <2>8, TypeOK, JobFields, GotoTypes, StepNames
      DEF DropDylib, listVars, buildVars, bundleVars, TypeOK
  <2>9. CASE Resign(a)
    BY <2>9, TypeOK, JobFields, GotoTypes, StepNames
      DEF Resign, listVars, buildVars, bundleVars, TypeOK
  <2>10. CASE DetachFails(a)
    <3>1. /\ pc' \in [Accounts -> Steps] /\ job' \in [Accounts -> Jobs]
          /\ lock' \in [Bundles -> Accounts \cup {NoOne}]
      BY <2>10, NextOfTypes DEF DetachFails
    <3>2. PICK seal \in {"adhoc", sig[job[a].target]} :
            sig' = [sig EXCEPT ![job[a].target] = seal]
      BY <2>10 DEF DetachFails
    <3>3. sig' \in [Bundles -> {"valve", "adhoc", "broken"}]
      BY <3>2, JobFields DEF TypeOK
    <3> QED BY <2>10, <3>1, <3>3 DEF DetachFails, TypeOK, listVars, buildVars
  <2>11. CASE Settle(a)
    BY <2>11, TypeOK, JobFields, NextOfTypes, RetireTypes
      DEF Settle, listVars, buildVars, bundleVars, TypeOK
  <2>12. CASE AfterTargets(a)
    BY <2>12, TypeOK, JobFields, GotoTypes, StepNames
      DEF AfterTargets, listVars, buildVars, bundleVars, TypeOK
  <2>13. CASE RemoveFile(a)
    BY <2>13, TypeOK, JobFields
      DEF RemoveFile, listVars, buildVars, bundleVars, TypeOK
  <2>14. CASE Removed(a)
    BY <2>14, TypeOK, JobFields, LeaveTypes
      DEF Removed, listVars, buildVars, bundleVars, TypeOK
  <2> QED BY <1>3, <2>1, <2>2, <2>3, <2>4, <2>5, <2>6, <2>7, <2>8, <2>9, <2>10,
         <2>11, <2>12, <2>13, <2>14 DEF Remove
<1>4. ASSUME NEW a \in Accounts, Stops(a) PROVE TypeOK'
  BY <1>4, TypeOK, JobFields, LeaveTypes
      DEF Stops, listVars, buildVars, bundleVars, TypeOK
<1>5. ASSUME NEW a \in Accounts, NEW b \in Bundles, ChooseSteam(a, b) PROVE TypeOK'
  BY <1>5, TypeOK, HappensTypes
      DEF ChooseSteam, listVars, buildVars, bundleVars, TypeOK
<1>6. ASSUME NEW b \in Bundles, Outside(b) PROVE TypeOK'
  <2>1. CASE Mount(b)
    BY <2>1, TypeOK, HappensTypes
      DEF Mount, listVars, buildVars, bundleVars, TypeOK
  <2>2. CASE Unmount(b)
    BY <2>2, TypeOK, HappensTypes
      DEF Unmount, listVars, buildVars, bundleVars, TypeOK
  <2>3. CASE UserReinstalls(b)
    BY <2>3, TypeOK, HappensTypes
      DEF UserReinstalls, listVars, buildVars, bundleVars, TypeOK, Fresh
  <2>4. CASE UserDeletes(b)
    BY <2>4, TypeOK, HappensTypes
      DEF UserDeletes, listVars, buildVars, bundleVars, TypeOK
  <2> QED BY <1>6, <2>1, <2>2, <2>3, <2>4 DEF Outside
<1>7. CASE UNCHANGED vars
  BY <1>7, TypeOK
      DEF vars, listVars, buildVars, bundleVars, TypeOK
<1> QED BY <1>1, <1>2, <1>3, <1>4, <1>5, <1>6, <1>7 DEF Next

\* The locks are held by those that work on the copies.
LEMMA LockStep ==
    ASSUME TypeOK, TypeOK', LockInv, [Next]_vars
    PROVE  LockInv'
<1>1. ASSUME NEW a \in Accounts, Install(a) PROVE LockInv'
  <2>1. ASSUME NEW n \in AppBuilds[a], StartInstall(a, n) PROVE LockInv'
    BY <2>1, TypeOK, TypeOK', LockInv, ConstantsAssumption, JobFields
      DEF StartInstall, Begin, Happens, CanLock, Locked, Goto, listVars, buildVars,
          bundleVars, TypeOK, LockInv, Patching, OnTarget, InstallSteps, RepairSteps,
          TargetSteps, DetachSteps, NoJob
  <2>2. CASE Preflight(a)
    BY <2>2, TypeOK, TypeOK', LockInv, ConstantsAssumption, JobFields
      DEF Preflight, Goto, listVars, buildVars, bundleVars, TypeOK, LockInv, Patching,
          OnTarget, InstallSteps, RepairSteps, TargetSteps, DetachSteps, NoJob
  <2>3. CASE NeedsPatching(a)
    BY <2>3, TypeOK, TypeOK', LockInv, ConstantsAssumption, JobFields
      DEF NeedsPatching, Goto, listVars, buildVars, bundleVars, TypeOK, LockInv,
          Patching, OnTarget, InstallSteps, RepairSteps, TargetSteps, DetachSteps, NoJob
  <2>4. CASE Stage(a)
    BY <2>4, TypeOK, TypeOK', LockInv, ConstantsAssumption, JobFields
      DEF Stage, Goto, listVars, buildVars, bundleVars, TypeOK, LockInv, Patching,
          OnTarget, InstallSteps, RepairSteps, TargetSteps, DetachSteps, NoJob
  <2>5. CASE CopyDylib(a)
    BY <2>5, TypeOK, TypeOK', LockInv, ConstantsAssumption, JobFields
      DEF CopyDylib, Goto, listVars, buildVars, bundleVars, TypeOK, LockInv, Patching,
          OnTarget, InstallSteps, RepairSteps, TargetSteps, DetachSteps, NoJob
  <2>6. CASE InstallFiles(a)
    BY <2>6, TypeOK, TypeOK', LockInv, ConstantsAssumption, JobFields
      DEF InstallFiles, Goto, listVars, buildVars, bundleVars, TypeOK, LockInv,
          Patching, OnTarget, InstallSteps, RepairSteps, TargetSteps, DetachSteps, NoJob
  <2>7. CASE SetInsert(a)
    BY <2>7, TypeOK, TypeOK', LockInv, ConstantsAssumption, JobFields
      DEF SetInsert, Goto, listVars, buildVars, bundleVars, TypeOK, LockInv, Patching,
          OnTarget, InstallSteps, RepairSteps, TargetSteps, DetachSteps, NoJob
  <2>8. CASE AdHocSign(a)
    BY <2>8, TypeOK, TypeOK', LockInv, ConstantsAssumption, JobFields
      DEF AdHocSign, Goto, listVars, buildVars, bundleVars, TypeOK, LockInv, Patching,
          OnTarget, InstallSteps, RepairSteps, TargetSteps, DetachSteps, NoJob
  <2>9. CASE SigningFails(a)
    BY <2>9, LeaveLock DEF SigningFails
  <2>10. CASE Verify(a)
    BY <2>10, TypeOK, TypeOK', LockInv, ConstantsAssumption, JobFields
      DEF Verify, IsCurrent, Goto, listVars, buildVars, bundleVars, TypeOK, LockInv,
          Patching, OnTarget, InstallSteps, RepairSteps, TargetSteps, DetachSteps, NoJob
  <2>11. CASE FinishStamp(a)
    BY <2>11, TypeOK, TypeOK', LockInv, ConstantsAssumption, JobFields
      DEF FinishStamp, IsCurrent, NewerInstalled, Goto, listVars, buildVars, bundleVars,
          TypeOK, LockInv, Patching, OnTarget, InstallSteps, RepairSteps, TargetSteps,
          DetachSteps, NoJob
  <2>12. CASE FinishRecord(a)
    BY <2>12, LeaveLock DEF FinishRecord, bundleVars
  <2> QED BY <1>1, <2>1, <2>2, <2>3, <2>4, <2>5, <2>6, <2>7, <2>8, <2>9, <2>10,
         <2>11, <2>12 DEF Install
<1>2. ASSUME NEW a \in Accounts, Repair(a) PROVE LockInv'
  <2>1. CASE StartRepair(a)
    BY <2>1, TypeOK, TypeOK', LockInv, ConstantsAssumption, JobFields
      DEF StartRepair, Begin, Happens, CanLock, Locked, Goto, listVars, buildVars,
          bundleVars, TypeOK, LockInv, Patching, OnTarget, InstallSteps, RepairSteps,
          TargetSteps, DetachSteps, NoJob
  <2>2. CASE Fetch(a)
    BY <2>2, TypeOK, TypeOK', LockInv, ConstantsAssumption, JobFields
      DEF Fetch, Goto, listVars, buildVars, bundleVars, TypeOK, LockInv, Patching,
          OnTarget, InstallSteps, RepairSteps, TargetSteps, DetachSteps, NoJob
  <2>3. CASE Replace(a)
    BY <2>3, TypeOK, TypeOK', LockInv, ConstantsAssumption, JobFields
      DEF Replace, Fresh, Goto, listVars, buildVars, bundleVars, TypeOK, LockInv,
          Patching, OnTarget, InstallSteps, RepairSteps, TargetSteps, DetachSteps, NoJob
  <2>4. CASE RepairRetires(a)
    <3>1. CASE Leave(a)
      BY <2>4, <3>1, LeaveLock DEF RepairRetires, bundleVars
    <3>2. CASE Goto(a, "settle") /\ UNCHANGED <<lock, job>>
      BY <2>4, <3>2, ConstantsAssumption DEF RepairRetires, Goto, bundleVars, TypeOK, LockInv,
         Patching, OnTarget, InstallSteps, RepairSteps, TargetSteps, DetachSteps
    <3> QED BY <2>4, <3>1, <3>2 DEF RepairRetires
  <2>5. CASE RepairFails(a)
    BY <2>5, TypeOK, TypeOK', LockInv, ConstantsAssumption, JobFields
      DEF RepairFails, Goto, listVars, buildVars, bundleVars, TypeOK, LockInv, Patching,
          OnTarget, InstallSteps, RepairSteps, TargetSteps, DetachSteps, NoJob
  <2> QED BY <1>2, <2>1, <2>2, <2>3, <2>4, <2>5 DEF Repair
<1>3. ASSUME NEW a \in Accounts, Remove(a) PROVE LockInv'
  <2>1. CASE StartRemove(a)
    BY <2>1, TypeOK, TypeOK', LockInv, ConstantsAssumption, JobFields
      DEF StartRemove, Begin, Goto, listVars, buildVars, bundleVars, TypeOK, LockInv,
          Patching, OnTarget, InstallSteps, RepairSteps, TargetSteps, DetachSteps, NoJob
  <2>2. CASE NextTarget(a)
    <3>1. PICK b \in job[a].todo :
            \/ /\ CanLock(b) /\ lock' = Locked(a, b) /\ Goto(a, "inspect")
               /\ job' = [job EXCEPT ![a].target = b]
            \/ /\ UNCHANGED <<lock, pc>>
               /\ job' = [job EXCEPT ![a].todo = @ \ {b}, ![a].failed = TRUE]
      BY <2>2 DEF NextTarget
    <3>2. b \in Bundles /\ pc[a] = "loop" /\ UNCHANGED at
      BY <2>2, <3>1, JobFields DEF TypeOK, NextTarget, bundleVars
    <3>3. CASE lock' = lock /\ pc' = pc /\ job' = [job EXCEPT ![a].todo = @ \ {b}, ![a].failed = TRUE]
      <4>1. \A c \in Accounts : job'[c].target = job[c].target
        BY <3>3 DEF TypeOK, Jobs
      <4> QED BY <3>2, <3>3, <4>1 DEF TypeOK, LockInv
    <3>4. CASE /\ CanLock(b) /\ lock' = Locked(a, b) /\ Goto(a, "inspect")
               /\ job' = [job EXCEPT ![a].target = b]
      <4>1. /\ job'[a].target = b /\ \A c \in Accounts \ {a} : job'[c] = job[c]
            /\ pc'[a] = "inspect" /\ \A c \in Accounts \ {a} : pc'[c] = pc[c]
        BY <3>4 DEF TypeOK, Jobs, Goto
      <4>2. \A c \in Bundles : lock[c] # a
        <5>1. "loop" \notin OnTarget
          BY DEF OnTarget, InstallSteps, RepairSteps, TargetSteps, DetachSteps
        <5> QED BY <3>2, <5>1, ConstantsAssumption DEF LockInv
      <4>3. "inspect" \in OnTarget /\ "inspect" \notin Patching
        BY DEF OnTarget, Patching, InstallSteps, TargetSteps, DetachSteps
      <4> QED BY <3>2, <3>4, <4>1, <4>2, <4>3, ConstantsAssumption
              DEF TypeOK, LockInv, CanLock, Locked
    <3> QED BY <3>1, <3>3, <3>4
  <2>3. CASE TargetUnreachable(a)
    BY <2>3, NextOfLock, JobFields DEF TargetUnreachable, bundleVars, TypeOK
  <2>4. CASE TargetClean(a)
    BY <2>4, NextOfLock DEF TargetClean, bundleVars
  <2>5. CASE TargetModified(a)
    BY <2>5, TypeOK, TypeOK', LockInv, ConstantsAssumption, JobFields
      DEF TargetModified, Goto, Inspect, listVars, buildVars, bundleVars, TypeOK,
          LockInv, Patching, OnTarget, InstallSteps, RepairSteps, TargetSteps,
          DetachSteps, NoJob
  <2>6. CASE TargetFails(a)
    BY <2>6, NextOfLock DEF TargetFails, bundleVars
  <2>7. CASE ClearInsert(a)
    BY <2>7, TypeOK, TypeOK', LockInv, ConstantsAssumption, JobFields
      DEF ClearInsert, Goto, listVars, buildVars, bundleVars, TypeOK, LockInv, Patching,
          OnTarget, InstallSteps, RepairSteps, TargetSteps, DetachSteps, NoJob
  <2>8. CASE DropDylib(a)
    BY <2>8, TypeOK, TypeOK', LockInv, ConstantsAssumption, JobFields
      DEF DropDylib, Goto, listVars, buildVars, bundleVars, TypeOK, LockInv, Patching,
          OnTarget, InstallSteps, RepairSteps, TargetSteps, DetachSteps, NoJob
  <2>9. CASE Resign(a)
    BY <2>9, TypeOK, TypeOK', LockInv, ConstantsAssumption, JobFields
      DEF Resign, Goto, listVars, buildVars, bundleVars, TypeOK, LockInv, Patching,
          OnTarget, InstallSteps, RepairSteps, TargetSteps, DetachSteps, NoJob
  <2>10. CASE DetachFails(a)
    BY <2>10, NextOfLock DEF DetachFails
  <2>11. CASE Settle(a)
    BY <2>11, NextOfLock DEF Settle, bundleVars
  <2>12. CASE AfterTargets(a)
    BY <2>12, TypeOK, TypeOK', LockInv, ConstantsAssumption, JobFields
      DEF AfterTargets, CanLock, Goto, listVars, buildVars, bundleVars, TypeOK, LockInv,
          Patching, OnTarget, InstallSteps, RepairSteps, TargetSteps, DetachSteps, NoJob
  <2>13. CASE RemoveFile(a)
    BY <2>13, TypeOK, TypeOK', LockInv, ConstantsAssumption, JobFields
      DEF RemoveFile, listVars, buildVars, bundleVars, TypeOK, LockInv, Patching,
          OnTarget, InstallSteps, RepairSteps, TargetSteps, DetachSteps, NoJob
  <2>14. CASE Removed(a)
    BY <2>14, LeaveLock DEF Removed, bundleVars
  <2> QED BY <1>3, <2>1, <2>2, <2>3, <2>4, <2>5, <2>6, <2>7, <2>8, <2>9, <2>10,
         <2>11, <2>12, <2>13, <2>14 DEF Remove
<1>4. ASSUME NEW a \in Accounts, Stops(a) PROVE LockInv'
  BY <1>4, LeaveLock DEF Stops, bundleVars
<1>5. ASSUME NEW a \in Accounts, NEW b \in Bundles, ChooseSteam(a, b) PROVE LockInv'
  BY <1>5, TypeOK, TypeOK', LockInv, ConstantsAssumption, JobFields
      DEF ChooseSteam, Happens, listVars, buildVars, bundleVars, TypeOK, LockInv,
          Patching, OnTarget, InstallSteps, RepairSteps, TargetSteps, DetachSteps, NoJob
<1>6. ASSUME NEW b \in Bundles, Outside(b) PROVE LockInv'
  <2>1. CASE Mount(b)
    BY <2>1, TypeOK, TypeOK', LockInv, ConstantsAssumption, JobFields
      DEF Mount, Happens, Untouched, listVars, buildVars, bundleVars, TypeOK, LockInv,
          Patching, OnTarget, InstallSteps, RepairSteps, TargetSteps, DetachSteps, NoJob
  <2>2. CASE Unmount(b)
    BY <2>2, TypeOK, TypeOK', LockInv, ConstantsAssumption, JobFields
      DEF Unmount, Happens, Untouched, listVars, buildVars, bundleVars, TypeOK, LockInv,
          Patching, OnTarget, InstallSteps, RepairSteps, TargetSteps, DetachSteps, NoJob
  <2>3. CASE UserReinstalls(b)
    BY <2>3, TypeOK, TypeOK', LockInv, ConstantsAssumption, JobFields
      DEF UserReinstalls, Happens, Untouched, Fresh, listVars, buildVars, bundleVars,
          TypeOK, LockInv, Patching, OnTarget, InstallSteps, RepairSteps, TargetSteps,
          DetachSteps, NoJob
  <2>4. CASE UserDeletes(b)
    BY <2>4, TypeOK, TypeOK', LockInv, ConstantsAssumption, JobFields
      DEF UserDeletes, Happens, Untouched, listVars, buildVars, bundleVars, TypeOK,
          LockInv, Patching, OnTarget, InstallSteps, RepairSteps, TargetSteps,
          DetachSteps, NoJob
  <2> QED BY <1>6, <2>1, <2>2, <2>3, <2>4 DEF Outside
<1>7. CASE UNCHANGED vars
  BY <1>7, TypeOK, TypeOK', LockInv
      DEF vars, listVars, buildVars, bundleVars, TypeOK, LockInv, Patching
<1> QED BY <1>1, <1>2, <1>3, <1>4, <1>5, <1>6, <1>7 DEF Next

\* A copy is listed before it is changed, and an absent one holds nothing.
LEMMA ListStep ==
    ASSUME TypeOK, TypeOK', LockInv, ListInv, [Next]_vars
    PROVE  ListInv'
<1>1. ASSUME NEW a \in Accounts, Install(a) PROVE ListInv'
  <2>1. ASSUME NEW n \in AppBuilds[a], StartInstall(a, n) PROVE ListInv'
    BY <2>1, TypeOK, TypeOK', LockInv, ListInv, ConstantsAssumption, JobFields
      DEF StartInstall, Begin, Happens, CanLock, Locked, Goto, listVars, buildVars,
          bundleVars, TypeOK, LockInv, ListInv, Patching, Changed, OnTarget,
          InstallSteps, RepairSteps, TargetSteps, DetachSteps
  <2>2. CASE Preflight(a)
    BY <2>2, TypeOK, TypeOK', LockInv, ListInv, ConstantsAssumption, JobFields
      DEF Preflight, Mark, WriteList, Paths, NewerInstalled, HashesDiffer, Goto,
          listVars, buildVars, bundleVars, TypeOK, LockInv, ListInv, Patching, Changed,
          OnTarget, InstallSteps, RepairSteps, TargetSteps, DetachSteps
  <2>3. CASE NeedsPatching(a)
    BY <2>3, TypeOK, TypeOK', LockInv, ListInv, ConstantsAssumption, JobFields
      DEF NeedsPatching, Goto, listVars, buildVars, bundleVars, TypeOK, LockInv,
          ListInv, Patching, Changed, OnTarget, InstallSteps, RepairSteps, TargetSteps,
          DetachSteps
  <2>4. CASE Stage(a)
    BY <2>4, TypeOK, TypeOK', LockInv, ListInv, ConstantsAssumption, JobFields
      DEF Stage, Goto, listVars, buildVars, bundleVars, TypeOK, LockInv, ListInv,
          Patching, Changed, OnTarget, InstallSteps, RepairSteps, TargetSteps,
          DetachSteps
  <2>5. CASE CopyDylib(a)
    BY <2>5, TypeOK, TypeOK', LockInv, ListInv, ConstantsAssumption, JobFields
      DEF CopyDylib, Goto, listVars, buildVars, bundleVars, TypeOK, LockInv, ListInv,
          Patching, Changed, OnTarget, InstallSteps, RepairSteps, TargetSteps,
          DetachSteps
  <2>6. CASE InstallFiles(a)
    BY <2>6, TypeOK, TypeOK', LockInv, ListInv, ConstantsAssumption, JobFields
      DEF InstallFiles, Goto, listVars, buildVars, bundleVars, TypeOK, LockInv, ListInv,
          Patching, Changed, OnTarget, InstallSteps, RepairSteps, TargetSteps,
          DetachSteps
  <2>7. CASE SetInsert(a)
    BY <2>7, TypeOK, TypeOK', LockInv, ListInv, ConstantsAssumption, JobFields
      DEF SetInsert, Goto, listVars, buildVars, bundleVars, TypeOK, LockInv, ListInv,
          Patching, Changed, OnTarget, InstallSteps, RepairSteps, TargetSteps,
          DetachSteps
  <2>8. CASE AdHocSign(a)
    BY <2>8, TypeOK, TypeOK', LockInv, ListInv, ConstantsAssumption, JobFields
      DEF AdHocSign, Goto, listVars, buildVars, bundleVars, TypeOK, LockInv, ListInv,
          Patching, Changed, OnTarget, InstallSteps, RepairSteps, TargetSteps,
          DetachSteps
  <2>9. CASE SigningFails(a)
    BY <2>9, TypeOK, TypeOK', LockInv, ListInv, ConstantsAssumption, JobFields
      DEF SigningFails, Leave, Goto, Released, listVars, buildVars, bundleVars, TypeOK,
          LockInv, ListInv, Patching, Changed, OnTarget, InstallSteps, RepairSteps,
          TargetSteps, DetachSteps
  <2>10. CASE Verify(a)
    BY <2>10, TypeOK, TypeOK', LockInv, ListInv, ConstantsAssumption, JobFields
      DEF Verify, IsCurrent, Goto, listVars, buildVars, bundleVars, TypeOK, LockInv,
          ListInv, Patching, Changed, OnTarget, InstallSteps, RepairSteps, TargetSteps,
          DetachSteps
  <2>11. CASE FinishStamp(a)
    BY <2>11, TypeOK, TypeOK', LockInv, ListInv, ConstantsAssumption, JobFields
      DEF FinishStamp, IsCurrent, NewerInstalled, Goto, listVars, buildVars, bundleVars,
          TypeOK, LockInv, ListInv, Patching, Changed, OnTarget, InstallSteps,
          RepairSteps, TargetSteps, DetachSteps
  <2>12. CASE FinishRecord(a)
    BY <2>12, TypeOK, TypeOK', LockInv, ListInv, ConstantsAssumption, JobFields
      DEF FinishRecord, Leave, Goto, Released, listVars, buildVars, bundleVars, TypeOK,
          LockInv, ListInv, Patching, Changed, OnTarget, InstallSteps, RepairSteps,
          TargetSteps, DetachSteps
  <2> QED BY <1>1, <2>1, <2>2, <2>3, <2>4, <2>5, <2>6, <2>7, <2>8, <2>9, <2>10,
         <2>11, <2>12 DEF Install
<1>2. ASSUME NEW a \in Accounts, Repair(a) PROVE ListInv'
  <2>1. CASE StartRepair(a)
    BY <2>1, TypeOK, TypeOK', LockInv, ListInv, ConstantsAssumption, JobFields
      DEF StartRepair, Begin, Happens, CanLock, Locked, Goto, listVars, buildVars,
          bundleVars, TypeOK, LockInv, ListInv, Patching, Changed, OnTarget,
          InstallSteps, RepairSteps, TargetSteps, DetachSteps
  <2>2. CASE Fetch(a)
    BY <2>2, TypeOK, TypeOK', LockInv, ListInv, ConstantsAssumption, JobFields
      DEF Fetch, Prepare, WriteList, Paths, Goto, listVars, buildVars, bundleVars,
          TypeOK, LockInv, ListInv, Patching, Changed, OnTarget, InstallSteps,
          RepairSteps, TargetSteps, DetachSteps
  <2>3. CASE Replace(a)
    BY <2>3, TypeOK, TypeOK', LockInv, ListInv, ConstantsAssumption, JobFields
      DEF Replace, Fresh, Goto, listVars, buildVars, bundleVars, TypeOK, LockInv,
          ListInv, Patching, Changed, OnTarget, InstallSteps, RepairSteps, TargetSteps,
          DetachSteps
  <2>4. CASE RepairRetires(a)
    BY <2>4, TypeOK, TypeOK', LockInv, ListInv, ConstantsAssumption, JobFields
      DEF RepairRetires, RetireIfClean, WriteList, Paths, Inspect, Changed, Leave,
          Released, Goto, listVars, buildVars, bundleVars, TypeOK, LockInv, ListInv,
          Patching, OnTarget, InstallSteps, RepairSteps, TargetSteps, DetachSteps
  <2>5. CASE RepairFails(a)
    BY <2>5, TypeOK, TypeOK', LockInv, ListInv, ConstantsAssumption, JobFields
      DEF RepairFails, Goto, listVars, buildVars, bundleVars, TypeOK, LockInv, ListInv,
          Patching, Changed, OnTarget, InstallSteps, RepairSteps, TargetSteps,
          DetachSteps
  <2> QED BY <1>2, <2>1, <2>2, <2>3, <2>4, <2>5 DEF Repair
<1>3. ASSUME NEW a \in Accounts, Remove(a) PROVE ListInv'
  <2>1. CASE StartRemove(a)
    BY <2>1, TypeOK, TypeOK', LockInv, ListInv, ConstantsAssumption, JobFields
      DEF StartRemove, Begin, Happens, Prepare, WriteList, Paths, Goto, listVars,
          buildVars, bundleVars, TypeOK, LockInv, ListInv, Patching, Changed, OnTarget,
          InstallSteps, RepairSteps, TargetSteps, DetachSteps
  <2>2. CASE NextTarget(a)
    BY <2>2, TypeOK, TypeOK', LockInv, ListInv, ConstantsAssumption, JobFields
      DEF NextTarget, CanLock, Locked, Goto, listVars, buildVars, bundleVars, TypeOK,
          LockInv, ListInv, Patching, Changed, OnTarget, InstallSteps, RepairSteps,
          TargetSteps, DetachSteps
  <2>3. CASE TargetUnreachable(a)
    BY <2>3, TypeOK, TypeOK', LockInv, ListInv, ConstantsAssumption, JobFields
      DEF TargetUnreachable, NextOf, Released, Inspect, Changed, Goto, listVars,
          buildVars, bundleVars, TypeOK, LockInv, ListInv, Patching, OnTarget,
          InstallSteps, RepairSteps, TargetSteps, DetachSteps
  <2>4. CASE TargetClean(a)
    BY <2>4, TypeOK, TypeOK', LockInv, ListInv, ConstantsAssumption, JobFields
      DEF TargetClean, NextOf, Released, Inspect, Changed, Goto, RetireIfClean,
          WriteList, Paths, listVars, buildVars, bundleVars, TypeOK, LockInv, ListInv,
          Patching, OnTarget, InstallSteps, RepairSteps, TargetSteps, DetachSteps
  <2>5. CASE TargetModified(a)
    BY <2>5, TypeOK, TypeOK', LockInv, ListInv, ConstantsAssumption, JobFields
      DEF TargetModified, Mark, WriteList, Paths, Inspect, Changed, Goto, listVars,
          buildVars, bundleVars, TypeOK, LockInv, ListInv, Patching, OnTarget,
          InstallSteps, RepairSteps, TargetSteps, DetachSteps
  <2>6. CASE TargetFails(a)
    BY <2>6, TypeOK, TypeOK', LockInv, ListInv, ConstantsAssumption, JobFields
      DEF TargetFails, NextOf, Released, Goto, listVars, buildVars, bundleVars, TypeOK,
          LockInv, ListInv, Patching, Changed, OnTarget, InstallSteps, RepairSteps,
          TargetSteps, DetachSteps
  <2>7. CASE ClearInsert(a)
    BY <2>7, TypeOK, TypeOK', LockInv, ListInv, ConstantsAssumption, JobFields
      DEF ClearInsert, Goto, listVars, buildVars, bundleVars, TypeOK, LockInv, ListInv,
          Patching, Changed, OnTarget, InstallSteps, RepairSteps, TargetSteps,
          DetachSteps
  <2>8. CASE DropDylib(a)
    BY <2>8, TypeOK, TypeOK', LockInv, ListInv, ConstantsAssumption, JobFields
      DEF DropDylib, Goto, listVars, buildVars, bundleVars, TypeOK, LockInv, ListInv,
          Patching, Changed, OnTarget, InstallSteps, RepairSteps, TargetSteps,
          DetachSteps
  <2>9. CASE Resign(a)
    BY <2>9, TypeOK, TypeOK', LockInv, ListInv, ConstantsAssumption, JobFields
      DEF Resign, Goto, listVars, buildVars, bundleVars, TypeOK, LockInv, ListInv,
          Patching, Changed, OnTarget, InstallSteps, RepairSteps, TargetSteps,
          DetachSteps
  <2>10. CASE DetachFails(a)
    BY <2>10, TypeOK, TypeOK', LockInv, ListInv, ConstantsAssumption, JobFields
      DEF DetachFails, NextOf, Released, Goto, listVars, buildVars, bundleVars, TypeOK,
          LockInv, ListInv, Patching, Changed, OnTarget, InstallSteps, RepairSteps,
          TargetSteps, DetachSteps
  <2>11. CASE Settle(a)
    BY <2>11, TypeOK, TypeOK', LockInv, ListInv, ConstantsAssumption, JobFields
      DEF Settle, NextOf, Released, Inspect, Changed, Goto, RetireIfClean, WriteList,
          Paths, listVars, buildVars, bundleVars, TypeOK, LockInv, ListInv, Patching,
          OnTarget, InstallSteps, RepairSteps, TargetSteps, DetachSteps
  <2>12. CASE AfterTargets(a)
    BY <2>12, TypeOK, TypeOK', LockInv, ListInv, ConstantsAssumption, JobFields
      DEF AfterTargets, CanLock, Goto, listVars, buildVars, bundleVars, TypeOK, LockInv,
          ListInv, Patching, Changed, OnTarget, InstallSteps, RepairSteps, TargetSteps,
          DetachSteps
  <2>13. CASE RemoveFile(a)
    BY <2>13, TypeOK, TypeOK', LockInv, ListInv, ConstantsAssumption, JobFields
      DEF RemoveFile, listVars, buildVars, bundleVars, TypeOK, LockInv, ListInv,
          Patching, Changed, OnTarget, InstallSteps, RepairSteps, TargetSteps,
          DetachSteps
  <2>14. CASE Removed(a)
    BY <2>14, TypeOK, TypeOK', LockInv, ListInv, ConstantsAssumption, JobFields
      DEF Removed, Leave, Released, Goto, listVars, buildVars, bundleVars, TypeOK,
          LockInv, ListInv, Patching, Changed, OnTarget, InstallSteps, RepairSteps,
          TargetSteps, DetachSteps
  <2> QED BY <1>3, <2>1, <2>2, <2>3, <2>4, <2>5, <2>6, <2>7, <2>8, <2>9, <2>10,
         <2>11, <2>12, <2>13, <2>14 DEF Remove
<1>4. ASSUME NEW a \in Accounts, Stops(a) PROVE ListInv'
  BY <1>4, TypeOK, TypeOK', LockInv, ListInv, ConstantsAssumption, JobFields
      DEF Stops, Leave, Released, Goto, listVars, buildVars, bundleVars, TypeOK,
          LockInv, ListInv, Patching, Changed, OnTarget, InstallSteps, RepairSteps,
          TargetSteps, DetachSteps
<1>5. ASSUME NEW a \in Accounts, NEW b \in Bundles, ChooseSteam(a, b) PROVE ListInv'
  BY <1>5, TypeOK, TypeOK', LockInv, ListInv, ConstantsAssumption, JobFields
      DEF ChooseSteam, Happens, listVars, buildVars, bundleVars, TypeOK, LockInv,
          ListInv, Patching, Changed, OnTarget, InstallSteps, RepairSteps, TargetSteps,
          DetachSteps
<1>6. ASSUME NEW b \in Bundles, Outside(b) PROVE ListInv'
  <2>1. CASE Mount(b)
    BY <2>1, TypeOK, TypeOK', LockInv, ListInv, ConstantsAssumption, JobFields
      DEF Mount, Happens, Untouched, listVars, buildVars, bundleVars, TypeOK, LockInv,
          ListInv, Patching, Changed, OnTarget, InstallSteps, RepairSteps, TargetSteps,
          DetachSteps
  <2>2. CASE Unmount(b)
    BY <2>2, TypeOK, TypeOK', LockInv, ListInv, ConstantsAssumption, JobFields
      DEF Unmount, Happens, Untouched, listVars, buildVars, bundleVars, TypeOK, LockInv,
          ListInv, Patching, Changed, OnTarget, InstallSteps, RepairSteps, TargetSteps,
          DetachSteps
  <2>3. CASE UserReinstalls(b)
    BY <2>3, TypeOK, TypeOK', LockInv, ListInv, ConstantsAssumption, JobFields
      DEF UserReinstalls, Happens, Untouched, Fresh, listVars, buildVars, bundleVars,
          TypeOK, LockInv, ListInv, Patching, Changed, OnTarget, InstallSteps,
          RepairSteps, TargetSteps, DetachSteps
  <2>4. CASE UserDeletes(b)
    BY <2>4, TypeOK, TypeOK', LockInv, ListInv, ConstantsAssumption, JobFields
      DEF UserDeletes, Happens, Untouched, listVars, buildVars, bundleVars, TypeOK,
          LockInv, ListInv, Patching, Changed, OnTarget, InstallSteps, RepairSteps,
          TargetSteps, DetachSteps
  <2> QED BY <1>6, <2>1, <2>2, <2>3, <2>4 DEF Outside
<1>7. CASE UNCHANGED vars
  BY <1>7, TypeOK, TypeOK', LockInv, ListInv
      DEF vars, listVars, buildVars, bundleVars, TypeOK, LockInv, ListInv, Patching,
          Changed
<1> QED BY <1>1, <1>2, <1>3, <1>4, <1>5, <1>6, <1>7 DEF Next

\* What an install and a detachment have established stays so under their lock.
LEMMA PatchStep ==
    ASSUME TypeOK, TypeOK', LockInv, LockInv', PatchInv, [Next]_vars
    PROVE  PatchInv'
<1>1. ASSUME NEW a \in Accounts, Install(a) PROVE PatchInv'
  <2>1. ASSUME NEW n \in AppBuilds[a], StartInstall(a, n) PROVE PatchInv'
    BY <2>1, TypeOK, TypeOK', LockInv, LockInv', PatchInv, ConstantsAssumption,
         JobFields, AppBuildsAreBuilds
      DEF StartInstall, Begin, Happens, CanLock, Locked, Goto, listVars, buildVars,
          bundleVars, TypeOK, LockInv, PatchInv, Patching, None, OnTarget, InstallSteps,
          RepairSteps, TargetSteps, DetachSteps
  <2>2. CASE Preflight(a)
    <3>1. /\ pc[a] = "preflight" /\ pc'[a] = "patching"
          /\ \A c \in Accounts : c # a => pc'[c] = pc[c]
          /\ UNCHANGED <<job, insert, dylib, files, record, hashed>>
      BY <2>2 DEF Preflight, Goto, TypeOK, bundleVars, buildVars
    <3>2. job[a].build \in Builds
      BY <3>1 DEF PatchInv, InstallSteps
    <3>3. ~(record[a] > job[a].build) => record[a] <= job[a].build
      BY <3>2, ConstantsAssumption DEF TypeOK, Builds, None
    <3>4. record[a] # None /\ hashed[a] =>
            /\ dylib[job[a].target] \in {None, job[a].build, record[a]}
            /\ record[a] <= job[a].build
      BY <2>2, <3>3 DEF Preflight, NewerInstalled, HashesDiffer
    <3> QED BY <3>1, <3>2, <3>4 DEF PatchInv, InstallSteps
  <2>3. CASE NeedsPatching(a)
    BY <2>3, TypeOK, TypeOK', LockInv, LockInv', PatchInv, ConstantsAssumption,
         JobFields, AppBuildsAreBuilds
      DEF NeedsPatching, Goto, listVars, buildVars, bundleVars, TypeOK, LockInv,
          PatchInv, Patching, None, OnTarget, InstallSteps, RepairSteps, TargetSteps,
          DetachSteps
  <2>4. CASE Stage(a)
    BY <2>4, TypeOK, TypeOK', LockInv, LockInv', PatchInv, ConstantsAssumption,
         JobFields, AppBuildsAreBuilds
      DEF Stage, Goto, listVars, buildVars, bundleVars, TypeOK, LockInv, PatchInv,
          Patching, None, OnTarget, InstallSteps, RepairSteps, TargetSteps, DetachSteps
  <2>5. CASE CopyDylib(a)
    BY <2>5, TypeOK, TypeOK', LockInv, LockInv', PatchInv, ConstantsAssumption,
         JobFields, AppBuildsAreBuilds
      DEF CopyDylib, Goto, listVars, buildVars, bundleVars, TypeOK, LockInv, PatchInv,
          Patching, None, OnTarget, InstallSteps, RepairSteps, TargetSteps, DetachSteps
  <2>6. CASE InstallFiles(a)
    BY <2>6, TypeOK, TypeOK', LockInv, LockInv', PatchInv, ConstantsAssumption,
         JobFields, AppBuildsAreBuilds
      DEF InstallFiles, Goto, listVars, buildVars, bundleVars, TypeOK, LockInv,
          PatchInv, Patching, None, OnTarget, InstallSteps, RepairSteps, TargetSteps,
          DetachSteps
  <2>7. CASE SetInsert(a)
    BY <2>7, TypeOK, TypeOK', LockInv, LockInv', PatchInv, ConstantsAssumption,
         JobFields, AppBuildsAreBuilds
      DEF SetInsert, Goto, listVars, buildVars, bundleVars, TypeOK, LockInv, PatchInv,
          Patching, None, OnTarget, InstallSteps, RepairSteps, TargetSteps, DetachSteps
  <2>8. CASE AdHocSign(a)
    BY <2>8, TypeOK, TypeOK', LockInv, LockInv', PatchInv, ConstantsAssumption,
         JobFields, AppBuildsAreBuilds
      DEF AdHocSign, Goto, listVars, buildVars, bundleVars, TypeOK, LockInv, PatchInv,
          Patching, None, OnTarget, InstallSteps, RepairSteps, TargetSteps, DetachSteps
  <2>9. CASE SigningFails(a)
    BY <2>9, TypeOK, TypeOK', LockInv, LockInv', PatchInv, ConstantsAssumption,
         JobFields, AppBuildsAreBuilds
      DEF SigningFails, Leave, Goto, Released, listVars, buildVars, bundleVars, TypeOK,
          LockInv, PatchInv, Patching, None, OnTarget, InstallSteps, RepairSteps,
          TargetSteps, DetachSteps
  <2>10. CASE Verify(a)
    BY <2>10, TypeOK, TypeOK', LockInv, LockInv', PatchInv, ConstantsAssumption,
         JobFields, AppBuildsAreBuilds
      DEF Verify, IsCurrent, Goto, listVars, buildVars, bundleVars, TypeOK, LockInv,
          PatchInv, Patching, None, OnTarget, InstallSteps, RepairSteps, TargetSteps,
          DetachSteps
  <2>11. CASE FinishStamp(a)
    BY <2>11, TypeOK, TypeOK', LockInv, LockInv', PatchInv, ConstantsAssumption,
         JobFields, AppBuildsAreBuilds
      DEF FinishStamp, IsCurrent, NewerInstalled, Goto, listVars, buildVars, bundleVars,
          TypeOK, LockInv, PatchInv, Patching, None, OnTarget, InstallSteps,
          RepairSteps, TargetSteps, DetachSteps
  <2>12. CASE FinishRecord(a)
    BY <2>12, TypeOK, TypeOK', LockInv, LockInv', PatchInv, ConstantsAssumption,
         JobFields, AppBuildsAreBuilds
      DEF FinishRecord, Leave, Goto, Released, listVars, buildVars, bundleVars, TypeOK,
          LockInv, PatchInv, Patching, None, OnTarget, InstallSteps, RepairSteps,
          TargetSteps, DetachSteps
  <2> QED BY <1>1, <2>1, <2>2, <2>3, <2>4, <2>5, <2>6, <2>7, <2>8, <2>9, <2>10,
         <2>11, <2>12 DEF Install
<1>2. ASSUME NEW a \in Accounts, Repair(a) PROVE PatchInv'
  <2>1. CASE StartRepair(a)
    BY <2>1, TypeOK, TypeOK', LockInv, LockInv', PatchInv, ConstantsAssumption,
         JobFields, AppBuildsAreBuilds
      DEF StartRepair, Begin, Happens, CanLock, Locked, Goto, listVars, buildVars,
          bundleVars, TypeOK, LockInv, PatchInv, Patching, None, OnTarget, InstallSteps,
          RepairSteps, TargetSteps, DetachSteps
  <2>2. CASE Fetch(a)
    BY <2>2, TypeOK, TypeOK', LockInv, LockInv', PatchInv, ConstantsAssumption,
         JobFields, AppBuildsAreBuilds
      DEF Fetch, Prepare, WriteList, Paths, Goto, listVars, buildVars, bundleVars,
          TypeOK, LockInv, PatchInv, Patching, None, OnTarget, InstallSteps,
          RepairSteps, TargetSteps, DetachSteps
  <2>3. CASE Replace(a)
    BY <2>3, TypeOK, TypeOK', LockInv, LockInv', PatchInv, ConstantsAssumption,
         JobFields, AppBuildsAreBuilds
      DEF Replace, Fresh, Goto, listVars, buildVars, bundleVars, TypeOK, LockInv,
          PatchInv, Patching, None, OnTarget, InstallSteps, RepairSteps, TargetSteps,
          DetachSteps
  <2>4. CASE RepairRetires(a)
    BY <2>4, TypeOK, TypeOK', LockInv, LockInv', PatchInv, ConstantsAssumption,
         JobFields, AppBuildsAreBuilds
      DEF RepairRetires, RetireIfClean, WriteList, Paths, Inspect, Changed, Leave,
          Released, Goto, listVars, buildVars, bundleVars, TypeOK, LockInv, PatchInv,
          Patching, None, OnTarget, InstallSteps, RepairSteps, TargetSteps, DetachSteps
  <2>5. CASE RepairFails(a)
    BY <2>5, TypeOK, TypeOK', LockInv, LockInv', PatchInv, ConstantsAssumption,
         JobFields, AppBuildsAreBuilds
      DEF RepairFails, Goto, listVars, buildVars, bundleVars, TypeOK, LockInv, PatchInv,
          Patching, None, OnTarget, InstallSteps, RepairSteps, TargetSteps, DetachSteps
  <2> QED BY <1>2, <2>1, <2>2, <2>3, <2>4, <2>5 DEF Repair
<1>3. ASSUME NEW a \in Accounts, Remove(a) PROVE PatchInv'
  <2>1. CASE StartRemove(a)
    BY <2>1, TypeOK, TypeOK', LockInv, LockInv', PatchInv, ConstantsAssumption,
         JobFields, AppBuildsAreBuilds
      DEF StartRemove, Begin, Happens, Prepare, WriteList, Paths, Goto, listVars,
          buildVars, bundleVars, TypeOK, LockInv, PatchInv, Patching, None, OnTarget,
          InstallSteps, RepairSteps, TargetSteps, DetachSteps
  <2>2. CASE NextTarget(a)
    BY <2>2, TypeOK, TypeOK', LockInv, LockInv', PatchInv, ConstantsAssumption,
         JobFields, AppBuildsAreBuilds
      DEF NextTarget, CanLock, Locked, Goto, listVars, buildVars, bundleVars, TypeOK,
          LockInv, PatchInv, Patching, None, OnTarget, InstallSteps, RepairSteps,
          TargetSteps, DetachSteps
  <2>3. CASE TargetUnreachable(a)
    BY <2>3, NextOfPatch, JobFields DEF TargetUnreachable, bundleVars, buildVars, TypeOK
  <2>4. CASE TargetClean(a)
    BY <2>4, NextOfPatch DEF TargetClean, bundleVars, buildVars
  <2>5. CASE TargetModified(a)
    BY <2>5, TypeOK, TypeOK', LockInv, LockInv', PatchInv, ConstantsAssumption,
         JobFields, AppBuildsAreBuilds
      DEF TargetModified, Mark, WriteList, Paths, Inspect, Changed, Goto, listVars,
          buildVars, bundleVars, TypeOK, LockInv, PatchInv, Patching, None, OnTarget,
          InstallSteps, RepairSteps, TargetSteps, DetachSteps
  <2>6. CASE TargetFails(a)
    BY <2>6, NextOfPatch DEF TargetFails, bundleVars, buildVars
  <2>7. CASE ClearInsert(a)
    BY <2>7, TypeOK, TypeOK', LockInv, LockInv', PatchInv, ConstantsAssumption,
         JobFields, AppBuildsAreBuilds
      DEF ClearInsert, Goto, listVars, buildVars, bundleVars, TypeOK, LockInv, PatchInv,
          Patching, None, OnTarget, InstallSteps, RepairSteps, TargetSteps, DetachSteps
  <2>8. CASE DropDylib(a)
    BY <2>8, TypeOK, TypeOK', LockInv, LockInv', PatchInv, ConstantsAssumption,
         JobFields, AppBuildsAreBuilds
      DEF DropDylib, Goto, listVars, buildVars, bundleVars, TypeOK, LockInv, PatchInv,
          Patching, None, OnTarget, InstallSteps, RepairSteps, TargetSteps, DetachSteps
  <2>9. CASE Resign(a)
    BY <2>9, TypeOK, TypeOK', LockInv, LockInv', PatchInv, ConstantsAssumption,
         JobFields, AppBuildsAreBuilds
      DEF Resign, Goto, listVars, buildVars, bundleVars, TypeOK, LockInv, PatchInv,
          Patching, None, OnTarget, InstallSteps, RepairSteps, TargetSteps, DetachSteps
  <2>10. CASE DetachFails(a)
    BY <2>10, NextOfPatch DEF DetachFails, buildVars
  <2>11. CASE Settle(a)
    BY <2>11, NextOfPatch DEF Settle, bundleVars, buildVars
  <2>12. CASE AfterTargets(a)
    BY <2>12, TypeOK, TypeOK', LockInv, LockInv', PatchInv, ConstantsAssumption,
         JobFields, AppBuildsAreBuilds
      DEF AfterTargets, CanLock, Goto, listVars, buildVars, bundleVars, TypeOK, LockInv,
          PatchInv, Patching, None, OnTarget, InstallSteps, RepairSteps, TargetSteps,
          DetachSteps
  <2>13. CASE RemoveFile(a)
    BY <2>13, TypeOK, TypeOK', LockInv, LockInv', PatchInv, ConstantsAssumption,
         JobFields, AppBuildsAreBuilds
      DEF RemoveFile, listVars, buildVars, bundleVars, TypeOK, LockInv, PatchInv,
          Patching, None, OnTarget, InstallSteps, RepairSteps, TargetSteps, DetachSteps
  <2>14. CASE Removed(a)
    BY <2>14, TypeOK, TypeOK', LockInv, LockInv', PatchInv, ConstantsAssumption,
         JobFields, AppBuildsAreBuilds
      DEF Removed, Leave, Released, Goto, listVars, buildVars, bundleVars, TypeOK,
          LockInv, PatchInv, Patching, None, OnTarget, InstallSteps, RepairSteps,
          TargetSteps, DetachSteps
  <2> QED BY <1>3, <2>1, <2>2, <2>3, <2>4, <2>5, <2>6, <2>7, <2>8, <2>9, <2>10,
         <2>11, <2>12, <2>13, <2>14 DEF Remove
<1>4. ASSUME NEW a \in Accounts, Stops(a) PROVE PatchInv'
  BY <1>4, TypeOK, TypeOK', LockInv, LockInv', PatchInv, ConstantsAssumption,
         JobFields, AppBuildsAreBuilds
      DEF Stops, Leave, Released, Goto, listVars, buildVars, bundleVars, TypeOK,
          LockInv, PatchInv, Patching, None, OnTarget, InstallSteps, RepairSteps,
          TargetSteps, DetachSteps
<1>5. ASSUME NEW a \in Accounts, NEW b \in Bundles, ChooseSteam(a, b) PROVE PatchInv'
  BY <1>5, TypeOK, TypeOK', LockInv, LockInv', PatchInv, ConstantsAssumption,
         JobFields, AppBuildsAreBuilds
      DEF ChooseSteam, Happens, listVars, buildVars, bundleVars, TypeOK, LockInv,
          PatchInv, Patching, None, OnTarget, InstallSteps, RepairSteps, TargetSteps,
          DetachSteps
<1>6. ASSUME NEW b \in Bundles, Outside(b) PROVE PatchInv'
  <2>1. CASE Mount(b)
    BY <2>1, TypeOK, TypeOK', LockInv, LockInv', PatchInv, ConstantsAssumption,
         JobFields, AppBuildsAreBuilds
      DEF Mount, Happens, Untouched, listVars, buildVars, bundleVars, TypeOK, LockInv,
          PatchInv, Patching, None, OnTarget, InstallSteps, RepairSteps, TargetSteps,
          DetachSteps
  <2>2. CASE Unmount(b)
    BY <2>2, TypeOK, TypeOK', LockInv, LockInv', PatchInv, ConstantsAssumption,
         JobFields, AppBuildsAreBuilds
      DEF Unmount, Happens, Untouched, listVars, buildVars, bundleVars, TypeOK, LockInv,
          PatchInv, Patching, None, OnTarget, InstallSteps, RepairSteps, TargetSteps,
          DetachSteps
  <2>3. CASE UserReinstalls(b)
    BY <2>3, TypeOK, TypeOK', LockInv, LockInv', PatchInv, ConstantsAssumption,
         JobFields, AppBuildsAreBuilds
      DEF UserReinstalls, Happens, Untouched, Fresh, listVars, buildVars, bundleVars,
          TypeOK, LockInv, PatchInv, Patching, None, OnTarget, InstallSteps,
          RepairSteps, TargetSteps, DetachSteps
  <2>4. CASE UserDeletes(b)
    BY <2>4, TypeOK, TypeOK', LockInv, LockInv', PatchInv, ConstantsAssumption,
         JobFields, AppBuildsAreBuilds
      DEF UserDeletes, Happens, Untouched, listVars, buildVars, bundleVars, TypeOK,
          LockInv, PatchInv, Patching, None, OnTarget, InstallSteps, RepairSteps,
          TargetSteps, DetachSteps
  <2> QED BY <1>6, <2>1, <2>2, <2>3, <2>4 DEF Outside
<1>7. CASE UNCHANGED vars
  BY <1>7, TypeOK, TypeOK', LockInv, LockInv', PatchInv
      DEF vars, listVars, buildVars, bundleVars, TypeOK, LockInv, PatchInv, Patching,
          None
<1> QED BY <1>1, <1>2, <1>3, <1>4, <1>5, <1>6, <1>7 DEF Next

\* A removal keeps track of what it has not dealt with.
LEMMA LoopStep ==
    ASSUME TypeOK, TypeOK', LoopInv, [Next]_vars
    PROVE  LoopInv'
<1>1. ASSUME NEW a \in Accounts, Install(a) PROVE LoopInv'
  <2>1. ASSUME NEW n \in AppBuilds[a], StartInstall(a, n) PROVE LoopInv'
    BY <2>1, TypeOK, TypeOK', LoopInv, ConstantsAssumption, JobFields
      DEF StartInstall, Begin, Happens, CanLock, Locked, Goto, listVars, buildVars,
          bundleVars, TypeOK, LoopInv, Removing, OnTarget, InstallSteps, RepairSteps,
          TargetSteps, DetachSteps
  <2>2. CASE Preflight(a)
    BY <2>2, TypeOK, TypeOK', LoopInv, ConstantsAssumption, JobFields
      DEF Preflight, Mark, WriteList, Paths, NewerInstalled, HashesDiffer, Goto,
          listVars, buildVars, bundleVars, TypeOK, LoopInv, Removing, OnTarget,
          InstallSteps, RepairSteps, TargetSteps, DetachSteps
  <2>3. CASE NeedsPatching(a)
    BY <2>3, TypeOK, TypeOK', LoopInv, ConstantsAssumption, JobFields
      DEF NeedsPatching, Goto, listVars, buildVars, bundleVars, TypeOK, LoopInv,
          Removing, OnTarget, InstallSteps, RepairSteps, TargetSteps, DetachSteps
  <2>4. CASE Stage(a)
    BY <2>4, TypeOK, TypeOK', LoopInv, ConstantsAssumption, JobFields
      DEF Stage, Goto, listVars, buildVars, bundleVars, TypeOK, LoopInv, Removing,
          OnTarget, InstallSteps, RepairSteps, TargetSteps, DetachSteps
  <2>5. CASE CopyDylib(a)
    BY <2>5, TypeOK, TypeOK', LoopInv, ConstantsAssumption, JobFields
      DEF CopyDylib, Goto, listVars, buildVars, bundleVars, TypeOK, LoopInv, Removing,
          OnTarget, InstallSteps, RepairSteps, TargetSteps, DetachSteps
  <2>6. CASE InstallFiles(a)
    BY <2>6, TypeOK, TypeOK', LoopInv, ConstantsAssumption, JobFields
      DEF InstallFiles, Goto, listVars, buildVars, bundleVars, TypeOK, LoopInv,
          Removing, OnTarget, InstallSteps, RepairSteps, TargetSteps, DetachSteps
  <2>7. CASE SetInsert(a)
    BY <2>7, TypeOK, TypeOK', LoopInv, ConstantsAssumption, JobFields
      DEF SetInsert, Goto, listVars, buildVars, bundleVars, TypeOK, LoopInv, Removing,
          OnTarget, InstallSteps, RepairSteps, TargetSteps, DetachSteps
  <2>8. CASE AdHocSign(a)
    BY <2>8, TypeOK, TypeOK', LoopInv, ConstantsAssumption, JobFields
      DEF AdHocSign, Goto, listVars, buildVars, bundleVars, TypeOK, LoopInv, Removing,
          OnTarget, InstallSteps, RepairSteps, TargetSteps, DetachSteps
  <2>9. CASE SigningFails(a)
    BY <2>9, LeaveLoop DEF SigningFails
  <2>10. CASE Verify(a)
    BY <2>10, TypeOK, TypeOK', LoopInv, ConstantsAssumption, JobFields
      DEF Verify, IsCurrent, Goto, listVars, buildVars, bundleVars, TypeOK, LoopInv,
          Removing, OnTarget, InstallSteps, RepairSteps, TargetSteps, DetachSteps
  <2>11. CASE FinishStamp(a)
    BY <2>11, TypeOK, TypeOK', LoopInv, ConstantsAssumption, JobFields
      DEF FinishStamp, IsCurrent, NewerInstalled, Goto, listVars, buildVars, bundleVars,
          TypeOK, LoopInv, Removing, OnTarget, InstallSteps, RepairSteps, TargetSteps,
          DetachSteps
  <2>12. CASE FinishRecord(a)
    BY <2>12, LeaveLoop DEF FinishRecord
  <2> QED BY <1>1, <2>1, <2>2, <2>3, <2>4, <2>5, <2>6, <2>7, <2>8, <2>9, <2>10,
         <2>11, <2>12 DEF Install
<1>2. ASSUME NEW a \in Accounts, Repair(a) PROVE LoopInv'
  <2>1. CASE StartRepair(a)
    BY <2>1, TypeOK, TypeOK', LoopInv, ConstantsAssumption, JobFields
      DEF StartRepair, Begin, Happens, CanLock, Locked, Goto, listVars, buildVars,
          bundleVars, TypeOK, LoopInv, Removing, OnTarget, InstallSteps, RepairSteps,
          TargetSteps, DetachSteps
  <2>2. CASE Fetch(a)
    BY <2>2, TypeOK, TypeOK', LoopInv, ConstantsAssumption, JobFields
      DEF Fetch, Prepare, WriteList, Paths, Goto, listVars, buildVars, bundleVars,
          TypeOK, LoopInv, Removing, OnTarget, InstallSteps, RepairSteps, TargetSteps,
          DetachSteps
  <2>3. CASE Replace(a)
    BY <2>3, TypeOK, TypeOK', LoopInv, ConstantsAssumption, JobFields
      DEF Replace, Fresh, Goto, listVars, buildVars, bundleVars, TypeOK, LoopInv,
          Removing, OnTarget, InstallSteps, RepairSteps, TargetSteps, DetachSteps
  <2>4. CASE RepairRetires(a)
    <3>1. RetireIfClean(a, job[a].target) /\ job[a].target \in Bundles /\ pc[a] = "retire"
      BY <2>4, JobFields DEF RepairRetires, TypeOK
    <3>2. CASE job[a].removing
      <4>1. listed[a]
        BY <3>1, <3>2 DEF LoopInv
      <4>2. /\ \A c \in Accounts : c # a => tracked'[c] = tracked[c] /\ listed'[c] = listed[c]
            /\ listed'[a] /\ tracked'[a] \subseteq tracked[a]
        BY <3>1, <4>1, RetireLists
      <4>3. /\ pc'[a] = "settle" /\ UNCHANGED job
            /\ \A c \in Accounts : c # a => pc'[c] = pc[c]
        BY <2>4, <3>2 DEF RepairRetires, Goto, TypeOK
      <4>4. "settle" \notin InstallSteps /\ "settle" \in Removing
        BY DEF InstallSteps, Removing, TargetSteps
      <4> QED BY <3>1, <3>2, <4>2, <4>3, <4>4 DEF LoopInv
    <3>3. CASE ~job[a].removing
      <4>1. \A c \in Accounts : c # a => tracked'[c] = tracked[c] /\ listed'[c] = listed[c]
        BY <3>1 DEF RetireIfClean, WriteList, listVars, TypeOK
      <4>2. /\ pc'[a] = "idle" /\ job'[a].removing = FALSE
            /\ \A c \in Accounts : c # a => pc'[c] = pc[c] /\ job'[c] = job[c]
        BY <2>4, <3>3, LeaveJob DEF RepairRetires
      <4>3. "idle" \notin InstallSteps /\ "idle" \notin Removing
        BY DEF InstallSteps, Removing, TargetSteps, DetachSteps
      <4> QED BY <4>1, <4>2, <4>3 DEF LoopInv
    <3> QED BY <3>2, <3>3
  <2>5. CASE RepairFails(a)
    BY <2>5, TypeOK, TypeOK', LoopInv, ConstantsAssumption, JobFields
      DEF RepairFails, Goto, listVars, buildVars, bundleVars, TypeOK, LoopInv, Removing,
          OnTarget, InstallSteps, RepairSteps, TargetSteps, DetachSteps
  <2> QED BY <1>2, <2>1, <2>2, <2>3, <2>4, <2>5 DEF Repair
<1>3. ASSUME NEW a \in Accounts, Remove(a) PROVE LoopInv'
  <2>1. CASE StartRemove(a)
    BY <2>1, TypeOK, TypeOK', LoopInv, ConstantsAssumption, JobFields
      DEF StartRemove, Begin, Happens, Prepare, WriteList, Paths, Goto, listVars,
          buildVars, bundleVars, TypeOK, LoopInv, Removing, OnTarget, InstallSteps,
          RepairSteps, TargetSteps, DetachSteps
  <2>2. CASE NextTarget(a)
    <3>1. PICK b \in job[a].todo :
            \/ /\ Goto(a, "inspect") /\ job' = [job EXCEPT ![a].target = b]
            \/ /\ UNCHANGED pc
               /\ job' = [job EXCEPT ![a].todo = @ \ {b}, ![a].failed = TRUE]
      BY <2>2 DEF NextTarget
    <3>2. /\ b \in Bundles /\ pc[a] = "loop" /\ UNCHANGED listVars
          /\ job[a].removing /\ listed[a]
      BY <2>2, <3>1, JobFields DEF TypeOK, NextTarget, LoopInv, Removing
    <3>3. \A c \in Accounts : c # a => pc'[c] = pc[c] /\ job'[c] = job[c]
      BY <3>1 DEF TypeOK, Goto
    <3>4. CASE Goto(a, "inspect") /\ job' = [job EXCEPT ![a].target = b]
      <4>1. /\ pc'[a] = "inspect" /\ job'[a].target = b /\ job'[a].todo = job[a].todo
            /\ job'[a].removing = job[a].removing /\ job'[a].failed = job[a].failed
            /\ job'[a].missing = job[a].missing
        BY <3>4 DEF TypeOK, Goto, Jobs
      <4>2. "inspect" \notin InstallSteps
        BY DEF InstallSteps
      <4>3. ~job[a].failed => tracked[a] \subseteq job[a].missing \cup job[a].todo
        BY <3>2 DEF LoopInv
      <4> QED BY <3>1, <3>2, <3>3, <4>1, <4>2, <4>3 DEF LoopInv, listVars
    <3>5. CASE UNCHANGED pc /\ job' = [job EXCEPT ![a].todo = @ \ {b}, ![a].failed = TRUE]
      <4>1. pc'[a] = "loop" /\ job'[a].removing /\ job'[a].failed
        <5>1. job'[a] = [job[a] EXCEPT !.todo = job[a].todo \ {b}, !.failed = TRUE]
          BY <3>5 DEF TypeOK
        <5>2. job'[a].removing = job[a].removing /\ job'[a].failed = TRUE
          BY <5>1 DEF TypeOK, Jobs
        <5> QED BY <3>2, <3>5, <5>2
      <4>2. "loop" \notin InstallSteps
        BY DEF InstallSteps
      <4> QED BY <3>2, <3>3, <4>1, <4>2 DEF LoopInv, listVars
    <3> QED BY <3>1, <3>4, <3>5
  <2>3. CASE TargetUnreachable(a)
    BY <2>3, TypeOK, TypeOK', LoopInv, ConstantsAssumption, JobFields
      DEF TargetUnreachable, NextOf, Released, Inspect, Changed, Goto, listVars,
          buildVars, bundleVars, TypeOK, LoopInv, Removing, OnTarget, InstallSteps,
          RepairSteps, TargetSteps, DetachSteps
  <2>4. CASE TargetClean(a)
    BY <2>4, TypeOK, TypeOK', LoopInv, ConstantsAssumption, JobFields
      DEF TargetClean, NextOf, Released, Inspect, Changed, Goto, RetireIfClean,
          WriteList, Paths, listVars, buildVars, bundleVars, TypeOK, LoopInv, Removing,
          OnTarget, InstallSteps, RepairSteps, TargetSteps, DetachSteps
  <2>5. CASE TargetModified(a)
    BY <2>5, TypeOK, TypeOK', LoopInv, ConstantsAssumption, JobFields
      DEF TargetModified, Mark, WriteList, Paths, Inspect, Changed, Goto, listVars,
          buildVars, bundleVars, TypeOK, LoopInv, Removing, OnTarget, InstallSteps,
          RepairSteps, TargetSteps, DetachSteps
  <2>6. CASE TargetFails(a)
    BY <2>6, TypeOK, TypeOK', LoopInv, ConstantsAssumption, JobFields
      DEF TargetFails, NextOf, Released, Goto, listVars, buildVars, bundleVars, TypeOK,
          LoopInv, Removing, OnTarget, InstallSteps, RepairSteps, TargetSteps,
          DetachSteps
  <2>7. CASE ClearInsert(a)
    BY <2>7, TypeOK, TypeOK', LoopInv, ConstantsAssumption, JobFields
      DEF ClearInsert, Goto, listVars, buildVars, bundleVars, TypeOK, LoopInv, Removing,
          OnTarget, InstallSteps, RepairSteps, TargetSteps, DetachSteps
  <2>8. CASE DropDylib(a)
    BY <2>8, TypeOK, TypeOK', LoopInv, ConstantsAssumption, JobFields
      DEF DropDylib, Goto, listVars, buildVars, bundleVars, TypeOK, LoopInv, Removing,
          OnTarget, InstallSteps, RepairSteps, TargetSteps, DetachSteps
  <2>9. CASE Resign(a)
    BY <2>9, TypeOK, TypeOK', LoopInv, ConstantsAssumption, JobFields
      DEF Resign, Goto, listVars, buildVars, bundleVars, TypeOK, LoopInv, Removing,
          OnTarget, InstallSteps, RepairSteps, TargetSteps, DetachSteps
  <2>10. CASE DetachFails(a)
    BY <2>10, TypeOK, TypeOK', LoopInv, ConstantsAssumption, JobFields
      DEF DetachFails, NextOf, Released, Goto, listVars, buildVars, bundleVars, TypeOK,
          LoopInv, Removing, OnTarget, InstallSteps, RepairSteps, TargetSteps,
          DetachSteps
  <2>11. CASE Settle(a)
    <3>1. /\ RetireIfClean(a, job[a].target) /\ job[a].target \in Bundles /\ pc[a] = "settle"
          /\ NextOf(a, Inspect(job[a].target) \notin {"absent", "clean"}, {})
      BY <2>11, JobFields DEF Settle, TypeOK
    <3>2. job[a].removing /\ listed[a]
      BY <3>1 DEF LoopInv, Removing, TargetSteps
    <3> QED BY <3>1, <3>2, RetireLists, NextOfLoop
  <2>12. CASE AfterTargets(a)
    BY <2>12, TypeOK, TypeOK', LoopInv, ConstantsAssumption, JobFields
      DEF AfterTargets, CanLock, Goto, listVars, buildVars, bundleVars, TypeOK, LoopInv,
          Removing, OnTarget, InstallSteps, RepairSteps, TargetSteps, DetachSteps
  <2>13. CASE RemoveFile(a)
    BY <2>13, TypeOK, TypeOK', LoopInv, ConstantsAssumption, JobFields
      DEF RemoveFile, listVars, buildVars, bundleVars, TypeOK, LoopInv, Removing,
          OnTarget, InstallSteps, RepairSteps, TargetSteps, DetachSteps
  <2>14. CASE Removed(a)
    BY <2>14, LeaveLoop DEF Removed
  <2> QED BY <1>3, <2>1, <2>2, <2>3, <2>4, <2>5, <2>6, <2>7, <2>8, <2>9, <2>10,
         <2>11, <2>12, <2>13, <2>14 DEF Remove
<1>4. ASSUME NEW a \in Accounts, Stops(a) PROVE LoopInv'
  BY <1>4, LeaveLoop DEF Stops
<1>5. ASSUME NEW a \in Accounts, NEW b \in Bundles, ChooseSteam(a, b) PROVE LoopInv'
  BY <1>5, TypeOK, TypeOK', LoopInv, ConstantsAssumption, JobFields
      DEF ChooseSteam, Happens, listVars, buildVars, bundleVars, TypeOK, LoopInv,
          Removing, OnTarget, InstallSteps, RepairSteps, TargetSteps, DetachSteps
<1>6. ASSUME NEW b \in Bundles, Outside(b) PROVE LoopInv'
  <2>1. CASE Mount(b)
    BY <2>1, TypeOK, TypeOK', LoopInv, ConstantsAssumption, JobFields
      DEF Mount, Happens, Untouched, listVars, buildVars, bundleVars, TypeOK, LoopInv,
          Removing, OnTarget, InstallSteps, RepairSteps, TargetSteps, DetachSteps
  <2>2. CASE Unmount(b)
    BY <2>2, TypeOK, TypeOK', LoopInv, ConstantsAssumption, JobFields
      DEF Unmount, Happens, Untouched, listVars, buildVars, bundleVars, TypeOK, LoopInv,
          Removing, OnTarget, InstallSteps, RepairSteps, TargetSteps, DetachSteps
  <2>3. CASE UserReinstalls(b)
    BY <2>3, TypeOK, TypeOK', LoopInv, ConstantsAssumption, JobFields
      DEF UserReinstalls, Happens, Untouched, Fresh, listVars, buildVars, bundleVars,
          TypeOK, LoopInv, Removing, OnTarget, InstallSteps, RepairSteps, TargetSteps,
          DetachSteps
  <2>4. CASE UserDeletes(b)
    BY <2>4, TypeOK, TypeOK', LoopInv, ConstantsAssumption, JobFields
      DEF UserDeletes, Happens, Untouched, listVars, buildVars, bundleVars, TypeOK,
          LoopInv, Removing, OnTarget, InstallSteps, RepairSteps, TargetSteps,
          DetachSteps
  <2> QED BY <1>6, <2>1, <2>2, <2>3, <2>4 DEF Outside
<1>7. CASE UNCHANGED vars
  BY <1>7, TypeOK, TypeOK', LoopInv
      DEF vars, listVars, buildVars, bundleVars, TypeOK, LoopInv, Removing
<1> QED BY <1>1, <1>2, <1>3, <1>4, <1>5, <1>6, <1>7 DEF Next

\* Forgetting a clean copy keeps track of those that are changed.
LEMMA RetireTracked ==
    ASSUME TypeOK, ListInv, ModifiedIsTracked, NEW a \in Accounts, NEW b \in Bundles,
           RetireIfClean(a, b), UNCHANGED bundleVars, UNCHANGED buildVars
    PROVE  ModifiedIsTracked'
<1>1. \A x \in Bundles : Changed(x)' <=> Changed(x)
  BY DEF Changed, bundleVars
<1>2. \A c \in Accounts : c # a => Paths(c)' = Paths(c)
  BY DEF RetireIfClean, WriteList, listVars, buildVars, Paths, TypeOK
<1>3. Paths(a)' = Paths(a) \/ (Paths(a)' = Paths(a) \ {b} /\ ~Changed(b))
  <2>1. CASE Inspect(b) \in {"absent", "clean"}
    <3>1. at[b] \in {"away", "absent", "present"}
      BY DEF TypeOK
    <3>2. ~Changed(b)
      BY <2>1, <3>1 DEF Inspect, ListInv
    <3>3. Paths(a)' = Paths(a) \ {b}
      <4>1. WriteList(a, Paths(a) \ {b})
        BY <2>1 DEF RetireIfClean
      <4>2. listed'[a] /\ tracked'[a] = Paths(a) \ {b}
        BY <4>1 DEF WriteList, TypeOK
      <4> QED BY <4>2 DEF Paths
    <3> QED BY <3>2, <3>3
  <2>2. CASE Inspect(b) \notin {"absent", "clean"}
    BY <2>2 DEF RetireIfClean, listVars, buildVars, Paths
  <2> QED BY <2>1, <2>2
<1>4. SUFFICES ASSUME NEW x \in Bundles, Changed(x)
               PROVE  \E c \in Accounts : x \in Paths(c)'
  BY <1>1 DEF ModifiedIsTracked
<1>5. PICK c \in Accounts : x \in Paths(c)
  BY <1>4 DEF ModifiedIsTracked
<1> QED BY <1>2, <1>3, <1>4, <1>5

\* And so does a step that changes neither copies nor lists.
LEMMA NothingTracked ==
    ASSUME ModifiedIsTracked, UNCHANGED bundleVars, UNCHANGED buildVars, UNCHANGED listVars
    PROVE  ModifiedIsTracked'
BY DEF ModifiedIsTracked, Changed, Paths, bundleVars, buildVars, listVars

\* A copy that is changed stays in a list.
LEMMA TrackStep ==
    ASSUME TypeOK, TypeOK', ListInv, LoopInv, ModifiedIsTracked, [Next]_vars
    PROVE  ModifiedIsTracked'
<1>1. ASSUME NEW a \in Accounts, Install(a) PROVE ModifiedIsTracked'
  <2>1. ASSUME NEW n \in AppBuilds[a], StartInstall(a, n) PROVE ModifiedIsTracked'
    BY <2>1, TypeOK, TypeOK', ListInv, LoopInv, ModifiedIsTracked, JobFields
      DEF StartInstall, listVars, buildVars, bundleVars, TypeOK, ListInv, LoopInv,
          ModifiedIsTracked, Patching, Removing, Changed, Paths, InstallSteps,
          DetachSteps
  <2>2. CASE Preflight(a)
    BY <2>2, TypeOK, TypeOK', ListInv, LoopInv, ModifiedIsTracked, JobFields
      DEF Preflight, Mark, WriteList, Paths, listVars, buildVars, bundleVars, TypeOK,
          ListInv, LoopInv, ModifiedIsTracked, Patching, Removing, Changed,
          InstallSteps, DetachSteps
  <2>3. CASE NeedsPatching(a)
    BY <2>3, TypeOK, TypeOK', ListInv, LoopInv, ModifiedIsTracked, JobFields
      DEF NeedsPatching, listVars, buildVars, bundleVars, TypeOK, ListInv, LoopInv,
          ModifiedIsTracked, Patching, Removing, Changed, Paths, InstallSteps,
          DetachSteps
  <2>4. CASE Stage(a)
    BY <2>4, TypeOK, TypeOK', ListInv, LoopInv, ModifiedIsTracked, JobFields
      DEF Stage, listVars, buildVars, bundleVars, TypeOK, ListInv, LoopInv,
          ModifiedIsTracked, Patching, Removing, Changed, Paths, InstallSteps,
          DetachSteps
  <2>5. CASE CopyDylib(a)
    BY <2>5, TypeOK, TypeOK', ListInv, LoopInv, ModifiedIsTracked, JobFields
      DEF CopyDylib, listVars, buildVars, bundleVars, TypeOK, ListInv, LoopInv,
          ModifiedIsTracked, Patching, Removing, Changed, Paths, InstallSteps,
          DetachSteps
  <2>6. CASE InstallFiles(a)
    BY <2>6, TypeOK, TypeOK', ListInv, LoopInv, ModifiedIsTracked, JobFields
      DEF InstallFiles, listVars, buildVars, bundleVars, TypeOK, ListInv, LoopInv,
          ModifiedIsTracked, Patching, Removing, Changed, Paths, InstallSteps,
          DetachSteps
  <2>7. CASE SetInsert(a)
    BY <2>7, TypeOK, TypeOK', ListInv, LoopInv, ModifiedIsTracked, JobFields
      DEF SetInsert, listVars, buildVars, bundleVars, TypeOK, ListInv, LoopInv,
          ModifiedIsTracked, Patching, Removing, Changed, Paths, InstallSteps,
          DetachSteps
  <2>8. CASE AdHocSign(a)
    BY <2>8, TypeOK, TypeOK', ListInv, LoopInv, ModifiedIsTracked, JobFields
      DEF AdHocSign, listVars, buildVars, bundleVars, TypeOK, ListInv, LoopInv,
          ModifiedIsTracked, Patching, Removing, Changed, Paths, InstallSteps,
          DetachSteps
  <2>9. CASE SigningFails(a)
    BY <2>9, TypeOK, TypeOK', ListInv, LoopInv, ModifiedIsTracked, JobFields
      DEF SigningFails, listVars, buildVars, bundleVars, TypeOK, ListInv, LoopInv,
          ModifiedIsTracked, Patching, Removing, Changed, Paths, InstallSteps,
          DetachSteps
  <2>10. CASE Verify(a)
    BY <2>10, TypeOK, TypeOK', ListInv, LoopInv, ModifiedIsTracked, JobFields
      DEF Verify, listVars, buildVars, bundleVars, TypeOK, ListInv, LoopInv,
          ModifiedIsTracked, Patching, Removing, Changed, Paths, InstallSteps,
          DetachSteps
  <2>11. CASE FinishStamp(a)
    BY <2>11, TypeOK, TypeOK', ListInv, LoopInv, ModifiedIsTracked, JobFields
      DEF FinishStamp, listVars, buildVars, bundleVars, TypeOK, ListInv, LoopInv,
          ModifiedIsTracked, Patching, Removing, Changed, Paths, InstallSteps,
          DetachSteps
  <2>12. CASE FinishRecord(a)
    BY <2>12, TypeOK, TypeOK', ListInv, LoopInv, ModifiedIsTracked, JobFields
      DEF FinishRecord, listVars, buildVars, bundleVars, TypeOK, ListInv, LoopInv,
          ModifiedIsTracked, Patching, Removing, Changed, Paths, InstallSteps,
          DetachSteps
  <2> QED BY <1>1, <2>1, <2>2, <2>3, <2>4, <2>5, <2>6, <2>7, <2>8, <2>9, <2>10,
         <2>11, <2>12 DEF Install
<1>2. ASSUME NEW a \in Accounts, Repair(a) PROVE ModifiedIsTracked'
  <2>1. CASE StartRepair(a)
    BY <2>1, TypeOK, TypeOK', ListInv, LoopInv, ModifiedIsTracked, JobFields
      DEF StartRepair, listVars, buildVars, bundleVars, TypeOK, ListInv, LoopInv,
          ModifiedIsTracked, Patching, Removing, Changed, Paths, InstallSteps,
          DetachSteps
  <2>2. CASE Fetch(a)
    BY <2>2, TypeOK, TypeOK', ListInv, LoopInv, ModifiedIsTracked, JobFields
      DEF Fetch, Prepare, WriteList, Paths, listVars, buildVars, bundleVars, TypeOK,
          ListInv, LoopInv, ModifiedIsTracked, Patching, Removing, Changed,
          InstallSteps, DetachSteps
  <2>3. CASE Replace(a)
    BY <2>3, TypeOK, TypeOK', ListInv, LoopInv, ModifiedIsTracked, JobFields
      DEF Replace, Fresh, listVars, buildVars, bundleVars, TypeOK, ListInv, LoopInv,
          ModifiedIsTracked, Patching, Removing, Changed, Paths, InstallSteps,
          DetachSteps
  <2>4. CASE RepairRetires(a)
    <3>1. job[a].target \in Bundles
      BY <2>4, TypeOK, JobFields DEF RepairRetires, TypeOK
    <3>2. RetireIfClean(a, job[a].target) /\ UNCHANGED bundleVars /\ UNCHANGED buildVars
      BY <2>4 DEF RepairRetires, bundleVars, buildVars
    <3> QED BY <3>1, <3>2, RetireTracked, TypeOK, ListInv, ModifiedIsTracked
  <2>5. CASE RepairFails(a)
    BY <2>5, TypeOK, TypeOK', ListInv, LoopInv, ModifiedIsTracked, JobFields
      DEF RepairFails, listVars, buildVars, bundleVars, TypeOK, ListInv, LoopInv,
          ModifiedIsTracked, Patching, Removing, Changed, Paths, InstallSteps,
          DetachSteps
  <2> QED BY <1>2, <2>1, <2>2, <2>3, <2>4, <2>5 DEF Repair
<1>3. ASSUME NEW a \in Accounts, Remove(a) PROVE ModifiedIsTracked'
  <2>1. CASE StartRemove(a)
    BY <2>1, TypeOK, TypeOK', ListInv, LoopInv, ModifiedIsTracked, JobFields
      DEF StartRemove, Prepare, WriteList, Paths, listVars, buildVars, bundleVars,
          TypeOK, ListInv, LoopInv, ModifiedIsTracked, Patching, Removing, Changed,
          InstallSteps, DetachSteps
  <2>2. CASE NextTarget(a)
    BY <2>2, TypeOK, TypeOK', ListInv, LoopInv, ModifiedIsTracked, JobFields
      DEF NextTarget, listVars, buildVars, bundleVars, TypeOK, ListInv, LoopInv,
          ModifiedIsTracked, Patching, Removing, Changed, Paths, InstallSteps,
          DetachSteps
  <2>3. CASE TargetUnreachable(a)
    BY <2>3, TypeOK, TypeOK', ListInv, LoopInv, ModifiedIsTracked, JobFields
      DEF TargetUnreachable, Inspect, Changed, listVars, buildVars, bundleVars, TypeOK,
          ListInv, LoopInv, ModifiedIsTracked, Patching, Removing, Paths, InstallSteps,
          DetachSteps
  <2>4. CASE TargetClean(a)
    <3>1. job[a].target \in Bundles
      BY <2>4, TypeOK, JobFields DEF TargetClean, TypeOK
    <3>2. /\ RetireIfClean(a, job[a].target) \/ UNCHANGED listVars
          /\ UNCHANGED bundleVars /\ UNCHANGED buildVars
      BY <2>4 DEF TargetClean, bundleVars, buildVars
    <3> QED BY <3>1, <3>2, RetireTracked, NothingTracked, TypeOK, ListInv, ModifiedIsTracked
  <2>5. CASE TargetModified(a)
    BY <2>5, TypeOK, TypeOK', ListInv, LoopInv, ModifiedIsTracked, JobFields
      DEF TargetModified, Mark, WriteList, Paths, Inspect, Changed, listVars, buildVars,
          bundleVars, TypeOK, ListInv, LoopInv, ModifiedIsTracked, Patching, Removing,
          InstallSteps, DetachSteps
  <2>6. CASE TargetFails(a)
    BY <2>6, TypeOK, TypeOK', ListInv, LoopInv, ModifiedIsTracked, JobFields
      DEF TargetFails, listVars, buildVars, bundleVars, TypeOK, ListInv, LoopInv,
          ModifiedIsTracked, Patching, Removing, Changed, Paths, InstallSteps,
          DetachSteps
  <2>7. CASE ClearInsert(a)
    BY <2>7, TypeOK, TypeOK', ListInv, LoopInv, ModifiedIsTracked, JobFields
      DEF ClearInsert, listVars, buildVars, bundleVars, TypeOK, ListInv, LoopInv,
          ModifiedIsTracked, Patching, Removing, Changed, Paths, InstallSteps,
          DetachSteps
  <2>8. CASE DropDylib(a)
    BY <2>8, TypeOK, TypeOK', ListInv, LoopInv, ModifiedIsTracked, JobFields
      DEF DropDylib, listVars, buildVars, bundleVars, TypeOK, ListInv, LoopInv,
          ModifiedIsTracked, Patching, Removing, Changed, Paths, InstallSteps,
          DetachSteps
  <2>9. CASE Resign(a)
    BY <2>9, TypeOK, TypeOK', ListInv, LoopInv, ModifiedIsTracked, JobFields
      DEF Resign, listVars, buildVars, bundleVars, TypeOK, ListInv, LoopInv,
          ModifiedIsTracked, Patching, Removing, Changed, Paths, InstallSteps,
          DetachSteps
  <2>10. CASE DetachFails(a)
    BY <2>10, TypeOK, TypeOK', ListInv, LoopInv, ModifiedIsTracked, JobFields
      DEF DetachFails, listVars, buildVars, bundleVars, TypeOK, ListInv, LoopInv,
          ModifiedIsTracked, Patching, Removing, Changed, Paths, InstallSteps,
          DetachSteps
  <2>11. CASE Settle(a)
    <3>1. job[a].target \in Bundles
      BY <2>11, TypeOK, JobFields DEF Settle, TypeOK
    <3>2. RetireIfClean(a, job[a].target) /\ UNCHANGED bundleVars /\ UNCHANGED buildVars
      BY <2>11 DEF Settle, bundleVars, buildVars
    <3> QED BY <3>1, <3>2, RetireTracked, TypeOK, ListInv, ModifiedIsTracked
  <2>12. CASE AfterTargets(a)
    BY <2>12, TypeOK, TypeOK', ListInv, LoopInv, ModifiedIsTracked, JobFields
      DEF AfterTargets, listVars, buildVars, bundleVars, TypeOK, ListInv, LoopInv,
          ModifiedIsTracked, Patching, Removing, Changed, Paths, InstallSteps,
          DetachSteps
  <2>13. CASE RemoveFile(a)
    BY <2>13, TypeOK, TypeOK', ListInv, LoopInv, ModifiedIsTracked, JobFields
      DEF RemoveFile, listVars, buildVars, bundleVars, TypeOK, ListInv, LoopInv,
          ModifiedIsTracked, Patching, Removing, Changed, Paths, InstallSteps,
          DetachSteps
  <2>14. CASE Removed(a)
    BY <2>14, TypeOK, TypeOK', ListInv, LoopInv, ModifiedIsTracked, JobFields
      DEF Removed, listVars, buildVars, bundleVars, TypeOK, ListInv, LoopInv,
          ModifiedIsTracked, Patching, Removing, Changed, Paths, InstallSteps,
          DetachSteps
  <2> QED BY <1>3, <2>1, <2>2, <2>3, <2>4, <2>5, <2>6, <2>7, <2>8, <2>9, <2>10,
         <2>11, <2>12, <2>13, <2>14 DEF Remove
<1>4. ASSUME NEW a \in Accounts, Stops(a) PROVE ModifiedIsTracked'
  BY <1>4, TypeOK, TypeOK', ListInv, LoopInv, ModifiedIsTracked, JobFields
      DEF Stops, Leave, Released, Goto, listVars, buildVars, bundleVars, TypeOK,
          ListInv, LoopInv, ModifiedIsTracked, Patching, Removing, Changed, Paths,
          InstallSteps, DetachSteps
<1>5. ASSUME NEW a \in Accounts, NEW b \in Bundles, ChooseSteam(a, b) PROVE ModifiedIsTracked'
  BY <1>5, TypeOK, TypeOK', ListInv, LoopInv, ModifiedIsTracked, JobFields
      DEF ChooseSteam, Happens, listVars, buildVars, bundleVars, TypeOK, ListInv,
          LoopInv, ModifiedIsTracked, Patching, Removing, Changed, Paths, InstallSteps,
          DetachSteps
<1>6. ASSUME NEW b \in Bundles, Outside(b) PROVE ModifiedIsTracked'
  <2>1. CASE Mount(b)
    BY <2>1, TypeOK, TypeOK', ListInv, LoopInv, ModifiedIsTracked, JobFields
      DEF Mount, Happens, Untouched, listVars, buildVars, bundleVars, TypeOK, ListInv,
          LoopInv, ModifiedIsTracked, Patching, Removing, Changed, Paths, InstallSteps,
          DetachSteps
  <2>2. CASE Unmount(b)
    BY <2>2, TypeOK, TypeOK', ListInv, LoopInv, ModifiedIsTracked, JobFields
      DEF Unmount, Happens, Untouched, listVars, buildVars, bundleVars, TypeOK, ListInv,
          LoopInv, ModifiedIsTracked, Patching, Removing, Changed, Paths, InstallSteps,
          DetachSteps
  <2>3. CASE UserReinstalls(b)
    BY <2>3, TypeOK, TypeOK', ListInv, LoopInv, ModifiedIsTracked, JobFields
      DEF UserReinstalls, Happens, Untouched, Fresh, listVars, buildVars, bundleVars,
          TypeOK, ListInv, LoopInv, ModifiedIsTracked, Patching, Removing, Changed,
          Paths, InstallSteps, DetachSteps
  <2>4. CASE UserDeletes(b)
    BY <2>4, TypeOK, TypeOK', ListInv, LoopInv, ModifiedIsTracked, JobFields
      DEF UserDeletes, Happens, Untouched, listVars, buildVars, bundleVars, TypeOK,
          ListInv, LoopInv, ModifiedIsTracked, Patching, Removing, Changed, Paths,
          InstallSteps, DetachSteps
  <2> QED BY <1>6, <2>1, <2>2, <2>3, <2>4 DEF Outside
<1>7. CASE UNCHANGED vars
  BY <1>7, TypeOK, TypeOK', ListInv, LoopInv, ModifiedIsTracked
      DEF vars, listVars, buildVars, bundleVars, TypeOK, ListInv, LoopInv,
          ModifiedIsTracked, Patching, Removing, Changed, Paths
<1> QED BY <1>1, <1>2, <1>3, <1>4, <1>5, <1>6, <1>7 DEF Next

\* The actions that change what is inserted into Steam, and from where.
LEMMA BundleWriters ==
    ASSUME [Next]_vars
    PROVE  \/ UNCHANGED <<insert, dylib>>
           \/ \E a \in Accounts : \/ CopyDylib(a) \/ SetInsert(a) \/ SigningFails(a)
                                  \/ ClearInsert(a) \/ DropDylib(a) \/ Replace(a)
           \/ \E b \in Bundles : UserReinstalls(b) \/ UserDeletes(b)
<1>1. ASSUME NEW a \in Accounts, Install(a)
      PROVE  UNCHANGED <<insert, dylib>> \/ CopyDylib(a) \/ SetInsert(a) \/ SigningFails(a)
  BY <1>1 DEF Install, StartInstall, Preflight, NeedsPatching, Stage, InstallFiles, AdHocSign,
     Verify, FinishStamp, FinishRecord, bundleVars
<1>2. ASSUME NEW a \in Accounts, Repair(a)
      PROVE  UNCHANGED <<insert, dylib>> \/ Replace(a)
  BY <1>2 DEF Repair, StartRepair, Fetch, RepairRetires, RepairFails, bundleVars
<1>3. ASSUME NEW a \in Accounts, Remove(a)
      PROVE  UNCHANGED <<insert, dylib>> \/ ClearInsert(a) \/ DropDylib(a)
  BY <1>3 DEF Remove, StartRemove, NextTarget, TargetUnreachable, TargetClean, TargetModified,
     TargetFails, Resign, DetachFails, Settle, AfterTargets, RemoveFile, Removed, bundleVars
<1>4. ASSUME NEW a \in Accounts, Stops(a)
      PROVE  UNCHANGED <<insert, dylib>>
  BY <1>4 DEF Stops, bundleVars
<1>5. ASSUME NEW a \in Accounts, NEW b \in Bundles, ChooseSteam(a, b)
      PROVE  UNCHANGED <<insert, dylib>>
  BY <1>5 DEF ChooseSteam, bundleVars
<1>6. ASSUME NEW b \in Bundles, Outside(b)
      PROVE  UNCHANGED <<insert, dylib>> \/ UserReinstalls(b) \/ UserDeletes(b)
  BY <1>6 DEF Outside, Mount, Unmount
<1>7. CASE UNCHANGED vars
  BY <1>7 DEF vars, bundleVars
<1> QED BY <1>1, <1>2, <1>3, <1>4, <1>5, <1>6, <1>7 DEF Next

\* The actions that change an account's record.
LEMMA RecordWriters ==
    ASSUME [Next]_vars
    PROVE  \/ UNCHANGED <<record, hashed>>
           \/ \E a \in Accounts : FinishRecord(a) \/ RemoveFile(a)
<1>1. ASSUME NEW a \in Accounts, Install(a)
      PROVE  UNCHANGED <<record, hashed>> \/ FinishRecord(a)
  BY <1>1 DEF Install, StartInstall, Preflight, NeedsPatching, Stage, CopyDylib, InstallFiles,
     SetInsert, AdHocSign, SigningFails, Verify, FinishStamp, buildVars
<1>2. ASSUME NEW a \in Accounts, Repair(a)
      PROVE  UNCHANGED <<record, hashed>>
  BY <1>2 DEF Repair, StartRepair, Fetch, Replace, RepairRetires, RepairFails, buildVars
<1>3. ASSUME NEW a \in Accounts, Remove(a)
      PROVE  UNCHANGED <<record, hashed>> \/ RemoveFile(a)
  BY <1>3 DEF Remove, StartRemove, NextTarget, TargetUnreachable, TargetClean, TargetModified,
     TargetFails, ClearInsert, DropDylib, Resign, DetachFails, Settle, AfterTargets, Removed,
     buildVars
<1>4. ASSUME NEW a \in Accounts, Stops(a)
      PROVE  UNCHANGED <<record, hashed>>
  BY <1>4 DEF Stops, buildVars
<1>5. ASSUME NEW a \in Accounts, NEW b \in Bundles, ChooseSteam(a, b)
      PROVE  UNCHANGED <<record, hashed>>
  BY <1>5 DEF ChooseSteam, buildVars
<1>6. ASSUME NEW b \in Bundles, Outside(b)
      PROVE  UNCHANGED <<record, hashed>>
  BY <1>6 DEF Outside, Mount, Unmount, UserReinstalls, UserDeletes, buildVars
<1>7. CASE UNCHANGED vars
  BY <1>7 DEF vars, buildVars
<1> QED BY <1>1, <1>2, <1>3, <1>4, <1>5, <1>6, <1>7 DEF Next

\* The dylib comes before the insert and goes after it.
LEMMA InsertStep ==
    ASSUME TypeOK, PatchInv, InsertHasDylib, [Next]_vars
    PROVE  InsertHasDylib'
<1>1. CASE UNCHANGED <<insert, dylib>>
  BY <1>1 DEF InsertHasDylib
<1>2. ASSUME NEW a \in Accounts, CopyDylib(a) PROVE InsertHasDylib'
  <2>1. job[a].build # None /\ job[a].target \in Bundles
    BY <1>2, ConstantsAssumption, JobFields
       DEF CopyDylib, PatchInv, InstallSteps, TypeOK, Builds, None
  <2> QED BY <1>2, <2>1 DEF CopyDylib, InsertHasDylib, TypeOK
<1>3. ASSUME NEW a \in Accounts, SetInsert(a) \/ SigningFails(a) PROVE InsertHasDylib'
  <2>1. job[a].build # None /\ job[a].target \in Bundles /\ dylib[job[a].target] = job[a].build
    BY <1>3, ConstantsAssumption, JobFields
       DEF SetInsert, SigningFails, PatchInv, InstallSteps, TypeOK, Builds, None
  <2>2. \A c \in Bundles : c # job[a].target => insert'[c] = insert[c]
    BY <1>3, <2>1 DEF SetInsert, SigningFails, TypeOK
  <2> QED BY <1>3, <2>1, <2>2 DEF SetInsert, SigningFails, InsertHasDylib
<1>4. ASSUME NEW a \in Accounts, ClearInsert(a) PROVE InsertHasDylib'
  BY <1>4, JobFields DEF ClearInsert, InsertHasDylib, TypeOK
<1>5. ASSUME NEW a \in Accounts, DropDylib(a) PROVE InsertHasDylib'
  BY <1>5, JobFields DEF DropDylib, InsertHasDylib, PatchInv, TypeOK
<1>6. ASSUME NEW a \in Accounts, Replace(a) PROVE InsertHasDylib'
  BY <1>6, JobFields DEF Replace, Fresh, InsertHasDylib, TypeOK
<1>7. ASSUME NEW b \in Bundles, UserReinstalls(b) \/ UserDeletes(b) PROVE InsertHasDylib'
  BY <1>7 DEF UserReinstalls, UserDeletes, Fresh, InsertHasDylib, TypeOK
<1> QED BY <1>1, <1>2, <1>3, <1>4, <1>5, <1>6, <1>7, BundleWriters

\* Only an install puts a dylib where one was, and it was checked against the hashes.
LEMMA DowngradeStep ==
    ASSUME TypeOK, PatchInv, [Next]_vars
    PROVE  NoHashedDowngrade
<1>1. \A b \in Bundles : dylib[b] \in Int /\ ~(dylib[b] < dylib[b])
  BY ConstantsAssumption DEF TypeOK, Builds, None
<1>2. CASE UNCHANGED dylib
  BY <1>1, <1>2 DEF NoHashedDowngrade
<1>3. ASSUME NEW a \in Accounts, CopyDylib(a) PROVE NoHashedDowngrade
  <2> DEFINE t == job[a].target
             n == job[a].build
  <2>1. t \in Bundles /\ n \in Builds /\ pc[a] = "copy"
    BY <1>3, JobFields DEF CopyDylib, PatchInv, InstallSteps, TypeOK
  <2>2. dylib'[t] = n /\ \A b \in Bundles : b # t => dylib'[b] = dylib[b]
    BY <1>3, <2>1 DEF CopyDylib, TypeOK
  <2>3. record[a] # None /\ hashed[a] => dylib[t] \in {None, n, record[a]} /\ record[a] <= n
    BY <2>1 DEF PatchInv
  <2>4. record[a] # None /\ hashed[a] => ~(n < dylib[t])
    BY <2>1, <2>3, ConstantsAssumption DEF TypeOK, Builds, None
  <2> QED BY <1>1, <2>1, <2>2, <2>4 DEF NoHashedDowngrade
<1>4. ASSUME NEW a \in Accounts,
             SetInsert(a) \/ SigningFails(a) \/ ClearInsert(a) \/ DropDylib(a) \/ Replace(a)
      PROVE  NoHashedDowngrade
  <2>1. \A b \in Bundles : dylib'[b] = None \/ dylib'[b] = dylib[b]
    BY <1>4, JobFields
       DEF SetInsert, SigningFails, ClearInsert, DropDylib, Replace, Fresh, TypeOK
  <2> QED BY <1>1, <2>1 DEF NoHashedDowngrade
<1>5. ASSUME NEW b \in Bundles, UserReinstalls(b) \/ UserDeletes(b) PROVE NoHashedDowngrade
  <2>1. \A c \in Bundles : dylib'[c] = None \/ dylib'[c] = dylib[c]
    BY <1>5 DEF UserReinstalls, UserDeletes, Fresh, TypeOK
  <2> QED BY <1>1, <2>1 DEF NoHashedDowngrade
<1> QED BY <1>2, <1>3, <1>4, <1>5, BundleWriters

\* Only the end of an install writes a record, of what was verified.
LEMMA RecordStep ==
    ASSUME TypeOK, LockInv, PatchInv, [Next]_vars
    PROVE  VerifiedRecord
<1>1. CASE UNCHANGED <<record, hashed>>
  BY <1>1 DEF VerifiedRecord
<1>2. ASSUME NEW a \in Accounts, FinishRecord(a) PROVE VerifiedRecord
  <2>1. /\ record'[a] = job[a].build
        /\ \A c \in Accounts : c # a => record'[c] = record[c] /\ hashed'[c] = hashed[c]
    BY <1>2 DEF FinishRecord, TypeOK
  <2>2. /\ insert[job[a].target] = "ours" /\ at[job[a].target] = "present"
        /\ dylib[job[a].target] = job[a].build /\ files[a] = job[a].build
    BY <1>2 DEF FinishRecord, PatchInv, LockInv, Patching, InstallSteps
  <2> QED BY <2>1, <2>2 DEF VerifiedRecord
<1>3. ASSUME NEW a \in Accounts, RemoveFile(a) PROVE VerifiedRecord
  BY <1>3 DEF RemoveFile, VerifiedRecord, TypeOK
<1> QED BY <1>1, <1>2, <1>3, RecordWriters

-----------------------------------------------------------------------------

IInv == /\ TypeOK /\ LockInv /\ ListInv /\ PatchInv /\ LoopInv
        /\ ModifiedIsTracked /\ InsertHasDylib

\* The program starts in a typed state,
LEMMA InitTypes ==
    ASSUME Init
    PROVE  TypeOK
<1>1. 1 \in Builds /\ 0 \in 0..MaxEvents
  BY ConstantsAssumption DEF Builds
<1>2. PICK legacy \in SUBSET Legacy, patched \in BOOLEAN, foreign \in SUBSET Foreign :
         /\ insert = [b \in Bundles |-> IF b \in foreign THEN "foreign"
                                        ELSE IF b = DefaultBundle /\ patched THEN "ours"
                                        ELSE "none"]
         /\ dylib = [b \in Bundles |-> IF b = DefaultBundle /\ patched THEN 1 ELSE None]
         /\ sig = [b \in Bundles |-> IF insert[b] = "none" THEN "valve" ELSE "adhoc"]
         /\ record = [a \in Accounts |-> IF a \in legacy THEN 1 ELSE None]
         /\ stamp = record /\ files = record
  BY DEF Init
<1>3. at \in [Bundles -> {"present", "absent", "away"}]
  BY DEF Init
<1>4. /\ insert \in [Bundles -> {"none", "ours", "foreign"}]
      /\ sig \in [Bundles -> {"valve", "adhoc", "broken"}]
  BY <1>2
<1>5. /\ dylib \in [Bundles -> Builds \cup {None}]
      /\ record \in [Accounts -> Builds \cup {None}]
      /\ stamp \in [Accounts -> Builds \cup {None}]
      /\ files \in [Accounts -> Builds \cup {None, Mixed}]
  BY <1>1, <1>2
<1>6. /\ lock \in [Bundles -> Accounts \cup {NoOne}]
      /\ listed \in [Accounts -> BOOLEAN] /\ hashed \in [Accounts -> BOOLEAN]
      /\ tracked \in [Accounts -> SUBSET Bundles] /\ chosen \in [Accounts -> Bundles]
  BY ConstantsAssumption DEF Init
<1>7. pc \in [Accounts -> Steps] /\ job \in [Accounts -> Jobs]
  BY NoJobIsAJob, StepNames DEF Init
<1>8. events \in 0..MaxEvents
  BY <1>1 DEF Init
<1> QED BY <1>3, <1>4, <1>5, <1>6, <1>7, <1>8 DEF TypeOK

\* in which the invariant holds;
LEMMA InitInv ==
    ASSUME Init
    PROVE  IInv
<1>1. TypeOK
  BY InitTypes
<1>2. \A a \in Accounts : pc[a] = "idle" /\ job[a].removing = FALSE
  BY DEF Init, NoJob
<1>3. /\ "idle" \notin OnTarget /\ "idle" \notin Patching /\ "idle" \notin Removing
      /\ "idle" \notin InstallSteps
  BY DEF OnTarget, Patching, Removing, InstallSteps, RepairSteps, TargetSteps, DetachSteps
<1>4. LockInv
  BY <1>2, <1>3 DEF LockInv, Init
<1>5. ListInv
  BY <1>2, <1>3 DEF ListInv, Init
<1>6. PatchInv
  BY <1>2, <1>3 DEF PatchInv
<1>7. LoopInv
  BY <1>2, <1>3 DEF LoopInv
<1>8. PICK legacy \in SUBSET Legacy, patched \in BOOLEAN, foreign \in SUBSET Foreign :
         /\ patched => legacy # {} /\ DefaultBundle \notin foreign
         /\ insert = [b \in Bundles |-> IF b \in foreign THEN "foreign"
                                        ELSE IF b = DefaultBundle /\ patched THEN "ours"
                                        ELSE "none"]
         /\ dylib = [b \in Bundles |-> IF b = DefaultBundle /\ patched THEN 1 ELSE None]
         /\ sig = [b \in Bundles |-> IF insert[b] = "none" THEN "valve" ELSE "adhoc"]
         /\ record = [a \in Accounts |-> IF a \in legacy THEN 1 ELSE None]
  BY DEF Init
<1>9. ModifiedIsTracked
  <2>1. SUFFICES ASSUME NEW b \in Bundles, Changed(b)
                 PROVE  \E a \in Accounts : b \in Paths(a)
    BY DEF ModifiedIsTracked
  <2>2. b = DefaultBundle /\ patched
    BY <1>8, <2>1 DEF Changed
  <2>3. PICK a \in legacy : TRUE
    BY <1>8, <2>2
  <2>4. a \in Accounts /\ record[a] # None /\ ~listed[a]
    BY <1>8, <2>3, ConstantsAssumption DEF Init, None
  <2> QED BY <2>2, <2>4 DEF Paths
<1>10. InsertHasDylib
  BY <1>8 DEF InsertHasDylib, None
<1> QED BY <1>1, <1>4, <1>5, <1>6, <1>7, <1>9, <1>10 DEF IInv

\* every step keeps it,
LEMMA StepInv ==
    ASSUME IInv, [Next]_vars
    PROVE  IInv'
<1>1. TypeOK'
  BY TypeStep DEF IInv
<1>2. LockInv'
  BY <1>1, LockStep DEF IInv
<1>3. ListInv'
  BY <1>1, ListStep DEF IInv
<1>4. PatchInv'
  BY <1>1, <1>2, PatchStep DEF IInv
<1>5. LoopInv'
  BY <1>1, LoopStep DEF IInv
<1>6. ModifiedIsTracked'
  BY <1>1, TrackStep DEF IInv
<1>7. InsertHasDylib'
  BY <1>1, InsertStep DEF IInv
<1> QED BY <1>1, <1>2, <1>3, <1>4, <1>5, <1>6, <1>7 DEF IInv

\* so it always holds.
LEMMA Invariance == Spec => []IInv
<1>1. Init => IInv
  BY InitInv
<1>2. IInv /\ [Next]_vars => IInv'
  BY StepInv
<1> QED BY <1>1, <1>2, PTL DEF Spec

(* Every variable keeps its type, whatever is interrupted.                  *)
THEOREM TypeCorrect == Spec => []TypeOK
<1>1. IInv => TypeOK
  BY DEF IInv
<1> QED BY <1>1, Invariance, PTL

(* A copy of Steam that holds anything of NotProton's is in some account's  *)
(* list: mark precedes every change, retireIfClean looks before it forgets. *)
THEOREM ModifiedIsTrackedHolds == Spec => []ModifiedIsTracked
<1>1. IInv => ModifiedIsTracked
  BY DEF IInv
<1> QED BY <1>1, Invariance, PTL

(* Info.plist never inserts a dylib that is not in the bundle: SteamInstaller *)
(* copies before it sets the insert, detach clears before it deletes.         *)
THEOREM InsertHasDylibHolds == Spec => []InsertHasDylib
<1>1. IInv => InsertHasDylib
  BY DEF IInv
<1> QED BY <1>1, Invariance, PTL

(* Uninstall.run deletes the support folder only when what is still listed  *)
(* was out of reach.                                                        *)
THEOREM SupportGoesLastHolds == Spec => []SupportGoesLast
<1>1. IInv => SupportGoesLast
  <2>1. SUFFICES ASSUME IInv, NEW a \in Accounts, pc[a] = "removing"
                 PROVE  listed[a] /\ tracked[a] \subseteq job[a].missing
    BY DEF SupportGoesLast
  <2>2. job[a].removing /\ ~job[a].failed /\ job[a].todo = {}
    BY <2>1 DEF IInv, LoopInv, Removing
  <2> QED BY <2>1, <2>2 DEF IInv, LoopInv
<1> QED BY <1>1, Invariance, PTL

(* An account whose record carries hashes never replaces a newer dylib by   *)
(* an older one: DeploymentContent.inspect's check still holds at the copy. *)
THEOREM HashedNeverDowngradesHolds == Spec => HashedNeverDowngrades
<1>1. IInv /\ [Next]_vars => NoHashedDowngrade
  BY StepInv, DowngradeStep DEF IInv
<1>2. IInv /\ [Next]_vars => [NoHashedDowngrade]_vars
  BY <1>1
<1>3. [][NoHashedDowngrade]_vars => HashedNeverDowngrades
  BY DEF HashedNeverDowngrades, NoHashedDowngrade
<1> QED BY <1>2, <1>3, Invariance, PTL DEF Spec

(* finish writes install-build.json only of a build that is installed whole. *)
THEOREM RecordIsVerifiedHolds == Spec => RecordIsVerified
<1>1. IInv /\ [Next]_vars => VerifiedRecord
  BY StepInv, RecordStep DEF IInv
<1>2. IInv /\ [Next]_vars => [VerifiedRecord]_vars
  BY <1>1
<1>3. [][VerifiedRecord]_vars => RecordIsVerified
  BY DEF RecordIsVerified, VerifiedRecord
<1> QED BY <1>2, <1>3, Invariance, PTL DEF Spec
=============================================================================
