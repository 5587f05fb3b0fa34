------------------------ MODULE PrefixLifecycleProofs ------------------------
(***************************************************************************)
(* Theorems about PrefixLifecycle, for any number of launches, workers,    *)
(* tools, directories and saves.  IInv is the inductive invariant: beside  *)
(* the properties it says what a rebuild has established at each of its    *)
(* steps, and that nobody else can undo it while the rebuild holds the     *)
(* lock.                                                                   *)
(***************************************************************************)
EXTENDS PrefixLifecycle, TLAPS

\* A name is taken by at most one directory.
OneOfEach ==
    /\ \A d, e \in Pfx : d = e
    /\ \A d, e \in Fresh : d = e

\* A new directory is empty, and nothing runs where there is none.
GoneIsEmpty == \A d \in At("gone") : saves[d] = {} /\ arch[d] = None /\ d \notin live

\* Each worker is at a step of its own job.
JobFits ==
    \A w \in Workers :
        /\ wpc[w] = "idle" <=> job[w] = "none"
        /\ wpc[w] \in {"booted", "carried", "parked", "swapped"} => job[w] = "rebuild"
        /\ wpc[w] = "copying" => job[w] = "backup"
        /\ wpc[w] \notin {"parked", "swapped", "copying"} => prev[w] = None

\* Only what a rebuild carries is promised.
PromisesAreCarried == promised \cap Outside = {}

\* From wineboot to the swap there is a fresh prefix, which from the copy on holds what
\* is promised of pfx, or of what pfx was.
FreshIsReady ==
    \A w \in Workers :
        /\ wpc[w] \in {"booted", "carried", "parked"} => Fresh # {}
        /\ wpc[w] = "carried" => promised \cap SavesIn(Pfx) \subseteq SavesIn(Fresh)
        /\ wpc[w] = "parked" /\ prev[w] # None =>
              promised \cap saves[prev[w]] \subseteq SavesIn(Fresh)

\* A copy under way holds nothing pfx does not, and nothing runs in it.
CopyIsPartial ==
    \A w \in Workers : wpc[w] = "copying" =>
        /\ Pfx # {}
        /\ prev[w] \in Dirs \ live
        /\ where[prev[w]] \in {"gone", "backup"}
        /\ saves[prev[w]] \subseteq SavesIn(Pfx)

DirInv == OneOfEach /\ GoneIsEmpty

SaveInv ==
    /\ JobFits
    /\ PromisesAreCarried
    /\ SavesKept
    /\ FreshIsReady
    /\ DiscardIsSafe
    /\ CopyIsPartial

IInv == TypeOK /\ OneAtWork /\ DirInv /\ SaveInv

-----------------------------------------------------------------------------
(* Types.                                                                  *)

\* Removing directories keeps what is known of each to its type.
LEMMA RemoveType ==
    ASSUME TypeOK, NEW S \in SUBSET Dirs, Remove(S)
    PROVE  /\ where' \in [Dirs -> {"gone", "pfx", "fresh", "backup"}]
           /\ saves' \in [Dirs -> SUBSET Saves]
           /\ arch' \in [Dirs -> Arches \cup {None}]
           /\ userReg' \in [Dirs -> BOOLEAN]
           /\ live' \subseteq Dirs
BY DEF TypeOK, Remove

\* So does Wine started on pfx, whether it finds a prefix or builds one.
LEMMA WineOnType ==
    ASSUME TypeOK, NEW a \in Arches \cup {None}, WineOn(a)
    PROVE  /\ where' \in [Dirs -> {"gone", "pfx", "fresh", "backup"}]
           /\ saves' \in [Dirs -> SUBSET Saves]
           /\ arch' \in [Dirs -> Arches \cup {None}]
           /\ userReg' \in [Dirs -> BOOLEAN]
           /\ live' \subseteq Dirs
BY DEF TypeOK, WineOn, Pfx, At

\* So does prepare_prefix_directory, which makes pfx when there is none.
LEMMA TakePrefixType ==
    ASSUME TypeOK, NEW l \in Launches, TakePrefix(l)
    PROVE  /\ where' \in [Dirs -> {"gone", "pfx", "fresh", "backup"}]
           /\ saves' \in [Dirs -> SUBSET Saves]
           /\ arch' \in [Dirs -> Arches \cup {None}]
           /\ userReg' \in [Dirs -> BOOLEAN]
           /\ prefixLock' = l
BY DEF TypeOK, TakePrefix, MakePfx, Pfx, At

\* A worker that ends is of the type of one that never began.
LEMMA EndWorkType ==
    ASSUME TypeOK, NEW w \in Workers, EndWork(w)
    PROVE  /\ prefixLock' = None
           /\ wpc' \in [Workers -> WorkerSteps]
           /\ job' \in [Workers -> Jobs \cup {"none"}]
           /\ target' \in [Workers -> Arches \cup {None}]
           /\ keep' \in [Workers -> BOOLEAN]
           /\ prev' \in [Workers -> Dirs \cup {None}]
BY DEF TypeOK, EndWork, WorkerSteps

\* A step of a launch script keeps every variable to its type.
LEMMA LaunchType ==
    ASSUME TypeOK, NEW l \in Launches, LaunchNext(l)
    PROVE  TypeOK'
<1> USE DEF TypeOK, LaunchSteps, LockedSteps, Step, DropPrefix, ForgetDialogs,
            dirVars, launchVars, workerVars
<1>1. CASE PassArchCheck(l) \/ AskRebuild(l) \/ NoOffer(l) \/ OfferRebuild(l)
  BY <1>1 DEF PassArchCheck, AskRebuild, NoOffer, OfferRebuild
<1>2. CASE ClearServers(l) \/ ReleasePrefix(l)
  BY <1>2 DEF ClearServers, ReleasePrefix
<1>3. CASE SetUpPrefix(l)
  <2>1. CASE UNCHANGED <<dirVars, live>>
    BY <1>3, <2>1 DEF SetUpPrefix
  <2>2. CASE WineOn(want[l])
    BY <1>3, <2>2, WineOnType DEF SetUpPrefix
  <2> QED BY <1>3, <2>1, <2>2 DEF SetUpPrefix
<1>4. CASE PrepareLaunch(l) \/ LaunchWithoutRebuilding(l) \/ ReturnFromRebuild(l)
  BY <1>4, TakePrefixType DEF PrepareLaunch, LaunchWithoutRebuilding, ReturnFromRebuild
<1>5. CASE StartGame(l)
  BY <1>5, WineOnType DEF StartGame, UnlockedWineOn
<1>6. CASE EndGame(l) \/ LeaveLaunch(l)
  BY <1>6 DEF EndGame, LeaveLaunch, EndLaunch
<1> QED BY <1>1, <1>2, <1>3, <1>4, <1>5, <1>6 DEF LaunchNext, LaunchStep

\* So does a step of an operation of the app.
LEMMA WorkerType ==
    ASSUME TypeOK, NEW w \in Workers, WorkerNext(w)
    PROVE  TypeOK'
<1> USE DEF dirVars, launchVars, workerVars
<1>1. CASE ClaimPrefix(w)
  BY <1>1 DEF TypeOK, ClaimPrefix, Work, WorkerSteps, RebuildSteps, Jobs
<1>2. CASE BootFresh(w)
  <2>1. PICK n \in Dirs :
          /\ where' = [d \in Dirs |-> IF d = n THEN "fresh"
                                       ELSE IF d \in Fresh THEN "gone" ELSE where[d]]
          /\ saves' = [d \in Dirs |-> IF d \in Fresh \cup {n} THEN {} ELSE saves[d]]
          /\ arch' = [d \in Dirs |-> IF d = n THEN target[w]
                                      ELSE IF d \in Fresh THEN None ELSE arch[d]]
          /\ userReg' = [d \in Dirs |-> IF d = n THEN TRUE
                                         ELSE IF d \in Fresh THEN FALSE ELSE userReg[d]]
          /\ live' = live \ (Fresh \cup {n})
    BY <1>2 DEF BootFresh, Fresh, At
  <2>2. /\ wpc' \in [Workers -> WorkerSteps]
        /\ UNCHANGED <<prefixLock, launchVars, job, target, keep, prev, tpc, promised>>
    BY <1>2 DEF BootFresh, Work, TypeOK, WorkerSteps, RebuildSteps
  <2> QED BY <2>1, <2>2 DEF TypeOK
<1>3. CASE CarryUserData(w)
  BY <1>3 DEF TypeOK, CarryUserData, Work, WorkerSteps, RebuildSteps, SavesIn, Pfx, Fresh, At
<1>4. CASE ParkOld(w) \/ SwapIn(w)
  BY <1>4 DEF TypeOK, ParkOld, SwapIn, Work, WorkerSteps, RebuildSteps, Pfx, Fresh, At
<1>5. CASE SwapFails(w)
  <2>1. PICK back \in SUBSET (Backups \cap {prev[w]}), swept \in SUBSET Fresh :
            /\ where' = [d \in Dirs |-> IF d \in back THEN "pfx"
                                         ELSE IF d \in swept THEN "gone" ELSE where[d]]
            /\ saves' = [d \in Dirs |-> IF d \in swept THEN {} ELSE saves[d]]
            /\ arch' = [d \in Dirs |-> IF d \in swept THEN None ELSE arch[d]]
            /\ userReg' = [d \in Dirs |-> IF d \in swept THEN FALSE ELSE userReg[d]]
            /\ live' = live \ swept
    BY <1>5 DEF SwapFails
  <2> QED BY <1>5, <2>1, EndWorkType DEF SwapFails, TypeOK
<1>6. CASE FinishRebuild(w) \/ GiveUpRebuild(w) \/ GiveUpBackUp(w) \/ DeletePrefix(w)
  <2>1. PICK S \in SUBSET Dirs : Remove(S)
    BY <1>6 DEF FinishRebuild, GiveUpRebuild, GiveUpBackUp, DeletePrefix, Backups, Fresh, At
  <2>2. EndWork(w)
    BY <1>6 DEF FinishRebuild, GiveUpRebuild, GiveUpBackUp, DeletePrefix
  <2>3. promised' \subseteq Saves /\ UNCHANGED <<launchVars, tpc>>
    BY <1>6 DEF FinishRebuild, GiveUpRebuild, GiveUpBackUp, DeletePrefix, TypeOK
  <2> QED BY <2>1, <2>2, <2>3, RemoveType, EndWorkType DEF TypeOK
<1>7. CASE StartBackUp(w)
  BY <1>7 DEF TypeOK, StartBackUp, Work, WorkerSteps, Pfx, At
<1>8. CASE FinishBackUp(w)
  BY <1>8, EndWorkType DEF TypeOK, FinishBackUp, Pfx, At, Backups
<1>9. CASE StartWinetricks(w)
  BY <1>9, WineOnType DEF TypeOK, StartWinetricks, Work, WorkerSteps
<1>10. CASE FinishWinetricks(w) \/ KillWorker(w)
  BY <1>10, EndWorkType DEF TypeOK, FinishWinetricks, KillWorker
<1> QED BY <1>1, <1>2, <1>3, <1>4, <1>5, <1>6, <1>7, <1>8, <1>9, <1>10
        DEF WorkerNext, WorkerStep

\* What neither a launch nor a worker does.
Elsewhere ==
    \/ \E t \in Tools : CheckUnclaimed(t) \/ OpenTool(t)
    \/ \E d \in Dirs : ServerExits(d) \/ DeleteBackup(d)
    \/ \E d \in Dirs, s \in Saves : WriteSave(d, s)

\* So does what happens outside of both: tools, servers, saves, deleted backups.
LEMMA ElsewhereType ==
    ASSUME TypeOK, Elsewhere
    PROVE  TypeOK'
<1> USE DEF dirVars, launchVars, workerVars
<1>1. ASSUME NEW t \in Tools, CheckUnclaimed(t) PROVE TypeOK'
  BY <1>1 DEF TypeOK, CheckUnclaimed
<1>2. ASSUME NEW t \in Tools, OpenTool(t) PROVE TypeOK'
  BY <1>2, WineOnType DEF TypeOK, OpenTool, UnlockedWineOn
<1>3. ASSUME NEW d \in Dirs, ServerExits(d) PROVE TypeOK'
  BY <1>3 DEF TypeOK, ServerExits
<1>4. ASSUME NEW d \in Dirs, DeleteBackup(d) PROVE TypeOK'
  BY <1>4, RemoveType DEF TypeOK, DeleteBackup
<1>5. ASSUME NEW d \in Dirs, NEW s \in Saves, WriteSave(d, s) PROVE TypeOK'
  BY <1>5 DEF TypeOK, WriteSave, Pfx, At
<1> QED BY <1>1, <1>2, <1>3, <1>4, <1>5 DEF Elsewhere

\* Every step keeps the types.
LEMMA TypeStep == TypeOK /\ [Next]_vars => TypeOK'
<1>1. CASE UNCHANGED vars
  BY <1>1 DEF TypeOK, vars, dirVars, launchVars, workerVars
<1> QED BY <1>1, LaunchType, WorkerType, ElsewhereType DEF Next, Elsewhere

\* They hold at the start.
LEMMA TypeInit == Init => TypeOK
BY DEF Init, TypeOK, LaunchSteps, WorkerSteps

\* Every variable of the model keeps to its type, whatever the launch script, the app and
\* the programs in a prefix do in whatever order.
THEOREM TypeCorrect == Spec => []TypeOK
BY TypeInit, TypeStep, PTL DEF Spec

-----------------------------------------------------------------------------
(* The prefix lock.                                                        *)

\* No one is at work at the start.
LEMMA LockInit == Init => OneAtWork
BY NoneIsApart DEF Init, OneAtWork, LockedSteps

\* A worker's step belongs to the worker that holds the lock, or takes a free one.
LEMMA WorkerLock ==
    ASSUME TypeOK, OneAtWork, NEW w \in Workers, WorkerNext(w)
    PROVE  OneAtWork'
<1>1. /\ UNCHANGED lpc
      /\ \A v \in Workers \ {w} : wpc'[v] = wpc[v]
  BY DEF WorkerNext, WorkerStep, ClaimPrefix, BootFresh, CarryUserData, ParkOld, SwapIn,
         SwapFails, FinishRebuild, GiveUpRebuild, StartBackUp, FinishBackUp, GiveUpBackUp,
         DeletePrefix, StartWinetricks, FinishWinetricks, KillWorker, Work, EndWork,
         launchVars, TypeOK
<1>2. CASE ClaimPrefix(w)
  BY <1>1, <1>2, NoneIsApart DEF ClaimPrefix, Work, OneAtWork, LockedSteps, TypeOK
<1>3. CASE prefixLock = w /\ UNCHANGED prefixLock
  BY <1>1, <1>3 DEF OneAtWork
<1>4. CASE prefixLock = w /\ wpc'[w] = "idle"
  BY <1>1, <1>4, NoneIsApart DEF OneAtWork, TypeOK
<1>5. \/ ClaimPrefix(w)
      \/ prefixLock = w /\ UNCHANGED prefixLock
      \/ prefixLock = w /\ wpc'[w] = "idle"
  BY DEF WorkerNext, WorkerStep, BootFresh, CarryUserData, ParkOld, SwapIn,
         SwapFails, FinishRebuild, GiveUpRebuild, StartBackUp, FinishBackUp, GiveUpBackUp,
         DeletePrefix, StartWinetricks, FinishWinetricks, KillWorker, Work, EndWork,
         OneAtWork, TypeOK
<1> QED BY <1>2, <1>3, <1>4, <1>5

\* A launch enters its locked steps by taking a free lock and leaves them when it drops it.
LEMMA LaunchLock ==
    ASSUME TypeOK, OneAtWork, NEW l \in Launches, LaunchNext(l)
    PROVE  OneAtWork'
<1>1. /\ UNCHANGED wpc
      /\ \A k \in Launches \ {l} : lpc'[k] = lpc[k]
  BY DEF LaunchNext, LaunchStep, PassArchCheck, AskRebuild, NoOffer, ClearServers,
         SetUpPrefix, ReleasePrefix, OfferRebuild, PrepareLaunch, LaunchWithoutRebuilding,
         ReturnFromRebuild, StartGame, EndGame, LeaveLaunch, EndLaunch, Step, workerVars,
         TypeOK
<1>2. CASE TakePrefix(l)
  BY <1>1, <1>2, NoneIsApart DEF TakePrefix, OneAtWork, LockedSteps, TypeOK
<1>3. CASE UNCHANGED prefixLock /\ (lpc'[l] \in LockedSteps => lpc[l] \in LockedSteps)
  BY <1>1, <1>3 DEF OneAtWork
<1>4. CASE DropPrefix(l) /\ lpc'[l] \notin LockedSteps
  BY <1>1, <1>4, NoneIsApart DEF OneAtWork, DropPrefix
<1>5. \/ TakePrefix(l)
      \/ UNCHANGED prefixLock /\ (lpc'[l] \in LockedSteps => lpc[l] \in LockedSteps)
      \/ DropPrefix(l) /\ lpc'[l] \notin LockedSteps
  BY DEF LaunchNext, LaunchStep, PassArchCheck, AskRebuild, NoOffer, ClearServers,
         SetUpPrefix, ReleasePrefix, OfferRebuild, PrepareLaunch, LaunchWithoutRebuilding,
         ReturnFromRebuild, StartGame, EndGame, LeaveLaunch, EndLaunch, Step,
         LockedSteps, TypeOK
<1> QED BY <1>2, <1>3, <1>4, <1>5

\* Every step leaves the lock with whoever is at work.
LEMMA LockStep == TypeOK /\ OneAtWork /\ [Next]_vars => OneAtWork'
<1> SUFFICES ASSUME TypeOK, OneAtWork, [Next]_vars PROVE OneAtWork'
  OBVIOUS
<1>1. CASE Elsewhere \/ UNCHANGED vars
  BY <1>1 DEF Elsewhere, CheckUnclaimed, OpenTool, ServerExits, DeleteBackup, WriteSave,
              OneAtWork, vars, launchVars, workerVars
<1> QED BY <1>1, LaunchLock, WorkerLock DEF Next, Elsewhere

\* Two launches never set up the prefix together, nor a launch while the app rebuilds,
\* copies or deletes it: whoever is at work on the directories holds the prefix lock.
THEOREM OnlyTheLockHolderWorks == Spec => []OneAtWork
<1>1. Init => TypeOK /\ OneAtWork
  BY TypeInit, LockInit
<1>2. TypeOK /\ OneAtWork /\ [Next]_vars => (TypeOK /\ OneAtWork)'
  BY TypeStep, LockStep
<1> QED BY <1>1, <1>2, PTL DEF Spec

-----------------------------------------------------------------------------
(* Names and directories.                                                  *)

\* Removing directories leaves at most one pfx and one pfx.rebuild, and empties what is gone.
LEMMA RemoveDirs ==
    ASSUME TypeOK, DirInv, NEW S \in SUBSET Dirs, Remove(S)
    PROVE  DirInv'
BY DEF TypeOK, DirInv, OneOfEach, GoneIsEmpty, Remove, Pfx, Fresh, At

\* Wine on the path pfx uses the one there is, so it makes no second.
LEMMA WineOnDirs ==
    ASSUME TypeOK, DirInv, NEW a, WineOn(a)
    PROVE  DirInv'
<1>1. PICK d \in IF Pfx # {} THEN Pfx ELSE At("gone") :
        /\ where' = [where EXCEPT ![d] = "pfx"]
        /\ arch' = [arch EXCEPT ![d] = IF @ = None THEN a ELSE @]
        /\ saves' = saves
        /\ live' = live \cup {d}
  BY DEF WineOn
<1> QED BY <1>1 DEF TypeOK, DirInv, OneOfEach, GoneIsEmpty, Pfx, Fresh, At

\* Nor does mkdir -p.
LEMMA MakePfxDirs ==
    ASSUME TypeOK, DirInv, MakePfx, UNCHANGED live
    PROVE  DirInv'
BY DEF TypeOK, DirInv, OneOfEach, GoneIsEmpty, MakePfx, Pfx, Fresh, At

\* Nor does a step that moves nothing, fills nothing and at most ends a server.
LEMMA SameDirs ==
    ASSUME DirInv, UNCHANGED <<where, saves, arch>>, live' \subseteq live
    PROVE  DirInv'
BY DEF DirInv, OneOfEach, GoneIsEmpty, Pfx, Fresh, At

\* A step of a launch keeps the names of the directories unique.
LEMMA LaunchDirs ==
    ASSUME TypeOK, DirInv, NEW l \in Launches, LaunchNext(l)
    PROVE  DirInv'
<1>1. \/ UNCHANGED <<where, saves, arch>> /\ live' \subseteq live
      \/ \E a : WineOn(a)
      \/ MakePfx /\ UNCHANGED live
  BY DEF LaunchNext, LaunchStep, PassArchCheck, AskRebuild, NoOffer, ClearServers,
         SetUpPrefix, ReleasePrefix, OfferRebuild, PrepareLaunch, LaunchWithoutRebuilding,
         ReturnFromRebuild, StartGame, EndGame, LeaveLaunch, UnlockedWineOn, TakePrefix,
         dirVars
<1> QED BY <1>1, SameDirs, WineOnDirs, MakePfxDirs

\* So do the renames and removals of a rebuild, a backup and a delete.
LEMMA WorkerDirs ==
    ASSUME TypeOK, DirInv, NEW w \in Workers, WorkerNext(w)
    PROVE  DirInv'
<1>1. CASE ClaimPrefix(w) \/ FinishWinetricks(w) \/ KillWorker(w)
  BY <1>1, SameDirs DEF ClaimPrefix, FinishWinetricks, KillWorker, dirVars
<1>2. CASE BootFresh(w)
  <2>1. PICK n \in At("gone") \cup Fresh :
          /\ where' = [d \in Dirs |-> IF d = n THEN "fresh"
                                       ELSE IF d \in Fresh THEN "gone" ELSE where[d]]
          /\ saves' = [d \in Dirs |-> IF d \in Fresh \cup {n} THEN {} ELSE saves[d]]
          /\ arch' = [d \in Dirs |-> IF d = n THEN target[w]
                                      ELSE IF d \in Fresh THEN None ELSE arch[d]]
          /\ live' = live \ (Fresh \cup {n})
    BY <1>2 DEF BootFresh
  <2> QED BY <2>1 DEF TypeOK, DirInv, OneOfEach, GoneIsEmpty, Pfx, Fresh, At
<1>3. CASE CarryUserData(w)
  BY <1>3 DEF CarryUserData, TypeOK, DirInv, OneOfEach, GoneIsEmpty, Pfx, Fresh, At
<1>4. CASE ParkOld(w)
  BY <1>4 DEF ParkOld, TypeOK, DirInv, OneOfEach, GoneIsEmpty, Pfx, Fresh, At
<1>5. CASE SwapIn(w)
  BY <1>5 DEF SwapIn, TypeOK, DirInv, OneOfEach, GoneIsEmpty, Pfx, Fresh, At
<1>6. CASE SwapFails(w)
  <2>1. PICK back \in SUBSET (Backups \cap {prev[w]}), swept \in SUBSET Fresh :
            /\ Pfx # {} => back = {}
            /\ where' = [d \in Dirs |-> IF d \in back THEN "pfx"
                                         ELSE IF d \in swept THEN "gone" ELSE where[d]]
            /\ saves' = [d \in Dirs |-> IF d \in swept THEN {} ELSE saves[d]]
            /\ arch' = [d \in Dirs |-> IF d \in swept THEN None ELSE arch[d]]
            /\ live' = live \ swept
    BY <1>6 DEF SwapFails
  <2> QED BY <2>1 DEF TypeOK, DirInv, OneOfEach, GoneIsEmpty, Pfx, Fresh, Backups, At
<1>7. CASE FinishRebuild(w) \/ GiveUpRebuild(w) \/ GiveUpBackUp(w) \/ DeletePrefix(w)
  <2>1. PICK S \in SUBSET Dirs : Remove(S)
    BY <1>7 DEF FinishRebuild, GiveUpRebuild, GiveUpBackUp, DeletePrefix, Backups, Fresh, At
  <2> QED BY <2>1, RemoveDirs
<1>8. CASE StartBackUp(w)
  BY <1>8 DEF StartBackUp, TypeOK, DirInv, OneOfEach, GoneIsEmpty, Pfx, Fresh, At
<1>9. CASE FinishBackUp(w)
  BY <1>9 DEF FinishBackUp, TypeOK, DirInv, OneOfEach, GoneIsEmpty, Pfx, Fresh, Backups, At
<1>10. CASE StartWinetricks(w)
  BY <1>10, WineOnDirs DEF StartWinetricks
<1> QED BY <1>1, <1>2, <1>3, <1>4, <1>5, <1>6, <1>7, <1>8, <1>9, <1>10
        DEF WorkerNext, WorkerStep

\* So does everything else.
LEMMA ElsewhereDirs ==
    ASSUME TypeOK, DirInv, Elsewhere
    PROVE  DirInv'
<1>1. ASSUME NEW t \in Tools, CheckUnclaimed(t) PROVE DirInv'
  BY <1>1, SameDirs DEF CheckUnclaimed, dirVars
<1>2. ASSUME NEW t \in Tools, OpenTool(t) PROVE DirInv'
  BY <1>2, WineOnDirs DEF OpenTool, UnlockedWineOn
<1>3. ASSUME NEW d \in Dirs, ServerExits(d) PROVE DirInv'
  BY <1>3, SameDirs DEF ServerExits, dirVars
<1>4. ASSUME NEW d \in Dirs, DeleteBackup(d) PROVE DirInv'
  BY <1>4, RemoveDirs DEF DeleteBackup
<1>5. ASSUME NEW d \in Dirs, NEW s \in Saves, WriteSave(d, s)
      PROVE  DirInv'
  BY <1>5 DEF WriteSave, TypeOK, DirInv, OneOfEach, GoneIsEmpty, Pfx, Fresh, At
<1> QED BY <1>1, <1>2, <1>3, <1>4, <1>5 DEF Elsewhere

-----------------------------------------------------------------------------
(* Saves.                                                                  *)

\* What a set of directories holds is held by one of them.
LEMMA SavesInMember == \A S, s : s \in SavesIn(S) <=> \E d \in S : s \in saves[d]
BY DEF SavesIn

\* Wine, or mkdir, may bring pfx into being.  It is empty and disturbs no rebuild.
LEMMA PfxMayAppear ==
    ASSUME TypeOK, DirInv, SaveInv, TypeOK',
           UNCHANGED <<saves, workerVars, promised>>,
           \A d \in Dirs : \/ where'[d] = where[d]
                           \/ where[d] = "gone" /\ where'[d] = "pfx" /\ Pfx = {},
           live' \subseteq live \cup Pfx'
    PROVE  SaveInv'
<1> USE DEF TypeOK, workerVars
<1>1. Fresh' = Fresh /\ Backups' = Backups /\ Pfx \subseteq Pfx'
  BY DEF Pfx, Fresh, Backups, At
<1>2. JobFits' /\ PromisesAreCarried'
  BY DEF SaveInv, JobFits, PromisesAreCarried
<1>3. SavesKept'
  BY <1>1 DEF SaveInv, SavesKept, Kept, SavesIn
<1>4. SavesIn(Pfx)' = SavesIn(Pfx) /\ SavesIn(Fresh)' = SavesIn(Fresh)
  BY <1>1 DEF SavesIn, Pfx, At, DirInv, GoneIsEmpty
<1>5. FreshIsReady'
  BY <1>1, <1>4 DEF SaveInv, FreshIsReady
<1>6. DiscardIsSafe'
  BY <1>1, <1>4 DEF SaveInv, DiscardIsSafe
<1>7. CopyIsPartial'
  <2> SUFFICES ASSUME NEW w \in Workers, wpc[w] = "copying"
               PROVE  /\ Pfx' # {}
                      /\ prev[w] \in Dirs \ live'
                      /\ where'[prev[w]] \in {"gone", "backup"}
                      /\ saves[prev[w]] \subseteq SavesIn(Pfx)'
    BY DEF CopyIsPartial
  <2>1. /\ Pfx # {}
        /\ prev[w] \in Dirs \ live
        /\ where[prev[w]] \in {"gone", "backup"}
        /\ saves[prev[w]] \subseteq SavesIn(Pfx)
    BY DEF SaveInv, CopyIsPartial
  <2>2. where'[prev[w]] = where[prev[w]]
    BY <2>1
  <2>3. prev[w] \notin Pfx'
    BY <2>1, <2>2 DEF Pfx, At
  <2> QED BY <1>1, <1>4, <2>1, <2>2, <2>3
<1> QED BY <1>2, <1>3, <1>5, <1>6, <1>7 DEF SaveInv

\* Wine on pfx changes no save, and the only directory it brings up is a pfx where none was.
LEMMA WineOnAppears ==
    ASSUME TypeOK, NEW a, WineOn(a)
    PROVE  /\ UNCHANGED saves
           /\ \A d \in Dirs : \/ where'[d] = where[d]
                              \/ where[d] = "gone" /\ where'[d] = "pfx" /\ Pfx = {}
           /\ live' \subseteq live \cup Pfx'
<1>1. PICK d \in IF Pfx # {} THEN Pfx ELSE At("gone") :
        /\ where' = [where EXCEPT ![d] = "pfx"]
        /\ saves' = saves
        /\ live' = live \cup {d}
  BY DEF WineOn
<1> QED BY <1>1 DEF TypeOK, Pfx, At

\* So does mkdir -p of pfx.
LEMMA MakePfxAppears ==
    ASSUME TypeOK, MakePfx
    PROVE  /\ UNCHANGED saves
           /\ \A d \in Dirs : \/ where'[d] = where[d]
                              \/ where[d] = "gone" /\ where'[d] = "pfx" /\ Pfx = {}
BY DEF TypeOK, MakePfx, Pfx, At

\* A launch, its set-up and its game's start lose no promised save.
LEMMA LaunchSaves ==
    ASSUME IInv, TypeOK', NEW l \in Launches, LaunchNext(l)
    PROVE  SaveInv'
<1>1. UNCHANGED <<workerVars, promised>>
  BY DEF LaunchNext, LaunchStep, PassArchCheck, AskRebuild, NoOffer, ClearServers,
         SetUpPrefix, ReleasePrefix, OfferRebuild, PrepareLaunch, LaunchWithoutRebuilding,
         ReturnFromRebuild, StartGame, EndGame, LeaveLaunch, workerVars
<1>2. \/ UNCHANGED dirVars /\ live' \subseteq live
      \/ \E a : WineOn(a)
      \/ MakePfx /\ UNCHANGED live
  BY DEF LaunchNext, LaunchStep, PassArchCheck, AskRebuild, NoOffer, ClearServers,
         SetUpPrefix, ReleasePrefix, OfferRebuild, PrepareLaunch, LaunchWithoutRebuilding,
         ReturnFromRebuild, StartGame, EndGame, LeaveLaunch, UnlockedWineOn, TakePrefix,
         dirVars
<1> QED BY <1>1, <1>2, PfxMayAppear, WineOnAppears, MakePfxAppears DEF IInv, dirVars

\* Neither does a tool, a save that is written, a server's end or a deleted backup.
LEMMA ElsewhereSaves ==
    ASSUME IInv, TypeOK', Elsewhere
    PROVE  SaveInv'
<1> USE DEF IInv
<1>1. ASSUME NEW t \in Tools, CheckUnclaimed(t) PROVE SaveInv'
  BY <1>1, PfxMayAppear DEF CheckUnclaimed, dirVars
<1>2. ASSUME NEW t \in Tools, OpenTool(t) PROVE SaveInv'
  BY <1>2, PfxMayAppear, WineOnAppears DEF OpenTool, UnlockedWineOn
<1>3. ASSUME NEW d \in Dirs, ServerExits(d) PROVE SaveInv'
  BY <1>3, PfxMayAppear DEF ServerExits, dirVars
<1>4. ASSUME NEW d \in Dirs, DeleteBackup(d) PROVE SaveInv'
  <2> USE DEF TypeOK
  <2>1. /\ d \in Backups
        /\ where' = [e \in Dirs |-> IF e = d THEN "gone" ELSE where[e]]
        /\ saves' = [e \in Dirs |-> IF e = d THEN {} ELSE saves[e]]
        /\ live' = live \ {d}
        /\ promised' = promised \ (saves[d] \ SavesIn((Pfx \cup Backups) \ {d}))
        /\ UNCHANGED workerVars
    BY <1>4 DEF DeleteBackup, Remove
  <2>2. Fresh' = Fresh /\ Pfx' = Pfx /\ Backups' = Backups \ {d}
    BY <2>1 DEF Pfx, Fresh, Backups, At
  <2>3. SavesIn(Pfx)' = SavesIn(Pfx) /\ SavesIn(Fresh)' = SavesIn(Fresh)
    <3>1. \A e \in Pfx \cup Fresh : saves'[e] = saves[e]
      BY <2>1 DEF Pfx, Fresh, Backups, At
    <3> QED BY <3>1, <2>2 DEF SavesIn
  <2>4. SavesKept'
    <3> SUFFICES ASSUME NEW s \in promised' PROVE \E e \in Pfx' \cup Backups' : s \in saves'[e]
      BY DEF SavesKept, Kept, SavesIn
    <3>1. s \in promised /\ (s \in saves[d] => \E e \in (Pfx \cup Backups) \ {d} : s \in saves[e])
      BY <2>1, SavesInMember
    <3>2. PICK e \in (Pfx \cup Backups) \ {d} : s \in saves[e]
      BY <3>1, SavesInMember DEF SaveInv, SavesKept, Kept
    <3>3. e \in Dirs /\ e \in Pfx' \cup Backups'
      BY <3>2, <2>1, <2>2 DEF Pfx, Backups, At
    <3> QED BY <3>2, <3>3, <2>1
  <2>5. JobFits' /\ PromisesAreCarried'
    BY <2>1 DEF SaveInv, JobFits, PromisesAreCarried, workerVars
  <2>6. /\ promised' \subseteq promised
        /\ \A e \in Dirs : saves'[e] \subseteq saves[e]
    BY <2>1
  <2>7. \A w \in Workers : prev[w] # None =>
            promised' \cap saves'[prev[w]] \subseteq promised \cap saves[prev[w]]
    <3> SUFFICES ASSUME NEW w \in Workers, prev[w] # None
                 PROVE  promised' \cap saves'[prev[w]] \subseteq promised \cap saves[prev[w]]
      OBVIOUS
    <3>1. prev[w] \in Dirs
      OBVIOUS
    <3> QED BY <3>1, <2>6
  <2>8. FreshIsReady'
    <3>1. UNCHANGED <<wpc, prev>>
      BY <2>1 DEF workerVars
    <3> QED BY <3>1, <2>2, <2>3, <2>6, <2>7 DEF SaveInv, FreshIsReady
  <2>9. DiscardIsSafe'
    <3>1. UNCHANGED <<wpc, prev>>
      BY <2>1 DEF workerVars
    <3> QED BY <3>1, <2>2, <2>3, <2>6, <2>7 DEF SaveInv, DiscardIsSafe
  <2>10. CopyIsPartial'
    <3> SUFFICES ASSUME NEW w \in Workers, wpc[w] = "copying"
                 PROVE  /\ Pfx' # {}
                        /\ prev[w] \in Dirs \ live'
                        /\ where'[prev[w]] \in {"gone", "backup"}
                        /\ saves'[prev[w]] \subseteq SavesIn(Pfx)'
      BY <2>1 DEF CopyIsPartial, workerVars
    <3>1. /\ Pfx # {}
          /\ prev[w] \in Dirs \ live
          /\ where[prev[w]] \in {"gone", "backup"}
          /\ saves[prev[w]] \subseteq SavesIn(Pfx)
      BY DEF SaveInv, CopyIsPartial
    <3> QED BY <2>1, <2>2, <2>3, <2>6, <3>1
  <2> QED BY <2>4, <2>5, <2>8, <2>9, <2>10 DEF SaveInv
<1>5. ASSUME NEW d \in Dirs, NEW s \in Saves, WriteSave(d, s) PROVE SaveInv'
  <2> USE DEF TypeOK
  <2>1. PICK t \in {d} \cup Pfx :
          /\ saves' = [saves EXCEPT ![t] = @ \cup {s}]
          /\ promised' = IF t \in Pfx /\ ~Replacing THEN promised \cup ({s} \ Outside)
                         ELSE promised \ {s}
    BY <1>5 DEF WriteSave
  <2>2. d \in live /\ UNCHANGED <<where, live, prefixLock, workerVars>>
    BY <1>5 DEF WriteSave
  <2>3. Fresh' = Fresh /\ Pfx' = Pfx /\ Backups' = Backups
    BY <2>2 DEF Pfx, Fresh, Backups, At
  <2>4. t \in Dirs /\ \A e \in Dirs : saves[e] \subseteq saves'[e]
    BY <2>1 DEF Pfx, At
  <2>5. SavesIn(Pfx) \subseteq SavesIn(Pfx)' /\ SavesIn(Fresh) \subseteq SavesIn(Fresh)'
    BY <2>3, <2>4 DEF SavesIn, Pfx, Fresh, At
  <2>6. SavesKept'
    BY <2>1, <2>3, <2>4 DEF SaveInv, SavesKept, Kept, SavesIn, Pfx, Backups, At
  <2>7. JobFits' /\ PromisesAreCarried'
    BY <2>1, <2>2 DEF SaveInv, JobFits, PromisesAreCarried, workerVars
  \* While a rebuild is at work, nothing new is promised.
  <2>8. ASSUME NEW w \in Workers, wpc[w] \in {"booted", "carried", "parked", "swapped"}
        PROVE  promised' = promised \ {s}
    BY <2>1, <2>8 DEF Replacing, SaveInv, JobFits, OneAtWork
  <2>9. FreshIsReady'
    BY <2>1, <2>2, <2>3, <2>4, <2>5, <2>8
    DEF SaveInv, FreshIsReady, workerVars, SavesIn, Pfx, Fresh, At
  <2>10. DiscardIsSafe'
    BY <2>1, <2>2, <2>3, <2>4, <2>5, <2>8 DEF SaveInv, DiscardIsSafe, workerVars
  <2>11. CopyIsPartial'
    BY <2>1, <2>2, <2>3, <2>5 DEF SaveInv, CopyIsPartial, workerVars, Pfx, At
  <2> QED BY <2>6, <2>7, <2>9, <2>10, <2>11 DEF SaveInv
<1> QED BY <1>1, <1>2, <1>3, <1>4, <1>5 DEF Elsewhere

\* The lock keeps the other workers out.
LEMMA WorkerAlone ==
    ASSUME TypeOK, OneAtWork, NEW w \in Workers, WorkerNext(w)
    PROVE  \A v \in Workers \ {w} : /\ wpc[v] = "idle" /\ wpc'[v] = "idle"
                                   /\ job'[v] = job[v] /\ prev'[v] = prev[v]
<1>1. \A v \in Workers \ {w} : /\ wpc'[v] = wpc[v]
                               /\ job'[v] = job[v] /\ prev'[v] = prev[v]
  BY DEF WorkerNext, WorkerStep, ClaimPrefix, BootFresh, CarryUserData, ParkOld, SwapIn,
         SwapFails, FinishRebuild, GiveUpRebuild, StartBackUp, FinishBackUp, GiveUpBackUp,
         DeletePrefix, StartWinetricks, FinishWinetricks, KillWorker, Work, EndWork, TypeOK
<1>2. prefixLock = w \/ prefixLock = None
  BY DEF WorkerNext, WorkerStep, ClaimPrefix, BootFresh, CarryUserData, ParkOld, SwapIn,
         SwapFails, FinishRebuild, GiveUpRebuild, StartBackUp, FinishBackUp, GiveUpBackUp,
         DeletePrefix, StartWinetricks, FinishWinetricks, KillWorker, Work, EndWork,
         OneAtWork
<1> QED BY <1>1, <1>2, NoneIsApart DEF OneAtWork

\* An operation that ends has only to leave what is promised where it is kept.
LEMMA EndWorkSaves ==
    ASSUME IInv, NEW w \in Workers, WorkerNext(w), EndWork(w),
           promised' \subseteq promised, SavesKept'
    PROVE  SaveInv'
<1>1. \A v \in Workers : wpc'[v] = "idle"
  BY WorkerAlone DEF EndWork, IInv, TypeOK
<1>2. JobFits'
  BY <1>1, WorkerAlone DEF EndWork, IInv, TypeOK, SaveInv, JobFits
<1>3. PromisesAreCarried'
  BY DEF IInv, SaveInv, PromisesAreCarried
<1> QED BY <1>1, <1>2, <1>3 DEF SaveInv, FreshIsReady, DiscardIsSafe, CopyIsPartial

\* A step within an operation is judged at the step it leads to.
LEMMA WorkSaves ==
    ASSUME IInv, NEW w \in Workers, WorkerNext(w), UNCHANGED promised, SavesKept',
           wpc'[w] \in {"booted", "carried", "parked", "swapped"} => job'[w] = "rebuild",
           wpc'[w] = "copying" => job'[w] = "backup",
           wpc'[w] = "idle" <=> job'[w] = "none",
           wpc'[w] \notin {"parked", "swapped", "copying"} => prev'[w] = None,
           wpc'[w] \in {"booted", "carried", "parked"} => Fresh' # {},
           wpc'[w] = "carried" => promised \cap SavesIn(Pfx)' \subseteq SavesIn(Fresh)',
           wpc'[w] = "parked" /\ prev'[w] # None =>
               promised \cap saves'[prev'[w]] \subseteq SavesIn(Fresh)',
           wpc'[w] = "swapped" /\ prev'[w] # None =>
               /\ Pfx' # {}
               /\ promised \cap saves'[prev'[w]] \subseteq SavesIn(Pfx)',
           wpc'[w] = "copying" =>
               /\ Pfx' # {}
               /\ prev'[w] \in Dirs \ live'
               /\ where'[prev'[w]] \in {"gone", "backup"}
               /\ saves'[prev'[w]] \subseteq SavesIn(Pfx)'
    PROVE  SaveInv'
<1>1. \A v \in Workers \ {w} : /\ wpc[v] = "idle" /\ wpc'[v] = "idle"
                               /\ job'[v] = job[v] /\ prev'[v] = prev[v]
  BY WorkerAlone DEF IInv
<1>2. JobFits'
  BY <1>1 DEF IInv, SaveInv, JobFits
<1>3. PromisesAreCarried'
  BY DEF IInv, SaveInv, PromisesAreCarried
<1>4. FreshIsReady'
  BY <1>1 DEF FreshIsReady
<1>5. DiscardIsSafe'
  BY <1>1 DEF DiscardIsSafe
<1>6. CopyIsPartial'
  BY <1>1 DEF CopyIsPartial
<1> QED BY <1>2, <1>3, <1>4, <1>5, <1>6 DEF SaveInv

\* Neither do the steps of a rebuild up to and with its second rename.
LEMMA RebuildSaves ==
    ASSUME IInv, TypeOK', NEW w \in Workers, WorkerNext(w),
           BootFresh(w) \/ CarryUserData(w) \/ ParkOld(w) \/ SwapIn(w)
    PROVE  SaveInv'
<1> USE DEF IInv, TypeOK, Work
<1>1. CASE BootFresh(w)
  <2>1. PICK n \in At("gone") \cup Fresh :
          /\ where' = [d \in Dirs |-> IF d = n THEN "fresh"
                                       ELSE IF d \in Fresh THEN "gone" ELSE where[d]]
          /\ saves' = [d \in Dirs |-> IF d \in Fresh \cup {n} THEN {} ELSE saves[d]]
    BY <1>1 DEF BootFresh
  <2>2. n \in Fresh' /\ Pfx' = Pfx /\ Backups' = Backups
    BY <2>1 DEF Pfx, Fresh, Backups, At
  <2>3. \A d \in Pfx \cup Backups : saves'[d] = saves[d]
    BY <2>1 DEF Pfx, Fresh, Backups, At
  <2>4. SavesKept'
    <3>1. (Pfx \cup Backups)' = Pfx \cup Backups
      BY <2>2
    <3>2. Kept' = Kept
      BY <2>3, <3>1 DEF Kept, SavesIn
    <3> QED BY <1>1, <3>2 DEF BootFresh, SaveInv, SavesKept
  <2>5. /\ wpc'[w] = "booted" /\ job'[w] = "rebuild" /\ prev'[w] = None
        /\ UNCHANGED promised
    BY <1>1 DEF BootFresh, SaveInv, JobFits
  <2> QED BY <2>2, <2>4, <2>5, WorkSaves
<1>2. CASE CarryUserData(w)
  <2>1. /\ saves' = [d \in Dirs |-> IF d \in Fresh THEN SavesIn(Pfx) \ Outside ELSE saves[d]]
        /\ UNCHANGED <<where, job, promised>>
        /\ wpc[w] = "booted" /\ wpc'[w] = "carried"
    BY <1>2 DEF CarryUserData
  <2>2. Fresh' = Fresh /\ Pfx' = Pfx /\ Backups' = Backups
    BY <2>1 DEF Pfx, Fresh, Backups, At
  <2>3. \A d \in Pfx \cup Backups : saves'[d] = saves[d]
    BY <2>1 DEF Pfx, Fresh, Backups, At
  <2>4. SavesKept' /\ SavesIn(Pfx)' = SavesIn(Pfx)
    <3>1. (Pfx \cup Backups)' = Pfx \cup Backups
      BY <2>2
    <3>2. Kept' = Kept
      BY <2>3, <3>1 DEF Kept, SavesIn
    <3>3. SavesIn(Pfx)' = SavesIn(Pfx)
      BY <2>2, <2>3 DEF SavesIn
    <3> QED BY <2>1, <3>2, <3>3 DEF SaveInv, SavesKept
  <2>5. Fresh # {} /\ \A d \in Fresh : saves'[d] = SavesIn(Pfx) \ Outside
    BY <2>1 DEF SaveInv, FreshIsReady, Fresh, At
  <2>6. promised \cap SavesIn(Pfx)' \subseteq SavesIn(Fresh)'
    BY <2>2, <2>4, <2>5 DEF SaveInv, PromisesAreCarried, SavesIn
  <2>7. job'[w] = "rebuild" /\ prev'[w] = None
    BY <1>2, <2>1 DEF CarryUserData, SaveInv, JobFits
  <2> QED BY <2>1, <2>2, <2>4, <2>5, <2>6, <2>7, WorkSaves
<1>3. CASE ParkOld(w)
  <2>1. /\ \/ UNCHANGED <<where, prev>>
           \/ \E d \in Pfx : /\ where' = [where EXCEPT ![d] = "backup"]
                             /\ prev' = [prev EXCEPT ![w] = d]
        /\ UNCHANGED <<saves, job, promised>>
        /\ wpc[w] = "carried" /\ wpc'[w] = "parked"
        /\ Pfx = {} => UNCHANGED <<where, prev>>
    BY <1>3 DEF ParkOld
  <2>2. Fresh' = Fresh /\ (Pfx \cup Backups) \subseteq (Pfx' \cup Backups')
    BY <2>1 DEF Pfx, Fresh, Backups, At
  <2>3. SavesKept' /\ SavesIn(Fresh)' = SavesIn(Fresh)
    BY <2>1, <2>2 DEF SaveInv, SavesKept, Kept, SavesIn
  <2>4. Fresh # {} /\ promised \cap SavesIn(Pfx) \subseteq SavesIn(Fresh)
    BY <2>1 DEF SaveInv, FreshIsReady
  <2>5. prev'[w] = None \/ prev'[w] \in Pfx
    BY <2>1 DEF SaveInv, JobFits
  <2>6. prev'[w] # None => promised \cap saves'[prev'[w]] \subseteq SavesIn(Fresh)'
    <3> SUFFICES ASSUME prev'[w] \in Pfx, NEW s \in promised, s \in saves[prev'[w]]
                 PROVE  s \in SavesIn(Fresh)'
      BY <2>1, <2>5
    <3>1. s \in SavesIn(Pfx)
      BY SavesInMember
    <3> QED BY <3>1, <2>3, <2>4
  <2>7. job'[w] = "rebuild"
    BY <2>1 DEF SaveInv, JobFits
  <2> QED BY <2>1, <2>2, <2>3, <2>4, <2>6, <2>7, WorkSaves
<1>4. CASE SwapIn(w)
  <2>1. /\ where' = [d \in Dirs |-> IF d \in Fresh THEN "pfx" ELSE where[d]]
        /\ UNCHANGED <<saves, job, prev, promised>>
        /\ Pfx = {} /\ wpc[w] = "parked" /\ wpc'[w] = "swapped"
    BY <1>4 DEF SwapIn
  <2>2. Pfx' = Fresh /\ Backups' = Backups
    BY <2>1 DEF Pfx, Fresh, Backups, At
  <2>3. SavesKept' /\ SavesIn(Pfx)' = SavesIn(Fresh)
    BY <2>1, <2>2 DEF SaveInv, SavesKept, Kept, SavesIn
  <2>4. /\ job'[w] = "rebuild"
        /\ Fresh # {}
        /\ prev[w] # None => promised \cap saves[prev[w]] \subseteq SavesIn(Fresh)
    BY <2>1 DEF SaveInv, JobFits, FreshIsReady
  <2>5. Pfx' # {}
    BY <2>2, <2>4
  <2>6. prev'[w] # None => promised \cap saves'[prev'[w]] \subseteq SavesIn(Pfx)'
    BY <2>1, <2>3, <2>4
  <2>7. wpc'[w] = "swapped" /\ UNCHANGED promised
    BY <2>1
  <2> HIDE DEF IInv, TypeOK, Work
  <2> QED BY <2>3, <2>4, <2>1, <2>5, <2>6, <2>7, WorkSaves
<1> QED BY <1>1, <1>2, <1>3, <1>4

\* Removing what is kept nowhere but in a copy loses nothing that is promised.
LEMMA RemoveSpare ==
    ASSUME TypeOK, SavesKept, NEW S \in SUBSET Dirs, Remove(S), UNCHANGED promised,
           \A d \in S \cap (Pfx \cup Backups) :
              promised \cap saves[d] \subseteq SavesIn((Pfx \cup Backups) \ S)
    PROVE  SavesKept'
<1>1. \A d \in Dirs \ S : saves'[d] = saves[d] /\ where'[d] = where[d]
  BY DEF TypeOK, Remove
<1>2. (Pfx \cup Backups) \ S \subseteq (Pfx \cup Backups)'
  BY <1>1 DEF Pfx, Backups, At
<1> SUFFICES ASSUME NEW s \in promised PROVE \E d \in (Pfx \cup Backups)' : s \in saves'[d]
  BY DEF SavesKept, Kept, SavesIn
<1>3. PICK d \in Pfx \cup Backups : s \in saves[d]
  BY SavesInMember DEF SavesKept, Kept
<1>4. PICK e \in (Pfx \cup Backups) \ S : s \in saves[e]
  BY <1>3, SavesInMember
<1> QED BY <1>1, <1>2, <1>4 DEF Pfx, Backups, At

\* Neither does any way in which an operation of the app ends, a kill included.
LEMMA EndingSaves ==
    ASSUME IInv, TypeOK', NEW w \in Workers, WorkerNext(w),
           \/ SwapFails(w) \/ FinishRebuild(w) \/ GiveUpRebuild(w) \/ FinishBackUp(w)
           \/ GiveUpBackUp(w) \/ DeletePrefix(w) \/ FinishWinetricks(w) \/ KillWorker(w)
    PROVE  SaveInv'
<1> USE DEF IInv
<1>1. CASE SwapFails(w)
  <2>1. PICK back \in SUBSET (Backups \cap {prev[w]}), swept \in SUBSET Fresh :
            /\ where' = [d \in Dirs |-> IF d \in back THEN "pfx"
                                         ELSE IF d \in swept THEN "gone" ELSE where[d]]
            /\ saves' = [d \in Dirs |-> IF d \in swept THEN {} ELSE saves[d]]
    BY <1>1 DEF SwapFails
  <2>2. (Pfx \cup Backups)' = Pfx \cup Backups
    BY <2>1 DEF TypeOK, Pfx, Fresh, Backups, At
  <2>3. \A d \in Pfx \cup Backups : saves'[d] = saves[d]
    BY <2>1 DEF Pfx, Fresh, Backups, At
  <2>4. Kept' = Kept
    BY <2>2, <2>3 DEF Kept, SavesIn
  <2>5. SavesKept' /\ UNCHANGED promised
    BY <1>1, <2>4 DEF SwapFails, SaveInv, SavesKept
  <2> QED BY <1>1, <2>5, EndWorkSaves DEF SwapFails
<1>2. CASE FinishRebuild(w)
  <2>1. PICK discarded \in SUBSET (Backups \cap {prev[w]}) : Remove(discarded)
    BY <1>2 DEF FinishRebuild
  <2>2. UNCHANGED promised /\ wpc[w] = "swapped" /\ EndWork(w)
    BY <1>2 DEF FinishRebuild
  <2>3. discarded \in SUBSET Dirs /\ discarded \cap Pfx = {}
    BY DEF Backups, Pfx, At
  <2>4. \A d \in discarded : promised \cap saves[d] \subseteq SavesIn(Pfx)
    BY <2>2, NoneIsApart DEF SaveInv, DiscardIsSafe, Backups, At
  <2>5. SavesIn(Pfx) \subseteq SavesIn((Pfx \cup Backups) \ discarded)
    BY <2>3 DEF SavesIn
  <2>6. SavesKept'
    BY <2>1, <2>2, <2>3, <2>4, <2>5, RemoveSpare DEF SaveInv
  <2> QED BY <2>2, <2>6, EndWorkSaves
<1>3. CASE GiveUpRebuild(w)
  <2>1. PICK swept \in SUBSET Fresh : Remove(swept)
    BY <1>3 DEF GiveUpRebuild
  <2>2. swept \in SUBSET Dirs /\ swept \cap (Pfx \cup Backups) = {}
    BY DEF Pfx, Fresh, Backups, At
  <2>3. UNCHANGED promised /\ EndWork(w)
    BY <1>3 DEF GiveUpRebuild
  <2>4. SavesKept'
    BY <2>1, <2>2, <2>3, RemoveSpare DEF SaveInv
  <2> QED BY <2>3, <2>4, EndWorkSaves
<1>4. CASE FinishBackUp(w)
  <2>1. PICK d \in Pfx, n \in Backups \cap {prev[w]} :
            saves' = [saves EXCEPT ![n] = saves[d]]
    BY <1>4 DEF FinishBackUp
  <2>2. UNCHANGED <<where, promised>> /\ EndWork(w) /\ wpc[w] = "copying"
    BY <1>4 DEF FinishBackUp
  <2>3. n \in Dirs \ Pfx /\ saves[n] \subseteq SavesIn(Pfx)
    BY <2>2 DEF SaveInv, CopyIsPartial, Backups, Pfx, At
  <2>4. (Pfx \cup Backups)' = Pfx \cup Backups /\ Pfx \subseteq (Pfx \cup Backups)'
    BY <2>2 DEF Pfx, Backups, At
  <2>5. \A e \in Dirs \ {n} : saves'[e] = saves[e]
    BY <2>1 DEF TypeOK
  <2>6. SavesKept'
    <3> SUFFICES ASSUME NEW s \in promised
                 PROVE  \E e \in (Pfx \cup Backups)' : s \in saves'[e]
      BY <2>2 DEF SavesKept, Kept, SavesIn
    <3>1. PICK e \in Pfx \cup Backups : s \in saves[e]
      BY SavesInMember DEF SaveInv, SavesKept, Kept
    <3>2. CASE e # n
      BY <2>4, <2>5, <3>1, <3>2 DEF Pfx, Backups, At
    <3>3. CASE e = n
      <4>1. PICK f \in Pfx : s \in saves[f]
        BY <2>3, <3>1, <3>3, SavesInMember
      <4> QED BY <2>3, <2>4, <2>5, <4>1 DEF Pfx, At
    <3> QED BY <3>2, <3>3
  <2> QED BY <2>2, <2>6, EndWorkSaves
<1>5. CASE GiveUpBackUp(w)
  <2>1. PICK swept \in SUBSET (Backups \cap {prev[w]}) : Remove(swept)
    BY <1>5 DEF GiveUpBackUp
  <2>2. UNCHANGED promised /\ EndWork(w) /\ wpc[w] \in {"claimed", "copying"}
    BY <1>5 DEF GiveUpBackUp
  <2>3. swept \in SUBSET Dirs /\ swept \cap Pfx = {}
    BY DEF Backups, Pfx, At
  <2>4. \A d \in swept : saves[d] \subseteq SavesIn(Pfx)
    BY <2>2, NoneIsApart DEF SaveInv, JobFits, CopyIsPartial, Backups, At
  <2>5. SavesIn(Pfx) \subseteq SavesIn((Pfx \cup Backups) \ swept)
    BY <2>3 DEF SavesIn
  <2>6. SavesKept'
    BY <2>1, <2>2, <2>3, <2>4, <2>5, RemoveSpare DEF SaveInv
  <2> QED BY <2>2, <2>6, EndWorkSaves
<1>6. CASE DeletePrefix(w)
  <2>1. promised' = {} /\ EndWork(w)
    BY <1>6 DEF DeletePrefix
  <2>2. SavesKept'
    BY <2>1 DEF SavesKept
  <2> QED BY <2>1, <2>2, EndWorkSaves
<1>7. CASE FinishWinetricks(w) \/ KillWorker(w)
  <2>1. UNCHANGED <<where, saves, promised>> /\ EndWork(w)
    BY <1>7 DEF FinishWinetricks, KillWorker, dirVars
  <2>2. SavesKept'
    BY <2>1 DEF SaveInv, SavesKept, Kept, SavesIn, Pfx, Backups, At
  <2> QED BY <2>1, <2>2, EndWorkSaves
<1> QED BY <1>1, <1>2, <1>3, <1>4, <1>5, <1>6, <1>7

\* Neither does the start of one.
LEMMA OtherWorkSaves ==
    ASSUME IInv, TypeOK', NEW w \in Workers, WorkerNext(w),
           ClaimPrefix(w) \/ StartBackUp(w) \/ StartWinetricks(w)
    PROVE  SaveInv'
<1> USE DEF IInv, TypeOK, Work
<1>1. CASE ClaimPrefix(w)
  <2>1. /\ UNCHANGED <<where, saves, prev, promised>>
        /\ wpc[w] = "idle" /\ wpc'[w] = "claimed" /\ job'[w] \in Jobs
    BY <1>1 DEF ClaimPrefix, dirVars
  <2>2. SavesKept'
    BY <2>1 DEF SaveInv, SavesKept, Kept, SavesIn, Pfx, Backups, At
  <2>3. prev'[w] = None /\ job'[w] # "none"
    BY <2>1 DEF SaveInv, JobFits, Jobs
  <2> QED BY <2>1, <2>2, <2>3, WorkSaves
<1>2. CASE StartBackUp(w)
  <2>1. PICK d \in Pfx, n \in At("gone") :
          /\ \E part \in SUBSET saves[d] : saves' = [saves EXCEPT ![n] = part]
          /\ where' = [where EXCEPT ![n] = "backup"]
          /\ prev' = [prev EXCEPT ![w] = n]
    BY <1>2 DEF StartBackUp
  <2>2. /\ UNCHANGED <<live, job, promised>>
        /\ wpc'[w] = "copying" /\ job[w] = "backup"
    BY <1>2 DEF StartBackUp
  <2>3. Pfx' = Pfx /\ Backups' = Backups \cup {n} /\ n \notin Pfx \cup Backups
    BY <2>1 DEF Pfx, Backups, At
  <2>4. \A e \in Pfx \cup Backups : saves'[e] = saves[e]
    BY <2>1, <2>3
  <2>5. SavesKept'
    BY <2>2, <2>3, <2>4 DEF SaveInv, SavesKept, Kept, SavesIn
  <2>6. n \in Dirs \ live /\ prev'[w] = n /\ where'[n] = "backup"
    BY <2>1 DEF DirInv, GoneIsEmpty, At
  <2>7. saves'[n] \subseteq SavesIn(Pfx)'
    <3>1. saves'[n] \subseteq saves'[d]
      BY <2>1, <2>3, <2>4, <2>6
    <3> QED BY <3>1, <2>1, <2>3 DEF SavesIn
  <2>8. Pfx' # {}
    BY <2>1, <2>3
  <2> HIDE DEF IInv, TypeOK, Work
  <2> QED BY <2>2, <2>5, <2>6, <2>7, <2>8, WorkSaves
<1>3. CASE StartWinetricks(w)
  <2>1. /\ UNCHANGED <<saves, job, prev, promised>>
        /\ wpc[w] = "claimed" /\ wpc'[w] = "installing" /\ job[w] = "winetricks"
    BY <1>3, WineOnAppears DEF StartWinetricks
  <2>2. \A d \in Dirs : where'[d] = where[d] \/ (where[d] = "gone" /\ where'[d] = "pfx")
    BY <1>3, WineOnAppears DEF StartWinetricks
  <2>3. Pfx \cup Backups \subseteq (Pfx \cup Backups)'
    BY <2>2 DEF Pfx, Backups, At
  <2>4. SavesKept'
    BY <2>1, <2>3 DEF SaveInv, SavesKept, Kept, SavesIn
  <2>5. prev'[w] = None
    BY <2>1 DEF SaveInv, JobFits
  <2> HIDE DEF IInv, TypeOK, Work
  <2> QED BY <2>1, <2>4, <2>5, WorkSaves
<1> QED BY <1>1, <1>2, <1>3

\* So no step of the app does.
LEMMA WorkerSaves ==
    ASSUME IInv, TypeOK', NEW w \in Workers, WorkerNext(w)
    PROVE  SaveInv'
BY RebuildSaves, EndingSaves, OtherWorkSaves DEF WorkerNext, WorkerStep

\* The inductive invariant holds at the start.
LEMMA InvInit == Init => IInv
<1> SUFFICES ASSUME Init PROVE IInv
  OBVIOUS
<1>1. DirInv
  BY DEF Init, DirInv, OneOfEach, GoneIsEmpty, Pfx, Fresh, At
<1>2. SaveInv
  BY DEF Init, SaveInv, JobFits, PromisesAreCarried, SavesKept, FreshIsReady, DiscardIsSafe,
         CopyIsPartial
<1> QED BY <1>1, <1>2, TypeInit, LockInit DEF IInv

\* Every step keeps it.
LEMMA InvStep == IInv /\ [Next]_vars => IInv'
<1> SUFFICES ASSUME IInv, [Next]_vars PROVE IInv'
  OBVIOUS
<1>1. TypeOK' /\ OneAtWork'
  BY TypeStep, LockStep DEF IInv
<1>2. DirInv'
  <2>1. CASE UNCHANGED vars
    BY <2>1, SameDirs DEF IInv, vars, dirVars
  <2> QED BY <2>1, LaunchDirs, WorkerDirs, ElsewhereDirs DEF IInv, Next, Elsewhere
<1>3. SaveInv'
  <2>1. CASE UNCHANGED vars
    BY <1>1, <2>1, PfxMayAppear DEF IInv, vars, dirVars
  <2> QED BY <1>1, <2>1, LaunchSaves, WorkerSaves, ElsewhereSaves DEF Next, Elsewhere
<1> QED BY <1>1, <1>2, <1>3 DEF IInv

\* What the safety theorems rest on: types, the lock, the names of the directories and where
\* the promised saves are at every step of a rebuild hold together in every state.
THEOREM Inductive == Spec => []IInv
BY InvInit, InvStep, PTL DEF Spec

\* Whatever is killed or fails, and however often a prefix is rebuilt, a save that a
\* rebuild carries and that was written while none was under way is in pfx or a backup.
THEOREM SavesSurvive == Spec => []SavesKept
<1>1. IInv => SavesKept
  BY DEF IInv, SaveInv
<1> QED BY <1>1, Inductive, PTL

\* When PrefixRebuild may remove the prefix it put away, its replacement holds everything
\* promised that it holds.
THEOREM DiscardingIsSafe == Spec => []DiscardIsSafe
<1>1. IInv => DiscardIsSafe
  BY DEF IInv, SaveInv
<1> QED BY <1>1, Inductive, PTL

\* pfx becomes a backup only by the first rename of a rebuild that has carried everything
\* promised out of it.
THEOREM ParkingIsSafe == Spec => ParkedOnlyWhenCarried
<1> DEFINE Parks == \A d \in Dirs : where[d] = "pfx" /\ where'[d] = "backup" =>
                        promised \cap saves[d] \subseteq SavesIn(Fresh)
<1>1. IInv /\ [Next]_vars => [Parks]_vars
  <2> SUFFICES ASSUME IInv, Next, NEW d \in Dirs, where[d] = "pfx", where'[d] = "backup"
               PROVE  promised \cap saves[d] \subseteq SavesIn(Fresh)
    OBVIOUS
  <2> USE DEF IInv, TypeOK
  <2>1. ASSUME NEW l \in Launches, LaunchNext(l) PROVE FALSE
    <3>1. \/ UNCHANGED where
          \/ \E a : WineOn(a)
          \/ MakePfx
      BY <2>1 DEF LaunchNext, LaunchStep, PassArchCheck, AskRebuild, NoOffer, ClearServers,
           SetUpPrefix, ReleasePrefix, OfferRebuild, PrepareLaunch, LaunchWithoutRebuilding,
           ReturnFromRebuild, StartGame, EndGame, LeaveLaunch, UnlockedWineOn, TakePrefix,
           dirVars
    <3> QED BY <3>1, WineOnAppears, MakePfxAppears
  <2>2. ASSUME Elsewhere PROVE FALSE
    <3>1. \/ UNCHANGED where
          \/ \E a : WineOn(a)
          \/ \E S : Remove(S)
      BY <2>2 DEF Elsewhere, CheckUnclaimed, OpenTool, UnlockedWineOn, ServerExits,
           DeleteBackup, WriteSave, dirVars
    <3> QED BY <3>1, WineOnAppears DEF Remove
  <2>3. ASSUME NEW w \in Workers, WorkerNext(w) PROVE ParkOld(w)
    <3>1. ASSUME WorkerNext(w), ~ParkOld(w) PROVE where'[d] # "backup"
      <4>1. CASE BootFresh(w) \/ SwapIn(w)
        BY <4>1 DEF BootFresh, SwapIn, Fresh, At
      <4>2. CASE SwapFails(w)
        BY <4>2 DEF SwapFails, Backups, Fresh, At
      <4>3. CASE \E S : Remove(S)
        BY <4>3 DEF Remove
      <4>4. CASE StartBackUp(w)
        BY <4>4 DEF StartBackUp, At
      <4>5. CASE StartWinetricks(w)
        BY <4>5, WineOnAppears DEF StartWinetricks
      <4>6. CASE UNCHANGED where
        BY <4>6
      <4> QED BY <3>1, <4>1, <4>2, <4>3, <4>4, <4>5, <4>6
              DEF WorkerNext, WorkerStep, ClaimPrefix, CarryUserData, FinishRebuild,
                  GiveUpRebuild, FinishBackUp, GiveUpBackUp, DeletePrefix,
                  FinishWinetricks, KillWorker, dirVars
    <3> QED BY <2>3, <3>1
  <2>4. PICK w \in Workers : ParkOld(w)
    BY <2>1, <2>2, <2>3 DEF Next, Elsewhere
  <2>5. promised \cap SavesIn(Pfx) \subseteq SavesIn(Fresh)
    BY <2>4 DEF ParkOld, Work, SaveInv, FreshIsReady
  <2>6. saves[d] \subseteq SavesIn(Pfx)
    BY DEF SavesIn, Pfx, At
  <2> QED BY <2>5, <2>6
<1> QED BY <1>1, Inductive, PTL DEF Spec, ParkedOnlyWhenCarried

-----------------------------------------------------------------------------
(* The machine of the prefix a launch sets up.                             *)

\* Wine adds an ntdll.dll of its own only to a prefix that has none.
LEMMA WineOnKeepsArch ==
    ASSUME TypeOK, NEW a, WineOn(a)
    PROVE  \A d \in Pfx' : arch'[d] = arch[d] \/ (arch[d] = None /\ arch'[d] = a)
<1>1. PICK d \in IF Pfx # {} THEN Pfx ELSE At("gone") :
        /\ where' = [where EXCEPT ![d] = "pfx"]
        /\ arch' = [arch EXCEPT ![d] = IF @ = None THEN a ELSE @]
  BY DEF WineOn
<1> QED BY <1>1 DEF TypeOK, Pfx, At

\* Wine started without the lock builds a prefix of another machine than a launch at work
\* wants only where it marks that launch's check as void.
LEMMA UnlockedWineIsNoticed ==
    ASSUME TypeOK, OneOfEach, GoneIsEmpty, NEW a, UnlockedWineOn(a),
           NEW l \in Launches, lpc[l] \in LockedSteps, RunsHere(l), ~unchecked'[l]
    PROVE  \A d \in Pfx' : arch'[d] \in {None, want[l]}
<1>1. PICK e \in Pfx : arch[e] # None
  BY DEF UnlockedWineOn, TypeOK
<1>2. PICK d \in Pfx :
        /\ where' = [where EXCEPT ![d] = "pfx"]
        /\ arch' = [arch EXCEPT ![d] = IF @ = None THEN a ELSE @]
  BY <1>1 DEF UnlockedWineOn, WineOn
<1>3. Pfx' = Pfx
  BY <1>2 DEF TypeOK, Pfx, At
<1>4. d = e
  BY <1>1, <1>2 DEF OneOfEach
<1>5. arch' = arch
  BY <1>1, <1>2, <1>4 DEF TypeOK
<1> QED BY <1>3, <1>5 DEF RunsHere

\* Every step keeps a checked launch with a prefix of its own machine.
LEMMA SetUpStep == IInv /\ SetUpMatchesTool /\ [Next]_vars => SetUpMatchesTool'
<1> SUFFICES ASSUME IInv, SetUpMatchesTool, [Next]_vars, NEW k \in Launches,
                    lpc'[k] \in LockedSteps \ {"checking"}, ~unchecked'[k]
             PROVE  \A d \in Pfx' : arch'[d] \in {None, want'[k]}
  BY DEF SetUpMatchesTool, RunsHere
<1> USE DEF IInv
<1>1. prefixLock' = k
  BY LockStep DEF OneAtWork
<1>2. ASSUME lpc[k] = lpc'[k], ~unchecked[k]
      PROVE  lpc[k] \in LockedSteps /\ RunsHere(k) /\ prefixLock = k
  BY <1>2 DEF SetUpMatchesTool, OneAtWork
<1>3. CASE UNCHANGED vars
  BY <1>2, <1>3 DEF vars, dirVars, launchVars, RunsHere, Pfx, At
<1>4. ASSUME NEW w \in Workers, WorkerNext(w) PROVE FALSE
  <2>1. prefixLock' = w \/ prefixLock' = None
    BY <1>4 DEF WorkerNext, WorkerStep, ClaimPrefix, BootFresh, CarryUserData, ParkOld, SwapIn,
         SwapFails, FinishRebuild, GiveUpRebuild, StartBackUp, FinishBackUp, GiveUpBackUp,
         DeletePrefix, StartWinetricks, FinishWinetricks, KillWorker, Work, EndWork, OneAtWork
  <2> QED BY <1>1, <2>1, NoneIsApart
<1>5. CASE Elsewhere
  <2>1. UNCHANGED <<lpc, want>> /\ (unchecked[k] => unchecked'[k])
    BY <1>5 DEF Elsewhere, CheckUnclaimed, OpenTool, UnlockedWineOn, ServerExits, DeleteBackup,
                WriteSave, launchVars
  <2>2. CASE \E t \in Tools : OpenTool(t)
    BY <1>2, <2>1, <2>2, UnlockedWineIsNoticed DEF OpenTool, DirInv
  <2>3. CASE \E d \in Dirs : DeleteBackup(d)
    BY <1>2, <2>1, <2>3 DEF DeleteBackup, Remove, RunsHere, Pfx, Backups, At
  <2>4. CASE UNCHANGED <<where, arch>>
    BY <1>2, <2>1, <2>4 DEF RunsHere, Pfx, At
  <2> QED BY <1>5, <2>2, <2>3, <2>4 DEF Elsewhere, CheckUnclaimed, ServerExits, WriteSave, dirVars
<1>6. ASSUME NEW l \in Launches, l # k, LaunchNext(l)
      PROVE  \A d \in Pfx' : arch'[d] \in {None, want'[k]}
  <2>1. /\ lpc'[k] = lpc[k] /\ want'[k] = want[k]
        /\ unchecked[k] => unchecked'[k]
    BY <1>6 DEF LaunchNext, LaunchStep, PassArchCheck, AskRebuild, NoOffer, ClearServers,
           SetUpPrefix, ReleasePrefix, OfferRebuild, PrepareLaunch, LaunchWithoutRebuilding,
           ReturnFromRebuild, StartGame, UnlockedWineOn, EndGame, LeaveLaunch, EndLaunch,
           ForgetDialogs, Step, TypeOK
  <2>2. lpc[k] \in LockedSteps /\ RunsHere(k) /\ prefixLock = k
    BY <1>2, <2>1
  <2>3. lpc[l] \notin LockedSteps /\ ~TakePrefix(l)
    BY <1>6, <2>2, NoneIsApart DEF OneAtWork, TakePrefix
  <2>4. CASE StartGame(l)
    BY <2>1, <2>2, <2>4, UnlockedWineIsNoticed DEF StartGame, DirInv
  <2>5. CASE UNCHANGED dirVars
    BY <2>1, <2>2, <2>5 DEF dirVars, RunsHere, Pfx, At
  <2>6. StartGame(l) \/ EndGame(l) \/ LeaveLaunch(l)
    BY <1>6, <2>3 DEF LaunchNext, LaunchStep, PassArchCheck, AskRebuild, NoOffer, ClearServers,
           SetUpPrefix, ReleasePrefix, OfferRebuild, PrepareLaunch, LaunchWithoutRebuilding,
           ReturnFromRebuild, Step, LockedSteps
  <2> QED BY <2>4, <2>5, <2>6 DEF EndGame, LeaveLaunch
<1>7. ASSUME LaunchNext(k)
      PROVE  \A d \in Pfx' : arch'[d] \in {None, want'[k]}
  <2>1. CASE PassArchCheck(k)
    BY <2>1 DEF PassArchCheck, RunsHere, dirVars, Pfx, At
  <2>2. CASE NoOffer(k) \/ ClearServers(k)
    <3>1. /\ UNCHANGED <<where, arch, want, unchecked>>
          /\ lpc[k] \in LockedSteps \ {"checking"}
      BY <2>2 DEF NoOffer, ClearServers, Step, dirVars, LockedSteps
    <3> QED BY <3>1 DEF SetUpMatchesTool, RunsHere, Pfx, At
  <2>3. CASE SetUpPrefix(k)
    <3>1. /\ UNCHANGED <<want, unchecked>>
          /\ lpc[k] \in LockedSteps \ {"checking"}
          /\ UNCHANGED dirVars \/ WineOn(want[k])
      BY <2>3 DEF SetUpPrefix, Step, LockedSteps
    <3>2. RunsHere(k)
      BY <3>1 DEF SetUpMatchesTool
    <3>3. CASE UNCHANGED dirVars
      BY <3>1, <3>2, <3>3 DEF RunsHere, dirVars, Pfx, At
    <3>4. CASE WineOn(want[k])
      <4>1. \A d \in Pfx' : d \in Pfx \/ arch[d] = None
        BY <3>4, WineOnAppears DEF Pfx, At, DirInv, GoneIsEmpty
      <4> QED BY <3>1, <3>2, <3>4, <4>1, WineOnKeepsArch DEF RunsHere
    <3> QED BY <3>1, <3>3, <3>4
  <2>4. CASE LaunchWithoutRebuilding(k)
    BY <2>4 DEF LaunchWithoutRebuilding, TypeOK
  <2> QED BY <1>7, <2>1, <2>2, <2>3, <2>4
          DEF LaunchNext, LaunchStep, AskRebuild, ReleasePrefix, OfferRebuild, PrepareLaunch,
              ReturnFromRebuild, StartGame, EndGame, LeaveLaunch, EndLaunch, Step,
              LockedSteps, TypeOK
<1> QED BY <1>3, <1>4, <1>5, <1>6, <1>7 DEF Next, Elsewhere

\* A launch past refuse_foreign_prefix sets up a prefix of its own machine, whatever other
\* launches, rebuilds and Winetricks do meanwhile.  Excepted are the two launches whose
\* check is marked void ("unchecked"): one that was told to launch without rebuilding, and
\* one whose bare prefix a program without the lock built.
THEOREM SetUpIsForTheTool == Spec => []SetUpMatchesTool
<1>1. Init => SetUpMatchesTool
  BY DEF Init, SetUpMatchesTool, LockedSteps
<1>2. IInv /\ SetUpMatchesTool /\ [Next]_vars => SetUpMatchesTool'
  BY SetUpStep
<1> QED BY <1>1, <1>2, Inductive, PTL DEF Spec
=============================================================================
