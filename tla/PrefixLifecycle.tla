--------------------------- MODULE PrefixLifecycle ---------------------------
(***************************************************************************)
(* The life of one game's Wine prefix: the directories beside each other   *)
(* in compatdata/<appid>, the prefix lock that launches and the app's      *)
(* operations take, and the Wine sessions that run without it.             *)
(*                                                                         *)
(* Launches are runs of compat_run.sh.  Workers are operations of the app  *)
(* that claim the prefix (PrefixStore.claim): a rebuild, a backup, a       *)
(* delete or Winetricks.  Tools are Wine programs the app opens without    *)
(* claiming it.  Any of them can be killed at any step, which closes its   *)
(* file descriptors and so gives up the lock, and changes nothing on disk. *)
(*                                                                         *)
(* A directory is an inode (a member of Dirs): a rename changes where it   *)
(* is, never what it holds, and a Wine server belongs to the inode it      *)
(* started in (server-<dev>-<ino>).  What it holds is cut down to the save *)
(* files of the game, the machine of its ntdll.dll and whether user.reg    *)
(* was written.  RebuildCommand models the progress file, the lock of a    *)
(* rebuild and the script's wait for it; here a dialog that leads to a     *)
(* rebuild is a time at which the launch holds nothing.                    *)
(*                                                                         *)
(* A definition whose name starts with Bad is a plausible bug in the one   *)
(* that follows it; no specification uses it.                              *)
(***************************************************************************)
EXTENDS Naturals, FiniteSets

CONSTANTS
    Launches,   \* runs of the launch script
    Workers,    \* operations of the app that claim the prefix
    Tools,      \* Wine programs the app opens on an unclaimed prefix
    Dirs,       \* inodes; bounds how many directories exist at once
    Saves,      \* what the game saves
    Outside,    \* the saves it keeps in a folder of drive_c that wineboot makes too
    Arches,     \* the machine of a prefix, aa64 or 8664
    None        \* no process, no directory, no ntdll.dll

ASSUME NoneIsApart ==
    /\ None \notin Launches \cup Workers \cup Tools \cup Dirs \cup Arches
    /\ Launches \cap Workers = {}

ASSUME OutsideAreSaves == Outside \subseteq Saves

VARIABLES
    where,      \* [Dirs -> "gone", "pfx", "fresh" (pfx.rebuild) or "backup" (pfx.previous-*)]
    saves,      \* [Dirs -> SUBSET Saves]
    arch,       \* [Dirs -> machine of system32/ntdll.dll, None without one]
    userReg,    \* [Dirs -> whether user.reg exists]
    live,       \* directories with a running Wine server
    prefixLock, \* who holds the flock on .notproton-prefix.lock
    lpc,        \* where each launch is in the script
    want,       \* machine of the compatibility tool of each launch
    offered,    \* the launch's last dialog was the offer after a crash
    rebuilt,    \* np_rebuilt: this launch already rebuilt the prefix
    unchecked,  \* the machine check of this launch no longer stands for the prefix
    wpc,        \* where each worker is in its operation
    job,        \* what the worker does
    target,     \* machine of the tool a rebuild is for
    keep,       \* keepBackup
    prev,       \* the slot the worker made: what a rebuild parked, what a backup fills
    tpc,        \* where each tool is
    promised    \* saves not Outside, written into pfx while no rebuild or delete claimed it

dirVars    == <<where, saves, arch, userReg>>
launchVars == <<lpc, want, offered, rebuilt, unchecked>>
workerVars == <<wpc, job, target, keep, prev>>
vars == <<dirVars, live, prefixLock, launchVars, workerVars, tpc, promised>>

Jobs == {"rebuild", "backup", "delete", "winetricks"}

\* The lock is held from prepare_prefix_directory to "exec 8>&-".
LockedSteps == {"checking", "checked", "cleared", "setup", "staged"}
LaunchSteps == LockedSteps \cup {"idle", "dialog", "released", "playing"}
RebuildSteps == {"claimed", "booted", "carried", "parked", "swapped"}
WorkerSteps == RebuildSteps \cup {"idle", "copying", "installing"}

At(place) == {d \in Dirs : where[d] = place}
Pfx     == At("pfx")
Fresh   == At("fresh")
Backups == At("backup")

SavesIn(S) == UNION {saves[d] : d \in S}
\* A fresh prefix is removed when its rebuild fails, so a save is kept only here.
Kept == SavesIn(Pfx \cup Backups)

TypeOK ==
    /\ where \in [Dirs -> {"gone", "pfx", "fresh", "backup"}]
    /\ saves \in [Dirs -> SUBSET Saves]
    /\ arch \in [Dirs -> Arches \cup {None}]
    /\ userReg \in [Dirs -> BOOLEAN]
    /\ live \subseteq Dirs
    /\ prefixLock \in Launches \cup Workers \cup {None}
    /\ lpc \in [Launches -> LaunchSteps]
    /\ want \in [Launches -> Arches \cup {None}]
    /\ offered \in [Launches -> BOOLEAN]
    /\ rebuilt \in [Launches -> BOOLEAN]
    /\ unchecked \in [Launches -> BOOLEAN]
    /\ wpc \in [Workers -> WorkerSteps]
    /\ job \in [Workers -> Jobs \cup {"none"}]
    /\ target \in [Workers -> Arches \cup {None}]
    /\ keep \in [Workers -> BOOLEAN]
    /\ prev \in [Workers -> Dirs \cup {None}]
    /\ tpc \in [Tools -> {"idle", "checked"}]
    /\ promised \subseteq Saves

-----------------------------------------------------------------------------
(* Directories.                                                            *)

\* Removing directories takes what they hold with them.
Remove(S) ==
    /\ where' = [d \in Dirs |-> IF d \in S THEN "gone" ELSE where[d]]
    /\ saves' = [d \in Dirs |-> IF d \in S THEN {} ELSE saves[d]]
    /\ arch' = [d \in Dirs |-> IF d \in S THEN None ELSE arch[d]]
    /\ userReg' = [d \in Dirs |-> IF d \in S THEN FALSE ELSE userReg[d]]
    /\ live' = live \ S

\* mkdir -p: an empty directory where there is none, nothing where there is one.
MakePfx ==
    /\ IF Pfx # {} THEN UNCHANGED where
       ELSE \E d \in At("gone") : where' = [where EXCEPT ![d] = "pfx"]
    /\ UNCHANGED <<saves, arch, userReg>>

\* Wine started on the path pfx, which it builds for itself when nothing is there.
WineOn(a) ==
    \E d \in IF Pfx # {} THEN Pfx ELSE At("gone") :
        /\ where' = [where EXCEPT ![d] = "pfx"]
        /\ arch' = [arch EXCEPT ![d] = IF @ = None THEN a ELSE @]
        /\ \E written \in BOOLEAN : /\ userReg[d] => written
                                   /\ userReg' = [userReg EXCEPT ![d] = written]
        /\ live' = live \cup {d}
        /\ UNCHANGED saves

\* Wine started by someone who holds no lock.  Where it builds the prefix, the machine
\* check of a launch that does hold the lock no longer stands.
UnlockedWineOn(a) ==
    /\ WineOn(a)
    /\ unchecked' = [l \in Launches |->
          unchecked[l] \/ (lpc[l] \in LockedSteps /\ \A d \in Pfx : arch[d] = None)]

-----------------------------------------------------------------------------
(* The launch script.                                                      *)

Step(l, from, to) == lpc[l] = from /\ lpc' = [lpc EXCEPT ![l] = to]

\* prepare_prefix_directory: lockf without waiting, then mkdir -p of pfx.
TakePrefix(l) ==
    /\ prefixLock = None
    /\ prefixLock' = l
    /\ MakePfx

DropPrefix(l) == prefixLock' = IF prefixLock = l THEN None ELSE prefixLock

\* Nothing after the set-up asks what the dialogs led to.
ForgetDialogs(l) ==
    /\ offered' = [offered EXCEPT ![l] = FALSE]
    /\ rebuilt' = [rebuilt EXCEPT ![l] = FALSE]
    /\ unchecked' = [unchecked EXCEPT ![l] = FALSE]

\* The script ends, and with it everything it remembered.
EndLaunch(l) ==
    /\ lpc' = [lpc EXCEPT ![l] = "idle"]
    /\ want' = [want EXCEPT ![l] = None]
    /\ ForgetDialogs(l)
    /\ DropPrefix(l)

PrepareLaunch(l) ==
    /\ Step(l, "idle", "checking")
    /\ TakePrefix(l)
    /\ \E a \in Arches : want' = [want EXCEPT ![l] = a]
    /\ UNCHANGED <<live, offered, rebuilt, unchecked, workerVars, tpc, promised>>

\* refuse_foreign_prefix finds no ntdll.dll or the tool's own machine.
RunsHere(l) == \A d \in Pfx : arch[d] \in {None, want[l]}

\* A check repeated after the offer's rebuild returns past the offer.
PassArchCheck(l) ==
    /\ RunsHere(l)
    /\ Step(l, "checking", IF offered[l] THEN "cleared" ELSE "checked")
    /\ unchecked' = [unchecked EXCEPT ![l] = FALSE]
    /\ UNCHANGED <<dirVars, live, prefixLock, want, offered, rebuilt,
                   workerVars, tpc, promised>>

\* The lock is kept while the dialog is open.
BadAskRebuild(l) ==
    /\ ~RunsHere(l)
    /\ ~rebuilt[l]
    /\ Step(l, "checking", "dialog")
    /\ offered' = [offered EXCEPT ![l] = FALSE]
    /\ UNCHANGED <<dirVars, live, prefixLock, want, rebuilt, unchecked, workerVars, tpc,
                   promised>>

\* rebuild_prefix lets go of the lock for as long as the dialog is open.
AskRebuild(l) ==
    /\ ~RunsHere(l)
    /\ ~rebuilt[l]
    /\ Step(l, "checking", "dialog")
    /\ DropPrefix(l)
    /\ offered' = [offered EXCEPT ![l] = FALSE]
    /\ UNCHANGED <<dirVars, live, want, rebuilt, unchecked, workerVars, tpc, promised>>

\* offer_switch_rebuild, when the last session crashed after a switch of builds.
OfferRebuild(l) ==
    /\ ~rebuilt[l]
    /\ Step(l, "checked", "dialog")
    /\ DropPrefix(l)
    /\ offered' = [offered EXCEPT ![l] = TRUE]
    /\ UNCHANGED <<dirVars, live, want, rebuilt, unchecked, workerVars, tpc, promised>>

NoOffer(l) ==
    /\ Step(l, "checked", "cleared")
    /\ UNCHANGED <<dirVars, live, prefixLock, want, offered, rebuilt, unchecked,
                   workerVars, tpc, promised>>

\* "Launch Without Rebuilding" takes the lock back and goes on behind the offer.
LaunchWithoutRebuilding(l) ==
    /\ offered[l]
    /\ Step(l, "dialog", "cleared")
    /\ TakePrefix(l)
    /\ unchecked' = [unchecked EXCEPT ![l] = TRUE]
    /\ UNCHANGED <<live, want, offered, rebuilt, workerVars, tpc, promised>>

\* The machine is not checked again after the rebuild.
BadReturnFromRebuild(l) ==
    /\ Step(l, "dialog", "checked")
    /\ TakePrefix(l)
    /\ rebuilt' = [rebuilt EXCEPT ![l] = TRUE]
    /\ UNCHANGED <<live, want, offered, unchecked, workerVars, tpc, promised>>

\* The rebuild succeeded: the lock is taken back and both checks are repeated.
ReturnFromRebuild(l) ==
    /\ Step(l, "dialog", "checking")
    /\ TakePrefix(l)
    /\ rebuilt' = [rebuilt EXCEPT ![l] = TRUE]
    /\ UNCHANGED <<live, want, offered, unchecked, workerVars, tpc, promised>>

\* wineserver -k and -w before the prefix is touched.
ClearServers(l) ==
    /\ Step(l, "cleared", "setup")
    /\ live' = live \ Pfx
    /\ UNCHANGED <<dirVars, prefixLock, want, offered, rebuilt, unchecked,
                   workerVars, tpc, promised>>

\* Seeding, settings import and bridge staging: Wine may run, and its server may
\* linger or may have been told to exit for the settings to be read again.
SetUpPrefix(l) ==
    /\ Step(l, "setup", "staged")
    /\ \/ UNCHANGED <<dirVars, live>>
       \/ WineOn(want[l])
    /\ UNCHANGED <<prefixLock, want, offered, rebuilt, unchecked, workerVars, tpc, promised>>

ReleasePrefix(l) ==
    /\ Step(l, "staged", "released")
    /\ DropPrefix(l)
    /\ ForgetDialogs(l)
    /\ UNCHANGED <<dirVars, live, want, workerVars, tpc, promised>>

\* The lock is already gone when Wine starts the game.
StartGame(l) ==
    /\ Step(l, "released", "playing")
    /\ UnlockedWineOn(want[l])
    /\ want' = [want EXCEPT ![l] = None]
    /\ UNCHANGED <<prefixLock, offered, rebuilt, workerVars, tpc, promised>>

\* kill_wine_prefix, at the end of the game or on Steam's signal.
EndGame(l) ==
    /\ lpc[l] = "playing"
    /\ EndLaunch(l)
    /\ live' = live \ Pfx
    /\ UNCHANGED <<dirVars, workerVars, tpc, promised>>

\* Every early exit (a second mismatch after a rebuild, a cancelled dialog, a failed
\* rebuild, a busy lock on the way back, conflicting profile folders, a file that
\* cannot be staged), and being killed.
LeaveLaunch(l) ==
    /\ lpc[l] # "idle"
    /\ EndLaunch(l)
    /\ UNCHANGED <<dirVars, live, workerVars, tpc, promised>>

-----------------------------------------------------------------------------
(* Operations of the app that claim the prefix.                            *)

Work(w, from, to) == wpc[w] = from /\ wpc' = [wpc EXCEPT ![w] = to]

\* PrefixStore.claim: the lock, and no Wine server on the inode that pfx is now.
ClaimPrefix(w) ==
    /\ Work(w, "idle", "claimed")
    /\ prefixLock = None
    /\ Pfx \cap live = {}
    /\ prefixLock' = w
    /\ \E j \in Jobs : job' = [job EXCEPT ![w] = j]
    /\ IF job'[w] = "rebuild"
       THEN \E a \in Arches, k \in BOOLEAN : /\ target' = [target EXCEPT ![w] = a]
                                            /\ keep' = [keep EXCEPT ![w] = k]
       ELSE UNCHANGED <<target, keep>>
    /\ UNCHANGED <<dirVars, live, prev, launchVars, tpc, promised>>

\* The claim is released by a defer, on every way out.
EndWork(w) ==
    /\ wpc' = [wpc EXCEPT ![w] = "idle"]
    /\ prefixLock' = None
    /\ job' = [job EXCEPT ![w] = "none"]
    /\ target' = [target EXCEPT ![w] = None]
    /\ keep' = [keep EXCEPT ![w] = TRUE]
    /\ prev' = [prev EXCEPT ![w] = None]

\* What an unfinished rebuild left: a backup, and no user.reg in pfx.
HalfFinished == Backups # {} /\ \A d \in Pfx : ~userReg[d]

\* A stale pfx.rebuild goes, an empty one is made and wineboot sets it up.
BootFresh(w) ==
    /\ job[w] = "rebuild"
    /\ ~HalfFinished
    /\ Work(w, "claimed", "booted")
    /\ \E n \in At("gone") \cup Fresh :
          /\ where' = [d \in Dirs |-> IF d = n THEN "fresh"
                                       ELSE IF d \in Fresh THEN "gone" ELSE where[d]]
          /\ saves' = [d \in Dirs |-> IF d \in Fresh \cup {n} THEN {} ELSE saves[d]]
          /\ arch' = [d \in Dirs |-> IF d = n THEN target[w]
                                      ELSE IF d \in Fresh THEN None ELSE arch[d]]
          /\ userReg' = [d \in Dirs |-> IF d = n THEN TRUE
                                         ELSE IF d \in Fresh THEN FALSE ELSE userReg[d]]
          /\ live' = live \ (Fresh \cup {n})
    /\ UNCHANGED <<prefixLock, launchVars, job, target, keep, prev, tpc, promised>>

\* What could not be carried is passed over.
BadCarryUserData(w) ==
    /\ Work(w, "booted", "carried")
    /\ UNCHANGED <<dirVars, live, prefixLock, launchVars, job, target, keep, prev, tpc,
                   promised>>

\* Carry.userData takes drive_c/users, strayFolders what else wineboot does not make.
\* Anything of these lost refuses the rebuild (GiveUpRebuild).
CarryUserData(w) ==
    /\ Work(w, "booted", "carried")
    /\ saves' = [d \in Dirs |-> IF d \in Fresh THEN SavesIn(Pfx) \ Outside ELSE saves[d]]
    /\ UNCHANGED <<where, arch, userReg, live, prefixLock, launchVars, job, target, keep,
                   prev, tpc, promised>>

\* The first rename, pfx to its backup slot, when there is a pfx.
ParkOld(w) ==
    /\ Work(w, "carried", "parked")
    /\ IF Pfx = {} THEN UNCHANGED <<where, prev>>
       ELSE \E d \in Pfx : /\ where' = [where EXCEPT ![d] = "backup"]
                           /\ prev' = [prev EXCEPT ![w] = d]
    /\ UNCHANGED <<saves, arch, userReg, live, prefixLock, launchVars, job, target, keep,
                   tpc, promised>>

\* The second rename, which needs the name to be free.
SwapIn(w) ==
    /\ Work(w, "parked", "swapped")
    /\ Pfx = {}
    /\ where' = [d \in Dirs |-> IF d \in Fresh THEN "pfx" ELSE where[d]]
    /\ UNCHANGED <<saves, arch, userReg, live, prefixLock, launchVars, job, target, keep,
                   prev, tpc, promised>>

\* The old prefix is discarded on the way out although nothing took its place.
BadSwapFails(w) ==
    /\ wpc[w] = "parked"
    /\ Remove(Fresh \cup (IF keep[w] THEN {} ELSE Backups \cap {prev[w]}))
    /\ EndWork(w)
    /\ UNCHANGED <<launchVars, tpc, promised>>

\* The second rename failed.  The old prefix goes back if its name is still free, and
\* pfx.rebuild is removed; either try? may leave things as they are.
SwapFails(w) ==
    /\ wpc[w] = "parked"
    /\ \E back \in SUBSET (Backups \cap {prev[w]}), swept \in SUBSET Fresh :
          /\ Pfx # {} => back = {}
          /\ where' = [d \in Dirs |-> IF d \in back THEN "pfx"
                                       ELSE IF d \in swept THEN "gone" ELSE where[d]]
          /\ saves' = [d \in Dirs |-> IF d \in swept THEN {} ELSE saves[d]]
          /\ arch' = [d \in Dirs |-> IF d \in swept THEN None ELSE arch[d]]
          /\ userReg' = [d \in Dirs |-> IF d \in swept THEN FALSE ELSE userReg[d]]
          /\ live' = live \ swept
    /\ EndWork(w)
    /\ UNCHANGED <<launchVars, tpc, promised>>

\* The old prefix goes only when no backup was asked for, and not when the build
\* record could not be written; its removal is a try?.
FinishRebuild(w) ==
    /\ wpc[w] = "swapped"
    /\ \E discarded \in SUBSET (Backups \cap {prev[w]}) :
          /\ keep[w] => discarded = {}
          /\ Remove(discarded)
    /\ EndWork(w)
    /\ UNCHANGED <<launchVars, tpc, promised>>

\* A refusal or an error before anything in the prefix moved: no compatibility tool, a
\* half-finished rebuild, wineboot failing, data that could not be carried, the first
\* rename failing.
GiveUpRebuild(w) ==
    /\ job[w] = "rebuild"
    /\ wpc[w] \in {"claimed", "booted", "carried"}
    /\ \E swept \in SUBSET Fresh : Remove(swept)
    /\ EndWork(w)
    /\ UNCHANGED <<launchVars, tpc, promised>>

\* backUp: the copy fills a slot of its own and is removed again if it fails.
StartBackUp(w) ==
    /\ job[w] = "backup"
    /\ Work(w, "claimed", "copying")
    /\ \E d \in Pfx, n \in At("gone") :
          /\ \E part \in SUBSET saves[d] : saves' = [saves EXCEPT ![n] = part]
          /\ where' = [where EXCEPT ![n] = "backup"]
          /\ prev' = [prev EXCEPT ![w] = n]
    /\ UNCHANGED <<arch, userReg, live, prefixLock, launchVars, job, target, keep, tpc, promised>>

FinishBackUp(w) ==
    /\ wpc[w] = "copying"
    /\ \E d \in Pfx, n \in Backups \cap {prev[w]} :
          /\ saves' = [saves EXCEPT ![n] = saves[d]]
          /\ arch' = [arch EXCEPT ![n] = arch[d]]
          /\ userReg' = [userReg EXCEPT ![n] = userReg[d]]
    /\ EndWork(w)
    /\ UNCHANGED <<where, live, launchVars, tpc, promised>>

GiveUpBackUp(w) ==
    /\ job[w] = "backup"
    /\ wpc[w] \in {"claimed", "copying"}
    /\ \E swept \in SUBSET (Backups \cap {prev[w]}) : Remove(swept)
    /\ EndWork(w)
    /\ UNCHANGED <<launchVars, tpc, promised>>

\* The whole of compatdata/<appid> goes, backups included: the user gave all of it up.
\* A removal that stops partway leaves the rest and reports it.
DeletePrefix(w) ==
    /\ job[w] = "delete"
    /\ wpc[w] = "claimed"
    /\ \E S \in SUBSET (Dirs \ At("gone")) : Remove(S)
    /\ promised' = {}
    /\ EndWork(w)
    /\ UNCHANGED <<launchVars, tpc>>

\* Winetricks runs Wine under its own claim and waits for the server before letting go.
StartWinetricks(w) ==
    /\ job[w] = "winetricks"
    /\ Pfx # {}
    /\ Work(w, "claimed", "installing")
    /\ \E a \in Arches : WineOn(a)
    /\ UNCHANGED <<prefixLock, launchVars, job, target, keep, prev, tpc, promised>>

FinishWinetricks(w) ==
    /\ job[w] = "winetricks"
    /\ \/ wpc[w] = "claimed"
       \/ wpc[w] = "installing" /\ Pfx \cap live = {}
    /\ EndWork(w)
    /\ UNCHANGED <<dirVars, live, launchVars, tpc, promised>>

\* Killed, or the app quit.  The kernel closes the lock; the directories stay.
KillWorker(w) ==
    /\ wpc[w] # "idle"
    /\ EndWork(w)
    /\ UNCHANGED <<dirVars, live, launchVars, tpc, promised>>

-----------------------------------------------------------------------------
(* Wine programs, the game's saves and the user's own deletions.           *)

\* requireUnclaimed takes the lock and lets it go; readyLoader wants a pfx.
CheckUnclaimed(t) ==
    /\ tpc[t] = "idle"
    /\ prefixLock = None
    /\ Pfx # {}
    /\ tpc' = [tpc EXCEPT ![t] = "checked"]
    /\ UNCHANGED <<dirVars, live, prefixLock, launchVars, workerVars, promised>>

OpenTool(t) ==
    /\ tpc[t] = "checked"
    /\ tpc' = [tpc EXCEPT ![t] = "idle"]
    /\ \E a \in Arches : UnlockedWineOn(a)
    /\ UNCHANGED <<prefixLock, lpc, want, offered, rebuilt, workerVars, promised>>

\* The last Wine process of a prefix exits, or is killed with its server.
ServerExits(d) ==
    /\ d \in live
    /\ live' = live \ {d}
    /\ UNCHANGED <<dirVars, prefixLock, launchVars, workerVars, tpc, promised>>

\* A rebuild or a delete is under way.
Replacing == \E w \in Workers : prefixLock = w /\ job[w] \in {"rebuild", "delete"}

\* A running program saves through a file it has open in its own directory or through
\* the path, which is whatever pfx is now.
WriteSave(d, s) ==
    /\ d \in live
    /\ \E t \in {d} \cup Pfx :
          /\ saves' = [saves EXCEPT ![t] = @ \cup {s}]
          /\ promised' = IF t \in Pfx /\ ~Replacing THEN promised \cup ({s} \ Outside)
                         ELSE promised \ {s}
    /\ UNCHANGED <<where, arch, userReg, live, prefixLock, launchVars, workerVars, tpc>>

\* deleteBackup claims nothing.  What only that backup held is given up with it.
DeleteBackup(d) ==
    /\ d \in Backups
    /\ Remove({d})
    /\ promised' = promised \ (saves[d] \ SavesIn((Pfx \cup Backups) \ {d}))
    /\ UNCHANGED <<prefixLock, launchVars, workerVars, tpc>>

-----------------------------------------------------------------------------
\* A game that has run, or one that has not.
Init ==
    /\ where \in [Dirs -> {"gone", "pfx"}]
    /\ \A d, e \in Pfx : d = e
    /\ arch \in [Dirs -> Arches \cup {None}]
    /\ \A d \in Dirs : (arch[d] # None) <=> (where[d] = "pfx")
    /\ userReg = [d \in Dirs |-> where[d] = "pfx"]
    /\ saves = [d \in Dirs |-> {}]
    /\ live = {}
    /\ prefixLock = None
    /\ lpc = [l \in Launches |-> "idle"]
    /\ want = [l \in Launches |-> None]
    /\ offered = [l \in Launches |-> FALSE]
    /\ rebuilt = [l \in Launches |-> FALSE]
    /\ unchecked = [l \in Launches |-> FALSE]
    /\ wpc = [w \in Workers |-> "idle"]
    /\ job = [w \in Workers |-> "none"]
    /\ target = [w \in Workers |-> None]
    /\ keep = [w \in Workers |-> TRUE]
    /\ prev = [w \in Workers |-> None]
    /\ tpc = [t \in Tools |-> "idle"]
    /\ promised = {}

\* What a launch does by itself once it holds the lock.
LaunchStep(l) ==
    \/ PassArchCheck(l) \/ AskRebuild(l) \/ NoOffer(l) \/ ClearServers(l)
    \/ SetUpPrefix(l) \/ ReleasePrefix(l) \/ OfferRebuild(l)

LaunchNext(l) ==
    \/ LaunchStep(l) \/ PrepareLaunch(l) \/ LaunchWithoutRebuilding(l)
    \/ ReturnFromRebuild(l) \/ StartGame(l) \/ EndGame(l) \/ LeaveLaunch(l)

\* What a worker does by itself once it has claimed the prefix.
WorkerStep(w) ==
    \/ BootFresh(w) \/ CarryUserData(w) \/ ParkOld(w) \/ SwapIn(w) \/ SwapFails(w)
    \/ FinishRebuild(w) \/ GiveUpRebuild(w) \/ StartBackUp(w) \/ FinishBackUp(w)
    \/ GiveUpBackUp(w) \/ DeletePrefix(w)

WorkerNext(w) ==
    \/ WorkerStep(w) \/ ClaimPrefix(w) \/ StartWinetricks(w) \/ FinishWinetricks(w)
    \/ KillWorker(w)

Next ==
    \/ \E l \in Launches : LaunchNext(l)
    \/ \E w \in Workers : WorkerNext(w)
    \/ \E t \in Tools : CheckUnclaimed(t) \/ OpenTool(t)
    \/ \E d \in Dirs : ServerExits(d) \/ DeleteBackup(d)
    \/ \E d \in Dirs, s \in Saves : WriteSave(d, s)

Spec == Init /\ [][Next]_vars

\* Each process runs on: the shell and the app have no wait of their own between these
\* steps.  Nothing is assumed of the player, of a dialog, of a game or of Winetricks.
FairSpec ==
    /\ Spec
    /\ \A l \in Launches : WF_vars(LaunchStep(l) \/ (lpc[l] = "checking" /\ LeaveLaunch(l)))
    /\ \A w \in Workers : WF_vars(WorkerStep(w))

-----------------------------------------------------------------------------
(* Properties.                                                             *)

\* A save of the kind a rebuild carries, written while no rebuild or delete had claimed
\* the prefix, is in pfx or in a backup, whatever fails or is killed and however often the
\* prefix is rebuilt, until the user deletes it (the promise of compat_run.sh's rebuild
\* dialog).
SavesKept == promised \subseteq Kept

\* When FinishRebuild may discard the old prefix, the new one already is pfx and holds
\* everything promised that the old one holds.
DiscardIsSafe ==
    \A w \in Workers : wpc[w] = "swapped" /\ prev[w] # None =>
        /\ Pfx # {}
        /\ promised \cap saves[prev[w]] \subseteq SavesIn(Pfx)

\* A launch that holds the lock past refuse_foreign_prefix sets up a prefix its own Wine
\* can run.  Two cases are left to AlwaysMatchesTool, both in "unchecked": it was told to
\* launch without rebuilding, or a tool or game without the lock built a bare prefix.
SetUpMatchesTool ==
    \A l \in Launches :
        lpc[l] \in LockedSteps \ {"checking"} /\ ~unchecked[l] => RunsHere(l)

\* The prefix that is being replaced is never one a launch is setting up, and two
\* rebuilds never share pfx.rebuild: everyone at work on the directories holds the lock.
OneAtWork ==
    /\ \A l \in Launches : lpc[l] \in LockedSteps => prefixLock = l
    /\ \A w \in Workers : wpc[w] # "idle" => prefixLock = w

\* The old prefix is put away only when the new one holds what it promised.
ParkedOnlyWhenCarried ==
    [][\A d \in Dirs : where[d] = "pfx" /\ where'[d] = "backup" =>
          promised \cap saves[d] \subseteq SavesIn(Fresh)]_vars

\* No one keeps the prefix lock forever: no launch waits for the player while it holds
\* it, and a claim ends.  Winetricks holds its claim for as long as the installer runs.
LockIsGivenUp ==
    /\ \A l \in Launches : prefixLock = l ~> prefixLock # l
    /\ \A w \in Workers :
          (prefixLock = w /\ job[w] # "winetricks")
             ~> ~(prefixLock = w /\ job[w] # "winetricks")

\* What compat_run.sh:1507 tells the player: no save is lost to a rebuild, or to anything
\* but the user's own deletions.
AllSavesPreserved ==
    [][\/ Kept \subseteq Kept'
       \/ \E d \in Dirs : DeleteBackup(d)
       \/ \E w \in Workers : DeletePrefix(w)]_vars

\* What the code re-establishes after a rebuild (compat_run.sh:1477-1478) for every
\* launch: the prefix it is about to touch is one its Wine can run.
AlwaysMatchesTool ==
    \A l \in Launches : lpc[l] \in LockedSteps \ {"checking"} => RunsHere(l)
=============================================================================
