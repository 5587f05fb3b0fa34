---------------------------- MODULE TemplateCache ----------------------------
(***************************************************************************)
(* The template that the prefixes of new games are copied from.  There is  *)
(* one per Steam library and runner:                                       *)
(* notproton-template/<runner>/pfx, and beside it "ready", which holds the *)
(* identity of the runner the template was built with.                     *)
(*                                                                         *)
(* Launches of different games build it and copy it under                  *)
(* .notproton-template.lock, which none of them waits for.  The app copies *)
(* CrossOver to make the runner, patches it, replaces it and removes it    *)
(* under the installation lock, which no launch takes, and removes the     *)
(* templates of removed runners under both.  A launch, and the app, can be *)
(* killed at any step.                                                     *)
(*                                                                         *)
(* The files of the runner are cut down to a version, which grows with     *)
(* every copy of CrossOver that is put in place (a new inode) and with     *)
(* every file that is patched (a new hash), and to the signature of the    *)
(* loader, which a failed signing takes back.  A tree of files is cut down *)
(* to whether it is whole and to the versions of the runner that began and *)
(* ended the wineboot that made it.                                        *)
(*                                                                         *)
(* A definition whose name starts with Bad is a plausible bug in the one   *)
(* that follows it; no specification uses it.                              *)
(***************************************************************************)
EXTENDS Naturals

CONSTANTS
    Games,       \* each with its prefix and at most one launch at work on it
    App,         \* the app, where it holds the template lock
    None,        \* no holder, no identity
    MaxVersion   \* bounds how often the runner changes

ASSUME RolesAreApart == App \notin Games /\ None \notin Games \cup {App}

ASSUME MaxVersionIsPositive == MaxVersion \in Nat \ {0}

VARIABLES
    present,     \* a runner is at runners/crossover-<build>
    version,     \* of the files of the runner that is, or was last, there
    signed,      \* its loader carries the dyld entitlement
    pfx,         \* the template, and what "ready" says
    ready,
    lock,        \* who holds .notproton-template.lock
    pc,          \* where the launch of each game is
    taken,       \* the identity the launch has computed
    scratch,     \* its pfx.building.<pid>, later its pfx.seeding.<pid>
    prefix,      \* the prefix of each game: how far it is seeded
    seed,        \* and from what
    apc,         \* where the app is that holds the installation lock
    cpc          \* where its cleaning of stale templates is

runner    == <<present, version, signed>>
template  == <<pfx, ready>>
launch    == <<pc, taken, scratch>>
prefixes  == <<prefix, seed>>
appSteps  == <<apc, cpc>>
vars == <<runner, template, lock, launch, prefixes, appSteps>>

Identities == [version : 1..MaxVersion, signed : BOOLEAN]
Trees      == [whole : BOOLEAN, first : 0..MaxVersion, last : 0..MaxVersion]

ASSUME NoneIsNoIdentity == None \notin Identities

\* Nothing there, or nothing with a system.reg.
NoTree == [whole |-> FALSE, first |-> 0, last |-> 0]
HasReg(t) == t.first # 0
Torn(t) == [t EXCEPT !.whole = FALSE]

\* The launch holds the template lock.
Seeding == {"locked", "identified", "clearing", "cleared", "booting", "booted", "moved",
            "copying", "copied", "linking", "registered", "orphan"}
LaunchSteps == Seeding \cup {"idle", "checked", "unlocked", "playing"}
AppSteps == {"idle", "staging", "staged", "parked", "prepare", "signing", "hidden", "purging"}

TypeOK ==
    /\ present \in BOOLEAN
    /\ version \in 1..MaxVersion
    /\ signed \in BOOLEAN
    /\ pfx \in Trees
    /\ ready \in Identities \cup {None}
    /\ lock \in Games \cup {App, None}
    /\ pc \in [Games -> LaunchSteps]
    /\ taken \in [Games -> Identities \cup {None}]
    /\ scratch \in [Games -> Trees]
    /\ prefix \in [Games -> {"bare", "partial", "registered", "stamped", "own"}]
    /\ seed \in [Games -> Trees]
    /\ apc \in AppSteps
    /\ cpc \in {"idle", "listed", "tearing"}

-----------------------------------------------------------------------------
(* The launch script, seed_prefix_from_template.                           *)

Go(g, from, to) == pc[g] = from /\ pc' = [pc EXCEPT ![g] = to]

\* template_identity: device, inode and change time of the runner, hashes of its files.
Identity == [version |-> version, signed |-> signed]

Unlock(g) == lock' = IF lock = g THEN None ELSE lock

\* Its folder is removed, or is left behind for the next launch to sweep.
Forget(g) ==
    /\ scratch' = [scratch EXCEPT ![g] = NoTree]
    /\ taken' = [taken EXCEPT ![g] = None]

\* The rest of the launch goes on without the template.
LeaveTemplate(g) ==
    /\ Unlock(g)
    /\ Forget(g)
    /\ UNCHANGED <<runner, template, prefixes, appSteps>>

\* The runner check comes long before the template is looked at.
CheckRunner(g) ==
    /\ Go(g, "idle", "checked")
    /\ present
    /\ UNCHANGED <<runner, template, lock, taken, scratch, prefixes, appSteps>>

TakeTemplateLock(g) ==
    /\ Go(g, "checked", "locked")
    /\ prefix[g] = "bare"
    /\ lock = None
    /\ lock' = g
    /\ UNCHANGED <<runner, template, taken, scratch, prefixes, appSteps>>

\* The prefix is not bare, the lock is taken, or the cache cannot be written.
SkipTemplate(g) ==
    /\ Go(g, "checked", "unlocked")
    /\ UNCHANGED <<runner, template, lock, taken, scratch, prefixes, appSteps>>

TakeIdentity(g) ==
    /\ Go(g, "locked", "identified")
    /\ present
    /\ taken' = [taken EXCEPT ![g] = Identity]
    /\ UNCHANGED <<runner, template, lock, scratch, prefixes, appSteps>>

\* The runner is gone, or the slot holds something that is no template.
NoIdentity(g) ==
    /\ \E from \in {"locked", "identified"} : Go(g, from, "unlocked")
    /\ LeaveTemplate(g)

\* Any template with a registry will do.
BadUseTemplate(g) ==
    /\ Go(g, "identified", "copying")
    /\ HasReg(pfx)
    /\ scratch' = [scratch EXCEPT ![g] = pfx]
    /\ UNCHANGED <<runner, template, lock, taken, prefixes, appSteps>>

UseTemplate(g) ==
    /\ Go(g, "identified", "copying")
    /\ ready = taken[g] /\ HasReg(pfx)
    /\ scratch' = [scratch EXCEPT ![g] = pfx]
    /\ UNCHANGED <<runner, template, lock, taken, prefixes, appSteps>>

BadForgetReady(g) ==
    /\ Go(g, "identified", "clearing")
    /\ ready # taken[g] \/ ~HasReg(pfx)
    /\ UNCHANGED <<runner, template, lock, taken, scratch, prefixes, appSteps>>

\* rm -f ready, and only then the template it speaks of.
ForgetReady(g) ==
    /\ Go(g, "identified", "clearing")
    /\ ready # taken[g] \/ ~HasReg(pfx)
    /\ ready' = None
    /\ UNCHANGED <<runner, pfx, lock, taken, scratch, prefixes, appSteps>>

RemoveOld(g) ==
    /\ Go(g, "clearing", "cleared")
    /\ pfx' = NoTree
    /\ UNCHANGED <<runner, ready, lock, taken, scratch, prefixes, appSteps>>

\* rm -rf stops partway.
CannotRemoveOld(g) ==
    /\ Go(g, "clearing", "unlocked")
    /\ pfx' \in {pfx, Torn(pfx)}
    /\ Unlock(g)
    /\ Forget(g)
    /\ UNCHANGED <<runner, ready, prefixes, appSteps>>

\* wineboot --init in pfx.building.<pid>, with the runner that is there now.
BootTemplate(g) ==
    /\ Go(g, "cleared", "booting")
    /\ present
    /\ scratch' = [scratch EXCEPT ![g] = [whole |-> FALSE, first |-> version, last |-> version]]
    /\ UNCHANGED <<runner, template, lock, taken, prefixes, appSteps>>

\* wineboot and its server have ended, and the three registry files are there.
BootEnds(g) ==
    /\ Go(g, "booting", "booted")
    /\ scratch' = [scratch EXCEPT ![g] = [@ EXCEPT !.whole = TRUE, !.last = version]]
    /\ UNCHANGED <<runner, template, lock, taken, prefixes, appSteps>>

\* No folder, no loader, no registry, a server that does not end, no rename.
BuildFails(g) ==
    /\ \E from \in {"cleared", "booting", "booted"} : Go(g, from, "unlocked")
    /\ LeaveTemplate(g)

MoveTemplate(g) ==
    /\ Go(g, "booted", "moved")
    /\ pfx = NoTree
    /\ pfx' = scratch[g]
    /\ scratch' = [scratch EXCEPT ![g] = NoTree]
    /\ UNCHANGED <<runner, ready, lock, taken, prefixes, appSteps>>

\* ready is written, read again, and cp begins.
WriteReady(g) ==
    /\ Go(g, "moved", "copying")
    /\ ready' = taken[g]
    /\ scratch' = [scratch EXCEPT ![g] = pfx]
    /\ UNCHANGED <<runner, pfx, lock, taken, prefixes, appSteps>>

CannotWriteReady(g) ==
    /\ Go(g, "moved", "unlocked")
    /\ LeaveTemplate(g)

\* cp has read all of the template: what is gone by then may not have been copied.
CopyEnds(g) ==
    /\ Go(g, "copying", "copied")
    /\ scratch' = [scratch EXCEPT ![g] = IF pfx = @ THEN @ ELSE Torn(@)]
    /\ UNCHANGED <<runner, template, lock, taken, prefixes, appSteps>>

CopyFails(g) ==
    /\ \E from \in {"copying", "copied"} : Go(g, from, "unlocked")
    /\ LeaveTemplate(g)

\* prefix_is_bare once more, and install_seed_tree links everything but the last two.
BeginLinks(g) ==
    /\ Go(g, "copied", "linking")
    /\ prefix' = [prefix EXCEPT ![g] = "partial"]
    /\ seed' = [seed EXCEPT ![g] = Torn(scratch[g])]
    /\ UNCHANGED <<runner, template, lock, taken, scratch, appSteps>>

LinkRegistry(g) ==
    /\ Go(g, "linking", "registered")
    /\ prefix' = [prefix EXCEPT ![g] = "registered"]
    /\ seed' = [seed EXCEPT ![g] = scratch[g]]
    /\ UNCHANGED <<runner, template, lock, taken, scratch, appSteps>>

LinkFails(g) ==
    /\ \E from \in {"linking", "registered"} : Go(g, from, "unlocked")
    /\ LeaveTemplate(g)

\* .update-timestamp tells Wine that nothing is left to do.
LinkStamp(g) ==
    /\ Go(g, "registered", "unlocked")
    /\ prefix' = [prefix EXCEPT ![g] = "stamped"]
    /\ Unlock(g)
    /\ Forget(g)
    /\ UNCHANGED <<runner, template, seed, appSteps>>

\* Wine builds what has no stamp.
StartWine(g) ==
    /\ Go(g, "unlocked", "playing")
    /\ present
    /\ IF prefix[g] = "stamped" THEN UNCHANGED prefixes
       ELSE /\ prefix' = [prefix EXCEPT ![g] = "own"]
            /\ seed' = [seed EXCEPT ![g] = NoTree]
    /\ UNCHANGED <<runner, template, lock, taken, scratch, appSteps>>

\* The trap's abandon_seed, SIGKILL, an error of the launch, or the end of the game.  rm
\* and cp have inherited the descriptor of the lock; Wine is started without it.
KillLaunch(g) ==
    /\ pc[g] \notin {"idle", "orphan"}
    /\ Forget(g)
    /\ pfx' \in IF pc[g] = "clearing" THEN {pfx, Torn(pfx)} ELSE {pfx}
    /\ \/ /\ pc' = [pc EXCEPT ![g] = "idle"]
          /\ Unlock(g)
       \/ /\ pc[g] \in {"clearing", "copying"}
          /\ pc' = [pc EXCEPT ![g] = "orphan"]
          /\ UNCHANGED lock
    /\ UNCHANGED <<runner, ready, prefixes, appSteps>>

OrphanEnds(g) ==
    /\ Go(g, "orphan", "idle")
    /\ LeaveTemplate(g)

\* The game's prefix is deleted, or rebuilt for another runner.
DeletePrefix(g) ==
    /\ pc[g] = "idle"
    /\ prefix' = [prefix EXCEPT ![g] = "bare"]
    /\ seed' = [seed EXCEPT ![g] = NoTree]
    /\ UNCHANGED <<runner, template, lock, launch, appSteps>>

-----------------------------------------------------------------------------
(* The app: RunnerInstaller, RunnerSetup and RunnerPatcher.                *)

At(from, to) == apc = from /\ apc' = to

\* No process runs from the runner's folder.
NotRunning == \A g \in Games : pc[g] \notin {"booting", "playing"}

InstallationLockFree == apc = "idle" /\ cpc = "idle"

\* A copy is made where there is none, where it is damaged or to be replaced.
StartClone ==
    /\ At("idle", "staging")
    /\ InstallationLockFree
    /\ NotRunning
    /\ UNCHANGED <<runner, template, lock, launch, prefixes, cpc>>

\* A runner that is there and complete is only prepared.
PrepareExisting ==
    /\ At("idle", "prepare")
    /\ InstallationLockFree
    /\ present /\ NotRunning
    /\ UNCHANGED <<runner, template, lock, launch, prefixes, cpc>>

\* copyPayload and verifyClone, beside the runner that is there.
CopyPayload ==
    /\ At("staging", "staged")
    /\ UNCHANGED <<runner, template, lock, launch, prefixes, cpc>>

ParkRunner ==
    /\ At("staged", "parked")
    /\ present
    /\ present' = FALSE
    /\ UNCHANGED <<version, signed, template, lock, launch, prefixes, cpc>>

PlaceRunner ==
    /\ \/ apc = "staged" /\ ~present
       \/ apc = "parked"
    /\ version < MaxVersion
    /\ apc' = "prepare"
    /\ present' = TRUE
    /\ version' = version + 1
    /\ signed' = FALSE
    /\ UNCHANGED <<template, lock, launch, prefixes, cpc>>

\* The second rename fails and the first is undone.
PlaceFails ==
    /\ At("parked", "idle")
    /\ present' = TRUE
    /\ UNCHANGED <<version, signed, template, lock, launch, prefixes, cpc>>

\* installNtdll and installBuiltins replace the files one by one, atomically each.
PatchFile ==
    /\ apc = "prepare"
    /\ version < MaxVersion
    /\ version' = version + 1
    /\ UNCHANGED <<present, signed, template, lock, launch, prefixes, appSteps>>

SignLoader ==
    /\ At("prepare", "signing")
    /\ ~signed
    /\ signed' = TRUE
    /\ UNCHANGED <<present, version, template, lock, launch, prefixes, cpc>>

\* restoreClean puts the shipped loader back.
SignFails ==
    /\ At("signing", "idle")
    /\ signed' = FALSE
    /\ UNCHANGED <<present, version, template, lock, launch, prefixes, cpc>>

\* removeClone renames the runner, so that it is gone at once or not at all.
HideRunner ==
    /\ At("idle", "hidden")
    /\ InstallationLockFree
    /\ present /\ NotRunning
    /\ present' = FALSE
    /\ UNCHANGED <<version, signed, template, lock, launch, prefixes, cpc>>

\* The list of tools cannot be written: the runner comes back.
SyncFails ==
    /\ At("hidden", "idle")
    /\ present' = TRUE
    /\ UNCHANGED <<version, signed, template, lock, launch, prefixes, cpc>>

RemoveRunner ==
    /\ At("hidden", "purging")
    /\ UNCHANGED <<runner, template, lock, launch, prefixes, cpc>>

\* An operation ends, throws where nothing is undone, or is killed.
AppEnds ==
    /\ apc # "idle"
    /\ apc = "purging" => cpc = "idle"
    /\ apc' = "idle"
    /\ UNCHANGED <<runner, template, lock, launch, prefixes, cpc>>

-----------------------------------------------------------------------------
(* The app: removeStalePrefixTemplates, in removeClone and in a refresh.   *)

ListStale ==
    /\ cpc = "idle"
    /\ apc \in {"idle", "purging"}
    /\ ~present
    /\ cpc' = "listed"
    /\ UNCHANGED <<runner, template, lock, launch, prefixes, apc>>

TakeForCleaning ==
    /\ cpc = "listed"
    /\ lock = None
    /\ lock' = App
    /\ cpc' = "tearing"
    /\ UNCHANGED <<runner, template, launch, prefixes, apc>>

\* The entries go in the order the directory lists them.
RemoveEntry ==
    /\ cpc = "tearing"
    /\ \/ ready # None /\ ready' = None /\ UNCHANGED pfx
       \/ pfx # NoTree /\ pfx' \in {NoTree, Torn(pfx)} /\ UNCHANGED ready
    /\ UNCHANGED <<runner, lock, launch, prefixes, appSteps>>

\* All gone, busy, an entry that cannot be removed, or killed.
EndCleaning ==
    /\ cpc # "idle"
    /\ cpc' = "idle"
    /\ lock' = IF cpc = "tearing" /\ lock = App THEN None ELSE lock
    /\ UNCHANGED <<runner, template, launch, prefixes, apc>>

-----------------------------------------------------------------------------
Init ==
    /\ present \in BOOLEAN
    /\ version = 1
    /\ signed \in BOOLEAN
    /\ pfx = NoTree
    /\ ready = None
    /\ lock = None
    /\ pc = [g \in Games |-> "idle"]
    /\ taken = [g \in Games |-> None]
    /\ scratch = [g \in Games |-> NoTree]
    /\ prefix = [g \in Games |-> "bare"]
    /\ seed = [g \in Games |-> NoTree]
    /\ apc = "idle"
    /\ cpc = "idle"

\* Up to the template, and what follows when the launch is done with it.
LaunchAround(g) ==
    \/ CheckRunner(g) \/ TakeTemplateLock(g) \/ SkipTemplate(g) \/ StartWine(g)
    \/ KillLaunch(g) \/ OrphanEnds(g) \/ DeletePrefix(g)

BuildStep(g) ==
    \/ TakeIdentity(g) \/ NoIdentity(g) \/ ForgetReady(g) \/ RemoveOld(g)
    \/ CannotRemoveOld(g) \/ BootTemplate(g) \/ BootEnds(g) \/ BuildFails(g)
    \/ MoveTemplate(g) \/ WriteReady(g) \/ CannotWriteReady(g)

CopyStep(g) ==
    \/ UseTemplate(g) \/ CopyEnds(g) \/ CopyFails(g) \/ BeginLinks(g) \/ LinkRegistry(g)
    \/ LinkFails(g) \/ LinkStamp(g)

RunnerStep ==
    \/ StartClone \/ PrepareExisting \/ CopyPayload \/ ParkRunner \/ PlaceRunner
    \/ PlaceFails \/ PatchFile \/ SignLoader \/ SignFails \/ HideRunner \/ SyncFails
    \/ RemoveRunner \/ AppEnds

CleanStep == ListStale \/ TakeForCleaning \/ RemoveEntry \/ EndCleaning

Next ==
    \/ \E g \in Games : LaunchAround(g) \/ BuildStep(g) \/ CopyStep(g)
    \/ RunnerStep
    \/ CleanStep

Spec == Init /\ [][Next]_vars

-----------------------------------------------------------------------------
(* Properties.                                                             *)

\* Made by this version of the runner from start to end.
MadeBy(t, v) == t.whole /\ t.first = v /\ t.last = v

\* A template that a launch would take for one of the runner that is there is whole and
\* was made by that runner, also while the runner is replaced, patched, put back or
\* removed under the launch that builds it, and after any of them was killed.
ReadyIsTrue == present /\ ready = Identity => MadeBy(pfx, version)

\* What Wine is told to be complete is a copy of a complete template: "a broken template
\* is never used" (compat_run.sh:2171).
SeedsAreWhole == \A g \in Games : prefix[g] \in {"registered", "stamped"} => seed[g].whole

\* What a launch is about to install was made by the runner it identified, unless the
\* runner has changed since.
SeedIsOfThisRunner ==
    \A g \in Games :
        pc[g] \in {"copied", "linking", "registered"} /\ taken[g].version = version
            => MadeBy(scratch[g], version)

\* A template that is good for the runner that is there is not removed or replaced, unless
\* by a launch that took the identity of another: of the loader while it was signed in vain.
GoodTemplateStays ==
    [][LET Good == present /\ ready = Identity
           Agreed == \A g \in Games : taken[g] \in {None, Identity}
       IN  Good /\ Agreed /\ present' /\ Identity' = Identity => UNCHANGED template]_vars
=============================================================================
