------------------------- MODULE TemplateCacheProofs -------------------------
(***************************************************************************)
(* That a launch never installs a broken template, nor one of another      *)
(* runner, for any number of games and any number of changes of the        *)
(* runner.                                                                 *)
(*                                                                         *)
(* The argument: versions of the runner only grow.  A launch computes the  *)
(* identity before it builds and records it after, so a template whose     *)
(* record is still the identity of the runner was built while the runner   *)
(* did not change.  Templates are torn only while no runner is there that  *)
(* could come back with the same identity.                                 *)
(***************************************************************************)
EXTENDS TemplateCache, TLAPS

\* Whoever is at work on the template holds its lock.
LockInv ==
    /\ \A g \in Games : pc[g] \in Seeding => lock = g
    /\ cpc = "tearing" => lock = App

\* Stale templates are removed while the runner is gone for good.
CleanInv ==
    /\ cpc # "idle" => ~present /\ apc \in {"idle", "purging"}
    /\ apc \in {"parked", "hidden"} => ~present

Building == {"clearing", "cleared", "booting", "booted", "moved"}
Installing == {"copying", "copied", "linking", "registered"}

\* What a launch has in hand: the identity, and a tree no older than that.
Later(t, i) == i.version <= t.first /\ t.first <= t.last /\ t.last <= version
Hand(g) ==
    /\ taken[g] # None => taken[g].version <= version
    /\ pc[g] \in {"identified"} \cup Building \cup Installing => taken[g] # None
    /\ pc[g] \in Building => ready = None
    /\ pc[g] \in {"booting", "booted"} \cup Installing => Later(scratch[g], taken[g])
    /\ pc[g] \in {"booted"} \cup Installing => scratch[g].whole
    /\ pc[g] = "moved" => pfx.whole /\ Later(pfx, taken[g])
    /\ pc[g] = "identified" /\ ready = taken[g] =>
           pfx.whole /\ Later(pfx, taken[g])
    /\ pc[g] = "copying" => pfx = scratch[g]
    /\ pc[g] = "registered" => seed[g].whole

HandInv == \A g \in Games : Hand(g)

\* The record tells the truth of every runner that is there or may be put back.
RecordInv ==
    /\ ready # None => ready.version <= version
    /\ (present \/ apc \in {"parked", "hidden"}) /\ ready # None /\ ready.version = version
           => MadeBy(pfx, version)

IInv == TypeOK /\ LockInv /\ CleanInv /\ HandInv /\ RecordInv /\ SeedsAreWhole

-----------------------------------------------------------------------------
(* Types.                                                                  *)

\* The trees the script makes are trees, and a version is a number above zero.
LEMMA TreeFacts ==
    /\ NoTree \in Trees /\ ~NoTree.whole
    /\ \A t \in Trees : /\ Torn(t) \in Trees /\ ~Torn(t).whole
                       /\ Torn(t).first = t.first /\ Torn(t).last = t.last
                       /\ t.whole \in BOOLEAN /\ t.first \in Nat /\ t.last \in Nat
<1>1. 0 \in 0..MaxVersion
  BY MaxVersionIsPositive
<1>2. NoTree \in Trees /\ ~NoTree.whole
  BY <1>1 DEF NoTree, Trees
<1> SUFFICES ASSUME NEW t \in Trees
             PROVE  /\ Torn(t) \in Trees /\ ~Torn(t).whole
                    /\ Torn(t).first = t.first /\ Torn(t).last = t.last
                    /\ t.whole \in BOOLEAN /\ t.first \in Nat /\ t.last \in Nat
  BY <1>2
<1>3. t.whole \in BOOLEAN /\ t.first \in Nat /\ t.last \in Nat
  BY DEF Trees
<1>4. Torn(t) \in Trees
  BY DEF Torn, Trees
<1>5. ~Torn(t).whole /\ Torn(t).first = t.first /\ Torn(t).last = t.last
  BY DEF Torn, Trees
<1> QED BY <1>3, <1>4, <1>5

\* A template that was removed in part is a tree, too.
LEMMA TornTemplate ==
    ASSUME pfx \in Trees, pfx' \in {pfx, Torn(pfx)}
    PROVE  pfx' \in Trees
BY TreeFacts

\* What wineboot makes with the runner's version.
LEMMA BootedTrees ==
    ASSUME version \in 1..MaxVersion
    PROVE  /\ [whole |-> FALSE, first |-> version, last |-> version] \in Trees
           /\ \A t \in Trees : /\ [t EXCEPT !.whole = TRUE, !.last = version] \in Trees
                              /\ [t EXCEPT !.whole = TRUE, !.last = version].whole
                              /\ [t EXCEPT !.whole = TRUE, !.last = version].first = t.first
                              /\ [t EXCEPT !.whole = TRUE, !.last = version].last = version
<1>1. version \in 0..MaxVersion
  BY MaxVersionIsPositive
<1>2. [whole |-> FALSE, first |-> version, last |-> version] \in Trees
  BY <1>1 DEF Trees
<1> SUFFICES ASSUME NEW t \in Trees
             PROVE  /\ [t EXCEPT !.whole = TRUE, !.last = version] \in Trees
                    /\ [t EXCEPT !.whole = TRUE, !.last = version].whole
                    /\ [t EXCEPT !.whole = TRUE, !.last = version].first = t.first
                    /\ [t EXCEPT !.whole = TRUE, !.last = version].last = version
  BY <1>2
<1> QED BY <1>1 DEF Trees

\* An identity names the version of the runner.
LEMMA IdentityFacts ==
    /\ \A i \in Identities : i.version \in 1..MaxVersion /\ i # None
    /\ version \in 1..MaxVersion /\ signed \in BOOLEAN
          => Identity \in Identities /\ Identity.version = version
BY NoneIsNoIdentity DEF Identities, Identity

\* A launch keeps the types while it builds the template,
LEMMA BuildType ==
    ASSUME TypeOK, NEW g \in Games, BuildStep(g)
    PROVE  TypeOK'
<1> USE TreeFacts, IdentityFacts, BootedTrees DEF TypeOK, Go, Unlock, Forget, LeaveTemplate,
        LaunchSteps, Seeding, runner, template, prefixes, appSteps
<1>1. CASE TakeIdentity(g)
  BY <1>1 DEF TakeIdentity
<1>2. CASE NoIdentity(g)
  BY <1>2 DEF NoIdentity
<1>3. CASE ForgetReady(g)
  BY <1>3 DEF ForgetReady
<1>4. CASE RemoveOld(g)
  BY <1>4 DEF RemoveOld
<1>5. CASE CannotRemoveOld(g)
  <2>1. pfx' \in Trees
    BY <1>5, TornTemplate DEF CannotRemoveOld
  <2>2. Go(g, "clearing", "unlocked") /\ Unlock(g) /\ Forget(g)
        /\ UNCHANGED <<runner, ready, prefixes, appSteps>>
    BY <1>5 DEF CannotRemoveOld
  <2> QED BY <2>1, <2>2
<1>6. CASE BuildFails(g)
  BY <1>6 DEF BuildFails
<1>7. CASE BootTemplate(g)
  BY <1>7 DEF BootTemplate
<1>8. CASE BootEnds(g)
  BY <1>8 DEF BootEnds
<1>9. CASE MoveTemplate(g)
  BY <1>9 DEF MoveTemplate
<1>10. CASE WriteReady(g)
  BY <1>10 DEF WriteReady
<1>11. CASE CannotWriteReady(g)
  BY <1>11 DEF CannotWriteReady
<1> QED BY <1>1, <1>2, <1>3, <1>4, <1>5, <1>6, <1>7, <1>8, <1>9, <1>10, <1>11 DEF BuildStep

\* while it copies it,
LEMMA CopyType ==
    ASSUME TypeOK, NEW g \in Games, CopyStep(g)
    PROVE  TypeOK'
<1> USE TreeFacts DEF TypeOK, Go, Unlock, Forget, LeaveTemplate,
        LaunchSteps, Seeding, runner, template, prefixes, appSteps
<1>1. CASE UseTemplate(g) \/ CopyFails(g)
  BY <1>1 DEF UseTemplate, CopyFails
<1>2. CASE CopyEnds(g)
  BY <1>2 DEF CopyEnds
<1>3. CASE BeginLinks(g) \/ LinkRegistry(g)
  BY <1>3 DEF BeginLinks, LinkRegistry
<1>4. CASE LinkFails(g) \/ LinkStamp(g)
  BY <1>4 DEF LinkFails, LinkStamp
<1> QED BY <1>1, <1>2, <1>3, <1>4 DEF CopyStep

\* and before and after.
LEMMA AroundType ==
    ASSUME TypeOK, NEW g \in Games, LaunchAround(g)
    PROVE  TypeOK'
<1> USE TreeFacts DEF TypeOK, Go, Unlock, Forget, LeaveTemplate,
        LaunchSteps, Seeding, runner, template, launch, prefixes, appSteps
<1>1. CASE CheckRunner(g) \/ TakeTemplateLock(g) \/ SkipTemplate(g)
  BY <1>1 DEF CheckRunner, TakeTemplateLock, SkipTemplate
<1>2. CASE StartWine(g)
  BY <1>2 DEF StartWine
<1>3. CASE KillLaunch(g)
  BY <1>3 DEF KillLaunch
<1>4. CASE OrphanEnds(g) \/ DeletePrefix(g)
  BY <1>4 DEF OrphanEnds, DeletePrefix
<1> QED BY <1>1, <1>2, <1>3, <1>4 DEF LaunchAround

\* The app keeps them.
LEMMA AppType ==
    ASSUME TypeOK, RunnerStep \/ CleanStep
    PROVE  TypeOK'
<1> USE TreeFacts DEF TypeOK, At, AppSteps, InstallationLockFree,
        runner, template, launch, prefixes, appSteps
<1>1. CASE StartClone \/ PrepareExisting \/ CopyPayload \/ ParkRunner
  BY <1>1 DEF StartClone, PrepareExisting, CopyPayload, ParkRunner
<1>2. CASE PlaceRunner \/ PlaceFails \/ PatchFile
  <2>1. version < MaxVersion => version + 1 \in 1..MaxVersion
    BY MaxVersionIsPositive
  <2>2. CASE PlaceRunner
    BY <2>1, <2>2 DEF PlaceRunner
  <2>3. CASE PlaceFails
    BY <2>3 DEF PlaceFails
  <2>4. CASE PatchFile
    BY <2>1, <2>4 DEF PatchFile
  <2> QED BY <1>2, <2>2, <2>3, <2>4
<1>3. CASE SignLoader \/ SignFails \/ HideRunner
  BY <1>3 DEF SignLoader, SignFails, HideRunner
<1>4. CASE SyncFails \/ RemoveRunner \/ AppEnds
  BY <1>4 DEF SyncFails, RemoveRunner, AppEnds
<1>5. CASE ListStale \/ TakeForCleaning
  BY <1>5 DEF ListStale, TakeForCleaning
<1>6. CASE RemoveEntry
  BY <1>6 DEF RemoveEntry
<1>7. CASE EndCleaning
  BY <1>7 DEF EndCleaning
<1> QED BY <1>1, <1>2, <1>3, <1>4, <1>5, <1>6, <1>7 DEF RunnerStep, CleanStep

\* Every variable keeps to its type.
THEOREM TypeCorrect == Spec => []TypeOK
<1>1. Init => TypeOK
  BY TreeFacts, MaxVersionIsPositive DEF Init, TypeOK, LaunchSteps, AppSteps
<1>2. TypeOK /\ [Next]_vars => TypeOK'
  <2> SUFFICES ASSUME TypeOK, [Next]_vars PROVE TypeOK'
    OBVIOUS
  <2>1. CASE UNCHANGED vars
    BY <2>1 DEF TypeOK, vars, runner, template, launch, prefixes, appSteps
  <2>2. CASE Next
    BY <2>2, BuildType, CopyType, AroundType, AppType DEF Next
  <2> QED BY <2>1, <2>2
<1> QED BY <1>1, <1>2, PTL DEF Spec

-----------------------------------------------------------------------------
(* The locks.                                                              *)

\* Only who takes the template lock begins to work on the template.
LEMMA LockStep ==
    ASSUME TypeOK, LockInv, Next
    PROVE  LockInv'
<1> USE RolesAreApart DEF TypeOK, LockInv, Go, At, Unlock, Forget, LeaveTemplate, Seeding,
        runner, template, launch, prefixes, appSteps
<1>1. ASSUME NEW g \in Games, BuildStep(g) PROVE LockInv'
  <2>1. CASE TakeIdentity(g) \/ NoIdentity(g) \/ ForgetReady(g) \/ RemoveOld(g)
    BY <2>1 DEF TakeIdentity, NoIdentity, ForgetReady, RemoveOld
  <2>2. CASE CannotRemoveOld(g) \/ BootTemplate(g) \/ BootEnds(g)
    BY <2>2 DEF CannotRemoveOld, BootTemplate, BootEnds
  <2>3. CASE BuildFails(g)
    BY <2>3 DEF BuildFails
  <2>4. CASE MoveTemplate(g) \/ WriteReady(g) \/ CannotWriteReady(g)
    BY <2>4 DEF MoveTemplate, WriteReady, CannotWriteReady
  <2> QED BY <1>1, <2>1, <2>2, <2>3, <2>4 DEF BuildStep
<1>2. ASSUME NEW g \in Games, CopyStep(g) PROVE LockInv'
  <2>1. CASE UseTemplate(g) \/ CopyEnds(g) \/ BeginLinks(g) \/ LinkRegistry(g)
    BY <2>1 DEF UseTemplate, CopyEnds, BeginLinks, LinkRegistry
  <2>2. CASE CopyFails(g) \/ LinkFails(g) \/ LinkStamp(g)
    BY <2>2 DEF CopyFails, LinkFails, LinkStamp
  <2> QED BY <1>2, <2>1, <2>2 DEF CopyStep
<1>3. ASSUME NEW g \in Games, LaunchAround(g) PROVE LockInv'
  <2>1. CASE CheckRunner(g) \/ TakeTemplateLock(g) \/ SkipTemplate(g)
    BY <2>1 DEF CheckRunner, TakeTemplateLock, SkipTemplate
  <2>2. CASE StartWine(g) \/ OrphanEnds(g) \/ DeletePrefix(g)
    BY <2>2 DEF StartWine, OrphanEnds, DeletePrefix
  <2>3. CASE KillLaunch(g)
    BY <2>3 DEF KillLaunch
  <2> QED BY <1>3, <2>1, <2>2, <2>3 DEF LaunchAround
<1>4. ASSUME RunnerStep PROVE LockInv'
  BY <1>4 DEF RunnerStep, StartClone, PrepareExisting, CopyPayload, ParkRunner, PlaceRunner,
     PlaceFails, PatchFile, SignLoader, SignFails, HideRunner, SyncFails, RemoveRunner, AppEnds
<1>5. ASSUME CleanStep PROVE LockInv'
  BY <1>5 DEF CleanStep, ListStale, TakeForCleaning, RemoveEntry, EndCleaning
<1> QED BY <1>1, <1>2, <1>3, <1>4, <1>5 DEF Next

\* A launch leaves the runner and the app alone.
LEMMA LaunchesLeaveTheRunner ==
    ASSUME NEW g \in Games, LaunchAround(g) \/ BuildStep(g) \/ CopyStep(g)
    PROVE  UNCHANGED <<present, version, signed, apc, cpc>>
<1> USE DEF LeaveTemplate, runner, appSteps
<1>1. CASE BuildStep(g)
  BY <1>1 DEF BuildStep, TakeIdentity, NoIdentity, ForgetReady, RemoveOld, CannotRemoveOld,
     BootTemplate, BootEnds, BuildFails, MoveTemplate, WriteReady, CannotWriteReady
<1>2. CASE CopyStep(g)
  BY <1>2 DEF CopyStep, UseTemplate, CopyEnds, CopyFails, BeginLinks, LinkRegistry, LinkFails,
     LinkStamp
<1>3. CASE LaunchAround(g)
  BY <1>3 DEF LaunchAround, CheckRunner, TakeTemplateLock, SkipTemplate, StartWine, KillLaunch,
     OrphanEnds, DeletePrefix
<1> QED BY <1>1, <1>2, <1>3

\* A runner appears only where no stale templates are being removed.
LEMMA CleanInvStep ==
    ASSUME TypeOK, CleanInv, Next
    PROVE  CleanInv'
<1> USE DEF TypeOK, CleanInv, At, InstallationLockFree, AppSteps, runner, appSteps
<1>1. ASSUME NEW g \in Games, LaunchAround(g) \/ BuildStep(g) \/ CopyStep(g)
      PROVE  CleanInv'
  BY <1>1, LaunchesLeaveTheRunner
<1>2. CASE RunnerStep
  BY <1>2 DEF RunnerStep, StartClone, PrepareExisting, CopyPayload, ParkRunner, PlaceRunner,
     PlaceFails, PatchFile, SignLoader, SignFails, HideRunner, SyncFails, RemoveRunner, AppEnds
<1>3. CASE CleanStep
  BY <1>3 DEF CleanStep, ListStale, TakeForCleaning, RemoveEntry, EndCleaning
<1> QED BY <1>1, <1>2, <1>3 DEF Next

-----------------------------------------------------------------------------
(* What a launch has in hand.                                              *)

\* A step of another leaves the launch of h as it is; away from the template, that is all
\* there is to it.
Untouched(h) == UNCHANGED <<pc[h], taken[h], scratch[h], seed[h], version>>

LEMMA OtherHand ==
    ASSUME TypeOK, NEW h \in Games, Hand(h), Untouched(h),
           pc[h] \in Seeding => UNCHANGED template
    PROVE  Hand(h)'
<1>1. CASE pc[h] \in Seeding
  BY <1>1 DEF Hand, Later, Untouched, template
<1>2. CASE pc[h] \notin Seeding
  BY <1>2 DEF Hand, Untouched, Seeding, Building, Installing
<1> QED BY <1>1, <1>2

\* While one launch is at work on the template, no other is.
LEMMA OneLaunch ==
    ASSUME LockInv, NEW g \in Games, pc[g] \in Seeding, NEW h \in Games, h # g
    PROVE  pc[h] \notin Seeding
BY DEF LockInv

\* A launch that builds the template keeps what it knows of it.
LEMMA BuildHand ==
    ASSUME IInv, NEW g \in Games, BuildStep(g)
    PROVE  Hand(g)'
<1>0. TypeOK /\ Hand(g) /\ RecordInv
  BY DEF IInv, HandInv
<1> USE <1>0, TreeFacts, IdentityFacts DEF Hand, Later, Go, Forget, LeaveTemplate, Building,
        Installing, runner, template, prefixes, appSteps
<1>1. CASE TakeIdentity(g)
  BY <1>1 DEF TakeIdentity, TypeOK, RecordInv, MadeBy
<1>2. CASE NoIdentity(g) \/ CannotWriteReady(g)
  BY <1>2 DEF NoIdentity, CannotWriteReady, TypeOK
<1>3. CASE ForgetReady(g)
  BY <1>3 DEF ForgetReady, TypeOK
<1>4. CASE RemoveOld(g)
  BY <1>4 DEF RemoveOld, TypeOK
<1>5. CASE CannotRemoveOld(g)
  BY <1>5 DEF CannotRemoveOld, TypeOK
<1>6. CASE BootTemplate(g)
  BY <1>6 DEF BootTemplate, TypeOK
<1>7. CASE BootEnds(g)
  <2>1. scratch[g] \in Trees /\ version \in 1..MaxVersion
    BY DEF TypeOK
  <2>2. /\ scratch'[g].whole /\ scratch'[g].last = version
        /\ scratch'[g].first = scratch[g].first
    BY <1>7, <2>1, BootedTrees DEF BootEnds, TypeOK
  <2> QED BY <1>7, <2>1, <2>2 DEF BootEnds, TypeOK
<1>8. CASE BuildFails(g)
  BY <1>8 DEF BuildFails, TypeOK
<1>9. CASE MoveTemplate(g)
  BY <1>9 DEF MoveTemplate, TypeOK
<1>10. CASE WriteReady(g)
  BY <1>10 DEF WriteReady, TypeOK
<1> QED BY <1>1, <1>2, <1>3, <1>4, <1>5, <1>6, <1>7, <1>8, <1>9, <1>10 DEF BuildStep

\* A launch that copies the template keeps what it knows of the copy.
LEMMA CopyHand ==
    ASSUME IInv, NEW g \in Games, CopyStep(g)
    PROVE  Hand(g)'
<1>0. TypeOK /\ Hand(g) /\ RecordInv
  BY DEF IInv, HandInv
<1> USE <1>0, TreeFacts, IdentityFacts DEF Hand, Later, Go, Forget, LeaveTemplate, Building,
        Installing, runner, template, prefixes, appSteps
<1>1. CASE UseTemplate(g)
  BY <1>1 DEF UseTemplate, TypeOK
<1>2. CASE CopyEnds(g)
  BY <1>2 DEF CopyEnds, TypeOK
<1>3. CASE CopyFails(g) \/ LinkFails(g)
  BY <1>3 DEF CopyFails, LinkFails, TypeOK
<1>4. CASE BeginLinks(g)
  BY <1>4 DEF BeginLinks, TypeOK
<1>5. CASE LinkRegistry(g)
  BY <1>5 DEF LinkRegistry, TypeOK
<1>6. CASE LinkStamp(g)
  BY <1>6 DEF LinkStamp, TypeOK
<1> QED BY <1>1, <1>2, <1>3, <1>4, <1>5, <1>6 DEF CopyStep

\* Before and after, it has nothing in hand.
LEMMA AroundHand ==
    ASSUME IInv, NEW g \in Games, LaunchAround(g)
    PROVE  Hand(g)'
<1>0. TypeOK /\ Hand(g)
  BY DEF IInv, HandInv
<1> USE <1>0, TreeFacts, IdentityFacts DEF Hand, Later, Go, Forget, LeaveTemplate, Building,
        Installing, runner, template, launch, prefixes, appSteps
<1>1. CASE CheckRunner(g) \/ TakeTemplateLock(g) \/ SkipTemplate(g)
  BY <1>1 DEF CheckRunner, TakeTemplateLock, SkipTemplate, TypeOK
<1>2. CASE StartWine(g)
  BY <1>2 DEF StartWine, TypeOK
<1>3. CASE KillLaunch(g)
  BY <1>3 DEF KillLaunch, TypeOK
<1>4. CASE OrphanEnds(g) \/ DeletePrefix(g)
  BY <1>4 DEF OrphanEnds, DeletePrefix, TypeOK
<1> QED BY <1>1, <1>2, <1>3, <1>4 DEF LaunchAround

\* A launch touches no other launch, and the template only while it holds its lock.
LEMMA LaunchesApart ==
    ASSUME TypeOK, NEW g \in Games, LaunchAround(g) \/ BuildStep(g) \/ CopyStep(g),
           NEW h \in Games, h # g
    PROVE  Untouched(h) /\ (UNCHANGED template \/ pc[g] \in Seeding)
<1> USE DEF TypeOK, Untouched, Go, Forget, LeaveTemplate, runner, template, launch, prefixes,
        Seeding
<1>1. CASE BuildStep(g)
  BY <1>1 DEF BuildStep, TakeIdentity, NoIdentity, ForgetReady, RemoveOld, CannotRemoveOld,
     BootTemplate, BootEnds, BuildFails, MoveTemplate, WriteReady, CannotWriteReady
<1>2. CASE CopyStep(g)
  BY <1>2 DEF CopyStep, UseTemplate, CopyEnds, CopyFails, BeginLinks, LinkRegistry, LinkFails,
     LinkStamp
<1>3. CASE LaunchAround(g)
  <2>1. CASE KillLaunch(g)
    BY <2>1 DEF KillLaunch
  <2>2. CASE StartWine(g)
    BY <2>2 DEF StartWine
  <2> QED BY <1>3, <2>1, <2>2 DEF LaunchAround, CheckRunner, TakeTemplateLock, SkipTemplate,
          OrphanEnds, DeletePrefix
<1> QED BY <1>1, <1>2, <1>3

\* The app changes the runner to later versions only, and templates never.
LEMMA RunnerChanges ==
    ASSUME TypeOK, RunnerStep
    PROVE  /\ UNCHANGED <<template, launch, prefixes>>
           /\ version' \in Nat /\ version <= version'
           /\ version' = version /\ (present' \/ apc' \in {"parked", "hidden"})
                 => present \/ apc \in {"parked", "hidden"}
BY DEF TypeOK, At, RunnerStep, StartClone, PrepareExisting, CopyPayload, ParkRunner,
   PlaceRunner, PlaceFails, PatchFile, SignLoader, SignFails, HideRunner, SyncFails,
   RemoveRunner, AppEnds, runner

\* Cleaning changes the template alone, and while it has the lock and no runner is there.
LEMMA CleaningChanges ==
    ASSUME CleanStep
    PROVE  /\ UNCHANGED <<runner, launch, prefixes, apc>>
           /\ UNCHANGED template \/ cpc = "tearing"
BY DEF CleanStep, ListStale, TakeForCleaning, RemoveEntry, EndCleaning, appSteps

\* Every launch keeps what it has in hand, whoever takes a step.
LEMMA HandStep ==
    ASSUME IInv, Next
    PROVE  HandInv'
<1> SUFFICES ASSUME NEW h \in Games PROVE Hand(h)'
  BY DEF HandInv
<1>0. TypeOK /\ LockInv /\ CleanInv /\ Hand(h)
  BY DEF IInv, HandInv
<1>1. ASSUME NEW g \in Games, LaunchAround(g) \/ BuildStep(g) \/ CopyStep(g)
      PROVE  Hand(h)'
  <2>1. CASE g = h
    BY <1>1, <2>1, BuildHand, CopyHand, AroundHand
  <2>2. CASE g # h
    <3>1. Untouched(h) /\ (UNCHANGED template \/ pc[g] \in Seeding)
      BY <1>0, <1>1, <2>2, LaunchesApart
    <3>2. pc[g] \in Seeding => pc[h] \notin Seeding
      BY <1>0, <2>2, OneLaunch
    <3> QED BY <1>0, <3>1, <3>2, OtherHand
  <2> QED BY <2>1, <2>2
<1>2. CASE RunnerStep
  <2>1. /\ UNCHANGED <<pfx, ready, pc, taken, scratch, seed>>
        /\ version' \in Nat /\ version <= version'
    BY <1>0, <1>2, RunnerChanges DEF template, launch, prefixes
  <2>2. /\ version \in Nat /\ scratch[h] \in Trees /\ pfx \in Trees
        /\ taken[h] # None => taken[h].version \in Nat
    BY <1>0, IdentityFacts DEF TypeOK
  <2>3. \A t \in Trees : t.last <= version => t.last <= version'
    BY <2>1, <2>2, TreeFacts
  <2> QED BY <1>0, <2>1, <2>2, <2>3, TreeFacts DEF Hand, Later, Building, Installing
<1>3. CASE CleanStep
  <2>1. UNCHANGED <<pc, taken, scratch, seed, version>>
        /\ (UNCHANGED template \/ cpc = "tearing")
    BY <1>3, CleaningChanges DEF runner, launch, prefixes
  <2>2. cpc = "tearing" => pc[h] \notin Seeding
    BY <1>0, RolesAreApart DEF LockInv
  <2> QED BY <1>0, <2>1, <2>2, OtherHand DEF Untouched
<1> QED BY <1>1, <1>2, <1>3 DEF Next

\* The record stays true.
LEMMA RecordStep ==
    ASSUME IInv, Next
    PROVE  RecordInv'
<1>0. TypeOK /\ CleanInv /\ RecordInv /\ HandInv
  BY DEF IInv
<1>a. version \in Nat /\ (ready # None => ready.version \in Nat)
  BY <1>0, IdentityFacts DEF TypeOK
<1>1. ASSUME NEW g \in Games, LaunchAround(g) \/ BuildStep(g) \/ CopyStep(g)
      PROVE  RecordInv'
  <2>1. UNCHANGED <<present, version, signed, apc, cpc>>
    BY <1>1, LaunchesLeaveTheRunner
  <2>2. CASE UNCHANGED template
    BY <1>0, <2>1, <2>2 DEF RecordInv, MadeBy, template
  <2>3. CASE ready' = None
    BY <2>3 DEF RecordInv
  <2>4. CASE WriteReady(g)
    <3>1. Hand(g) /\ pc[g] = "moved" /\ ready' = taken[g] /\ pfx' = pfx
      BY <1>0, <2>4 DEF HandInv, WriteReady, Go
    <3>2. /\ taken[g] # None /\ taken[g].version <= version
          /\ pfx.whole /\ Later(pfx, taken[g])
      BY <3>1 DEF Hand, Building
    <3>3. pfx \in Trees /\ taken[g].version \in Nat
      BY <1>0, <3>2, IdentityFacts DEF TypeOK
    <3> QED BY <1>a, <2>1, <3>1, <3>2, <3>3, TreeFacts DEF RecordInv, MadeBy, Later
  <2>5. UNCHANGED template \/ ready' = None \/ WriteReady(g)
    <3>1. Hand(g)
      BY <1>0 DEF HandInv
    <3>2. CASE BuildStep(g)
      BY <3>1, <3>2 DEF Hand, Building, BuildStep, TakeIdentity, NoIdentity, ForgetReady,
         RemoveOld, CannotRemoveOld, BootTemplate, BootEnds, BuildFails, MoveTemplate,
         CannotWriteReady, LeaveTemplate, template, Go
    <3>3. CASE CopyStep(g)
      BY <3>3 DEF CopyStep, UseTemplate, CopyEnds, CopyFails, BeginLinks, LinkRegistry,
         LinkFails, LinkStamp, LeaveTemplate, template
    <3>4. CASE LaunchAround(g)
      BY <3>1, <3>4 DEF Hand, Building, LaunchAround, CheckRunner, TakeTemplateLock,
         SkipTemplate, StartWine, KillLaunch, OrphanEnds, DeletePrefix, LeaveTemplate, template
    <3> QED BY <1>1, <3>2, <3>3, <3>4
  <2> QED BY <2>2, <2>3, <2>4, <2>5
<1>2. CASE RunnerStep
  BY <1>0, <1>2, <1>a, RunnerChanges DEF RecordInv, MadeBy, template
<1>3. CASE CleanStep
  <2>1. UNCHANGED <<present, version, apc>> /\ (UNCHANGED template \/ cpc = "tearing")
    BY <1>3, CleaningChanges DEF runner
  <2>2. CASE UNCHANGED template
    BY <1>0, <2>1, <2>2 DEF RecordInv, MadeBy, template
  <2>3. CASE cpc = "tearing"
    <3>1. ~present /\ apc \notin {"parked", "hidden"}
      BY <1>0, <2>3 DEF CleanInv
    <3>2. ready' \in {ready, None}
      BY <1>3 DEF CleanStep, ListStale, TakeForCleaning, RemoveEntry, EndCleaning, template
    <3> QED BY <1>0, <2>1, <3>1, <3>2 DEF RecordInv
  <2> QED BY <2>1, <2>2, <2>3
<1> QED BY <1>1, <1>2, <1>3 DEF Next

\* No prefix gets a registry or a stamp but with a whole tree.
LEMMA SeedStep ==
    ASSUME IInv, Next
    PROVE  SeedsAreWhole'
<1>0. TypeOK /\ HandInv /\ SeedsAreWhole
  BY DEF IInv
<1>1. ASSUME NEW g \in Games, LaunchAround(g) \/ BuildStep(g) \/ CopyStep(g)
      PROVE  SeedsAreWhole'
  <2>1. Hand(g)
    BY <1>0 DEF HandInv
  <2> USE <1>0 DEF TypeOK, SeedsAreWhole, Go
  <2>2. CASE BuildStep(g)
    BY <2>2 DEF BuildStep, TakeIdentity, NoIdentity, ForgetReady, RemoveOld, CannotRemoveOld,
       BootTemplate, BootEnds, BuildFails, MoveTemplate, WriteReady, CannotWriteReady,
       LeaveTemplate, prefixes
  <2>3. CASE CopyStep(g)
    <3>1. CASE LinkRegistry(g)
      BY <2>1, <3>1 DEF LinkRegistry, Hand, Installing
    <3>2. CASE LinkStamp(g)
      BY <2>1, <3>2 DEF LinkStamp, Hand
    <3>3. CASE BeginLinks(g)
      BY <3>3 DEF BeginLinks
    <3> QED BY <2>3, <3>1, <3>2, <3>3 DEF CopyStep, UseTemplate, CopyEnds, CopyFails, LinkFails,
            LeaveTemplate, prefixes
  <2>4. CASE LaunchAround(g)
    <3>1. CASE StartWine(g)
      BY <3>1 DEF StartWine, prefixes
    <3>2. CASE DeletePrefix(g)
      BY <3>2 DEF DeletePrefix
    <3> QED BY <2>4, <3>1, <3>2 DEF LaunchAround, CheckRunner, TakeTemplateLock, SkipTemplate,
            KillLaunch, OrphanEnds, LeaveTemplate, prefixes
  <2> QED BY <1>1, <2>2, <2>3, <2>4
<1>2. CASE RunnerStep
  BY <1>0, <1>2, RunnerChanges DEF SeedsAreWhole, prefixes
<1>3. CASE CleanStep
  BY <1>0, <1>3, CleaningChanges DEF SeedsAreWhole, prefixes
<1> QED BY <1>1, <1>2, <1>3 DEF Next

-----------------------------------------------------------------------------
(* The theorems.                                                           *)

\* The invariant the others rest on: the locks, what a launch has in hand, and what the
\* record beside the template is worth.
THEOREM Inductive == Spec => []IInv
<1>1. Init => IInv
  <2> SUFFICES ASSUME Init PROVE IInv
    OBVIOUS
  <2>1. TypeOK
    BY TreeFacts, MaxVersionIsPositive DEF Init, TypeOK, LaunchSteps, AppSteps
  <2>2. LockInv /\ CleanInv /\ RecordInv /\ SeedsAreWhole
    BY DEF Init, LockInv, CleanInv, RecordInv, SeedsAreWhole, Seeding
  <2>3. HandInv
    BY DEF Init, HandInv, Hand, Building, Installing
  <2> QED BY <2>1, <2>2, <2>3 DEF IInv
<1>2. IInv /\ [Next]_vars => IInv'
  <2> SUFFICES ASSUME IInv, [Next]_vars PROVE IInv'
    OBVIOUS
  <2>1. CASE UNCHANGED vars
    BY <2>1 DEF IInv, TypeOK, LockInv, CleanInv, HandInv, Hand, Later, RecordInv, MadeBy,
       SeedsAreWhole, vars, runner, template, launch, prefixes, appSteps
  <2>2. CASE Next
    <3>1. TypeOK'
      BY <2>2, BuildType, CopyType, AroundType, AppType DEF Next, IInv
    <3>2. LockInv' /\ CleanInv'
      BY <2>2, LockStep, CleanInvStep DEF IInv
    <3>3. HandInv' /\ RecordInv' /\ SeedsAreWhole'
      BY <2>2, HandStep, RecordStep, SeedStep
    <3> QED BY <3>1, <3>2, <3>3 DEF IInv
  <2> QED BY <2>1, <2>2
<1> QED BY <1>1, <1>2, PTL DEF Spec

\* A template that a launch would take for one of the runner is whole and was made by it.
THEOREM TheRecordIsTrue == Spec => []ReadyIsTrue
<1>1. IInv => ReadyIsTrue
  <2> SUFFICES ASSUME IInv, present, ready = Identity PROVE MadeBy(pfx, version)
    BY DEF ReadyIsTrue
  <2>1. Identity \in Identities /\ Identity.version = version
    BY IdentityFacts DEF IInv, TypeOK
  <2>2. Identity # None
    BY <2>1, IdentityFacts
  <2> QED BY <2>1, <2>2 DEF IInv, RecordInv
<1> QED BY <1>1, Inductive, PTL

\* "a broken template is never used" (compat_run.sh:2171), whoever is killed, fails or
\* changes the runner meanwhile.
THEOREM NoBrokenTemplate == Spec => []SeedsAreWhole
BY Inductive, PTL DEF IInv

\* What a launch installs was made by the runner it identified, if that is still there.
THEOREM SeedsFit == Spec => []SeedIsOfThisRunner
<1>1. IInv => SeedIsOfThisRunner
  <2> SUFFICES ASSUME IInv, NEW g \in Games, pc[g] \in {"copied", "linking", "registered"},
                      taken[g].version = version
               PROVE  MadeBy(scratch[g], version)
    BY DEF SeedIsOfThisRunner
  <2>1. scratch[g].whole /\ Later(scratch[g], taken[g])
    BY DEF IInv, HandInv, Hand, Installing
  <2>2. version \in Nat /\ scratch[g] \in Trees
    BY DEF IInv, TypeOK
  <2> QED BY <2>1, <2>2, TreeFacts DEF MadeBy, Later
<1> QED BY <1>1, Inductive, PTL

\* A good template is kept: neither a launch that agrees on the runner nor the removal of
\* stale templates touches it.
THEOREM GoodTemplatesStay == Spec => GoodTemplateStays
<1>1. IInv /\ [Next]_vars =>
        (present /\ ready = Identity /\ (\A g \in Games : taken[g] \in {None, Identity})
            => UNCHANGED template)
  <2> SUFFICES ASSUME IInv, [Next]_vars, present, ready = Identity,
                      \A g \in Games : taken[g] \in {None, Identity}
               PROVE  UNCHANGED template
    OBVIOUS
  <2>1. Identity \in Identities /\ Identity.version = version /\ version # 0
    BY IdentityFacts DEF IInv, TypeOK
  <2>2. Identity # None
    BY <2>1, IdentityFacts
  <2>3. MadeBy(pfx, version) /\ HasReg(pfx)
    BY <2>1, <2>2 DEF IInv, RecordInv, MadeBy, HasReg
  <2>4. CASE UNCHANGED vars
    BY <2>4 DEF vars
  <2>5. ASSUME NEW g \in Games, LaunchAround(g) \/ BuildStep(g) \/ CopyStep(g)
        PROVE  UNCHANGED template
    <3>1. Hand(g) /\ pc[g] \notin Building
      BY <2>2 DEF IInv, HandInv, Hand
    <3>2. CASE BuildStep(g)
      <4>1. CASE ForgetReady(g)
        <5>1. taken[g] # None
          BY <3>1, <4>1 DEF ForgetReady, Go, Hand
        <5> QED BY <2>3, <4>1, <5>1 DEF ForgetReady
      <4> QED BY <3>1, <3>2, <4>1 DEF Building, BuildStep, TakeIdentity, NoIdentity, RemoveOld,
              CannotRemoveOld, BootTemplate, BootEnds, BuildFails, MoveTemplate, WriteReady,
              CannotWriteReady, LeaveTemplate, template, Go
    <3>3. CASE CopyStep(g)
      BY <3>3 DEF CopyStep, UseTemplate, CopyEnds, CopyFails, BeginLinks, LinkRegistry,
         LinkFails, LinkStamp, LeaveTemplate, template
    <3>4. CASE LaunchAround(g)
      BY <3>1, <3>4 DEF Building, LaunchAround, CheckRunner, TakeTemplateLock, SkipTemplate,
         StartWine, KillLaunch, OrphanEnds, DeletePrefix, LeaveTemplate, template
    <3> QED BY <2>5, <3>2, <3>3, <3>4
  <2>6. CASE RunnerStep
    BY <2>6, RunnerChanges DEF IInv
  <2>7. CASE CleanStep
    BY <2>7, CleaningChanges DEF IInv, CleanInv
  <2> QED BY <2>4, <2>5, <2>6, <2>7 DEF Next
<1>2. IInv /\ [Next]_vars =>
        [LET Good == present /\ ready = Identity
             Agreed == \A g \in Games : taken[g] \in {None, Identity}
         IN  Good /\ Agreed /\ present' /\ Identity' = Identity => UNCHANGED template]_vars
  BY <1>1
<1> QED BY <1>2, Inductive, PTL DEF Spec, GoodTemplateStays
=============================================================================
