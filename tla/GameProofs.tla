----------------------------- MODULE GameProofs -----------------------------
(***************************************************************************)
(* Proofs about CegService, for any number of games, calls and slots, and  *)
(* about SteamHelper at the end.                                           *)
(*                                                                         *)
(* OneHelper, PgidIsOurs and FilesAreRemoved follow from where a call is:  *)
(* LockInv says that a call inside np_ceg_service_call holds g_call_lock,  *)
(* HelperInv what its helper can be at each step, PgidInv when g_call_pgid *)
(* names it, FilesInv when its files can exist.  AnswerIsWhole needs that  *)
(* a helper that succeeded left no half output (AnswerInv).  The ring is   *)
(* filled in order until every slot is in use (RingInv).                   *)
(***************************************************************************)
EXTENDS CegService, SteamHelper, FiniteSetTheorems, WellFoundedInduction, TLAPS

LockInv ==
    \A c \in Calls : pc[c] \in Inside => callLock = c

HelperInv ==
    \A c \in Calls :
        /\ pc[c] \in {"idle", "waiting", "entered", "named", "written"} => helper[c] = "none"
        /\ pc[c] \in {"spawned", "watching", "looking", "killing"} =>
              helper[c] \in Zombies \cup {"running", "stolen"}
        /\ pc[c] \in {"exited", "reaping"} => helper[c] \in Zombies \cup {"stolen"}
        /\ pc[c] \in {"judging", "reading", "leaving", "done"} =>
              helper[c] \in {"none", "reaped", "stolen"}

PgidInv ==
    pgid # None => pc[pgid] \in {"watching", "looking", "killing", "exited"}

FilesInv ==
    \A c \in Calls : pc[c] \in {"idle", "waiting", "entered", "named", "done"} =>
        c \notin inFile /\ outFile[c] = "none"

AnswerInv ==
    \A c \in Calls :
        /\ helper[c] = "zombie ok" => outFile[c] # "half"
        /\ status[c] = "ok" => outFile[c] # "half" /\ pc[c] \in {"judging", "reading", "leaving"}
        /\ pc[c] = "judging" => status[c] # "none"
        /\ pc[c] = "reading" => status[c] \in {"ok", "unknown"} /\ outFile[c] # "big"
        /\ result[c] = "ok" => /\ pc[c] = "leaving"
                               /\ got[c] = "whole" \/ status[c] = "unknown"

LoaderInv ==
    /\ ready => hook /\ loader = "ended"
    /\ loader = "hooked" => hook
    /\ job # None => ready
    /\ taken => ready

RingInv ==
    /\ OneSlotEach
    /\ \/ \A i \in Indices : slots[i].app # None
       \/ next < NumSlots /\ \A i \in Indices : slots[i].app # None <=> i < next

\* A slot is a record of its three fields.
LEMMA SlotFields ==
    ASSUME NEW a \in Apps \cup {None}, NEW t \in BOOLEAN, NEW f \in BOOLEAN
    PROVE  /\ [app |-> a, tool |-> t, folder |-> f] \in Slot
           /\ [app |-> a, tool |-> t, folder |-> f].app = a
BY DEF Slot

\* A remainder is below its divisor, and a number below the divisor is its own remainder.
LEMMA Remainder ==
    ASSUME NEW n \in Nat, NEW d \in Nat, d # 0
    PROVE  n % d \in 0 .. d - 1
OBVIOUS

\* A number below the divisor is its own remainder.
LEMMA SmallRemainder ==
    ASSUME NEW n \in Nat, NEW d \in Nat, d # 0, n < d
    PROVE  n % d = n
OBVIOUS

\* The index of the next slot is one, and is the counter itself in the first round.
LEMMA NextIndex ==
    ASSUME NEW n \in Nat
    PROVE  /\ n % NumSlots \in Indices
           /\ n < NumSlots => n % NumSlots = n
           /\ n % Wrap \in 0 .. Wrap - 1
           /\ n < Wrap => n % Wrap = n
<1>1. NumSlots \in Nat /\ NumSlots # 0 /\ Wrap \in Nat /\ Wrap # 0
  BY RingFits
<1>2. n % NumSlots \in 0 .. NumSlots - 1 /\ n % Wrap \in 0 .. Wrap - 1
  BY <1>1, Remainder
<1>3. (n < NumSlots => n % NumSlots = n) /\ (n < Wrap => n % Wrap = n)
  BY <1>1, SmallRemainder
<1> QED
  BY <1>2, <1>3 DEF Indices

\* slot_for answers with an index, the game's own or that of the next slot.
LEMMA SlotForIndex ==
    ASSUME TypeOK, NEW a \in Apps
    PROVE  /\ SlotFor(a) \in Indices
           /\ SlotsOf(a) # {} => slots[SlotFor(a)].app = a
           /\ SlotsOf(a) = {} => SlotFor(a) = next % NumSlots
           /\ Turn(a) \in 0 .. Wrap - 1
<1>1. next \in Nat /\ next + 1 \in Nat
  <2>1. next \in 0 .. Wrap - 1
    BY DEF TypeOK
  <2>2. Wrap \in Nat
    BY RingFits
  <2> QED
    BY <2>1, <2>2
<1>2. next % NumSlots \in Indices /\ (next + 1) % Wrap \in 0 .. Wrap - 1
  BY <1>1, NextIndex
<1>3. CASE SlotsOf(a) = {}
  BY <1>2, <1>3 DEF SlotFor, Turn
<1>4. CASE SlotsOf(a) # {}
  <2>1. SlotFor(a) \in SlotsOf(a)
    BY <1>4 DEF SlotFor
  <2>2. Turn(a) = next
    BY <1>4 DEF Turn
  <2> QED
    BY <2>1, <2>2, <1>4 DEF SlotsOf, TypeOK
<1> QED
  BY <1>3, <1>4

-----------------------------------------------------------------------------
(* Types.                                                                  *)

\* Everything but the ring, which has an argument of its own.
OtherTypes ==
    /\ loader \in {"waiting", "absent", "client", "bound", "hooked", "ended"}
    /\ hook \in BOOLEAN /\ ready \in BOOLEAN
    /\ fini \in {"up", "flagged", "killed", "unlinked", "gone"}
    /\ stopping \in BOOLEAN
    /\ job \in Apps \cup {None}
    /\ taken \in BOOLEAN

RingTypes == slots \in [Indices -> Slot] /\ next \in 0 .. Wrap - 1

CallTypes ==
    /\ pc \in [Calls -> CallSteps]
    /\ callLock \in Calls \cup {None}
    /\ active \in Calls \cup {None}
    /\ pgid \in Calls \cup {None}
    /\ late \subseteq Calls
    /\ status \in [Calls -> {"none", "ok", "bad", "unknown"}]
    /\ result \in [Calls -> {"none", "ok", "failed", "too big"}]
    /\ got \in [Calls -> Outputs]
    /\ helper \in [Calls -> HelperStates]
    /\ inFile \subseteq Calls
    /\ outFile \in [Calls -> Outputs]

\* The type invariant in the three parts the steps are looked at by.
LEMMA TypeParts == TypeOK <=> OtherTypes /\ RingTypes /\ CallTypes
BY DEF TypeOK, OtherTypes, RingTypes, CallTypes

\* What CallStep leaves alone.
LEMMA CallsKeepTheRest ==
    ASSUME NEW c \in Calls,
           BeginCall(c) \/ RefuseCall(c) \/ CallStep(c) \/ HelperStep(c) \/ SteamReaps(c)
              \/ Deadline(c)
    PROVE  UNCHANGED <<loader, hook, ready, fini, stopping, slots, next, job, taken>>
BY DEF BeginCall, RefuseCall, CallStep, HelperStep, SteamReaps, Deadline, EnterCall,
       NameFiles, WriteInput, CannotRun, SpawnHelper, SetCallPgid, PollHelper, KeepWaiting,
       EndHelper, KillHelper, ForgetPgid, Reap, JudgeCall, AcceptEmpty, ReadOutput, CannotRead,
       FinishCall, HelperWrites, HelperSucceeds, HelperFails, loaderVars, finiVars, ringVars

\* What the install thread and the jobs leave alone.
LEMMA InstallKeepsTheRest ==
    ASSUME InstallStep
    PROVE  UNCHANGED <<fini, stopping, slots, next, job, taken, lockVars, callVars, worldVars>>
BY DEF InstallStep, InstallClient, NoClient, BindService, NoService, HookService, HookFails,
       ServiceInstalled, finiVars, ringVars

\* What the jobs of an app leave alone.
LEMMA JobsKeepTheRest ==
    ASSUME NEW a \in Apps, JobStep(a)
    PROVE  UNCHANGED <<loader, hook, ready, fini, stopping, lockVars, callVars, worldVars>>
BY DEF JobStep, NoteTool, LookUpTool, TakeJob, LeaveJob, loaderVars, finiVars

\* What np_fini leaves alone.
LEMMA FiniKeepsTheRest ==
    ASSUME FiniStep
    PROVE  UNCHANGED <<loader, hook, ready, slots, next, job, taken, lockVars, callVars>>
BY DEF FiniStep, SetStopping, StopHelper, RemoveActive, SteamExits, loaderVars, ringVars

-----------------------------------------------------------------------------
(* The ring.                                                               *)

\* A note takes the place of one slot only.
LEMMA NoteToolKeepsRing ==
    ASSUME TypeOK, RingInv, NEW a \in Apps, NoteTool(a)
    PROVE  RingTypes' /\ RingInv'
<1>1. PICK t \in BOOLEAN :
          slots' = [slots EXCEPT ![SlotFor(a)] = [app |-> a, tool |-> t, folder |-> FALSE]]
  BY DEF NoteTool
<1>2. next' = Turn(a)
  BY DEF NoteTool
<1> DEFINE i0 == SlotFor(a)
           new == [app |-> a, tool |-> t, folder |-> FALSE]
<1>3. new \in Slot /\ new.app = a /\ a # None
  BY SlotFields, NoneIsApart
<1>4. i0 \in Indices /\ slots \in [Indices -> Slot] /\ next \in 0 .. Wrap - 1
  BY SlotForIndex DEF TypeOK
<1>5. RingTypes'
  <2>1. Turn(a) \in 0 .. Wrap - 1
    BY SlotForIndex
  <2> HIDE DEF i0, new
  <2> QED
    BY <1>1, <1>2, <1>3, <1>4, <2>1 DEF RingTypes, i0, new
<1>6. \A i \in Indices : slots'[i].app = IF i = i0 THEN a ELSE slots[i].app
  <2> HIDE DEF i0, new
  <2>1. slots' = [slots EXCEPT ![i0] = new]
    BY <1>1 DEF i0, new
  <2> QED
    BY <2>1, <1>3, <1>4
<1>7. CASE SlotsOf(a) # {}
  <2>1. slots[i0].app = a
    BY <1>7, SlotForIndex
  <2>2. next' = next
    BY <1>2, <1>7 DEF Turn
  <2> HIDE DEF i0, new
  <2>3. \A i \in Indices : slots'[i].app = slots[i].app
    BY <1>6, <2>1
  <2>4. OneSlotEach'
    BY <2>3 DEF RingInv, OneSlotEach
  <2> QED
    BY <1>5, <2>2, <2>3, <2>4 DEF RingInv
<1>8. CASE SlotsOf(a) = {}
  <2>1. i0 = next % NumSlots /\ \A i \in Indices : slots[i].app # a
    BY <1>8, SlotForIndex DEF SlotsOf
  <2>2. next' = (next + 1) % Wrap
    BY <1>2, <1>8 DEF Turn
  <2>3. next \in Nat /\ next + 1 \in Nat /\ NumSlots \in Nat /\ Wrap \in Nat /\ NumSlots <= Wrap
    BY <1>4, RingFits
  <2>4. (next < NumSlots => next % NumSlots = next) /\ (next + 1 < Wrap => (next + 1) % Wrap = next + 1)
    BY <2>3, NextIndex
  <2> HIDE DEF i0, new
  <2>5. OneSlotEach'
    BY <1>6, <2>1 DEF RingInv, OneSlotEach
  <2>6. CASE \A i \in Indices : slots[i].app # None
    BY <1>3, <1>5, <1>6, <2>5, <2>6 DEF RingInv
  <2>7. CASE next < NumSlots /\ \A i \in Indices : slots[i].app # None <=> i < next
    <3>1. i0 = next
      BY <2>1, <2>4, <2>7
    <3>2. \A i \in Indices : slots'[i].app # None <=> i < next + 1
      BY <1>3, <1>6, <2>3, <2>7, <3>1 DEF Indices
    <3>3. CASE next + 1 < NumSlots
      BY <1>5, <2>2, <2>3, <2>4, <2>5, <3>2, <3>3 DEF RingInv
    <3>4. CASE next + 1 = NumSlots
      BY <1>5, <2>3, <2>5, <3>2, <3>4 DEF RingInv, Indices
    <3> QED
      BY <2>3, <2>7, <3>3, <3>4
  <2> QED
    BY <2>6, <2>7 DEF RingInv
<1> QED
  BY <1>7, <1>8

\* A job that is taken marks the folders of its app's tools.
LEMMA TakeJobKeepsRing ==
    ASSUME TypeOK, RingInv, NEW a \in Apps, TakeJob(a)
    PROVE  RingTypes' /\ RingInv'
<1>1. next' = next /\ slots' = [i \in Indices |->
          IF i \in SlotsOf(a) /\ slots[i].tool THEN [slots[i] EXCEPT !.folder = TRUE] ELSE slots[i]]
  BY DEF TakeJob
<1>2. ASSUME NEW s \in Slot
      PROVE  [s EXCEPT !.folder = TRUE] \in Slot /\ [s EXCEPT !.folder = TRUE].app = s.app
  BY DEF Slot
<1>3. RingTypes'
  BY <1>1, <1>2 DEF TypeOK, RingTypes
<1>4. \A i \in Indices : slots'[i].app = slots[i].app
  BY <1>1, <1>2 DEF TypeOK
<1> QED
  BY <1>1, <1>3, <1>4 DEF RingInv, OneSlotEach

-----------------------------------------------------------------------------
(* Calls and their helpers.                                                *)

\* The steps of a call and of its helper keep the types.
LEMMA CallsKeepTypes ==
    ASSUME CallTypes, NEW c \in Calls,
           BeginCall(c) \/ RefuseCall(c) \/ CallStep(c) \/ HelperStep(c) \/ SteamReaps(c)
              \/ Deadline(c)
    PROVE  CallTypes'
<1>1. CASE BeginCall(c) \/ RefuseCall(c)
  BY <1>1 DEF BeginCall, RefuseCall, Step, lockVars, callVars, worldVars, CallTypes,
     CallSteps, Inside, HelperStates, Zombies, Outputs
<1>2. CASE EnterCall(c)
  BY <1>2 DEF EnterCall, Step, lockVars, callVars, worldVars, CallTypes, CallSteps,
     Inside, HelperStates, Zombies, Outputs
<1>3. CASE NameFiles(c) \/ WriteInput(c) \/ CannotRun(c)
  BY <1>3 DEF NameFiles, WriteInput, CannotRun, Step, Leave, lockVars, callVars,
     worldVars, CallTypes, CallSteps, Inside, HelperStates, Zombies, Outputs
<1>4. CASE SpawnHelper(c) \/ SetCallPgid(c)
  BY <1>4 DEF SpawnHelper, SetCallPgid, Step, lockVars, callVars, worldVars, CallTypes,
     CallSteps, Inside, HelperStates, Zombies, Outputs
<1>5. CASE PollHelper(c)
  BY <1>5 DEF PollHelper, Step, lockVars, callVars, worldVars, CallTypes, CallSteps,
     Inside, HelperStates, Zombies, Outputs
<1>6. CASE KeepWaiting(c) \/ EndHelper(c)
  BY <1>6 DEF KeepWaiting, EndHelper, Step, lockVars, callVars, worldVars, CallTypes,
     CallSteps, Inside, HelperStates, Zombies, Outputs
<1>7. CASE KillHelper(c)
  BY <1>7 DEF KillHelper, Step, Killed, lockVars, callVars, worldVars, CallTypes,
     CallSteps, Inside, HelperStates, Zombies, Outputs
<1>8. CASE ForgetPgid(c)
  BY <1>8 DEF ForgetPgid, Step, lockVars, callVars, worldVars, CallTypes, CallSteps,
     Inside, HelperStates, Zombies, Outputs
<1>9. CASE Reap(c)
  BY <1>9 DEF Reap, Step, lockVars, callVars, worldVars, CallTypes, CallSteps, Inside,
     HelperStates, Zombies, Outputs
<1>10. CASE JudgeCall(c)
  BY <1>10 DEF JudgeCall, Step, Leave, lockVars, callVars, worldVars, CallTypes,
     CallSteps, Inside, HelperStates, Zombies, Outputs
<1>11. CASE AcceptEmpty(c)
  BY <1>11 DEF AcceptEmpty, Step, Leave, lockVars, callVars, worldVars, CallTypes,
     CallSteps, Inside, HelperStates, Zombies, Outputs
<1>12. CASE ReadOutput(c) \/ CannotRead(c)
  BY <1>12 DEF ReadOutput, CannotRead, Step, Leave, lockVars, callVars, worldVars,
     CallTypes, CallSteps, Inside, HelperStates, Zombies, Outputs
<1>13. CASE FinishCall(c)
  BY <1>13 DEF FinishCall, Step, Return, lockVars, callVars, worldVars, CallTypes,
     CallSteps, Inside, HelperStates, Zombies, Outputs
<1>14. CASE HelperWrites(c) \/ HelperFails(c)
  BY <1>14 DEF HelperWrites, HelperFails, lockVars, callVars, worldVars, CallTypes,
     CallSteps, Inside, HelperStates, Zombies, Outputs
<1>15. CASE HelperSucceeds(c)
  <2>1. PICK o \in {"none", "whole", "big"} : outFile' = [outFile EXCEPT ![c] = o]
    BY <1>15 DEF HelperSucceeds
  <2> QED
    BY <1>15, <2>1 DEF HelperSucceeds, lockVars, callVars, CallTypes, HelperStates, Zombies,
       Outputs
<1>16. CASE SteamReaps(c) \/ Deadline(c)
  BY <1>16 DEF SteamReaps, Deadline, lockVars, callVars, worldVars, CallTypes,
     CallSteps, Inside, HelperStates, Zombies, Outputs
<1> QED
  BY <1>1, <1>2, <1>3, <1>4, <1>5, <1>6, <1>7, <1>8, <1>9, <1>10, <1>11, <1>12, <1>13,
     <1>14, <1>15, <1>16 DEF CallStep, HelperStep

\* A call enters when no other is inside, and gives the lock up when it leaves.
LEMMA CallsKeepLock ==
    ASSUME CallTypes, LockInv, NEW c \in Calls,
           BeginCall(c) \/ RefuseCall(c) \/ CallStep(c) \/ HelperStep(c) \/ SteamReaps(c)
              \/ Deadline(c)
    PROVE  LockInv'
<1>1. CASE BeginCall(c) \/ RefuseCall(c)
  BY <1>1 DEF BeginCall, RefuseCall, Step, lockVars, callVars, worldVars, CallTypes,
     LockInv, Inside
<1>2. CASE EnterCall(c)
  <2>1. \A d \in Calls : pc[d] \notin Inside
    BY <1>2, NoneIsApart DEF EnterCall, LockInv
  <2>2. callLock' = c /\ \A d \in Calls : d # c => pc'[d] = pc[d]
    BY <1>2 DEF EnterCall, Step, CallTypes
  <2> QED
    BY <2>1, <2>2 DEF LockInv
<1>3. CASE NameFiles(c) \/ WriteInput(c) \/ CannotRun(c)
  BY <1>3 DEF NameFiles, WriteInput, CannotRun, Step, Leave, lockVars, callVars,
     worldVars, CallTypes, LockInv, Inside
<1>4. CASE SpawnHelper(c) \/ SetCallPgid(c)
  BY <1>4 DEF SpawnHelper, SetCallPgid, Step, lockVars, callVars, worldVars, CallTypes,
     LockInv, Inside
<1>5. CASE PollHelper(c)
  BY <1>5 DEF PollHelper, Step, lockVars, callVars, worldVars, CallTypes, LockInv,
     Inside
<1>6. CASE KeepWaiting(c) \/ EndHelper(c)
  BY <1>6 DEF KeepWaiting, EndHelper, Step, lockVars, callVars, worldVars, CallTypes,
     LockInv, Inside
<1>7. CASE KillHelper(c)
  BY <1>7 DEF KillHelper, Step, Killed, lockVars, callVars, worldVars, CallTypes,
     LockInv, Inside
<1>8. CASE ForgetPgid(c)
  BY <1>8 DEF ForgetPgid, Step, lockVars, callVars, worldVars, CallTypes, LockInv,
     Inside
<1>9. CASE Reap(c)
  BY <1>9 DEF Reap, Step, lockVars, callVars, worldVars, CallTypes, LockInv, Inside
<1>10. CASE JudgeCall(c)
  BY <1>10 DEF JudgeCall, Step, Leave, lockVars, callVars, worldVars, CallTypes,
     LockInv, Inside
<1>11. CASE AcceptEmpty(c)
  BY <1>11 DEF AcceptEmpty, Step, Leave, lockVars, callVars, worldVars, CallTypes,
     LockInv, Inside
<1>12. CASE ReadOutput(c) \/ CannotRead(c)
  BY <1>12 DEF ReadOutput, CannotRead, Step, Leave, lockVars, callVars, worldVars,
     CallTypes, LockInv, Inside
<1>13. CASE FinishCall(c)
  BY <1>13 DEF FinishCall, Step, Return, lockVars, callVars, worldVars, CallTypes,
     LockInv, Inside
<1>14. CASE HelperWrites(c) \/ HelperFails(c)
  BY <1>14 DEF HelperWrites, HelperFails, lockVars, callVars, worldVars, CallTypes,
     LockInv, Inside
<1>15. CASE HelperSucceeds(c)
  BY <1>15 DEF HelperSucceeds, lockVars, callVars, worldVars, CallTypes, LockInv, Inside
<1>16. CASE SteamReaps(c) \/ Deadline(c)
  BY <1>16 DEF SteamReaps, Deadline, lockVars, callVars, worldVars, CallTypes, LockInv,
     Inside
<1> QED
  BY <1>1, <1>2, <1>3, <1>4, <1>5, <1>6, <1>7, <1>8, <1>9, <1>10, <1>11, <1>12, <1>13,
     <1>14, <1>15, <1>16 DEF CallStep, HelperStep

\* At each step of a call its helper is what that step takes it for.
LEMMA CallsKeepHelper ==
    ASSUME CallTypes, HelperInv, NEW c \in Calls,
           BeginCall(c) \/ RefuseCall(c) \/ CallStep(c) \/ HelperStep(c) \/ SteamReaps(c)
              \/ Deadline(c)
    PROVE  HelperInv'
<1>1. CASE BeginCall(c) \/ RefuseCall(c)
  BY <1>1 DEF BeginCall, RefuseCall, Step, lockVars, callVars, worldVars, CallTypes,
     HelperInv, Zombies
<1>2. CASE EnterCall(c)
  BY <1>2 DEF EnterCall, Step, lockVars, callVars, worldVars, CallTypes, HelperInv,
     Zombies
<1>3. CASE NameFiles(c) \/ WriteInput(c) \/ CannotRun(c)
  BY <1>3 DEF NameFiles, WriteInput, CannotRun, Step, Leave, lockVars, callVars,
     worldVars, CallTypes, HelperInv, Zombies
<1>4. CASE SpawnHelper(c)
  BY <1>4 DEF SpawnHelper, Step, lockVars, callVars, worldVars, CallTypes, HelperInv,
     Zombies
<1>5. CASE SetCallPgid(c)
  BY <1>5 DEF SetCallPgid, Step, lockVars, callVars, worldVars, CallTypes, HelperInv,
     Zombies
<1>6. CASE PollHelper(c)
  BY <1>6 DEF PollHelper, Step, lockVars, callVars, worldVars, CallTypes, HelperInv,
     Zombies
<1>7. CASE KeepWaiting(c) \/ EndHelper(c)
  BY <1>7 DEF KeepWaiting, EndHelper, Step, lockVars, callVars, worldVars, CallTypes,
     HelperInv, Zombies
<1>8. CASE KillHelper(c)
  BY <1>8 DEF KillHelper, Step, Killed, lockVars, callVars, worldVars, CallTypes,
     HelperInv, Zombies
<1>9. CASE ForgetPgid(c)
  BY <1>9 DEF ForgetPgid, Step, lockVars, callVars, worldVars, CallTypes, HelperInv,
     Zombies
<1>10. CASE Reap(c)
  BY <1>10 DEF Reap, Step, lockVars, callVars, worldVars, CallTypes, HelperInv, Zombies
<1>11. CASE JudgeCall(c)
  BY <1>11 DEF JudgeCall, Step, Leave, lockVars, callVars, worldVars, CallTypes,
     HelperInv, Zombies
<1>12. CASE AcceptEmpty(c)
  BY <1>12 DEF AcceptEmpty, Step, Leave, lockVars, callVars, worldVars, CallTypes,
     HelperInv, Zombies
<1>13. CASE ReadOutput(c) \/ CannotRead(c)
  BY <1>13 DEF ReadOutput, CannotRead, Step, Leave, lockVars, callVars, worldVars,
     CallTypes, HelperInv, Zombies
<1>14. CASE FinishCall(c)
  BY <1>14 DEF FinishCall, Step, Return, lockVars, callVars, worldVars, CallTypes,
     HelperInv, Zombies
<1>15. CASE HelperWrites(c) \/ HelperFails(c)
  BY <1>15 DEF HelperWrites, HelperFails, lockVars, callVars, worldVars, CallTypes,
     HelperInv, Zombies
<1>16. CASE HelperSucceeds(c)
  BY <1>16 DEF HelperSucceeds, lockVars, callVars, worldVars, CallTypes, HelperInv,
     Zombies
<1>17. CASE SteamReaps(c) \/ Deadline(c)
  BY <1>17 DEF SteamReaps, Deadline, lockVars, callVars, worldVars, CallTypes,
     HelperInv, Zombies
<1> QED
  BY <1>1, <1>2, <1>3, <1>4, <1>5, <1>6, <1>7, <1>8, <1>9, <1>10, <1>11, <1>12, <1>13,
     <1>14, <1>15, <1>16, <1>17 DEF CallStep, HelperStep

\* g_call_pgid is set after the start of the helper and cleared before it is reaped.
LEMMA CallsKeepPgid ==
    ASSUME CallTypes, LockInv, PgidInv, NEW c \in Calls,
           BeginCall(c) \/ RefuseCall(c) \/ CallStep(c) \/ HelperStep(c) \/ SteamReaps(c)
              \/ Deadline(c)
    PROVE  PgidInv'
<1>1. CASE BeginCall(c) \/ RefuseCall(c)
  BY <1>1 DEF BeginCall, RefuseCall, Step, lockVars, callVars, worldVars, CallTypes,
     LockInv, PgidInv, Inside
<1>2. CASE EnterCall(c)
  BY <1>2 DEF EnterCall, Step, lockVars, callVars, worldVars, CallTypes, LockInv,
     PgidInv, Inside
<1>3. CASE NameFiles(c) \/ WriteInput(c) \/ CannotRun(c)
  BY <1>3 DEF NameFiles, WriteInput, CannotRun, Step, Leave, lockVars, callVars,
     worldVars, CallTypes, LockInv, PgidInv, Inside
<1>4. CASE SpawnHelper(c) \/ SetCallPgid(c)
  BY <1>4 DEF SpawnHelper, SetCallPgid, Step, lockVars, callVars, worldVars, CallTypes,
     LockInv, PgidInv, Inside
<1>5. CASE PollHelper(c)
  <2>1. CASE helper[c] = "stolen"
    BY <1>5, <2>1 DEF PollHelper, PgidInv
  <2>2. CASE helper[c] # "stolen"
    <3>1. pgid' = pgid /\ \A d \in Calls : d # c => pc'[d] = pc[d]
      BY <1>5, <2>2 DEF PollHelper, Step, CallTypes
    <3>2. pc'[c] \in {"exited", "looking"}
      BY <1>5, <2>2 DEF PollHelper, Step, CallTypes
    <3> QED
      BY <3>1, <3>2 DEF PgidInv, CallTypes
  <2> QED
    BY <2>1, <2>2
<1>6. CASE KeepWaiting(c)
  BY <1>6 DEF KeepWaiting, Step, lockVars, callVars, worldVars, CallTypes, LockInv,
     PgidInv, Inside
<1>7. CASE EndHelper(c)
  BY <1>7 DEF EndHelper, Step, lockVars, callVars, worldVars, CallTypes, LockInv,
     PgidInv, Inside
<1>8. CASE KillHelper(c)
  BY <1>8 DEF KillHelper, Step, Killed, lockVars, callVars, worldVars, CallTypes,
     LockInv, PgidInv, Inside
<1>9. CASE ForgetPgid(c)
  BY <1>9 DEF ForgetPgid, Step, lockVars, callVars, worldVars, CallTypes, LockInv,
     PgidInv, Inside
<1>10. CASE Reap(c)
  BY <1>10 DEF Reap, Step, lockVars, callVars, worldVars, CallTypes, LockInv, PgidInv,
     Inside
<1>11. CASE JudgeCall(c)
  BY <1>11 DEF JudgeCall, Step, Leave, lockVars, callVars, worldVars, CallTypes,
     LockInv, PgidInv, Inside
<1>12. CASE AcceptEmpty(c)
  BY <1>12 DEF AcceptEmpty, Step, Leave, lockVars, callVars, worldVars, CallTypes,
     LockInv, PgidInv, Inside
<1>13. CASE ReadOutput(c) \/ CannotRead(c)
  BY <1>13 DEF ReadOutput, CannotRead, Step, Leave, lockVars, callVars, worldVars,
     CallTypes, LockInv, PgidInv, Inside
<1>14. CASE FinishCall(c)
  BY <1>14 DEF FinishCall, Step, Return, lockVars, callVars, worldVars, CallTypes,
     LockInv, PgidInv, Inside
<1>15. CASE HelperWrites(c) \/ HelperFails(c)
  BY <1>15 DEF HelperWrites, HelperFails, lockVars, callVars, worldVars, CallTypes,
     LockInv, PgidInv, Inside
<1>16. CASE HelperSucceeds(c)
  BY <1>16 DEF HelperSucceeds, lockVars, callVars, worldVars, CallTypes, LockInv,
     PgidInv, Inside
<1>17. CASE SteamReaps(c) \/ Deadline(c)
  BY <1>17 DEF SteamReaps, Deadline, lockVars, callVars, worldVars, CallTypes, LockInv,
     PgidInv, Inside
<1> QED
  BY <1>1, <1>2, <1>3, <1>4, <1>5, <1>6, <1>7, <1>8, <1>9, <1>10, <1>11, <1>12, <1>13,
     <1>14, <1>15, <1>16, <1>17 DEF CallStep, HelperStep

\* Files exist only between the writing of the input and the end of the call.
LEMMA CallsKeepFiles ==
    ASSUME CallTypes, HelperInv, FilesInv, NEW c \in Calls,
           BeginCall(c) \/ RefuseCall(c) \/ CallStep(c) \/ HelperStep(c) \/ SteamReaps(c)
              \/ Deadline(c)
    PROVE  FilesInv'
<1>1. CASE BeginCall(c) \/ RefuseCall(c)
  BY <1>1 DEF BeginCall, RefuseCall, Step, lockVars, callVars, worldVars, CallTypes,
     HelperInv, FilesInv, Zombies
<1>2. CASE EnterCall(c)
  BY <1>2 DEF EnterCall, Step, lockVars, callVars, worldVars, CallTypes, HelperInv,
     FilesInv, Zombies
<1>3. CASE NameFiles(c)
  BY <1>3 DEF NameFiles, Step, lockVars, callVars, worldVars, CallTypes, HelperInv,
     FilesInv, Zombies
<1>4. CASE WriteInput(c)
  BY <1>4 DEF WriteInput, Step, lockVars, callVars, worldVars, CallTypes, HelperInv,
     FilesInv, Zombies
<1>5. CASE CannotRun(c)
  BY <1>5 DEF CannotRun, Step, Leave, lockVars, callVars, worldVars, CallTypes,
     HelperInv, FilesInv, Zombies
<1>6. CASE SpawnHelper(c) \/ SetCallPgid(c)
  BY <1>6 DEF SpawnHelper, SetCallPgid, Step, lockVars, callVars, worldVars, CallTypes,
     HelperInv, FilesInv, Zombies
<1>7. CASE PollHelper(c)
  BY <1>7 DEF PollHelper, Step, lockVars, callVars, worldVars, CallTypes, HelperInv,
     FilesInv, Zombies
<1>8. CASE KeepWaiting(c) \/ EndHelper(c)
  BY <1>8 DEF KeepWaiting, EndHelper, Step, lockVars, callVars, worldVars, CallTypes,
     HelperInv, FilesInv, Zombies
<1>9. CASE KillHelper(c)
  BY <1>9 DEF KillHelper, Step, Killed, lockVars, callVars, worldVars, CallTypes,
     HelperInv, FilesInv, Zombies
<1>10. CASE ForgetPgid(c)
  BY <1>10 DEF ForgetPgid, Step, lockVars, callVars, worldVars, CallTypes, HelperInv,
     FilesInv, Zombies
<1>11. CASE Reap(c)
  BY <1>11 DEF Reap, Step, lockVars, callVars, worldVars, CallTypes, HelperInv,
     FilesInv, Zombies
<1>12. CASE JudgeCall(c)
  BY <1>12 DEF JudgeCall, Step, Leave, lockVars, callVars, worldVars, CallTypes,
     HelperInv, FilesInv, Zombies
<1>13. CASE AcceptEmpty(c)
  BY <1>13 DEF AcceptEmpty, Step, Leave, lockVars, callVars, worldVars, CallTypes,
     HelperInv, FilesInv, Zombies
<1>14. CASE ReadOutput(c) \/ CannotRead(c)
  BY <1>14 DEF ReadOutput, CannotRead, Step, Leave, lockVars, callVars, worldVars,
     CallTypes, HelperInv, FilesInv, Zombies
<1>15. CASE FinishCall(c)
  BY <1>15 DEF FinishCall, Step, Return, lockVars, callVars, worldVars, CallTypes,
     HelperInv, FilesInv, Zombies
<1>16. CASE HelperWrites(c) \/ HelperFails(c)
  BY <1>16 DEF HelperWrites, HelperFails, lockVars, callVars, worldVars, CallTypes,
     HelperInv, FilesInv, Zombies
<1>17. CASE HelperSucceeds(c)
  BY <1>17 DEF HelperSucceeds, lockVars, callVars, worldVars, CallTypes, HelperInv,
     FilesInv, Zombies
<1>18. CASE SteamReaps(c) \/ Deadline(c)
  BY <1>18 DEF SteamReaps, Deadline, lockVars, callVars, worldVars, CallTypes,
     HelperInv, FilesInv, Zombies
<1> QED
  BY <1>1, <1>2, <1>3, <1>4, <1>5, <1>6, <1>7, <1>8, <1>9, <1>10, <1>11, <1>12, <1>13,
     <1>14, <1>15, <1>16, <1>17, <1>18 DEF CallStep, HelperStep

\* An exit status of 0 goes with an output that is not half written, up to the end.
LEMMA CallsKeepAnswer ==
    ASSUME CallTypes, HelperInv, AnswerInv, NEW c \in Calls,
           BeginCall(c) \/ RefuseCall(c) \/ CallStep(c) \/ HelperStep(c) \/ SteamReaps(c)
              \/ Deadline(c)
    PROVE  AnswerInv'
<1>1. CASE BeginCall(c)
  BY <1>1 DEF BeginCall, Step, lockVars, callVars, worldVars, CallTypes, HelperInv,
     AnswerInv, Zombies, Outputs
<1>2. CASE RefuseCall(c)
  BY <1>2 DEF RefuseCall, Step, lockVars, callVars, worldVars, CallTypes, HelperInv,
     AnswerInv, Zombies, Outputs
<1>3. CASE EnterCall(c)
  BY <1>3 DEF EnterCall, Step, lockVars, callVars, worldVars, CallTypes, HelperInv,
     AnswerInv, Zombies, Outputs
<1>4. CASE NameFiles(c)
  BY <1>4 DEF NameFiles, Step, lockVars, callVars, worldVars, CallTypes, HelperInv,
     AnswerInv, Zombies, Outputs
<1>5. CASE WriteInput(c)
  BY <1>5 DEF WriteInput, Step, lockVars, callVars, worldVars, CallTypes, HelperInv,
     AnswerInv, Zombies, Outputs
<1>6. CASE CannotRun(c)
  BY <1>6 DEF CannotRun, Step, Leave, lockVars, callVars, worldVars, CallTypes,
     HelperInv, AnswerInv, Zombies, Outputs
<1>7. CASE SpawnHelper(c)
  BY <1>7 DEF SpawnHelper, Step, lockVars, callVars, worldVars, CallTypes, HelperInv,
     AnswerInv, Zombies, Outputs
<1>8. CASE SetCallPgid(c)
  BY <1>8 DEF SetCallPgid, Step, lockVars, callVars, worldVars, CallTypes, HelperInv,
     AnswerInv, Zombies, Outputs
<1>9. CASE PollHelper(c)
  <2>1. CASE helper[c] = "stolen"
    BY <1>9, <2>1 DEF PollHelper, Step, callVars, worldVars, CallTypes, AnswerInv
  <2>2. CASE helper[c] # "stolen"
    BY <1>9, <2>2 DEF PollHelper, Step, callVars, worldVars, CallTypes, AnswerInv, Zombies
  <2> QED
    BY <2>1, <2>2
<1>10. CASE KeepWaiting(c)
  BY <1>10 DEF KeepWaiting, Step, lockVars, callVars, worldVars, CallTypes, HelperInv,
     AnswerInv, Zombies, Outputs
<1>11. CASE EndHelper(c)
  BY <1>11 DEF EndHelper, Step, lockVars, callVars, worldVars, CallTypes, HelperInv,
     AnswerInv, Zombies, Outputs
<1>12. CASE KillHelper(c)
  BY <1>12 DEF KillHelper, Step, Killed, lockVars, callVars, worldVars, CallTypes,
     HelperInv, AnswerInv, Zombies, Outputs
<1>13. CASE ForgetPgid(c)
  BY <1>13 DEF ForgetPgid, Step, lockVars, callVars, worldVars, CallTypes, HelperInv,
     AnswerInv, Zombies, Outputs
<1>14. CASE Reap(c)
  BY <1>14 DEF Reap, Step, lockVars, callVars, worldVars, CallTypes, HelperInv,
     AnswerInv, Zombies, Outputs
<1>15. CASE JudgeCall(c)
  <2>1. CASE status[c] = "bad" \/ outFile[c] \in {"none", "big"}
    BY <1>15, <2>1 DEF JudgeCall, Leave, Step, worldVars, CallTypes, AnswerInv
  <2>2. CASE ~(status[c] = "bad" \/ outFile[c] \in {"none", "big"})
    BY <1>15, <2>2 DEF JudgeCall, Step, worldVars, CallTypes, AnswerInv
  <2> QED
    BY <2>1, <2>2
<1>16. CASE AcceptEmpty(c)
  <2>1. outFile[c] = "whole" \/ status[c] = "unknown"
    BY <1>16 DEF AcceptEmpty, Leave, Step, CallTypes, AnswerInv, Outputs
  <2>2. pc[c] = "judging"
    BY <1>16 DEF AcceptEmpty, Leave, Step
  <2> QED
    BY <1>16, <2>1, <2>2 DEF AcceptEmpty, Leave, Step, worldVars, CallTypes, AnswerInv
<1>17. CASE ReadOutput(c)
  BY <1>17 DEF ReadOutput, Step, Leave, lockVars, callVars, worldVars, CallTypes,
     HelperInv, AnswerInv, Zombies, Outputs
<1>18. CASE CannotRead(c)
  BY <1>18 DEF CannotRead, Step, Leave, lockVars, callVars, worldVars, CallTypes,
     HelperInv, AnswerInv, Zombies, Outputs
<1>19. CASE FinishCall(c)
  BY <1>19 DEF FinishCall, Step, Return, lockVars, callVars, worldVars, CallTypes,
     HelperInv, AnswerInv, Zombies, Outputs
<1>20. CASE HelperWrites(c)
  BY <1>20 DEF HelperWrites, lockVars, callVars, worldVars, CallTypes, HelperInv,
     AnswerInv, Zombies, Outputs
<1>21. CASE HelperFails(c)
  BY <1>21 DEF HelperFails, lockVars, callVars, worldVars, CallTypes, HelperInv,
     AnswerInv, Zombies, Outputs
<1>22. CASE HelperSucceeds(c)
  <2>1. PICK o \in {"none", "whole", "big"} : outFile' = [outFile EXCEPT ![c] = o]
    BY <1>22 DEF HelperSucceeds
  <2>2. pc[c] \in {"spawned", "watching", "looking", "killing"}
    BY <1>22 DEF HelperSucceeds, HelperInv, CallTypes, CallSteps, Inside, Zombies
  <2> QED
    BY <1>22, <2>1, <2>2 DEF HelperSucceeds, callVars, CallTypes, AnswerInv
<1>23. CASE SteamReaps(c)
  BY <1>23 DEF SteamReaps, lockVars, callVars, worldVars, CallTypes, HelperInv,
     AnswerInv, Zombies, Outputs
<1>24. CASE Deadline(c)
  BY <1>24 DEF Deadline, lockVars, callVars, worldVars, CallTypes, HelperInv, AnswerInv,
     Zombies, Outputs
<1> QED
  BY <1>1, <1>2, <1>3, <1>4, <1>5, <1>6, <1>7, <1>8, <1>9, <1>10, <1>11, <1>12, <1>13,
     <1>14, <1>15, <1>16, <1>17, <1>18, <1>19, <1>20, <1>21, <1>22, <1>23, <1>24 DEF
     CallStep, HelperStep

\* The whole state of the calls stays as it is.
LEMMA CallsStay ==
    ASSUME CallTypes, LockInv, HelperInv, PgidInv, FilesInv, AnswerInv,
           UNCHANGED <<lockVars, callVars, worldVars>>
    PROVE  CallTypes' /\ LockInv' /\ HelperInv' /\ PgidInv' /\ FilesInv' /\ AnswerInv'
<1>1. CallTypes' /\ LockInv' /\ PgidInv'
  BY DEF lockVars, callVars, worldVars, CallTypes, LockInv, PgidInv
<1>2. HelperInv' /\ FilesInv'
  BY DEF lockVars, callVars, worldVars, HelperInv, FilesInv
<1>3. AnswerInv'
  BY DEF lockVars, callVars, worldVars, AnswerInv
<1> QED
  BY <1>1, <1>2, <1>3

-----------------------------------------------------------------------------
(* np_fini.                                                                *)

\* The signal of np_ceg_stop reaches a helper that its call still waits for.
LEMMA StopHelperKeeps ==
    ASSUME CallTypes, LockInv, HelperInv, PgidInv, FilesInv, AnswerInv, StopHelper
    PROVE  CallTypes' /\ LockInv' /\ HelperInv' /\ PgidInv' /\ FilesInv' /\ AnswerInv'
<1>1. CASE pgid = None
  BY <1>1, CallsStay DEF StopHelper, worldVars
<1>2. CASE pgid # None
  <2>1. /\ pgid \in Calls
        /\ helper' = [helper EXCEPT ![pgid] = Killed(@)]
        /\ UNCHANGED <<lockVars, callVars, inFile, outFile>>
    BY <1>2 DEF StopHelper, CallTypes
  <2>2. \A c \in Calls : helper'[c] = helper[c] \/ (helper[c] = "running" /\ helper'[c] = "zombie bad")
    <3> SUFFICES ASSUME NEW c \in Calls
                 PROVE  helper'[c] = helper[c] \/ (helper[c] = "running" /\ helper'[c] = "zombie bad")
      OBVIOUS
    <3>1. CASE c = pgid
      BY <2>1, <3>1 DEF Killed, CallTypes
    <3>2. CASE c # pgid
      BY <2>1, <3>2 DEF CallTypes
    <3> QED
      BY <3>1, <3>2
  <2>3. CallTypes' /\ LockInv' /\ PgidInv' /\ FilesInv'
    BY <2>1 DEF lockVars, callVars, Killed, CallTypes, LockInv, PgidInv, FilesInv,
       HelperStates, Zombies
  <2>4. HelperInv'
    <3>1. \A c \in Calls : pc'[c] = pc[c]
      BY <2>1 DEF callVars
    <3> QED
      BY <2>2, <3>1, PgidInv, <2>1 DEF HelperInv, PgidInv, Zombies
  <2>5. AnswerInv'
    BY <2>1, <2>2 DEF callVars, AnswerInv
  <2> QED
    BY <2>3, <2>4, <2>5
<1> QED
  BY <1>1, <1>2

\* A file that is removed early is missed by nobody: the call fails.
LEMMA RemoveActiveKeeps ==
    ASSUME CallTypes, LockInv, HelperInv, PgidInv, FilesInv, AnswerInv, RemoveActive
    PROVE  CallTypes' /\ LockInv' /\ HelperInv' /\ PgidInv' /\ FilesInv' /\ AnswerInv'
<1>1. /\ inFile' \subseteq inFile
      /\ \A c \in Calls : outFile'[c] \in {outFile[c], "none"}
      /\ outFile' \in [Calls -> Outputs]
      /\ UNCHANGED <<lockVars, callVars, helper>>
  BY DEF RemoveActive, CallTypes, Outputs
<1>2. CallTypes' /\ LockInv' /\ HelperInv' /\ PgidInv'
  BY <1>1 DEF lockVars, callVars, CallTypes, LockInv, HelperInv, PgidInv
<1>3. FilesInv'
  BY <1>1 DEF callVars, FilesInv
<1>4. AnswerInv'
  BY <1>1 DEF callVars, AnswerInv
<1> QED
  BY <1>2, <1>3, <1>4

-----------------------------------------------------------------------------
(* The install thread and the jobs.                                        *)

\* g_service_ready is set after the hook is in.
LEMMA InstallKeepsLoader ==
    ASSUME OtherTypes, LoaderInv, InstallStep
    PROVE  OtherTypes' /\ LoaderInv'
<1>1. UNCHANGED <<fini, stopping, job, taken>>
  BY InstallKeepsTheRest
<1>2. CASE InstallClient \/ NoClient \/ BindService \/ NoService
  BY <1>1, <1>2 DEF InstallClient, NoClient, BindService, NoService, Load, OtherTypes, LoaderInv
<1>3. CASE HookService
  BY <1>1, <1>3 DEF HookService, Load, OtherTypes, LoaderInv
<1>4. CASE HookFails
  BY <1>1, <1>4 DEF HookFails, Load, OtherTypes, LoaderInv
<1>5. CASE ServiceInstalled
  BY <1>1, <1>5 DEF ServiceInstalled, Load, OtherTypes, LoaderInv
<1> QED
  BY <1>2, <1>3, <1>4, <1>5 DEF InstallStep

\* A job that looks at g_service_ready is taken, if it is, with the hook in.
LEMMA JobsKeepLoader ==
    ASSUME OtherTypes, LoaderInv, NEW a \in Apps, JobStep(a)
    PROVE  OtherTypes' /\ LoaderInv'
<1>1. UNCHANGED <<loader, hook, ready, fini, stopping>>
  BY JobsKeepTheRest
<1>2. a # None
  BY NoneIsApart
<1>3. CASE NoteTool(a)
  BY <1>1, <1>3 DEF NoteTool, OtherTypes, LoaderInv
<1>4. CASE LookUpTool(a)
  BY <1>1, <1>4 DEF LookUpTool, OtherTypes, LoaderInv
<1>5. CASE TakeJob(a)
  BY <1>1, <1>2, <1>5 DEF TakeJob, OtherTypes, LoaderInv
<1>6. CASE LeaveJob(a)
  BY <1>1, <1>6 DEF LeaveJob, OtherTypes, LoaderInv
<1> QED
  BY <1>3, <1>4, <1>5, <1>6 DEF JobStep

\* Only np_ceg_note_tool and np_ceg_note_app write to the ring.
LEMMA JobsKeepRing ==
    ASSUME TypeOK, RingInv, NEW a \in Apps, JobStep(a)
    PROVE  RingTypes' /\ RingInv'
<1>1. CASE NoteTool(a)
  BY <1>1, NoteToolKeepsRing
<1>2. CASE TakeJob(a)
  BY <1>2, TakeJobKeepsRing
<1>3. CASE LookUpTool(a) \/ LeaveJob(a)
  <2>1. slots' = slots /\ next' = next
    BY <1>3 DEF LookUpTool, LeaveJob
  <2> QED
    BY <2>1 DEF TypeOK, RingTypes, RingInv, OneSlotEach
<1> QED
  BY <1>1, <1>2, <1>3 DEF JobStep

-----------------------------------------------------------------------------
(* The conjunction that every step preserves.                              *)

IInv ==
    /\ TypeOK
    /\ LockInv
    /\ HelperInv
    /\ PgidInv
    /\ FilesInv
    /\ AnswerInv
    /\ LoaderInv
    /\ RingInv

\* The invariant holds when Steam starts.
LEMMA InitHolds == Init => IInv
<1> SUFFICES ASSUME Init PROVE IInv
  OBVIOUS
<1>1. OtherTypes /\ LoaderInv
  BY DEF Init, OtherTypes, LoaderInv
<1>2. CallTypes
  BY DEF Init, CallTypes, CallSteps, HelperStates, Outputs
<1>3. LockInv /\ HelperInv /\ PgidInv /\ FilesInv /\ AnswerInv
  BY DEF Init, LockInv, HelperInv, PgidInv, FilesInv, AnswerInv, Inside
<1>4. RingTypes /\ RingInv
  <2>1. Empty \in Slot /\ Empty.app = None
    BY SlotFields DEF Empty
  <2>2. slots \in [Indices -> Slot] /\ \A i \in Indices : slots[i].app = None
    BY <2>1 DEF Init
  <2>3. next = 0 /\ 0 < NumSlots /\ 0 \in 0 .. Wrap - 1
    BY RingFits DEF Init
  <2>4. \A i \in Indices : ~(i < 0)
    BY RingFits DEF Indices
  <2> QED
    BY <2>2, <2>3, <2>4 DEF RingTypes, RingInv, OneSlotEach
<1> QED
  BY <1>1, <1>2, <1>3, <1>4, TypeParts DEF IInv

\* Every step keeps the invariant.
LEMMA StepHolds == IInv /\ [Next]_vars => IInv'
<1> SUFFICES ASSUME IInv, [Next]_vars PROVE IInv'
  OBVIOUS
<1>1. /\ OtherTypes /\ RingTypes /\ CallTypes /\ TypeOK
      /\ LockInv /\ HelperInv /\ PgidInv /\ FilesInv /\ AnswerInv /\ LoaderInv /\ RingInv
  BY TypeParts DEF IInv
<1> DEFINE CallPart == CallTypes /\ LockInv /\ HelperInv /\ PgidInv /\ FilesInv /\ AnswerInv
           LoaderPart == OtherTypes /\ LoaderInv
           RingPart == RingTypes /\ RingInv
<1>2. ASSUME UNCHANGED <<slots, next>> PROVE RingPart'
  BY <1>1, <1>2 DEF RingTypes, RingInv, OneSlotEach
<1>3. SUFFICES CallPart' /\ LoaderPart' /\ RingPart'
  <2>1. TypeOK' <=> OtherTypes' /\ RingTypes' /\ CallTypes'
    BY DEF TypeOK, OtherTypes, RingTypes, CallTypes
  <2> QED
    BY <2>1 DEF IInv
<1>4. CASE InstallStep
  <2>1. CallPart'
    BY <1>1, <1>4, InstallKeepsTheRest, CallsStay
  <2>2. LoaderPart'
    BY <1>1, <1>4, InstallKeepsLoader
  <2>3. RingPart'
    BY <1>4, <1>2, InstallKeepsTheRest
  <2> QED
    BY <2>1, <2>2, <2>3
<1>5. CASE \E a \in Apps : JobStep(a)
  <2>0. PICK a \in Apps : JobStep(a)
    BY <1>5
  <2>1. CallPart'
    BY <1>1, <2>0, JobsKeepTheRest, CallsStay
  <2>2. LoaderPart'
    BY <1>1, <2>0, JobsKeepLoader
  <2>3. RingPart'
    BY <1>1, <2>0, JobsKeepRing
  <2> QED
    BY <2>1, <2>2, <2>3
<1>6. CASE \E c \in Calls : BeginCall(c) \/ RefuseCall(c) \/ CallStep(c) \/ HelperStep(c)
                            \/ SteamReaps(c) \/ Deadline(c)
  <2>0. PICK c \in Calls : BeginCall(c) \/ RefuseCall(c) \/ CallStep(c) \/ HelperStep(c)
                           \/ SteamReaps(c) \/ Deadline(c)
    BY <1>6
  <2>1. CallTypes' /\ LockInv' /\ HelperInv'
    BY <1>1, <2>0, CallsKeepTypes, CallsKeepLock, CallsKeepHelper
  <2>2. PgidInv' /\ FilesInv' /\ AnswerInv'
    BY <1>1, <2>0, CallsKeepPgid, CallsKeepFiles, CallsKeepAnswer
  <2>3. UNCHANGED <<loader, hook, ready, fini, stopping, slots, next, job, taken>>
    BY <2>0, CallsKeepTheRest
  <2>4. LoaderPart'
    BY <1>1, <2>3 DEF OtherTypes, LoaderInv
  <2>5. RingPart'
    BY <2>3, <1>2
  <2> QED
    BY <2>1, <2>2, <2>4, <2>5
<1>7. CASE FiniStep
  <2>1. UNCHANGED <<loader, hook, ready, slots, next, job, taken, lockVars, callVars>>
    BY <1>7, FiniKeepsTheRest
  <2>2. LoaderPart'
    BY <1>1, <1>7, <2>1 DEF FiniStep, SetStopping, StopHelper, RemoveActive, SteamExits,
       Unload, OtherTypes, LoaderInv
  <2>3. CallPart'
    <3>1. CASE StopHelper
      BY <1>1, <3>1, StopHelperKeeps
    <3>2. CASE RemoveActive
      BY <1>1, <3>2, RemoveActiveKeeps
    <3>3. CASE SetStopping \/ SteamExits
      <4>1. UNCHANGED worldVars
        BY <3>3 DEF SetStopping, SteamExits
      <4> QED
        BY <1>1, <2>1, <4>1, CallsStay
    <3> QED
      BY <1>7, <3>1, <3>2, <3>3 DEF FiniStep
  <2> QED
    BY <2>1, <2>2, <2>3, <1>2
<1>8. CASE UNCHANGED vars
  <2>1. CallPart'
    BY <1>1, <1>8, CallsStay DEF vars
  <2>2. LoaderPart'
    BY <1>1, <1>8 DEF vars, loaderVars, finiVars, ringVars, OtherTypes, LoaderInv
  <2>3. RingPart'
    BY <1>8, <1>2 DEF vars, ringVars
  <2> QED
    BY <2>1, <2>2, <2>3
<1> QED
  BY <1>4, <1>5, <1>6, <1>7, <1>8 DEF Next

\* The invariant holds always.
LEMMA Inductive == Spec => []IInv
BY InitHolds, StepHolds, PTL DEF Spec

-----------------------------------------------------------------------------
(* What follows.                                                           *)

\* Every variable keeps its type; the counter of the ring wraps where an unsigned does.
THEOREM TypeCorrect == Spec => []TypeOK
<1>1. IInv => TypeOK
  BY DEF IInv
<1> QED
  BY <1>1, Inductive, PTL

\* At most one helper works in legacycompat, and its call holds g_call_lock
\* (np_ceg_service_call), whatever np_ceg_stop and the deadline do.
THEOREM OneHelperHolds == Spec => []OneHelper
<1>1. IInv => OneHelper
  BY DEF IInv, TypeOK, LockInv, HelperInv, OneHelper, CallSteps, Inside, Zombies
<1> QED
  BY <1>1, Inductive, PTL

\* np_ceg_stop and end_group never signal a pid that reap has given back.
THEOREM PgidIsOursHolds == Spec => []PgidIsOurs
<1>1. IInv => PgidIsOurs
  <2> SUFFICES ASSUME IInv PROVE PgidIsOurs
    OBVIOUS
  <2>1. \A c \in Calls : pc[c] \in {"watching", "looking", "killing", "exited"} =>
            helper[c] \in {"zombie ok", "zombie bad", "running", "stolen"}
    BY DEF IInv, HelperInv, Zombies
  <2>2. pgid # None => pgid \in Calls /\ pc[pgid] \in {"watching", "looking", "killing", "exited"}
    BY DEF IInv, TypeOK, PgidInv
  <2> QED
    BY <2>1, <2>2 DEF PgidIsOurs
<1> QED
  BY <1>1, Inductive, PTL

\* A call that has returned leaves no file behind (the end of np_ceg_service_call).
THEOREM FilesAreRemovedHolds == Spec => []FilesAreRemoved
<1>1. IInv => FilesAreRemoved
  BY DEF IInv, FilesInv, FilesAreRemoved
<1> QED
  BY <1>1, Inductive, PTL

\* A call that succeeds returns a whole output, unless Steam took the exit status.
THEOREM AnswerIsWholeHolds == Spec => []AnswerIsWhole
<1>1. IInv => AnswerIsWhole
  BY DEF IInv, AnswerInv, AnswerIsWhole
<1> QED
  BY <1>1, Inductive, PTL

\* slot_for never gives a game a second slot.
THEOREM OneSlotEachHolds == Spec => []OneSlotEach
<1>1. IInv => OneSlotEach
  BY DEF IInv, RingInv
<1> QED
  BY <1>1, Inductive, PTL

\* hook_ExtractGUIDs takes a job only once the service hook can serve its calls.
THEOREM TakenJobsAreServedHolds == Spec => []TakenJobsAreServed
<1>1. IInv => TakenJobsAreServed
  BY DEF IInv, LoaderInv, TakenJobsAreServed
<1> QED
  BY <1>1, Inductive, PTL

\* slot_for takes a slot from a game only when there is no free one.
THEOREM NoEarlyEvictionHolds == Spec => NoEarlyEviction
<1> DEFINE Kept == \A i \in Indices : slots[i].app # None /\ slots'[i].app # slots[i].app =>
                      \A j \in Indices : slots[j].app # None
<1>1. IInv /\ [Next]_vars => [Kept]_vars
  <2> SUFFICES ASSUME IInv, Next PROVE Kept
    OBVIOUS
  <2>1. CASE \E a \in Apps : NoteTool(a)
    <3>0. PICK a \in Apps : NoteTool(a)
      BY <2>1
    <3> SUFFICES ASSUME NEW i \in Indices, slots[i].app # None, slots'[i].app # slots[i].app,
                        ~ \A j \in Indices : slots[j].app # None
                 PROVE  FALSE
      OBVIOUS
    <3>1. TypeOK /\ RingInv /\ slots \in [Indices -> Slot] /\ next \in 0 .. Wrap - 1
      BY DEF IInv, TypeOK
    <3>2. next < NumSlots /\ i < next
      BY <3>1 DEF RingInv
    <3>3. i = SlotFor(a)
      BY <3>0, <3>1 DEF NoteTool
    <3>4. PICK t \in BOOLEAN :
              slots'[i] = [app |-> a, tool |-> t, folder |-> FALSE]
      BY <3>0, <3>1, <3>3 DEF NoteTool
    <3>5. slots'[i].app = a
      BY <3>4, SlotFields
    <3>6. CASE SlotsOf(a) # {}
      BY <3>1, <3>3, <3>5, <3>6, SlotForIndex
    <3>7. CASE SlotsOf(a) = {}
      <4>1. i = next % NumSlots
        BY <3>1, <3>3, <3>7, SlotForIndex
      <4>2. next \in Nat
        BY <3>1, RingFits
      <4>3. next % NumSlots = next
        BY <4>2, <3>2, NextIndex
      <4> QED
        BY <3>2, <4>1, <4>2, <4>3
    <3> QED
      BY <3>6, <3>7
  <2>2. CASE \E a \in Apps : TakeJob(a)
    <3>0. PICK a \in Apps : TakeJob(a)
      BY <2>2
    <3>1. ASSUME NEW s \in Slot PROVE [s EXCEPT !.folder = TRUE].app = s.app
      BY DEF Slot
    <3>2. slots \in [Indices -> Slot]
      BY DEF IInv, TypeOK
    <3> QED
      BY <3>0, <3>1, <3>2 DEF TakeJob
  <2>3. CASE slots' = slots
    BY <2>3
  <2>4. ASSUME NEW a \in Apps, JobStep(a)
        PROVE  NoteTool(a) \/ TakeJob(a) \/ slots' = slots
    BY <2>4 DEF JobStep, LookUpTool, LeaveJob
  <2> QED
    BY <2>1, <2>2, <2>3, <2>4, CallsKeepTheRest, InstallKeepsTheRest, FiniKeepsTheRest DEF Next
<1> QED
  BY <1>1, Inductive, PTL DEF Spec, NoEarlyEviction

-----------------------------------------------------------------------------
(* steam.exe of the prefix (SteamHelper): a game that is started directly  *)
(* runs once at a time, and starts again only for an order of its own, in  *)
(* any session and for any number of orders.                               *)

\* Steps of main before the command, and before it waits.
Early == {"setup", "attach", "prepare", "run"}
Unready == Early \cup {"drm", "system"}

Direct == world.cmd # Nil /\ world.cmd.exe

(* An order the helper has not followed yet: the event is set, or main is  *)
(* about to look at the child.                                             *)
Pending == (IF restart = "set" THEN 1 ELSE 0) + (IF stage = "check" THEN 1 ELSE 0)

Shape ==
    /\ runs \in Seq(BOOLEAN) /\ params \in BOOLEAN
    /\ asks \in Nat
    /\ restart \in {"absent", "clear", "set"}

(* Until the command is run nothing of the session is alive, and until     *)
(* main waits no order can be given.                                       *)
NothingYet ==
    /\ stage \in Early => runs = <<>> /\ alive = {}
    /\ stage \in Unready => restart = "absent"

OnlyTheChild == Direct => alive \cap Runs \subseteq {child}

(* Main has an event, an order and a look at the child for a game only,    *)
(* and waits for the session unless Wine refused it that.                  *)
WaitsForWine ==
    /\ restart # "absent" \/ stage \in {"drm", "system", "check"} => world.game
    /\ wait = "closed" => "system" \in world.refused /\ world.game
    /\ "system" \notin world.refused /\ world.game /\ stage \in {"wait", "check"} => wait = "system"

OrdersCount == "system" \notin world.refused => Len(runs) + Pending <= 1 + asks

SessionInv == Shape /\ NothingYet /\ OnlyTheChild /\ WaitsForWine /\ OrdersCount

\* What the start of the command does, whatever comes of it.
LEMMA Starting ==
    ASSUME Shape, NEW c, run_process(c)
    PROVE  /\ runs' \in Seq(BOOLEAN) /\ params' \in BOOLEAN
           /\ Len(runs') <= Len(runs) + 1
           /\ c.exe /\ alive \cap Runs = {} => alive' \cap Runs \subseteq {child'}
<1>1. CASE NotStarted /\ UNCHANGED params
  BY <1>1 DEF NotStarted, Shape
<1>2. CASE c.valid /\ (Started(c) \/ NotStarted) /\ params' = (params /\ ~Cuts(c))
  <2>1. CASE NotStarted
    BY <1>2, <2>1 DEF NotStarted, Shape
  <2>2. CASE Started(c)
    BY <1>2, <2>2 DEF Started, Shape, should_use_shell_execute
  <2> QED BY <1>2, <2>1, <2>2
<1> QED BY <1>1, <1>2 DEF run_process

\* No helper and no game in the beginning.
LEMMA SessionInit == HelperInit => SessionInv
BY DEF HelperInit, SessionInv, Shape, NothingYet, OnlyTheChild, WaitsForWine, OrdersCount, Pending, Runs, Early, Unready

\* Every step keeps the invariant.
LEMMA SessionSteps ==
    ASSUME SessionInv, [HelperNext]_helperVars
    PROVE  SessionInv'
<1> USE DEF SessionInv, Shape, NothingYet, OnlyTheChild, WaitsForWine, OrdersCount, Pending, Early, Unready,
            Direct, setting, session, drm
<1>1. CASE SetUp
  BY <1>1 DEF SetUp
<1>2. CASE Attached
  BY <1>2 DEF Attached
<1>3. CASE Prepare
  BY <1>3 DEF Prepare
<1>4. CASE Run
  <2>1. Shape /\ run_process(cmd) /\ runs = <<>> /\ alive = {} /\ stage = "run" /\ restart = "absent"
    BY <1>4 DEF Run
  <2>2. /\ runs' \in Seq(BOOLEAN) /\ params' \in BOOLEAN /\ Len(runs') <= 1
        /\ cmd.exe => alive' \cap Runs \subseteq {child'}
    BY <2>1, Starting
  <2>3. /\ UNCHANGED <<world, restart, asks>> /\ wait' \in {"child", "none"}
        /\ stage' \in {"gone", "drm", "wait"} /\ (stage' = "drm" <=> stage' # "gone" /\ world.game)
    BY <1>4 DEF Run
  <2> QED BY <2>1, <2>2, <2>3 DEF cmd
<1>5. CASE StartDrm
  BY <1>5 DEF StartDrm
<1>6. CASE MakeSystem
  BY <1>6 DEF MakeSystem
<1>7. CASE Wait
  BY <1>7 DEF Wait
<1>8. CASE Restart
  <2>1. CASE UNCHANGED <<params, runs, alive, child, wait>>
    BY <1>8, <2>1 DEF Restart
  <2>2. CASE run_process(cmd) /\ wait' \in WaitAfterClose /\ ~((child # Nil /\ child \in alive) \/ cmd = Nil)
    <3>1. Shape /\ run_process(cmd)
      BY <2>2
    <3>2. Direct => alive \cap Runs = {}
      BY <2>2, HelperConstants DEF Runs
    <3>3. /\ runs' \in Seq(BOOLEAN) /\ params' \in BOOLEAN /\ Len(runs') <= Len(runs) + 1
          /\ Direct => alive' \cap Runs \subseteq {child'}
      BY <3>1, <3>2, Starting DEF cmd
    <3>4. UNCHANGED <<world, restart, asks>> /\ stage = "check" /\ stage' = "wait"
      BY <1>8 DEF Restart
    <3>5. wait' \in {wait, "closed", "child"} /\ (wait = "system" => wait' = "system") /\ world.game
      BY <2>2, <3>4 DEF WaitAfterClose
    <3> QED BY <3>3, <3>4, <3>5
  <2> QED BY <1>8, <2>1, <2>2 DEF Restart
<1>9. CASE DrmStep
  BY <1>9 DEF DrmStep
<1>10. CASE VrServer
  BY <1>10 DEF VrServer
<1>11. CASE VrDevices
  BY <1>11 DEF VrDevices
<1>12. CASE GameSpawns
  BY <1>12 DEF GameSpawns, Other, Runs
<1>13. ASSUME NEW p, GameExits(p) PROVE SessionInv'
  BY <1>13 DEF GameExits
<1>14. ASSUME NEW r \in Runs, MakesAck(r) \/ Posts(r) PROVE SessionInv'
  BY <1>14 DEF MakesAck, Posts
<1>15. CASE SessionEnds
  BY <1>15 DEF SessionEnds
<1>16. ASSUME NEW argv \in Commands, Command(argv) PROVE SessionInv'
  BY <1>16 DEF Command
<1>17. CASE UNCHANGED helperVars
  BY <1>17 DEF helperVars
<1> QED
  BY <1>1, <1>2, <1>3, <1>4, <1>5, <1>6, <1>7, <1>8, <1>9, <1>10, <1>11, <1>12, <1>13,
     <1>14, <1>15, <1>16, <1>17 DEF HelperNext, Main, Game

\* One process of a direct game at a time, and no start without an order
\* while Wine tells of the session's end (the loop of main,
\* steam.cpp:1895-1935).
THEOREM GameIsSole == HelperSpec => []OneGame
<1>1. SessionInv => OneGame
  <2>1. SUFFICES ASSUME SessionInv PROVE OneGame
    OBVIOUS
  <2>2. ASSUME Direct PROVE Cardinality(alive \cap Runs) <= 1
    <3>1. alive \cap Runs = {} \/ alive \cap Runs = {child}
      BY <2>1, <2>2 DEF SessionInv, OnlyTheChild
    <3>2. CASE alive \cap Runs = {}
      <4>1. Cardinality(alive \cap Runs) = 0
        BY <3>2, FS_EmptySet
      <4> QED BY <4>1
    <3>3. CASE alive \cap Runs = {child}
      <4>1. Cardinality(alive \cap Runs) = 1
        BY <3>3, FS_Singleton
      <4> QED BY <4>1
    <3> QED BY <3>1, <3>2, <3>3
  <2>3. "system" \notin world.refused => Len(runs) <= 1 + asks
    <3>1. Len(runs) \in Nat /\ asks \in Nat
      BY <2>1 DEF SessionInv, Shape
    <3> QED BY <2>1, <3>1 DEF SessionInv, OrdersCount, Pending
  <2> QED BY <2>2, <2>3 DEF OneGame, Direct
<1> QED BY <1>1, SessionInit, SessionSteps, PTL DEF HelperSpec

-----------------------------------------------------------------------------
(* The prefix a game finds.  PrefixInv says what is done of it at each step *)
(* of main; that the libraries of the file are those of the launch needs    *)
(* what FlattenSeq makes of a sequence (Flattened), by the first index at   *)
(* which it could fail (Least).                                             *)

\* A set of indices that is not empty has a first one.
LEMMA Least ==
    ASSUME NEW T \in SUBSET Nat, T # {}
    PROVE  \E x \in T : \A y \in T : x <= y
<1> DEFINE R == {ss \in Nat \X Nat : ss[1] < ss[2]}
<1>1. IsWellFoundedOn(R, Nat)
  BY NatLessThanWellFounded DEF OpToRel
<1>2. \E x \in T : \A y \in T : ~ (<<y, x>> \in R)
  BY <1>1, WFMin
<1>3. PICK x \in T : \A y \in T : ~ (<<y, x>> \in R)
  BY <1>2
<1>4. ASSUME NEW y \in T PROVE x <= y
  <2>1. ~(y < x)
    BY <1>3
  <2> QED BY <2>1
<1> QED BY <1>3, <1>4

(* What FlattenSeq makes of the first n sequences of s, one after another. *)
Glues(s, n, u) ==
    /\ DOMAIN u = 1 .. n /\ u = [i \in DOMAIN u |-> u[i]]
    /\ u[1] = s[1] /\ \A i \in 2 .. n : u[i] = u[i - 1] \o s[i]

(* Their elements and no others.                                           *)
IsGlued(s, n, t, S) == t \in Seq(S) /\ \A x : x \in Range(t) <=> \E j \in 1 .. n : x \in Range(s[j])

\* Sequences can be put one after another.
LEMMA GlueExists ==
    ASSUME NEW s, NEW n \in Nat \ {0}
    PROVE  \E u : Glues(s, n, u)
<1> DEFINE T == {m \in 1 .. n : ~\E u : Glues(s, m, u)}
<1>1. CASE T = {}
  BY <1>1
<1>2. CASE T # {}
  <2>1. \E m \in T : \A y \in T : m <= y
    <3>1. T \in SUBSET Nat
      OBVIOUS
    <3> HIDE DEF T
    <3> QED BY <1>2, <3>1, Least
  <2>2. PICK m \in T : \A y \in T : m <= y
    BY <2>1
  <2>3. m # 1
    <3> DEFINE z == [i \in 1 .. 1 |-> s[1]]
    <3>1. DOMAIN z = 1 .. 1 /\ z[1] = s[1] /\ z = [i \in DOMAIN z |-> z[i]] /\ 2 .. 1 = {}
      OBVIOUS
    <3> HIDE DEF z
    <3>2. Glues(s, 1, z)
      BY <3>1 DEF Glues
    <3> QED BY <2>2, <3>2
  <2>4. m - 1 \in 1 .. n /\ m - 1 \notin T
    BY <2>2, <2>3
  <2>5. PICK u : Glues(s, m - 1, u)
    BY <2>4
  <2> DEFINE v == [i \in 1 .. m |-> IF i = m THEN u[m - 1] \o s[m] ELSE u[i]]
  <2>6. m \in 2 .. n
    BY <2>2, <2>3
  <2>7. Glues(s, m, v)
    <3>1. DOMAIN v = 1 .. m /\ v = [i \in DOMAIN v |-> v[i]] /\ v[1] = s[1]
      BY <2>5, <2>6 DEF Glues
    <3>2. ASSUME NEW i \in 2 .. m PROVE v[i] = v[i - 1] \o s[i]
      <4>1. i \in 1 .. m /\ i - 1 \in 1 .. m /\ i - 1 # m /\ v[i - 1] = u[i - 1]
        BY <2>6
      <4>2. CASE i = m
        BY <4>1, <4>2
      <4>3. CASE i # m
        <5>1. i \in 2 .. m - 1 /\ v[i] = u[i]
          BY <2>6, <4>1, <4>3
        <5> QED BY <2>5, <4>1, <5>1 DEF Glues
      <4> QED BY <4>2, <4>3
    <3> HIDE DEF v
    <3> QED BY <3>1, <3>2 DEF Glues
  <2> QED BY <2>2, <2>7
<1> QED BY <1>1, <1>2

\* The elements of two sequences, one after the other.
LEMMA RangeOfBoth ==
    ASSUME NEW S, NEW t \in Seq(S), NEW a \in Seq(S)
    PROVE  t \o a \in Seq(S) /\ \A x : x \in Range(t \o a) <=> x \in Range(t) \/ x \in Range(a)
<1> DEFINE w == t \o a
<1>1. /\ w \in Seq(S) /\ DOMAIN w = 1 .. Len(t) + Len(a) /\ DOMAIN t = 1 .. Len(t) /\ DOMAIN a = 1 .. Len(a)
      /\ Len(t) \in Nat /\ Len(a) \in Nat
      /\ \A i \in DOMAIN t : w[i] = t[i]
      /\ \A i \in DOMAIN a : w[Len(t) + i] = a[i]
  OBVIOUS
<1> HIDE DEF w
<1>2. \A i \in DOMAIN w : i \in DOMAIN t \/ (i - Len(t) \in DOMAIN a /\ Len(t) + (i - Len(t)) = i)
  BY <1>1
<1>3. ASSUME NEW x \in Range(w) PROVE x \in Range(t) \/ x \in Range(a)
  <2>1. PICK i \in DOMAIN w : x = w[i]
    BY <1>3 DEF Range
  <2> QED BY <1>1, <1>2, <2>1 DEF Range
<1>4. ASSUME NEW x \in Range(t) PROVE x \in Range(w)
  BY <1>1, <1>4 DEF Range
<1>5. ASSUME NEW x \in Range(a) PROVE x \in Range(w)
  <2>1. PICK i \in DOMAIN a : x = a[i]
    BY <1>5 DEF Range
  <2>2. Len(t) + i \in DOMAIN w
    BY <1>1, <2>1
  <2> QED BY <1>1, <2>1, <2>2 DEF Range
<1> QED BY <1>1, <1>3, <1>4, <1>5 DEF w

\* One sequence more.
LEMMA GlueAdds ==
    ASSUME NEW S, NEW s, NEW t, NEW k \in Nat, IsGlued(s, k, t, S), s[k + 1] \in Seq(S)
    PROVE  IsGlued(s, k + 1, t \o s[k + 1], S)
<1>1. PICK a : a = s[k + 1]
  OBVIOUS
<1>2. t \in Seq(S) /\ a \in Seq(S)
  BY <1>1 DEF IsGlued
<1> DEFINE w == t \o a
<1>3. w \in Seq(S) /\ \A x : x \in Range(w) <=> x \in Range(t) \/ x \in Range(a)
  BY <1>2, RangeOfBoth
<1> HIDE DEF w
<1>4. \A j : j \in 1 .. k + 1 <=> j \in 1 .. k \/ j = k + 1
  OBVIOUS
<1>5. w \in Seq(S) /\ \A x : x \in Range(w) <=> \E j \in 1 .. k + 1 : x \in Range(s[j])
  BY <1>1, <1>3, <1>4 DEF IsGlued
<1> QED BY <1>1, <1>5 DEF IsGlued, w

\* FlattenSeq: the elements of the sequences.
LEMMA Flattened ==
    ASSUME NEW S, NEW s \in Seq(Seq(S))
    PROVE  IsGlued(s, Len(s), FlattenSeq(s), S)
<1> DEFINE n == Len(s)
<1>1. n \in Nat /\ DOMAIN s = 1 .. n /\ \A i \in 1 .. n : s[i] \in Seq(S)
  OBVIOUS
<1>2. CASE n = 0
  <2>1. s = <<>> /\ 1 .. n = {}
    BY <1>1, <1>2
  <2>2. FlattenSeq(s) = <<>>
    BY <1>2, <2>1 DEF FlattenSeq
  <2>3. \A x : x \notin Range(<<>>)
    BY DEF Range
  <2>4. <<>> \in Seq(S) /\ ~\E j \in 1 .. n : TRUE
    BY <1>2
  <2> HIDE DEF n
  <2>5. IsGlued(s, n, <<>>, S)
    BY <2>3, <2>4 DEF IsGlued
  <2> QED BY <2>2, <2>5 DEF n
<1>3. CASE n # 0
  <2> DEFINE f == CHOOSE k : k = [i \in 1 .. n |-> IF i = 1 THEN s[i] ELSE k[i - 1] \o s[i]]
  <2>1. FlattenSeq(s) = f[n]
    BY <1>3, Zenon DEF FlattenSeq
  <2>2. n \in Nat \ {0}
    BY <1>1, <1>3
  <2>3. PICK u : Glues(s, n, u)
    BY <2>2, GlueExists
  <2>4. u = [i \in 1 .. n |-> IF i = 1 THEN s[i] ELSE u[i - 1] \o s[i]]
    <3> DEFINE F(i) == IF i = 1 THEN s[i] ELSE u[i - 1] \o s[i]
    <3>1. ASSUME NEW i \in 1 .. n PROVE u[i] = F(i)
      <4>1. CASE i = 1
        BY <2>3, <4>1 DEF Glues
      <4>2. CASE i # 1
        <5>1. i \in 2 .. n
          BY <2>2, <4>2
        <5> QED BY <2>3, <4>2, <5>1 DEF Glues
      <4> QED BY <4>1, <4>2
    <3>2. u = [i \in 1 .. n |-> u[i]]
      BY <2>3 DEF Glues
    <3> HIDE DEF F, n
    <3>3. u = [i \in 1 .. n |-> F(i)]
      BY <3>1, <3>2
    <3> QED BY <3>3 DEF F
  <2>5. f = [i \in 1 .. n |-> IF i = 1 THEN s[i] ELSE f[i - 1] \o s[i]]
    BY <2>4
  <2> HIDE DEF f
  <2>6. f[1] = s[1] /\ \A i \in 2 .. n : f[i] = f[i - 1] \o s[i]
    <3> HIDE DEF n
    <3>1. 1 \in 1 .. n /\ \A i \in 2 .. n : i \in 1 .. n /\ i # 1
      BY <2>2
    <3>2. f[1] = s[1]
      BY <2>5, <3>1
    <3>3. ASSUME NEW i \in 2 .. n PROVE f[i] = f[i - 1] \o s[i]
      BY <2>5, <3>1
    <3> QED BY <3>2, <3>3
  <2> DEFINE T == {m \in 1 .. n : ~IsGlued(s, m, f[m], S)}
  <2>7. CASE T = {}
    BY <2>1, <2>2, <2>7
  <2>8. CASE T # {}
    <3>1. \E m \in T : \A y \in T : m <= y
      <4>1. T \in SUBSET Nat
        BY <2>2
      <4> HIDE DEF T
      <4> QED BY <2>8, <4>1, Least
    <3>2. PICK m \in T : \A y \in T : m <= y
      BY <3>1
    <3>3. IsGlued(s, 1, s[1], S)
      <4>1. \A j : j \in 1 .. 1 <=> j = 1
        OBVIOUS
      <4> QED BY <1>1, <2>2, <4>1 DEF IsGlued
    <3>4. m \in 2 .. n
      <4>1. m # 1
        BY <2>6, <3>2, <3>3
      <4> QED BY <2>2, <3>2, <4>1
    <3>5. m - 1 \in 1 .. n /\ m - 1 \notin T /\ m - 1 \in Nat /\ (m - 1) + 1 = m
      BY <2>2, <3>2, <3>4
    <3>6. IsGlued(s, m - 1, f[m - 1], S)
      BY <3>5
    <3>7. s[m] \in Seq(S)
      BY <1>1, <3>4
    <3>8. IsGlued(s, m, f[m - 1] \o s[m], S)
      BY <3>5, <3>6, <3>7, GlueAdds
    <3>9. f[m] = f[m - 1] \o s[m]
      BY <2>6, <3>4
    <3> QED BY <3>2, <3>8, <3>9
  <2> QED BY <2>7, <2>8
<1> QED BY <1>2, <1>3

(* A path the file numbers.                                                *)
Kept(p) == p # <<>> /\ Head(p) # "unreachable"

\* convert_path_to_win, a path at most.
LEMMA ConvertedIs ==
    ASSUME NEW p
    PROVE  /\ Converted(p) \in Seq({p})
           /\ \A x : x \in Range(Converted(p)) <=> x = p /\ Kept(p)
<1>1. CASE ~Kept(p)
  <2>1. Converted(p) = <<>>
    BY <1>1 DEF Converted, Kept
  <2> QED BY <1>1, <2>1 DEF Range
<1>2. CASE Kept(p)
  <2>1. Converted(p) = <<p>>
    BY <1>2 DEF Converted, Kept
  <2>2. <<p>> \in Seq({p}) /\ DOMAIN <<p>> = {1} /\ <<p>>[1] = p
    OBVIOUS
  <2> QED BY <1>2, <2>1, <2>2 DEF Range
<1> QED BY <1>1, <1>2

\* What setup_steam_files writes numbers the libraries the launch names, and
\* no others.
LEMMA FoldersAre ==
    ASSUME NEW w \in Worlds
    PROVE  Range(LibraryFolders(w.install, w.libraries))
             = {p \in {w.install} \cup {Front(l) : l \in Range(w.libraries)} :
                   p \notin {Nil, <<>>} /\ Head(p) # "unreachable"}
<1> DEFINE libs == w.libraries
           S == {Library(l) : l \in Range(libs)}
           a == IF w.install = Nil THEN <<>> ELSE Converted(w.install)
           s == [i \in DOMAIN libs |-> Converted(Library(libs[i]))]
           t == FlattenSeq(s)
<1>1. libs \in Seq(Range(libs)) /\ \A l \in Range(libs) : Len(l) \in Nat /\ Front(l) # Nil
  BY SessionConstants
<1>2. \A l \in Range(libs) : Kept(Library(l)) <=> Front(l) # <<>> /\ Head(Front(l)) # "unreachable"
  <2>1. Front(<<>>) = <<>>
    BY DEF Front
  <2> QED BY <2>1 DEF Kept, Library
<1>3. \A l \in Range(libs) : Kept(Library(l)) => Library(l) = Front(l)
  BY DEF Kept, Library
<1>4. DOMAIN libs = 1 .. Len(libs) /\ Len(libs) \in Nat /\ \A i \in 1 .. Len(libs) : libs[i] \in Range(libs)
  BY <1>1 DEF Range
<1>5. s \in Seq(Seq(S)) /\ DOMAIN s = 1 .. Len(libs) /\ Len(s) = Len(libs)
  <2>1. \A i \in 1 .. Len(libs) : s[i] \in Seq(S)
    <3> SUFFICES ASSUME NEW i \in 1 .. Len(libs) PROVE s[i] \in Seq(S)
      OBVIOUS
    <3>1. PICK p : p = Library(libs[i])
      OBVIOUS
    <3>2. s[i] = Converted(p) /\ p \in S
      BY <1>4, <3>1
    <3>3. Converted(p) \in Seq({p})
      BY ConvertedIs
    <3> HIDE DEF S, s
    <3> QED BY <3>2, <3>3
  <2>2. s = [i \in 1 .. Len(libs) |-> s[i]]
    BY <1>4
  <2>3. PICK n \in Nat : n = Len(libs)
    BY <1>4
  <2>4. PICK D : D = Seq(S)
    OBVIOUS
  <2> HIDE DEF S, s
  <2>5. s = [i \in 1 .. n |-> s[i]] /\ \A i \in 1 .. n : s[i] \in D
    BY <2>1, <2>2, <2>3, <2>4
  <2>6. s \in Seq(D) /\ DOMAIN s = 1 .. n /\ Len(s) = n
    BY <2>5
  <2> QED BY <2>3, <2>4, <2>6
<1>6. IsGlued(s, Len(s), t, S)
  <2> HIDE DEF S, s
  <2> QED BY <1>5, Flattened
<1>7. \A x : x \in Range(t) <=> \E l \in Range(libs) : x = Library(l) /\ Kept(x)
  <2>1. \A x : x \in Range(t) <=> \E i \in 1 .. Len(libs) : x \in Range(s[i])
    BY <1>5, <1>6 DEF IsGlued
  <2>2. ASSUME NEW i \in 1 .. Len(libs), NEW x PROVE x \in Range(s[i]) <=> x = Library(libs[i]) /\ Kept(x)
    <3>1. PICK p : p = Library(libs[i])
      OBVIOUS
    <3>2. s[i] = Converted(p)
      BY <1>4, <3>1
    <3> HIDE DEF s
    <3>3. x \in Range(Converted(p)) <=> x = p /\ Kept(p)
      BY ConvertedIs
    <3> QED BY <3>1, <3>2, <3>3
  <2> HIDE DEF t, s
  <2>3. ASSUME NEW x \in Range(t) PROVE \E l \in Range(libs) : x = Library(l) /\ Kept(x)
    BY <1>4, <2>1, <2>2
  <2>4. ASSUME NEW l \in Range(libs), Kept(Library(l)) PROVE Library(l) \in Range(t)
    <3>1. PICK i \in 1 .. Len(libs) : l = libs[i]
      BY <1>4 DEF Range
    <3> QED BY <2>1, <2>2, <2>4, <3>1
  <2> QED BY <2>3, <2>4
<1>8. \A x : x \in Range(a) <=> w.install # Nil /\ x = w.install /\ Kept(x)
  <2>1. CASE w.install = Nil
    BY <2>1 DEF Range
  <2>2. CASE w.install # Nil
    <3>1. PICK p : p = w.install
      OBVIOUS
    <3>2. a = Converted(p)
      BY <2>2, <3>1
    <3> HIDE DEF a
    <3>3. \A x : x \in Range(Converted(p)) <=> x = p /\ Kept(p)
      BY ConvertedIs
    <3> QED BY <2>2, <3>1, <3>2, <3>3
  <2> QED BY <2>1, <2>2
<1>9. \A x : x \in Range(a \o t) <=> x \in Range(a) \/ x \in Range(t)
  <2> DEFINE U == S \cup {w.install}
  <2>1. a \in Seq(U)
    <3>1. PICK p : p = w.install
      OBVIOUS
    <3>2. Converted(p) \in Seq({p}) /\ <<>> \in Seq(U) /\ p \in U
      BY <3>1, ConvertedIs
    <3> HIDE DEF U
    <3> QED BY <3>1, <3>2
  <2>2. t \in Seq(U)
    <3>1. t \in Seq(S) /\ S \subseteq U
      BY <1>6 DEF IsGlued
    <3> HIDE DEF U, S, t
    <3> QED BY <3>1
  <2> HIDE DEF U, a, t
  <2> QED BY <2>1, <2>2, RangeOfBoth
<1>10. LibraryFolders(w.install, libs) = a \o t
  BY DEF LibraryFolders
<1> HIDE DEF a, t, s, S
<1>11. ASSUME NEW x
       PROVE  x \in Range(a \o t) <=> /\ x = w.install \/ \E l \in Range(libs) : x = Front(l)
                                      /\ x \notin {Nil, <<>>} /\ Head(x) # "unreachable"
  BY <1>1, <1>2, <1>3, <1>7, <1>8, <1>9 DEF Kept
<1> QED BY <1>10, <1>11

\* The Mac's file is no file of an earlier session.
LEMMA PathIsOfTheMac ==
    ASSUME NEW w \in Worlds
    PROVE  get_linux_vr_path(w.places) # "old"
<1> DEFINE pl == w.places
<1>1. DOMAIN pl = 1 .. Len(pl) /\ Len(pl) \in Nat /\ "old" \notin Range(pl) \cup {Nil}
  <2>1. pl \in Seq(Range(pl)) /\ {"old", "empty"} \cap (Range(pl) \cup {Nil}) = {}
    BY SessionConstants
  <2> HIDE DEF pl
  <2> QED BY <2>1
<1>2. CASE \A i \in DOMAIN pl : pl[i] = Nil
  BY <1>1, <1>2 DEF get_linux_vr_path
<1>3. CASE ~\A i \in DOMAIN pl : pl[i] = Nil
  <2> DEFINE T == {i \in DOMAIN pl : pl[i] # Nil}
             First(i) == pl[i] # Nil /\ \A j \in 1 .. i - 1 : pl[j] = Nil
  <2>1. \E x \in T : \A y \in T : x <= y
    <3>1. T \in SUBSET Nat /\ T # {}
      BY <1>1, <1>3
    <3> HIDE DEF T
    <3> QED BY <3>1, Least
  <2>2. PICK x \in T : \A y \in T : x <= y
    BY <2>1
  <2>3. x \in DOMAIN pl /\ First(x)
    <3>1. ASSUME NEW j \in 1 .. x - 1 PROVE pl[j] = Nil
      <4>1. j \in DOMAIN pl /\ ~(x <= j)
        BY <1>1, <2>2
      <4> QED BY <2>2, <4>1
    <3> QED BY <2>2, <3>1
  <2> DEFINE c == CHOOSE i \in DOMAIN pl : First(i)
  <2>4. c \in DOMAIN pl
    <3> HIDE DEF First
    <3> QED BY <2>3
  <2>5. get_linux_vr_path(pl) = pl[c]
    BY <1>3, Zenon DEF get_linux_vr_path
  <2> HIDE DEF c
  <2> QED BY <1>1, <2>4, <2>5 DEF Range
<1> QED BY <1>2, <1>3

\* Wherever the client stopped, nothing of it is held after the shutdown.
LEMMA NothingIsHeld ==
    ASSUME NEW w \in Worlds
    PROVE  steam_client_shutdown(Held(w.fails)) = {} /\ steam_client_shutdown({}) = {}
<1>1. steam_client_shutdown({}) = {}
  BY DEF steam_client_shutdown
<1>2. DOMAIN InitSteps = 1 .. 6 /\ Len(InitSteps) = 6
  BY DEF InitSteps
<1>3. CASE w.fails = Nil
  <2>1. "iface" \in Held(w.fails) /\ "pipe" \in Held(w.fails)
    <3>1. Held(w.fails) = Range(InitSteps)
      BY <1>3 DEF Held
    <3>2. InitSteps[3] = "iface" /\ InitSteps[4] = "pipe"
      BY DEF InitSteps
    <3> QED BY <1>2, <3>1, <3>2 DEF Range
  <2> QED BY <1>1, <2>1 DEF steam_client_shutdown
<1>4. CASE w.fails # Nil
  <2> DEFINE At(n) == InitSteps[n + 1] = w.fails
             m == CHOOSE n \in 0 .. Len(InitSteps) - 1 : At(n)
  <2>1. \E n \in 0 .. Len(InitSteps) - 1 : At(n)
    <3>1. PICK i \in 1 .. 6 : w.fails = InitSteps[i]
      BY <1>2, <1>4, SessionConstants DEF Range
    <3>2. i - 1 \in 0 .. Len(InitSteps) - 1 /\ (i - 1) + 1 = i
      BY <1>2
    <3> QED BY <3>1, <3>2
  <2>2. m \in 0 .. 5
    <3> HIDE DEF At
    <3>1. m \in 0 .. Len(InitSteps) - 1
      BY <2>1
    <3> QED BY <1>2, <3>1
  <2>3. Held(w.fails) = {InitSteps[i] : i \in 1 .. m}
    BY <1>4, Zenon DEF Held
  <2> HIDE DEF m
  <2>4. CASE m \in 0 .. 3
    <3>1. \A i \in 1 .. 3 : InitSteps[i] \notin {"pipe", "user"}
      BY DEF InitSteps
    <3>2. \A i \in 1 .. m : i \in 1 .. 3
      BY <2>4
    <3>3. \A x \in Held(w.fails) : x \notin {"pipe", "user"}
      BY <2>3, <3>1, <3>2
    <3> QED BY <3>3 DEF steam_client_shutdown
  <2>5. CASE m \in 4 .. 5
    <3>1. 3 \in 1 .. m /\ 4 \in 1 .. m /\ InitSteps[3] = "iface" /\ InitSteps[4] = "pipe"
      BY <2>5 DEF InitSteps
    <3>2. {"iface", "pipe"} \subseteq Held(w.fails)
      BY <2>3, <3>1
    <3> QED BY <3>2 DEF steam_client_shutdown
  <2> QED BY <1>1, <2>2, <2>4, <2>5
<1> QED BY <1>1, <1>3, <1>4

(* Nothing of the client is held, and each file is of this launch or Wine  *)
(* refused the step that replaces it.                                      *)
OfThisLaunch ==
    \/ folders = LibraryFolders(world.install, world.libraries)
    \/ "folders" \in world.refused /\ folders = world.old.folders
    \/ "foldersCut" \in world.refused /\ folders = <<>>
NoOldPaths == vrpaths = "old" => world.refused \cap {"appdata", "vrpaths", "delete"} # {}
Ready == client = {} /\ OfThisLaunch /\ NoOldPaths

PrefixInv ==
    /\ world \in Worlds
    /\ stage = "setup" => client = {} /\ folders = world.old.folders
    /\ stage \in {"attach", "prepare"} => OfThisLaunch /\ client \in {{}, Held(world.fails)}
    /\ stage \in {"run", "drm", "system", "wait", "check", "asleep"} \/ runs # <<>> => Ready

\* Every step keeps the prefix what the game needs.
LEMMA PrefixSteps ==
    ASSUME SessionInv, PrefixInv, [HelperNext]_helperVars
    PROVE  PrefixInv'
<1> USE DEF PrefixInv, Ready, OfThisLaunch, NoOldPaths, setting, session, drm
<1>1. CASE SetUp
  <2>1. runs = <<>>
    BY <1>1 DEF SetUp, SessionInv, NothingYet, Early
  <2>2. folders' = setup_steam_files(world.install, world.libraries) /\ stage = "setup" /\ world' = world
    BY <1>1 DEF SetUp
  <2>3. OfThisLaunch'
    BY <2>2 DEF setup_steam_files
  <2>4. stage' \in {"attach", "prepare"} /\ client' \in {{}, Held(world.fails)} /\ runs' = runs
    BY <1>1 DEF SetUp
  <2> QED BY <2>1, <2>2, <2>3, <2>4
<1>2. CASE Attached
  <2>1. runs = <<>>
    BY <1>2 DEF Attached, SessionInv, NothingYet, Early
  <2> QED BY <1>2, <2>1 DEF Attached
<1>3. CASE Prepare
  <2>1. runs = <<>> /\ stage = "prepare" /\ world' = world /\ folders' = folders /\ runs' = runs
    BY <1>3 DEF Prepare, SessionInv, NothingYet, Early
  <2>2. client' = {}
    <3>1. PICK h : h = client
      OBVIOUS
    <3>2. client' = steam_client_shutdown(h) /\ h \in {{}, Held(world.fails)}
      BY <1>3, <2>1, <3>1 DEF Prepare
    <3> QED BY <3>2, NothingIsHeld
  <2>3. CASE stage' = "gone"
    BY <2>1, <2>2, <2>3
  <2>4. CASE stage' # "gone"
    <3>1. setup_vrpaths /\ stage' \in {"drm", "run"}
      BY <1>3, <2>4 DEF Prepare
    <3>2. vrpaths' # "old" \/ world.refused \cap {"appdata", "vrpaths", "delete"} # {}
      <4>1. Nil # "old" /\ get_linux_vr_path(world.places) # "old"
        BY SessionConstants, PathIsOfTheMac
      <4>2. CASE world.refused \cap {"appdata", "vrpaths", "delete"} # {}
        BY <4>2
      <4>3. CASE "appdata" \notin world.refused /\ "vrpaths" \notin world.refused /\ "delete" \notin world.refused
        <5>1. vrpaths' \in {"empty", get_linux_vr_path(world.places), Nil}
          BY <3>1, <4>3, Zenon DEF setup_vrpaths, Written
        <5> QED BY <4>1, <5>1
      <4> QED BY <4>2, <4>3
    <3> QED BY <2>1, <2>2, <3>1, <3>2
  <2> QED BY <2>3, <2>4
<1>4. CASE Run
  <2>1. /\ UNCHANGED <<world, client, folders, vrpaths>> /\ stage = "run"
        /\ stage' \in {"gone", "drm", "wait"}
    BY <1>4 DEF Run
  <2> QED BY <2>1
<1>5. CASE StartDrm
  BY <1>5 DEF StartDrm
<1>6. CASE MakeSystem
  BY <1>6 DEF MakeSystem
<1>7. CASE Wait
  BY <1>7 DEF Wait
<1>8. CASE Restart
  <2>1. UNCHANGED <<world, client, folders, vrpaths>> /\ stage = "check" /\ stage' = "wait"
    BY <1>8 DEF Restart
  <2> QED BY <2>1
<1>9. CASE DrmStep
  BY <1>9 DEF DrmStep
<1>10. CASE VrServer
  BY <1>10 DEF VrServer
<1>11. CASE VrDevices
  BY <1>11 DEF VrDevices
<1>12. CASE GameSpawns
  BY <1>12 DEF GameSpawns
<1>13. ASSUME NEW p, GameExits(p) PROVE PrefixInv'
  BY <1>13 DEF GameExits
<1>14. ASSUME NEW r \in Runs, MakesAck(r) \/ Posts(r) PROVE PrefixInv'
  BY <1>14 DEF MakesAck, Posts
<1>15. CASE SessionEnds
  BY <1>15 DEF SessionEnds
<1>16. ASSUME NEW argv \in Commands, Command(argv) PROVE PrefixInv'
  BY <1>16 DEF Command
<1>17. CASE UNCHANGED helperVars
  BY <1>17 DEF helperVars
<1> QED
  BY <1>1, <1>2, <1>3, <1>4, <1>5, <1>6, <1>7, <1>8, <1>9, <1>10, <1>11, <1>12, <1>13,
     <1>14, <1>15, <1>16, <1>17 DEF HelperNext, Main, Game

\* A game finds the prefix as this launch wants it, whatever an earlier one
\* left and wherever the client stopped, but for a file Wine refuses to have
\* replaced (main, steam.cpp:1820-1880).
THEOREM PrefixIsOfThisLaunch == HelperSpec => []PrefixIsCurrent
<1>1. HelperInit => PrefixInv
  BY DEF HelperInit, PrefixInv
<1>2. PrefixInv => PrefixIsCurrent
  <2>1. SUFFICES ASSUME PrefixInv, runs # <<>>
                 PROVE  /\ NoOldPaths /\ client = {}
                        /\ \/ Range(folders) = {p \in {world.install} \cup {Front(l) : l \in Range(world.libraries)} :
                                                   p \notin {Nil, <<>>} /\ Head(p) # "unreachable"}
                           \/ "folders" \in world.refused /\ folders = world.old.folders
                           \/ "foldersCut" \in world.refused /\ folders = <<>>
    BY DEF PrefixIsCurrent, NoOldPaths
  <2>2. world \in Worlds /\ Ready
    BY <2>1 DEF PrefixInv
  <2>3. PICK w \in Worlds : w = world
    BY <2>2
  <2>4. CASE folders = LibraryFolders(world.install, world.libraries)
    BY <2>2, <2>3, <2>4, FoldersAre DEF Ready
  <2> QED BY <2>2, <2>4 DEF Ready, OfThisLaunch
<1> QED BY <1>1, <1>2, SessionInit, SessionSteps, PrefixSteps, PTL DEF HelperSpec
=============================================================================
