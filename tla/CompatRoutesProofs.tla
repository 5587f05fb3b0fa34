------------------------- MODULE CompatRoutesProofs -------------------------
(***************************************************************************)
(* That the settings files implement SettingsStore, and that every answer  *)
(* about them is true, for any number of threads, runners and versions.    *)
(*                                                                         *)
(* The argument: only the holder of g_save_lock writes the files, so what  *)
(* it read is still what is there when it renames its own file over one of *)
(* them; and the ".new" it renames is the one it wrote.                    *)
(***************************************************************************)
EXTENDS CompatRoutes, TLAPS

(* Steps of a call under the lock.                                         *)
Writing == {"open", "write", "rename"}
Holding == {"read", "list", "remove"} \cup Writing

IsCall(c) == c = [pc |-> c.pc, op |-> c.op, path |-> c.path, body |-> c.body,
                  left |-> c.left, answer |-> c.answer]

(* What an apply has in hand is what some version of the runner uses.      *)
Applies(c) == \E b \in Builds, r \in Runners :
                  c.path = <<Family, r>> /\ c.body = read_lines(r, file[source_of(b, r)])

Saves(c) == c.path \in Paths /\ c.body \in Texts /\ checked_body(c.path[2], c.body)

CallOk(c) ==
    /\ IsCall(c)
    /\ c.pc \in {"lock", "read"} \cup Writing => c.op \in {"save", "apply"}
    /\ c.op = "save" /\ c.pc \in {"lock"} \cup Writing => Saves(c)
    /\ c.op = "apply" /\ c.pc \in {"lock", "read"} => c.path \in Builds \X Runners
    /\ c.op = "apply" /\ c.pc \in Writing => Applies(c)
    /\ c.pc = "read" => c.op = "apply"
    /\ c.pc = "rename" => tmp[c.path] = c.body
    /\ c.pc \in {"list", "remove"} =>
          c.op = "apply" /\ \E r \in Runners : c.path = <<Family, r>>
    /\ c.pc = "remove" => c.left \subseteq Builds

Files ==
    /\ file = [p \in Paths |-> file[p]] /\ tmp = [p \in Paths |-> tmp[p]]
    /\ call = [t \in Callers |-> call[t]]
    /\ lock \in Callers \cup {None}

LockInv == \A t \in Callers : call[t].pc \in Holding => lock = t

StoreInv == Files /\ LockInv /\ \A t \in Callers : CallOk(call[t])

-----------------------------------------------------------------------------

\* A family and its versions have a file each.
LEMMA PathFacts ==
    /\ \A r \in Runners : <<Family, r>> \in Paths /\ <<Family, r>>[2] = r
    /\ \A b \in Builds, r \in Runners :
          /\ <<b, r>> \in Paths /\ <<b, r>>[1] = b /\ <<b, r>>[2] = r
          /\ source_of(b, r) \in Paths
    /\ Builds \X Runners \subseteq Paths
    /\ \A p \in Builds \X Runners : p[1] \in Builds /\ p[2] \in Runners /\ p = <<p[1], p[2]>>
BY DEF Paths, source_of

\* What the steps of a call write in it, field by field.
LEMMA CallGoes ==
    ASSUME NEW c, IsCall(c), NEW a
    PROVE  [c EXCEPT !.pc = a]
             = [pc |-> a, op |-> c.op, path |-> c.path, body |-> c.body, left |-> c.left, answer |-> c.answer]
<1> DEFINE d == [c EXCEPT !.pc = a]
<1>1. c \in [pc : {c.pc}, op : {c.op}, path : {c.path}, body : {c.body}, left : {c.left}, answer : {c.answer}]
  BY DEF IsCall
<1>2. d \in [pc : {a}, op : {c.op}, path : {c.path}, body : {c.body}, left : {c.left}, answer : {c.answer}]
  BY <1>1
<1> HIDE DEF d
<1>3. d = [pc |-> a, op |-> c.op, path |-> c.path, body |-> c.body, left |-> c.left, answer |-> c.answer]
  BY <1>2
<1> QED BY <1>3 DEF d

\* A call that answers, or goes on with what is left.
LEMMA CallAnswers ==
    ASSUME NEW c, IsCall(c), NEW a, NEW x, NEW l
    PROVE  [c EXCEPT !.pc = a, !.answer = x, !.left = l]
             = [pc |-> a, op |-> c.op, path |-> c.path, body |-> c.body, left |-> l, answer |-> x]
<1> DEFINE d == [c EXCEPT !.pc = a, !.answer = x, !.left = l]
<1>1. c \in [pc : {c.pc}, op : {c.op}, path : {c.path}, body : {c.body}, left : {c.left}, answer : {c.answer}]
  BY DEF IsCall
<1>2. d \in [pc : {a}, op : {c.op}, path : {c.path}, body : {c.body}, left : {l}, answer : {x}]
  BY <1>1
<1> HIDE DEF d
<1>3. d = [pc |-> a, op |-> c.op, path |-> c.path, body |-> c.body, left |-> l, answer |-> x]
  BY <1>2
<1> QED BY <1>3 DEF d

\* An apply that goes on to the file of the family.
LEMMA CallWrites ==
    ASSUME NEW c, IsCall(c), NEW a, NEW p, NEW y
    PROVE  [c EXCEPT !.pc = a, !.path = p, !.body = y]
             = [pc |-> a, op |-> c.op, path |-> p, body |-> y, left |-> c.left, answer |-> c.answer]
<1> DEFINE d == [c EXCEPT !.pc = a, !.path = p, !.body = y]
<1>1. c \in [pc : {c.pc}, op : {c.op}, path : {c.path}, body : {c.body}, left : {c.left}, answer : {c.answer}]
  BY DEF IsCall
<1>2. d \in [pc : {a}, op : {c.op}, path : {p}, body : {y}, left : {c.left}, answer : {c.answer}]
  BY <1>1
<1> HIDE DEF d
<1>3. d = [pc |-> a, op |-> c.op, path |-> p, body |-> y, left |-> c.left, answer |-> c.answer]
  BY <1>2
<1> QED BY <1>3 DEF d

\* An apply that could not remove a file of a version.
LEMMA CallDrops ==
    ASSUME NEW c, IsCall(c), NEW l, NEW x
    PROVE  [c EXCEPT !.left = l, !.answer = x]
             = [pc |-> c.pc, op |-> c.op, path |-> c.path, body |-> c.body, left |-> l, answer |-> x]
<1> DEFINE d == [c EXCEPT !.left = l, !.answer = x]
<1>1. c \in [pc : {c.pc}, op : {c.op}, path : {c.path}, body : {c.body}, left : {c.left}, answer : {c.answer}]
  BY DEF IsCall
<1>2. d \in [pc : {c.pc}, op : {c.op}, path : {c.path}, body : {c.body}, left : {l}, answer : {x}]
  BY <1>1
<1> HIDE DEF d
<1>3. d = [pc |-> c.pc, op |-> c.op, path |-> c.path, body |-> c.body, left |-> l, answer |-> x]
  BY <1>2
<1> QED BY <1>3 DEF d

\* An apply that removed one.
LEMMA CallRemoves ==
    ASSUME NEW c, IsCall(c), NEW l
    PROVE  [c EXCEPT !.left = l]
             = [pc |-> c.pc, op |-> c.op, path |-> c.path, body |-> c.body, left |-> l, answer |-> c.answer]
<1> DEFINE d == [c EXCEPT !.left = l]
<1>1. c \in [pc : {c.pc}, op : {c.op}, path : {c.path}, body : {c.body}, left : {c.left}, answer : {c.answer}]
  BY DEF IsCall
<1>2. d \in [pc : {c.pc}, op : {c.op}, path : {c.path}, body : {c.body}, left : {l}, answer : {c.answer}]
  BY <1>1
<1> HIDE DEF d
<1>3. d = [pc |-> c.pc, op |-> c.op, path |-> c.path, body |-> c.body, left |-> l, answer |-> c.answer]
  BY <1>2
<1> QED BY <1>3 DEF d

\* A call that begins to save, to apply, or is refused.
LEMMA CallSaves ==
    ASSUME NEW c, IsCall(c), NEW a, NEW o, NEW p, NEW y
    PROVE  [c EXCEPT !.pc = a, !.op = o, !.path = p, !.body = y]
             = [pc |-> a, op |-> o, path |-> p, body |-> y, left |-> c.left, answer |-> c.answer]
<1> DEFINE d == [c EXCEPT !.pc = a, !.op = o, !.path = p, !.body = y]
<1>1. c \in [pc : {c.pc}, op : {c.op}, path : {c.path}, body : {c.body}, left : {c.left}, answer : {c.answer}]
  BY DEF IsCall
<1>2. d \in [pc : {a}, op : {o}, path : {p}, body : {y}, left : {c.left}, answer : {c.answer}]
  BY <1>1
<1> HIDE DEF d
<1>3. d = [pc |-> a, op |-> o, path |-> p, body |-> y, left |-> c.left, answer |-> c.answer]
  BY <1>2
<1> QED BY <1>3 DEF d

\* One that begins to apply.
LEMMA CallApplies ==
    ASSUME NEW c, IsCall(c), NEW a, NEW o, NEW p
    PROVE  [c EXCEPT !.pc = a, !.op = o, !.path = p]
             = [pc |-> a, op |-> o, path |-> p, body |-> c.body, left |-> c.left, answer |-> c.answer]
<1> DEFINE d == [c EXCEPT !.pc = a, !.op = o, !.path = p]
<1>1. c \in [pc : {c.pc}, op : {c.op}, path : {c.path}, body : {c.body}, left : {c.left}, answer : {c.answer}]
  BY DEF IsCall
<1>2. d \in [pc : {a}, op : {o}, path : {p}, body : {c.body}, left : {c.left}, answer : {c.answer}]
  BY <1>1
<1> HIDE DEF d
<1>3. d = [pc |-> a, op |-> o, path |-> p, body |-> c.body, left |-> c.left, answer |-> c.answer]
  BY <1>2
<1> QED BY <1>3 DEF d

\* One that is refused.
LEMMA CallRefused ==
    ASSUME NEW c, IsCall(c), NEW a, NEW o, NEW x
    PROVE  [c EXCEPT !.pc = a, !.op = o, !.answer = x]
             = [pc |-> a, op |-> o, path |-> c.path, body |-> c.body, left |-> c.left, answer |-> x]
<1> DEFINE d == [c EXCEPT !.pc = a, !.op = o, !.answer = x]
<1>1. c \in [pc : {c.pc}, op : {c.op}, path : {c.path}, body : {c.body}, left : {c.left}, answer : {c.answer}]
  BY DEF IsCall
<1>2. d \in [pc : {a}, op : {o}, path : {c.path}, body : {c.body}, left : {c.left}, answer : {x}]
  BY <1>1
<1> HIDE DEF d
<1>3. d = [pc |-> a, op |-> o, path |-> c.path, body |-> c.body, left |-> c.left, answer |-> x]
  BY <1>2
<1> QED BY <1>3 DEF d

\* A thread without a call.
LEMMA IdleIsCall == IsCall(Idle) /\ Idle.pc = "idle" /\ Idle.op = None
BY DEF IsCall, Idle

-----------------------------------------------------------------------------
(* Steps of one call.                                                      *)

\* A step writes the call of its own thread.
LEMMA OneCall ==
    ASSUME Files, NEW t \in Callers, NEW d, call' = [call EXCEPT ![t] = d]
    PROVE  /\ call'[t] = d /\ call' = [u \in Callers |-> call'[u]]
           /\ \A u \in Callers : u # t => call'[u] = call[u]
BY DEF Files

\* An answer, and a step to the next one.
LEMMA RetFacts ==
    ASSUME Files, NEW t \in Callers, IsCall(call[t]), NEW x, Ret(t, x)
    PROVE  call' = [call EXCEPT ![t] =
              [pc |-> "ret", op |-> call[t].op, path |-> call[t].path, body |-> call[t].body,
               left |-> {}, answer |-> x]]
<1> DEFINE c == call[t]
           d == [c EXCEPT !.pc = "ret", !.answer = x, !.left = {}]
<1>1. call' = [call EXCEPT ![t] = d]
  BY DEF Ret, Files
<1> HIDE DEF c, d
<1>2. d = [c EXCEPT !.pc = "ret", !.answer = x, !.left = {}]
  BY DEF d
<1>3. IsCall(c)
  BY DEF c
<1>4. d = [pc |-> "ret", op |-> c.op, path |-> c.path, body |-> c.body,
           left |-> {}, answer |-> x]
  BY <1>2, <1>3, CallAnswers
<1> QED BY <1>1, <1>4 DEF c

\* The same for a step that only goes on.
LEMMA GotoFacts ==
    ASSUME Files, NEW t \in Callers, IsCall(call[t]), NEW x, Goto(t, x)
    PROVE  call' = [call EXCEPT ![t] =
              [pc |-> x, op |-> call[t].op, path |-> call[t].path, body |-> call[t].body,
               left |-> call[t].left, answer |-> call[t].answer]]
<1> DEFINE c == call[t]
           d == [c EXCEPT !.pc = x]
<1>1. call' = [call EXCEPT ![t] = d]
  BY DEF Goto, Files
<1>2. d = [pc |-> x, op |-> c.op, path |-> c.path, body |-> c.body,
           left |-> c.left, answer |-> c.answer]
  BY CallGoes
<1> QED BY <1>1, <1>2

\* The same without the record.
LEMMA Goes ==
    ASSUME Files, NEW t \in Callers, IsCall(call[t]), NEW x, Goto(t, x)
    PROVE  \E d : /\ call' = [call EXCEPT ![t] = d] /\ IsCall(d) /\ d.pc = x
                 /\ d.op = call[t].op /\ d.path = call[t].path /\ d.body = call[t].body
                 /\ d.left = call[t].left /\ d.answer = call[t].answer
<1>1. PICK d : d = [pc |-> x, op |-> call[t].op, path |-> call[t].path, body |-> call[t].body,
                    left |-> call[t].left, answer |-> call[t].answer]
  OBVIOUS
<1>2. call' = [call EXCEPT ![t] = d]
  BY <1>1, GotoFacts
<1>3. /\ IsCall(d) /\ d.pc = x /\ d.op = call[t].op /\ d.path = call[t].path
      /\ d.body = call[t].body /\ d.left = call[t].left /\ d.answer = call[t].answer
  BY <1>1 DEF IsCall
<1> QED BY <1>2, <1>3

\* And for an answer.
LEMMA Returns ==
    ASSUME Files, NEW t \in Callers, IsCall(call[t]), NEW x, Ret(t, x)
    PROVE  \E d : /\ call' = [call EXCEPT ![t] = d] /\ IsCall(d) /\ d.pc = "ret"
                 /\ d.op = call[t].op /\ d.path = call[t].path /\ d.body = call[t].body
                 /\ d.answer = x
<1>1. PICK d : d = [pc |-> "ret", op |-> call[t].op, path |-> call[t].path, body |-> call[t].body,
                    left |-> {}, answer |-> x]
  OBVIOUS
<1>2. call' = [call EXCEPT ![t] = d]
  BY <1>1, RetFacts
<1>3. /\ IsCall(d) /\ d.pc = "ret" /\ d.op = call[t].op /\ d.path = call[t].path
      /\ d.body = call[t].body /\ d.answer = x
  BY <1>1 DEF IsCall
<1> QED BY <1>2, <1>3

\* What a call has in hand is right while the files are as they were, and
\* without the lock it has nothing in hand.
LEMMA StaysOk ==
    ASSUME NEW c, CallOk(c), c.pc \notin Holding \/ (file' = file /\ tmp' = tmp)
    PROVE  CallOk(c)'
<1>1. CASE c.pc \notin Holding
  BY <1>1 DEF CallOk, Holding, Writing, Saves
<1>2. CASE file' = file /\ tmp' = tmp
  BY <1>2 DEF CallOk, Saves, Applies, source_of
<1> QED BY <1>1, <1>2

\* One step of a call: the others hold no lock, or no file changed.
LEMMA CallMoves ==
    ASSUME StoreInv, NEW t \in Callers, NEW d, call' = [call EXCEPT ![t] = d],
           CallOk(d)', d.pc \in Holding => lock' = t,
           (file' = file /\ tmp' = tmp) \/ lock = t,
           file' = [p \in Paths |-> file'[p]], tmp' = [p \in Paths |-> tmp'[p]],
           lock' \in Callers \cup {None}, lock' = lock \/ lock \in {t, None}
    PROVE  StoreInv'
<1>1. /\ call'[t] = d /\ call' = [u \in Callers |-> call'[u]]
      /\ \A u \in Callers : u # t => call'[u] = call[u]
  BY OneCall DEF StoreInv
<1>2. Files'
  BY <1>1 DEF Files
<1>3. LockInv'
  BY <1>1, DefaultsConstants DEF StoreInv, LockInv
<1>4. ASSUME NEW u \in Callers, u # t PROVE CallOk(call[u])'
  <2>1. CallOk(call[u]) /\ (call[u].pc \in Holding => lock = u) /\ call'[u] = call[u]
    BY <1>1, <1>4 DEF StoreInv, LockInv
  <2>2. call[u].pc \notin Holding \/ (file' = file /\ tmp' = tmp)
    BY <1>4, <2>1
  <2>3. PICK c : c = call[u]
    OBVIOUS
  <2>4. CallOk(c)'
    BY <2>1, <2>2, <2>3, StaysOk
  <2> QED BY <2>1, <2>3, <2>4
<1> QED BY <1>1, <1>2, <1>3, <1>4 DEF StoreInv

Dropping == {"list", "remove"}

\* Nobody applies where the one that moves did not and does not.
LEMMA StillApplying ==
    ASSUME Files, NEW t \in Callers, \A u \in Callers : u # t => call'[u] = call[u],
           call[t].pc \notin Dropping, call'[t].pc \notin Dropping,
           lock' = lock \/ (lock = t /\ lock' = None) \/ (lock = None /\ lock' = t)
    PROVE  UNCHANGED applying
BY DEF applying, Files, Dropping

Mapped == Store!Next \/ UNCHANGED <<file, applying>>

\* What a call has in hand as it moves.
LEMMA HeldFacts ==
    ASSUME StoreInv, NEW t \in Callers
    PROVE  /\ Files /\ IsCall(call[t]) /\ CallOk(call[t])
           /\ call[t].pc \in Holding => lock = t
           /\ file = [p \in Paths |-> file[p]] /\ tmp = [p \in Paths |-> tmp[p]]
           /\ None \notin Callers
BY DefaultsConstants DEF StoreInv, LockInv, CallOk, Files

\* A call that comes to hold the lock keeps the invariant, and stutters above.
LEMMA LockStep ==
    ASSUME StoreInv, NEW t \in Callers, Lock(t)
    PROVE  StoreInv' /\ Mapped
<1>1. /\ Files /\ IsCall(call[t]) /\ CallOk(call[t]) /\ None \notin Callers
      /\ call[t].pc = "lock" /\ lock = None /\ lock' = t /\ file' = file /\ tmp' = tmp
  BY HeldFacts DEF Lock, At
<1>2. PICK d : /\ call' = [call EXCEPT ![t] = d] /\ IsCall(d)
               /\ d.op = call[t].op /\ d.path = call[t].path /\ d.body = call[t].body
               /\ \/ d.pc = "open" /\ d.op = "save"
                  \/ d.pc = "read" /\ d.op = "apply"
                  \/ d.pc = "ret"
  <2>1. CASE call[t].op = "save" /\ Goto(t, "open")
    BY <1>1, <2>1, Goes
  <2>2. CASE call[t].op = "apply" /\ Goto(t, "read")
    BY <1>1, <2>2, Goes
  <2>3. CASE call[t].op = "apply" /\ Ret(t, "fail")
    BY <1>1, <2>3, Returns
  <2> QED BY <2>1, <2>2, <2>3 DEF Lock
<1>3. CallOk(d)'
  BY <1>1, <1>2 DEF CallOk, Saves, Writing
<1>4. StoreInv'
  BY <1>1, <1>2, <1>3, HeldFacts, CallMoves
<1>5. UNCHANGED applying
  <2>1. call'[t] = d /\ \A u \in Callers : u # t => call'[u] = call[u]
    BY <1>1, <1>2, OneCall
  <2> QED BY <1>1, <1>2, <2>1, StillApplying DEF Dropping
<1> QED BY <1>1, <1>4, <1>5 DEF Mapped

\* The set an apply reads is what the version uses.
LEMMA ReadSourceStep ==
    ASSUME StoreInv, NEW t \in Callers, ReadSource(t)
    PROVE  StoreInv' /\ Mapped
<1>1. /\ Files /\ IsCall(call[t]) /\ CallOk(call[t]) /\ None \notin Callers
      /\ call[t].pc = "read" /\ lock = t /\ lock' = lock /\ file' = file /\ tmp' = tmp
  BY HeldFacts DEF ReadSource, At, Holding
<1>2. PICK b \in Builds, r \in Runners :
          call[t].path = <<b, r>> /\ call[t].op = "apply" /\ source_of(b, r) \in Paths
  BY <1>1, PathFacts DEF CallOk
<1>3. PICK d : /\ call' = [call EXCEPT ![t] = d] /\ IsCall(d) /\ d.op = "apply"
               /\ \/ d.pc = "ret"
                  \/ /\ d.pc = "open" /\ d.path = <<Family, r>>
                     /\ d.body = read_lines(r, file[source_of(b, r)])
  <2>1. CASE Ret(t, "fail")
    <3>1. PICK d : /\ call' = [call EXCEPT ![t] = d] /\ IsCall(d) /\ d.pc = "ret"
                   /\ d.op = call[t].op
      BY <1>1, <2>1, Returns
    <3> QED BY <1>2, <3>1
  <2>2. CASE ~Ret(t, "fail")
    <3> DEFINE c == call[t]
               body == read_lines(r, file[source_of(b, r)])
               d == [c EXCEPT !.pc = "open", !.path = <<Family, r>>, !.body = body]
    <3>1. <<b, r>>[1] = b /\ <<b, r>>[2] = r
      OBVIOUS
    <3>2. call' = [call EXCEPT ![t].pc = "open", ![t].path = <<Family, r>>, ![t].body = body]
      BY <1>2, <2>2, <3>1 DEF ReadSource
    <3> HIDE DEF body
    <3>3. call' = [call EXCEPT ![t] = d]
      BY <1>1, <3>2 DEF Files
    <3> HIDE DEF c, d
    <3>4. IsCall(c) /\ d = [c EXCEPT !.pc = "open", !.path = <<Family, r>>, !.body = body]
      BY <1>1 DEF c, d
    <3>5. d = [pc |-> "open", op |-> c.op, path |-> <<Family, r>>, body |-> body,
               left |-> c.left, answer |-> c.answer]
      BY <3>4, CallWrites
    <3>6. IsCall(d) /\ d.op = c.op /\ d.pc = "open" /\ d.path = <<Family, r>> /\ d.body = body
      BY <3>5 DEF IsCall
    <3> QED BY <1>2, <3>3, <3>6 DEF body, c
  <2> QED BY <2>1, <2>2
<1>4. source_of(b, r)' = source_of(b, r)
  BY <1>1 DEF source_of
<1>5. d.pc = "open" => Applies(d)'
  BY <1>1, <1>3, <1>4 DEF Applies
<1>6. CallOk(d)'
  BY <1>3, <1>5 DEF CallOk, Writing
<1>7. StoreInv'
  BY <1>1, <1>3, <1>6, HeldFacts, CallMoves
<1>8. UNCHANGED applying
  <2>1. call'[t] = d /\ \A u \in Callers : u # t => call'[u] = call[u]
    BY <1>1, <1>3, OneCall
  <2> QED BY <1>1, <1>3, <2>1, StillApplying DEF Dropping
<1> QED BY <1>1, <1>7, <1>8 DEF Mapped

\* The ".new" is written, or is gone.
LEMMA TmpStep ==
    ASSUME StoreInv, NEW t \in Callers, OpenTmp(t) \/ WriteTmp(t)
    PROVE  StoreInv' /\ Mapped
<1>1. /\ Files /\ IsCall(call[t]) /\ CallOk(call[t]) /\ None \notin Callers
      /\ call[t].pc \in {"open", "write"} /\ lock = t /\ lock' = lock /\ file' = file
  BY HeldFacts DEF OpenTmp, WriteTmp, At, Holding, Writing
<1>2. call[t].path \in Paths
  BY <1>1, PathFacts DEF CallOk, Saves, Applies, Writing
<1>3. PICK x : tmp' = [tmp EXCEPT ![call[t].path] = x]
               /\ \/ Ret(t, "fail")
                  \/ Goto(t, "write")
                  \/ Goto(t, "rename") /\ x = call[t].body
  BY DEF OpenTmp, WriteTmp
<1>4. tmp' = [p \in Paths |-> tmp'[p]] /\ tmp'[call[t].path] = x
  BY <1>1, <1>2, <1>3 DEF Files
<1>5. PICK d : /\ call' = [call EXCEPT ![t] = d] /\ IsCall(d)
               /\ d.op = call[t].op /\ d.path = call[t].path /\ d.body = call[t].body
               /\ \/ d.pc \in {"ret", "write"}
                  \/ d.pc = "rename" /\ tmp'[d.path] = d.body
  <2>1. CASE Ret(t, "fail")
    BY <1>1, <2>1, Returns
  <2>2. CASE Goto(t, "write")
    BY <1>1, <2>2, Goes
  <2>3. CASE Goto(t, "rename") /\ x = call[t].body
    BY <1>1, <1>4, <2>3, Goes
  <2> QED BY <1>3, <2>1, <2>2, <2>3
<1>6. CallOk(d)'
  <2>1. \A b \in Builds, r \in Runners : source_of(b, r)' = source_of(b, r)
    BY <1>1 DEF source_of
  <2>2. call[t].op = "apply" => Applies(d)'
    BY <1>1, <1>5, <2>1 DEF CallOk, Applies, Writing
  <2> QED BY <1>1, <1>5, <2>2 DEF CallOk, Saves, Writing
<1>7. StoreInv'
  BY <1>1, <1>4, <1>5, <1>6, HeldFacts, CallMoves
<1>8. UNCHANGED applying
  <2>1. call'[t] = d /\ \A u \in Callers : u # t => call'[u] = call[u]
    BY <1>1, <1>5, OneCall
  <2> QED BY <1>1, <1>5, <2>1, StillApplying DEF Dropping
<1> QED BY <1>1, <1>7, <1>8 DEF Mapped

\* A rename gives the file the set its call checked, or read: a save of the
\* store, or the begin of an apply.
LEMMA RenameStep ==
    ASSUME StoreInv, NEW t \in Callers, Rename(t)
    PROVE  StoreInv' /\ Mapped
<1> DEFINE p == call[t].path
<1>1. /\ Files /\ IsCall(call[t]) /\ CallOk(call[t]) /\ None \notin Callers
      /\ call[t].pc = "rename" /\ lock = t /\ lock' = lock
      /\ call[t].op \in {"save", "apply"}
  BY HeldFacts DEF Rename, At, Holding, Writing, CallOk
<1>2. p \in Paths /\ tmp[p] = call[t].body
  <2>1. CASE call[t].op = "save"
    BY <1>1, <2>1 DEF CallOk, Saves, Writing
  <2>2. CASE call[t].op = "apply"
    <3>1. Applies(call[t]) /\ tmp[p] = call[t].body
      BY <1>1, <2>2 DEF CallOk, Writing
    <3> QED BY <3>1, PathFacts DEF Applies
  <2> QED BY <1>1, <2>1, <2>2
<1>3. tmp' = [tmp EXCEPT ![p] = Absent]
  BY DEF Rename
<1>4. tmp' = [q \in Paths |-> tmp'[q]]
  BY <1>1, <1>2, <1>3 DEF Files
<1>5. applying = Absent
  BY <1>1 DEF applying
<1>6. CASE file' = file /\ Ret(t, "fail")
  <2>1. PICK d : call' = [call EXCEPT ![t] = d] /\ IsCall(d) /\ d.pc = "ret"
    BY <1>1, <1>6, Returns
  <2>2. CallOk(d)'
    BY <2>1 DEF CallOk, Writing
  <2>3. d.pc \notin Holding /\ file' = [q \in Paths |-> file'[q]]
    BY <1>1, <1>6, <2>1 DEF Holding, Writing, Files
  <2>4. StoreInv'
    BY <1>1, <1>4, <2>1, <2>2, <2>3, CallMoves
  <2>5. UNCHANGED applying
    <3>1. call'[t] = d /\ \A u \in Callers : u # t => call'[u] = call[u]
      BY <1>1, <2>1, OneCall
    <3> QED BY <1>1, <2>1, <3>1, StillApplying DEF Dropping
  <2> QED BY <1>6, <2>4, <2>5 DEF Mapped
<1>7. CASE call[t].op = "save" /\ file' = [file EXCEPT ![p] = tmp[p]] /\ Ret(t, "ok")
  <2>1. PICK d : call' = [call EXCEPT ![t] = d] /\ IsCall(d) /\ d.pc = "ret"
    BY <1>1, <1>7, Returns
  <2>2. CallOk(d)'
    BY <2>1 DEF CallOk, Writing
  <2>3. d.pc \notin Holding /\ file' = [q \in Paths |-> file'[q]]
    BY <1>1, <1>2, <1>7, <2>1 DEF Holding, Writing, Files
  <2>4. StoreInv'
    BY <1>1, <1>4, <2>1, <2>2, <2>3, CallMoves
  <2>5. UNCHANGED applying
    <3>1. call'[t] = d /\ \A u \in Callers : u # t => call'[u] = call[u]
      BY <1>1, <2>1, OneCall
    <3> QED BY <1>1, <2>1, <3>1, StillApplying DEF Dropping
  <2>6. p \in DOMAIN file
    BY <1>1, <1>2 DEF Files
  <2>7. call[t].body \in Texts /\ checked_body(p[2], call[t].body)
    BY <1>1, <1>7 DEF CallOk, Saves, Writing
  <2>8. file' = [file EXCEPT ![p] = call[t].body]
    BY <1>2, <1>7
  <2> HIDE DEF p
  <2>9. Store!Save(p, call[t].body)
    BY <1>5, <2>5, <2>7, <2>8 DEF Store!Save
  <2>10. Store!Next
    BY <2>6, <2>7, <2>9 DEF Store!Next
  <2> QED BY <2>4, <2>10 DEF Mapped
<1>8. CASE call[t].op = "apply" /\ file' = [file EXCEPT ![p] = tmp[p]] /\ Goto(t, "list")
  <2>1. PICK b \in Builds, r \in Runners :
            p = <<Family, r>> /\ call[t].body = read_lines(r, file[source_of(b, r)])
    BY <1>1, <1>8 DEF CallOk, Applies, Writing
  <2>2. PICK d : /\ call' = [call EXCEPT ![t] = d] /\ IsCall(d) /\ d.pc = "list"
                 /\ d.op = "apply" /\ d.path = p
    BY <1>1, <1>8, Goes
  <2>3. CallOk(d)'
    BY <2>1, <2>2 DEF CallOk, Writing
  <2>4. file' = [q \in Paths |-> file'[q]]
    BY <1>1, <1>2, <1>8 DEF Files
  <2>5. StoreInv'
    BY <1>1, <1>4, <2>2, <2>3, <2>4, CallMoves
  <2>6. applying' = r
    <3>1. call'[t] = d
      BY <1>1, <2>2, OneCall
    <3> QED BY <1>1, <2>1, <2>2, <3>1 DEF applying
  <2>7. file' = [file EXCEPT ![<<Family, r>>] = read_lines(r, file[source_of(b, r)])]
    BY <1>2, <1>8, <2>1
  <2>8. Store!BeginApply(b, r)
    BY <1>5, <2>6, <2>7 DEF Store!BeginApply, source_of
  <2>9. Store!Next
    BY <2>8 DEF Store!Next
  <2> QED BY <2>5, <2>9 DEF Mapped
<1> QED BY <1>1, <1>6, <1>7, <1>8 DEF Rename

\* Versions that have a set of their own are listed.
LEMMA ListStep ==
    ASSUME StoreInv, NEW t \in Callers, ListOverrides(t)
    PROVE  StoreInv' /\ Mapped
<1>1. /\ Files /\ IsCall(call[t]) /\ CallOk(call[t]) /\ None \notin Callers
      /\ call[t].pc = "list" /\ lock = t /\ lock' = lock /\ file' = file /\ tmp' = tmp
  BY HeldFacts DEF ListOverrides, At, Holding
<1>2. PICK r \in Runners : call[t].path = <<Family, r>> /\ call[t].op = "apply"
  BY <1>1 DEF CallOk
<1>3. applying = r
  BY <1>1, <1>2 DEF applying
<1>4. CASE Ret(t, "partly")
  <2>1. PICK d : call' = [call EXCEPT ![t] = d] /\ IsCall(d) /\ d.pc = "ret"
    BY <1>1, <1>4, Returns
  <2>2. CallOk(d)'
    BY <2>1 DEF CallOk, Writing
  <2>3. StoreInv'
    BY <1>1, <2>1, <2>2, HeldFacts, CallMoves DEF Holding, Writing
  <2>4. applying' = Absent
    <3>1. call'[t] = d
      BY <1>1, <2>1, OneCall
    <3> QED BY <1>1, <2>1, <3>1 DEF applying
  <2>5. Store!EndApply
    BY <1>1, <1>3, <2>4, DefaultsConstants DEF Store!EndApply
  <2> QED BY <2>3, <2>5 DEF Mapped, Store!Next
<1>5. CASE ~Ret(t, "partly")
  <2>1. PICK left \in SUBSET Builds, x \in {"ok", "cut"} :
            call' = [call EXCEPT ![t].pc = "remove", ![t].answer = x, ![t].left = left]
    BY <1>5 DEF ListOverrides
  <2>2. left \subseteq Builds
    BY <2>1
  <2> DEFINE c == call[t]
             d == [c EXCEPT !.pc = "remove", !.answer = x, !.left = left]
  <2>3. call' = [call EXCEPT ![t] = d]
    BY <1>1, <2>1 DEF Files
  <2> HIDE DEF c, d
  <2>4. IsCall(c) /\ d = [c EXCEPT !.pc = "remove", !.answer = x, !.left = left]
    BY <1>1 DEF c, d
  <2>5. d = [pc |-> "remove", op |-> c.op, path |-> c.path, body |-> c.body,
             left |-> left, answer |-> x]
    BY <2>4, CallAnswers
  <2>6. PICK e : /\ call' = [call EXCEPT ![t] = e] /\ IsCall(e) /\ e.pc = "remove"
                 /\ e.op = call[t].op /\ e.path = call[t].path /\ e.left \subseteq Builds
    <3>1. /\ IsCall(d) /\ d.pc = "remove" /\ d.op = call[t].op /\ d.path = call[t].path
          /\ d.left = left
      BY <2>5 DEF IsCall, c
    <3> QED BY <2>2, <2>3, <3>1
  <2>7. CallOk(e)'
    BY <1>2, <2>6 DEF CallOk, Writing
  <2>8. StoreInv'
    BY <1>1, <2>6, <2>7, HeldFacts, CallMoves
  <2>9. applying' = r
    <3>1. call'[t] = e
      BY <1>1, <2>6, OneCall
    <3> QED BY <1>1, <1>2, <2>6, <3>1 DEF applying
  <2> QED BY <1>1, <1>3, <2>8, <2>9 DEF Mapped
<1> QED BY <1>4, <1>5

\* A version loses its own set after its family has the set applied.
LEMMA RemoveStep ==
    ASSUME StoreInv, NEW t \in Callers, RemoveOverride(t)
    PROVE  StoreInv' /\ Mapped
<1>1. /\ Files /\ IsCall(call[t]) /\ CallOk(call[t]) /\ None \notin Callers
      /\ call[t].pc = "remove" /\ lock = t /\ lock' = lock /\ tmp' = tmp
  BY HeldFacts DEF RemoveOverride, At, Holding
<1>2. PICK r \in Runners : call[t].path = <<Family, r>> /\ call[t].op = "apply"
  BY <1>1 DEF CallOk
<1>3. applying = r /\ call[t].left \subseteq Builds
  BY <1>1, <1>2 DEF applying, CallOk
<1>4. <<Family, r>>[2] = r
  OBVIOUS
<1>5. CASE call[t].left = {} /\ Ret(t, call[t].answer) /\ UNCHANGED <<file, reading>>
  <2>1. PICK d : call' = [call EXCEPT ![t] = d] /\ IsCall(d) /\ d.pc = "ret"
    BY <1>1, <1>5, Returns
  <2>2. CallOk(d)'
    BY <2>1 DEF CallOk, Writing
  <2>3. StoreInv'
    BY <1>1, <1>5, <2>1, <2>2, HeldFacts, CallMoves DEF Holding, Writing
  <2>4. applying' = Absent
    <3>1. call'[t] = d
      BY <1>1, <2>1, OneCall
    <3> QED BY <1>1, <2>1, <3>1 DEF applying
  <2>5. Store!EndApply
    BY <1>3, <1>5, <2>4, DefaultsConstants DEF Store!EndApply
  <2> QED BY <2>3, <2>5 DEF Mapped, Store!Next
<1>6. ASSUME NEW b \in Builds, NEW e, call' = [call EXCEPT ![t] = e], IsCall(e),
             e.pc = "remove", e.op = call[t].op, e.path = call[t].path,
             e.left \subseteq Builds,
             file' = file \/ file' = [file EXCEPT ![<<b, r>>] = Absent]
      PROVE  StoreInv' /\ Mapped
  <2>1. CallOk(e)'
    BY <1>2, <1>6 DEF CallOk, Writing
  <2>2. file' = [q \in Paths |-> file'[q]] /\ tmp' = [q \in Paths |-> tmp'[q]]
    BY <1>1, <1>6, PathFacts DEF Files
  <2>3. StoreInv'
    BY <1>1, <1>6, <2>1, <2>2, CallMoves
  <2>4. applying' = r
    <3>1. call'[t] = e
      BY <1>1, <1>6, OneCall
    <3> QED BY <1>1, <1>2, <1>6, <3>1 DEF applying
  <2>5. CASE file' = file
    BY <1>3, <2>3, <2>4, <2>5 DEF Mapped
  <2>6. CASE file' = [file EXCEPT ![<<b, r>>] = Absent]
    <3>1. Store!Drop(b)
      BY <1>3, <2>4, <2>6, DefaultsConstants DEF Store!Drop
    <3> QED BY <2>3, <3>1 DEF Mapped, Store!Next
  <2> QED BY <1>6, <2>5, <2>6
<1>7. ASSUME NEW b \in call[t].left, call' = [call EXCEPT ![t].left = @ \ {b}],
             file' = [file EXCEPT ![<<b, r>>] = Absent]
      PROVE  StoreInv' /\ Mapped
  <2> DEFINE c == call[t]
             l == call[t].left \ {b}
             d == [c EXCEPT !.left = l]
  <2>1. call' = [call EXCEPT ![t] = d]
    BY <1>1, <1>7 DEF Files
  <2> HIDE DEF c, d, l
  <2>2. d = [pc |-> c.pc, op |-> c.op, path |-> c.path, body |-> c.body,
             left |-> l, answer |-> c.answer]
    BY <1>1, CallRemoves DEF c, d
  <2>3. PICK e : /\ call' = [call EXCEPT ![t] = e] /\ IsCall(e) /\ e.pc = "remove"
                 /\ e.op = call[t].op /\ e.path = call[t].path /\ e.left \subseteq Builds
    <3>1. /\ IsCall(d) /\ d.pc = c.pc /\ d.op = c.op /\ d.path = c.path
          /\ d.left = l
      BY <2>2 DEF IsCall
    <3>2. l \subseteq Builds
      BY <1>3 DEF l
    <3> QED BY <1>1, <2>1, <3>1, <3>2 DEF c
  <2> QED BY <1>3, <1>6, <1>7, <2>3
<1>8. ASSUME NEW b \in call[t].left, NEW x, file' = file,
             call' = [call EXCEPT ![t].left = @ \ {b}, ![t].answer = x]
      PROVE  StoreInv' /\ Mapped
  <2> DEFINE c == call[t]
             l == call[t].left \ {b}
             d == [c EXCEPT !.left = l, !.answer = x]
  <2>1. call' = [call EXCEPT ![t] = d]
    BY <1>1, <1>8 DEF Files
  <2> HIDE DEF c, d, l
  <2>2. d = [pc |-> c.pc, op |-> c.op, path |-> c.path, body |-> c.body,
             left |-> l, answer |-> x]
    <3>1. IsCall(c) /\ d = [c EXCEPT !.left = l, !.answer = x]
      BY <1>1 DEF c, d
    <3> QED BY <3>1, CallDrops
  <2>3. PICK e : /\ call' = [call EXCEPT ![t] = e] /\ IsCall(e) /\ e.pc = "remove"
                 /\ e.op = call[t].op /\ e.path = call[t].path /\ e.left \subseteq Builds
    <3>1. /\ IsCall(d) /\ d.pc = c.pc /\ d.op = c.op /\ d.path = c.path
          /\ d.left = l
      BY <2>2 DEF IsCall
    <3>2. l \subseteq Builds
      BY <1>3 DEF l
    <3> QED BY <1>1, <2>1, <3>1, <3>2 DEF c
  <2> QED BY <1>3, <1>6, <1>8, <2>3
<1>9. CASE \E b \in call[t].left :
             /\ call' = [call EXCEPT ![t].left = @ \ {b},
                    ![t].answer = IF is_regular(file[<<b, r>>]) THEN "partly" ELSE @]
             /\ UNCHANGED <<file, reading>>
  <2>1. PICK b \in call[t].left :
             /\ call' = [call EXCEPT ![t].left = @ \ {b},
                    ![t].answer = IF is_regular(file[<<b, r>>]) THEN "partly" ELSE @]
             /\ UNCHANGED <<file, reading>>
    BY <1>9
  <2>2. PICK x : x = IF is_regular(file[<<b, r>>]) THEN "partly" ELSE call[t].answer
    OBVIOUS
  <2>3. call' = [call EXCEPT ![t].left = @ \ {b}, ![t].answer = x]
    BY <1>1, <2>1, <2>2 DEF Files
  <2> QED BY <1>8, <2>1, <2>3
<1>10. CASE \E b \in call[t].left : /\ file' = [file EXCEPT ![<<b, r>>] = Absent]
                                    /\ call' = [call EXCEPT ![t].left = @ \ {b}]
  BY <1>7, <1>10
<1> QED BY <1>2, <1>4, <1>5, <1>9, <1>10 DEF RemoveOverride

-----------------------------------------------------------------------------
(* Begin and end of a call.                                                *)

\* A thread that begins a call, or is refused, changes nothing of the store.
LEMMA BeginStep ==
    ASSUME StoreInv, NEW t \in Callers, NEW d, call' = [call EXCEPT ![t] = d],
           CallOk(d), call[t].pc = "idle", d.pc \in {"lock", "ret"},
           UNCHANGED <<file, tmp, lock>>
    PROVE  StoreInv' /\ Mapped
<1>1. Files /\ file = [p \in Paths |-> file[p]] /\ tmp = [p \in Paths |-> tmp[p]]
  BY HeldFacts
<1>2. CallOk(d)' /\ d.pc \notin Holding
  BY StaysOk DEF Holding, Writing
<1>3. StoreInv'
  BY <1>1, <1>2, CallMoves DEF Files
<1>4. UNCHANGED applying
  <2>1. call'[t] = d /\ \A u \in Callers : u # t => call'[u] = call[u]
    BY <1>1, OneCall
  <2> QED BY <1>1, <2>1, StillApplying DEF Dropping
<1> QED BY <1>3, <1>4 DEF Mapped

\* A save begins with a text that is a set, or is refused.
LEMMA SaveBegins ==
    ASSUME StoreInv, NEW t \in Callers, NEW p \in Paths, NEW text \in Texts, save_file(t, p, text)
    PROVE  StoreInv' /\ Mapped
<1>1. IsCall(Idle) /\ call[t].pc = "idle" /\ UNCHANGED <<file, tmp, lock>>
  BY IdleIsCall DEF save_file, At
<1>2. CASE checked_body(p[2], text)
  <2> DEFINE d == [Idle EXCEPT !.pc = "lock", !.op = "save", !.path = p, !.body = text]
  <2>1. call' = [call EXCEPT ![t] = d]
    BY <1>2 DEF save_file
  <2> HIDE DEF d
  <2>2. d = [pc |-> "lock", op |-> "save", path |-> p, body |-> text,
             left |-> Idle.left, answer |-> Idle.answer]
    <3>1. IsCall(Idle) /\ d = [Idle EXCEPT !.pc = "lock", !.op = "save", !.path = p, !.body = text]
      BY <1>1 DEF d
    <3> QED BY <3>1, CallSaves
  <2>3. PICK e : /\ call' = [call EXCEPT ![t] = e] /\ IsCall(e) /\ e.pc = "lock"
                 /\ e.op = "save" /\ e.path = p /\ e.body = text
    <3>1. IsCall(d) /\ d.pc = "lock" /\ d.op = "save" /\ d.path = p /\ d.body = text
      BY <2>2 DEF IsCall
    <3> QED BY <2>1, <3>1
  <2>4. CallOk(e)
    BY <1>2, <2>3 DEF CallOk, Saves, Writing
  <2> QED BY <1>1, <2>3, <2>4, BeginStep
<1>3. CASE ~checked_body(p[2], text)
  <2> DEFINE d == [Idle EXCEPT !.pc = "ret", !.op = "save", !.answer = "fail"]
  <2>1. call' = [call EXCEPT ![t] = d]
    BY <1>3 DEF save_file
  <2> HIDE DEF d
  <2>2. d = [pc |-> "ret", op |-> "save", path |-> Idle.path, body |-> Idle.body,
             left |-> Idle.left, answer |-> "fail"]
    <3>1. IsCall(Idle) /\ d = [Idle EXCEPT !.pc = "ret", !.op = "save", !.answer = "fail"]
      BY <1>1 DEF d
    <3> QED BY <3>1, CallRefused
  <2>3. PICK e : call' = [call EXCEPT ![t] = e] /\ IsCall(e) /\ e.pc = "ret"
    <3>1. IsCall(d) /\ d.pc = "ret"
      BY <2>2 DEF IsCall
    <3> QED BY <2>1, <3>1
  <2>4. CallOk(e)
    BY <2>3 DEF CallOk, Writing
  <2> QED BY <1>1, <2>3, <2>4, BeginStep
<1> QED BY <1>2, <1>3

\* A request that is refused touches nothing.
LEMMA RefuseStep ==
    ASSUME StoreInv, NEW t \in Callers, NEW op, refuse(t, op)
    PROVE  StoreInv' /\ Mapped
<1>1. IsCall(Idle) /\ call[t].pc = "idle" /\ UNCHANGED <<file, tmp, lock>>
  BY IdleIsCall DEF refuse, At
<1> DEFINE d == [Idle EXCEPT !.pc = "ret", !.op = op, !.answer = "fail"]
<1>2. call' = [call EXCEPT ![t] = d]
  BY DEF refuse
<1> HIDE DEF d
<1>3. d = [pc |-> "ret", op |-> op, path |-> Idle.path, body |-> Idle.body,
           left |-> Idle.left, answer |-> "fail"]
  <2>1. IsCall(Idle) /\ d = [Idle EXCEPT !.pc = "ret", !.op = op, !.answer = "fail"]
    BY <1>1 DEF d
  <2> QED BY <2>1, CallRefused
<1>4. PICK e : call' = [call EXCEPT ![t] = e] /\ IsCall(e) /\ e.pc = "ret"
  <2>1. IsCall(d) /\ d.pc = "ret"
    BY <1>3 DEF IsCall
  <2> QED BY <1>2, <2>1
<1>5. CallOk(e)
  BY <1>4 DEF CallOk, Writing
<1> QED BY <1>1, <1>4, <1>5, BeginStep

\* What tool_build finds has a family, and a version unless it says so.
LEMMA ToolFacts ==
    ASSUME NEW tool \in Tools
    PROVE  LET b == tool_build(tool)
           IN  b.build # NoBuild => b.build \in Builds /\ b.runner \in Runners
BY DefaultsConstants DEF tool_build

\* The handlers of the settings' routes only begin a call.
LEMMA RequestStep ==
    ASSUME StoreInv, NEW t \in Callers,
           set_defaults(t) \/ set_tool_defaults(t) \/ apply_tool_defaults(t)
    PROVE  StoreInv' /\ Mapped
<1>1. CASE set_defaults(t)
  <2>1. PICK r \in Runners, text \in Texts : save_file(t, <<Family, r>>, text)
    BY <1>1 DEF set_defaults, np_defaults_save
  <2> QED BY <2>1, PathFacts, SaveBegins
<1>2. CASE set_tool_defaults(t)
  <2>1. PICK tool \in Tools, text \in Texts : np_defaults_save_build(t, tool, text)
    BY <1>2 DEF set_tool_defaults
  <2>2. CASE tool_build(tool).build = NoBuild
    BY <2>1, <2>2, RefuseStep DEF np_defaults_save_build
  <2>3. CASE tool_build(tool).build # NoBuild
    <3>1. <<tool_build(tool).build, tool_build(tool).runner>> \in Paths
      BY <2>3, ToolFacts, PathFacts
    <3> QED BY <2>1, <2>3, <3>1, SaveBegins DEF np_defaults_save_build
  <2> QED BY <2>2, <2>3
<1>3. CASE apply_tool_defaults(t)
  <2>1. PICK tool \in Tools : np_defaults_apply_build(t, tool)
    BY <1>3 DEF apply_tool_defaults
  <2>2. CASE tool_build(tool).build = NoBuild
    BY <2>1, <2>2, RefuseStep DEF np_defaults_apply_build
  <2>3. CASE tool_build(tool).build # NoBuild
    <3>1. PICK p \in Builds \X Runners : p = <<tool_build(tool).build, tool_build(tool).runner>>
      BY <2>3, ToolFacts
    <3> DEFINE d == [Idle EXCEPT !.pc = "lock", !.op = "apply", !.path = p]
    <3>2. /\ call' = [call EXCEPT ![t] = d] /\ call[t].pc = "idle"
          /\ UNCHANGED <<file, tmp, lock>>
      BY <2>1, <2>3, <3>1 DEF np_defaults_apply_build, At
    <3> HIDE DEF d
    <3>3. d = [pc |-> "lock", op |-> "apply", path |-> p, body |-> Idle.body,
               left |-> Idle.left, answer |-> Idle.answer]
      <4>1. IsCall(Idle) /\ d = [Idle EXCEPT !.pc = "lock", !.op = "apply", !.path = p]
        BY IdleIsCall DEF d
      <4> QED BY <4>1, CallApplies
    <3>4. PICK e : /\ call' = [call EXCEPT ![t] = e] /\ IsCall(e) /\ e.pc = "lock"
                   /\ e.op = "apply" /\ e.path = p
      <4>1. IsCall(d) /\ d.pc = "lock" /\ d.op = "apply" /\ d.path = p
        BY <3>3 DEF IsCall
      <4> QED BY <3>2, <4>1
    <3>5. CallOk(e)
      BY <3>1, <3>4 DEF CallOk, Writing
    <3> QED BY <3>2, <3>4, <3>5, BeginStep
  <2> QED BY <2>2, <2>3
<1> QED BY <1>1, <1>2, <1>3

\* An answer gives up the lock and nothing else.
LEMMA ReturnStep ==
    ASSUME StoreInv, NEW t \in Callers, Return(t)
    PROVE  StoreInv' /\ Mapped
<1>1. /\ Files /\ call[t].pc = "ret" /\ file' = file /\ tmp' = tmp
      /\ call' = [call EXCEPT ![t] = Idle] /\ lock' = (IF lock = t THEN None ELSE lock)
      /\ file = [p \in Paths |-> file[p]] /\ tmp = [p \in Paths |-> tmp[p]]
      /\ None \notin Callers
  BY HeldFacts DEF Return, At
<1>2. PICK d : d = Idle
  OBVIOUS
<1>3. CallOk(d)' /\ d.pc = "idle"
  BY <1>2, IdleIsCall DEF CallOk, Writing
<1>4. StoreInv'
  BY <1>1, <1>2, <1>3, CallMoves DEF Holding, Writing, Files
<1>5. UNCHANGED applying
  <2>1. call'[t] = d /\ \A u \in Callers : u # t => call'[u] = call[u]
    BY <1>1, <1>2, OneCall
  <2> QED BY <1>1, <1>3, <2>1, StillApplying DEF Dropping
<1> QED BY <1>1, <1>4, <1>5 DEF Mapped

\* The end of Steam ends an apply where it was.
LEMMA EndStep ==
    ASSUME StoreInv, Ends
    PROVE  StoreInv' /\ Mapped
<1>1. /\ file' = file /\ tmp' = tmp /\ lock' = None /\ call' = [t \in Callers |-> Idle]
      /\ Files /\ None \notin Callers
  BY DefaultsConstants DEF Ends, StoreInv
<1>2. Files'
  BY <1>1 DEF Files
<1>3. \A t \in Callers : call'[t] = Idle
  BY <1>1
<1>4. LockInv'
  BY <1>3, IdleIsCall DEF LockInv, Holding, Writing
<1>5. CallOk(Idle)'
  BY IdleIsCall, DefaultsConstants DEF CallOk, Writing, Idle
<1>6. \A t \in Callers : CallOk(call[t])'
  BY <1>3, <1>5
<1>7. applying' = Absent
  BY <1>1 DEF applying
<1>8. Store!EndApply \/ UNCHANGED <<file, applying>>
  BY <1>1, <1>7 DEF Store!EndApply
<1> QED BY <1>2, <1>4, <1>6, <1>8 DEF StoreInv, Mapped, Store!Next

\* Steps of the routes and of the pages that read.
LEMMA SameStep ==
    ASSUME StoreInv, UNCHANGED <<file, tmp, lock, call>>
    PROVE  StoreInv' /\ Mapped
<1>1. Files' /\ LockInv'
  BY DEF StoreInv, Files, LockInv
<1>2. \A t \in Callers : CallOk(call[t])'
  BY DEF StoreInv, CallOk, Saves, Applies, source_of
<1>3. UNCHANGED applying
  BY DEF applying
<1> QED BY <1>1, <1>2, <1>3 DEF StoreInv, Mapped

-----------------------------------------------------------------------------

\* The files Steam finds, and no call.
LEMMA InitStore == Init => StoreInv /\ applying = Absent
<1> SUFFICES ASSUME Init PROVE StoreInv /\ applying = Absent
  OBVIOUS
<1>1. PICK f \in [Paths -> InitialFiles] : Initially(f)
  BY DEF Init, DefaultsInit
<1>2. /\ file = f /\ tmp = [p \in Paths |-> Absent] /\ lock = None
      /\ call = [t \in Callers |-> Idle]
  BY <1>1 DEF Initially
<1>3. Files
  BY <1>2 DEF Files
<1>4. \A t \in Callers : call[t] = Idle
  BY <1>2
<1>5. LockInv
  BY <1>4, IdleIsCall DEF LockInv, Holding, Writing
<1>6. CallOk(Idle)
  BY IdleIsCall DEF CallOk, Writing
<1> QED BY <1>2, <1>3, <1>4, <1>5, <1>6 DEF StoreInv, applying

\* Every step keeps the invariant, and is one of the store's or a stutter.
LEMMA StoreSteps ==
    ASSUME StoreInv, [Next]_allVars
    PROVE  StoreInv' /\ Mapped
<1>1. ASSUME NEW t \in Callers, CallStep(t) PROVE StoreInv' /\ Mapped
  BY <1>1, LockStep, ReadSourceStep, TmpStep, RenameStep, ListStep, RemoveStep DEF CallStep
<1>2. ASSUME NEW t \in Callers, DefaultsHandler(t) \/ DefaultsResult(t) PROVE StoreInv' /\ Mapped
  BY <1>2, RequestStep, ReturnStep DEF DefaultsHandler, DefaultsResult
<1>3. ASSUME NEW t \in Callers, (\E name \in Asked : Dispatch(t, name)) \/ job_handler(t)
      PROVE StoreInv' /\ Mapped
  <2>1. UNCHANGED <<file, tmp, lock, call>>
    BY <1>3 DEF Dispatch, job_handler
  <2> QED BY <2>1, SameStep
<1>4. ASSUME NEW d \in Readers, BeginPublish(d) \/ publish_defaults(d) \/ ClosePage(d)
      PROVE StoreInv' /\ Mapped
  <2>1. UNCHANGED <<file, tmp, lock, call>>
    BY <1>4 DEF BeginPublish, publish_defaults, ClosePage
  <2> QED BY <2>1, SameStep
<1>5. CASE StateChanged
  <2>1. UNCHANGED <<file, tmp, lock, call>>
    BY <1>5 DEF StateChanged
  <2> QED BY <2>1, SameStep
<1>6. CASE Restart
  BY <1>6, EndStep DEF Restart
<1>7. CASE UNCHANGED allVars
  <2>1. UNCHANGED <<file, tmp, lock, call>>
    BY <1>7 DEF allVars
  <2> QED BY <2>1, SameStep
<1> QED BY <1>1, <1>2, <1>3, <1>4, <1>5, <1>6, <1>7 DEF Next, DefaultsOnly

\* Every behaviour of the settings files is one of the abstract store: a file
\* is replaced whole by one checked set, and versions lose their own sets
\* only while their family's was made the one applied (write_locked,
\* np_defaults_apply_build, remove_overrides_locked).
THEOREM ImplementsStore == Spec => StoreSpec
<1>1. Mapped => [Store!Next]_<<file, applying>>
  BY DEF Mapped
<1>2. StoreInv /\ [Next]_allVars => [Store!Next]_<<file, applying>>
  BY <1>1, StoreSteps
<1>3. StoreInv /\ [Next]_allVars => StoreInv'
  BY StoreSteps
<1> QED BY <1>2, <1>3, InitStore, PTL DEF Spec, StoreSpec, Store!Spec

-----------------------------------------------------------------------------
(* Answers.                                                                *)

True(c, f, old) ==
    /\ c.answer = "fail" => f = old
    /\ c.answer = "ok" /\ c.op = "save" => f = [old EXCEPT ![c.path] = c.body]
    /\ c.answer \in {"ok", "cut", "partly"} /\ c.op = "apply" =>
          /\ f[<<Family, c.path[2]>>] = c.body
          /\ \A p \in Paths : p[2] # c.path[2] => f[p] = old[p]
    /\ c.answer = "ok" /\ c.op = "apply" => \A b \in Builds : ~is_regular(f[<<b, c.path[2]>>])

(* What the holder of the lock has done to the files so far.               *)
Told(c, f, old) ==
    /\ c.pc \in Holding \cup {"ret"}
    /\ c.pc \in {"read"} \cup Writing => f = old
    /\ c.pc \in Dropping =>
          /\ f[<<Family, c.path[2]>>] = c.body
          /\ \A p \in Paths : p[2] # c.path[2] => f[p] = old[p]
    /\ c.pc = "remove" =>
          /\ c.answer \in {"ok", "cut", "partly"}
          /\ c.answer = "ok" =>
                \A b \in Builds \ c.left : ~is_regular(f[<<b, c.path[2]>>])
    /\ c.pc = "ret" => True(c, f, old)

TruthInv == \A t \in Callers : lock = t => Told(call[t], file, before)

\* The holder goes on; nobody else can, or the step is another's and none
\* of the holder's concern.
LEMMA HolderTells ==
    ASSUME StoreInv, NEW t \in Callers, NEW d, call' = [call EXCEPT ![t] = d],
           lock' = t, Told(d, file', before')
    PROVE  TruthInv'
<1>1. call'[t] = d
  BY OneCall DEF StoreInv
<1> QED BY <1>1 DEF TruthInv

\* A call without the lock moves.
LEMMA OthersTell ==
    ASSUME StoreInv, TruthInv, NEW t \in Callers, NEW d, call' = [call EXCEPT ![t] = d],
           lock # t, lock' = lock, file' = file, before' = before
    PROVE  TruthInv'
<1>1. \A u \in Callers : u # t => call'[u] = call[u]
  BY OneCall DEF StoreInv
<1> QED BY <1>1 DEF TruthInv

\* The lock is taken, and the files are what they are.
LEMMA LockTells ==
    ASSUME StoreInv, NEW t \in Callers, Lock(t)
    PROVE  TruthInv'
<1>1. Files /\ IsCall(call[t]) /\ lock' = t /\ before' = file /\ file' = file
  BY HeldFacts DEF Lock
<1>2. PICK d : /\ call' = [call EXCEPT ![t] = d]
               /\ d.pc \in {"open", "read"} \/ (d.pc = "ret" /\ d.answer = "fail")
  <2>1. CASE Goto(t, "open")
    BY <1>1, <2>1, Goes
  <2>2. CASE Goto(t, "read")
    BY <1>1, <2>2, Goes
  <2>3. CASE Ret(t, "fail")
    BY <1>1, <2>3, Returns
  <2> QED BY <2>1, <2>2, <2>3 DEF Lock
<1>3. Told(d, file', before')
  BY <1>1, <1>2 DEF Told, True, Holding, Writing, Dropping
<1> QED BY <1>1, <1>2, <1>3, HolderTells

\* Until the rename no file changes, and a failure answers so.
LEMMA EarlyTells ==
    ASSUME StoreInv, TruthInv, NEW t \in Callers, ReadSource(t) \/ OpenTmp(t) \/ WriteTmp(t)
    PROVE  TruthInv'
<1>1. /\ Files /\ IsCall(call[t]) /\ lock = t /\ lock' = t /\ before' = before /\ file' = file
      /\ call[t].pc \in {"read", "open", "write"}
  BY HeldFacts DEF ReadSource, OpenTmp, WriteTmp, At, Holding, Writing
<1>2. before = file
  BY <1>1 DEF TruthInv, Told, Writing
<1>3. PICK d : /\ call' = [call EXCEPT ![t] = d]
               /\ d.pc \in Writing \/ (d.pc = "ret" /\ d.answer = "fail")
  <2>1. CASE Ret(t, "fail")
    BY <1>1, <2>1, Returns
  <2>2. CASE Goto(t, "write") \/ Goto(t, "rename")
    BY <1>1, <2>2, Goes DEF Writing
  <2>3. ASSUME NEW p, NEW body,
               call' = [call EXCEPT ![t].pc = "open", ![t].path = p, ![t].body = body]
        PROVE  \E d : call' = [call EXCEPT ![t] = d] /\ d.pc = "open"
    <3> DEFINE c == call[t]
               d == [c EXCEPT !.pc = "open", !.path = p, !.body = body]
    <3>1. call' = [call EXCEPT ![t] = d]
      BY <1>1, <2>3 DEF Files
    <3> HIDE DEF c, d
    <3>2. IsCall(c) /\ d = [c EXCEPT !.pc = "open", !.path = p, !.body = body]
      BY <1>1 DEF c, d
    <3>3. d = [pc |-> "open", op |-> c.op, path |-> p, body |-> body,
               left |-> c.left, answer |-> c.answer]
      BY <3>2, CallWrites
    <3>4. d.pc = "open"
      BY <3>3
    <3> QED BY <3>1, <3>4
  <2>4. CASE ReadSource(t) /\ ~Ret(t, "fail")
    BY <2>3, <2>4 DEF ReadSource, Writing
  <2> QED BY <2>1, <2>2, <2>4 DEF OpenTmp, WriteTmp
<1>4. Told(d, file', before')
  BY <1>1, <1>2, <1>3 DEF Told, True, Holding, Writing, Dropping
<1> QED BY <1>1, <1>3, <1>4, HolderTells

\* A rename changes one file, or none and says so.
LEMMA RenameTells ==
    ASSUME StoreInv, TruthInv, NEW t \in Callers, Rename(t)
    PROVE  TruthInv'
<1> DEFINE p == call[t].path
<1>1. /\ Files /\ IsCall(call[t]) /\ CallOk(call[t]) /\ lock = t /\ lock' = t /\ before' = before
      /\ call[t].pc = "rename" /\ call[t].op \in {"save", "apply"}
  BY HeldFacts DEF Rename, At, Holding, Writing, CallOk
<1>2. before = file
  BY <1>1 DEF TruthInv, Told, Writing
<1>3. CASE file' = file /\ Ret(t, "fail")
  <2>1. PICK d : call' = [call EXCEPT ![t] = d] /\ d.pc = "ret" /\ d.answer = "fail"
    BY <1>1, <1>3, Returns
  <2>2. Told(d, file', before')
    BY <1>1, <1>2, <1>3, <2>1 DEF Told, True, Writing, Dropping
  <2> QED BY <1>1, <2>1, <2>2, HolderTells
<1>4. CASE call[t].op = "save" /\ file' = [file EXCEPT ![p] = tmp[p]] /\ Ret(t, "ok")
  <2>1. PICK d : /\ call' = [call EXCEPT ![t] = d] /\ d.pc = "ret" /\ d.answer = "ok"
                 /\ d.op = "save" /\ d.path = p /\ d.body = call[t].body
    BY <1>1, <1>4, Returns
  <2>2. tmp[p] = d.body
    BY <1>1, <2>1 DEF CallOk
  <2>3. file' = [before EXCEPT ![d.path] = d.body]
    BY <1>2, <1>4, <2>1, <2>2
  <2>4. Told(d, file', before')
    BY <1>1, <2>1, <2>3 DEF Told, True, Writing, Dropping
  <2> QED BY <1>1, <2>1, <2>4, HolderTells
<1>5. CASE call[t].op = "apply" /\ file' = [file EXCEPT ![p] = tmp[p]] /\ Goto(t, "list")
  <2>1. PICK r \in Runners : p = <<Family, r>>
    BY <1>1, <1>5 DEF CallOk, Applies, Writing
  <2>2. PICK d : /\ call' = [call EXCEPT ![t] = d] /\ d.pc = "list"
                 /\ d.path = <<Family, r>> /\ d.body = call[t].body
    BY <1>1, <1>5, <2>1, Goes
  <2>3. tmp[p] = d.body
    BY <1>1, <2>2 DEF CallOk
  <2>4. <<Family, r>> \in Paths /\ d.path[2] = r
    BY <2>2, PathFacts
  <2>5. /\ file'[<<Family, r>>] = d.body
        /\ \A q \in Paths : q[2] # r => file'[q] = before[q]
    BY <1>1, <1>2, <1>5, <2>1, <2>3, <2>4 DEF Files
  <2>6. Told(d, file', before')
    BY <1>1, <2>2, <2>4, <2>5 DEF Told, Holding, Writing, Dropping
  <2> QED BY <1>1, <2>2, <2>6, HolderTells
<1> QED BY <1>1, <1>3, <1>4, <1>5 DEF Rename

\* An apply that looked the versions up changed no file yet.
LEMMA ListTells ==
    ASSUME StoreInv, TruthInv, NEW t \in Callers, ListOverrides(t)
    PROVE  TruthInv'
<1>1. /\ Files /\ IsCall(call[t]) /\ CallOk(call[t]) /\ lock = t /\ lock' = t
      /\ before' = before /\ file' = file /\ call[t].pc = "list"
  BY HeldFacts DEF ListOverrides, At, Holding
<1>2. PICK r \in Runners : call[t].path = <<Family, r>> /\ call[t].op = "apply" /\ call[t].path[2] = r
  BY <1>1 DEF CallOk
<1>3. /\ file[<<Family, r>>] = call[t].body
      /\ \A p \in Paths : p[2] # r => file[p] = before[p]
  BY <1>1, <1>2 DEF TruthInv, Told, Dropping
<1>4. CASE Ret(t, "partly")
  <2>1. PICK d : /\ call' = [call EXCEPT ![t] = d] /\ d.pc = "ret" /\ d.answer = "partly"
                 /\ d.op = "apply" /\ d.path[2] = r /\ d.body = call[t].body
    BY <1>1, <1>2, <1>4, Returns
  <2>2. Told(d, file', before')
    BY <1>1, <1>3, <2>1 DEF Told, True, Writing, Dropping
  <2> QED BY <1>1, <2>1, <2>2, HolderTells
<1>5. CASE ~Ret(t, "partly")
  <2> DEFINE own == {b \in Builds : file[<<b, r>>] # Absent}
  <2>1. PICK left, x :
            /\ call' = [call EXCEPT ![t].pc = "remove", ![t].answer = x, ![t].left = left]
            /\ x = "cut" \/ (x = "ok" /\ left = own)
    BY <1>2, <1>5 DEF ListOverrides
  <2>2. x = "ok" => \A b \in Builds \ left : ~is_regular(file[<<b, r>>])
    BY <2>1 DEF is_regular
  <2> HIDE DEF own
  <2> DEFINE c == call[t]
             d == [c EXCEPT !.pc = "remove", !.answer = x, !.left = left]
  <2>3. call' = [call EXCEPT ![t] = d]
    BY <1>1, <2>1 DEF Files
  <2> HIDE DEF c, d
  <2>4. IsCall(c) /\ d = [c EXCEPT !.pc = "remove", !.answer = x, !.left = left]
    BY <1>1 DEF c, d
  <2>5. d = [pc |-> "remove", op |-> c.op, path |-> c.path, body |-> c.body,
             left |-> left, answer |-> x]
    BY <2>4, CallAnswers
  <2>6. /\ d.pc = "remove" /\ d.path = call[t].path /\ d.body = call[t].body
        /\ d.left = left /\ d.answer = x
    BY <2>5 DEF c
  <2>7. Told(d, file', before')
    BY <1>1, <1>2, <1>3, <2>1, <2>2, <2>6 DEF Told, Holding, Writing, Dropping
  <2>8. PICK e : e = d
    OBVIOUS
  <2> QED BY <1>1, <2>3, <2>7, <2>8, HolderTells
<1> QED BY <1>4, <1>5

\* A version's own file goes or stays, and the answer says which.
LEMMA RemoveTells ==
    ASSUME StoreInv, TruthInv, NEW t \in Callers, RemoveOverride(t)
    PROVE  TruthInv'
<1>1. /\ Files /\ IsCall(call[t]) /\ CallOk(call[t]) /\ lock = t /\ lock' = t
      /\ before' = before /\ call[t].pc = "remove"
  BY HeldFacts DEF RemoveOverride, At, Holding
<1>2. PICK r \in Runners : call[t].path = <<Family, r>> /\ call[t].op = "apply" /\ call[t].path[2] = r
  BY <1>1 DEF CallOk
<1>3. /\ file[<<Family, r>>] = call[t].body
      /\ \A p \in Paths : p[2] # r => file[p] = before[p]
      /\ call[t].answer \in {"ok", "cut", "partly"}
      /\ call[t].answer = "ok" => \A b \in Builds \ call[t].left : ~is_regular(file[<<b, r>>])
      /\ call[t].left \subseteq Builds
  BY <1>1, <1>2 DEF TruthInv, Told, Dropping, CallOk
<1>4. CASE call[t].left = {} /\ Ret(t, call[t].answer) /\ UNCHANGED <<file, reading>>
  <2>1. PICK d : /\ call' = [call EXCEPT ![t] = d] /\ d.pc = "ret" /\ d.answer = call[t].answer
                 /\ d.op = "apply" /\ d.path[2] = r /\ d.body = call[t].body
    BY <1>1, <1>2, <1>4, Returns
  <2>2. Told(d, file', before')
    BY <1>1, <1>3, <1>4, <2>1 DEF Told, True, Writing, Dropping
  <2> QED BY <1>1, <2>1, <2>2, HolderTells
<1>5. ASSUME NEW e, call' = [call EXCEPT ![t] = e], e.pc = "remove",
             e.path[2] = r, e.body = call[t].body, NEW b \in call[t].left,
             e.left = call[t].left \ {b}, e.answer \in {"partly", call[t].answer},
             \/ file' = [file EXCEPT ![<<b, r>>] = Absent]
             \/ file' = file /\ (is_regular(file[<<b, r>>]) => e.answer = "partly")
      PROVE  TruthInv'
  <2>1. /\ <<b, r>> \in Paths /\ <<Family, r>> # <<b, r>> /\ <<b, r>>[2] = r
        /\ <<Family, r>> \in Paths /\ \A x \in Builds : <<x, r>> \in Paths
    BY <1>3, PathFacts, DefaultsConstants
  <2>2. /\ file'[<<Family, r>>] = e.body
        /\ \A p \in Paths : p[2] # r => file'[p] = before[p]
    BY <1>1, <1>3, <1>5, <2>1 DEF Files
  <2>3. ASSUME e.answer = "ok", NEW x \in Builds \ e.left
        PROVE  ~is_regular(file'[<<x, r>>])
    <3>1. CASE x = b
      BY <1>1, <1>5, <2>1, <2>3, <3>1 DEF Files, is_regular
    <3>2. CASE x # b
      <4>1. ~is_regular(file[<<x, r>>]) /\ <<x, r>> # <<b, r>>
        BY <1>3, <1>5, <2>3, <3>2
      <4>2. file'[<<x, r>>] = file[<<x, r>>]
        BY <1>1, <1>5, <2>1, <2>3, <4>1 DEF Files
      <4> QED BY <4>1, <4>2
    <3> QED BY <3>1, <3>2
  <2>4. Told(e, file', before')
    BY <1>1, <1>3, <1>5, <2>2, <2>3 DEF Told, Holding, Writing, Dropping
  <2> QED BY <1>1, <1>5, <2>4, HolderTells
<1>6. ASSUME NEW b \in call[t].left, call' = [call EXCEPT ![t].left = @ \ {b}],
             file' = [file EXCEPT ![<<b, r>>] = Absent]
      PROVE  TruthInv'
  <2> DEFINE c == call[t]
             l == call[t].left \ {b}
             d == [c EXCEPT !.left = l]
  <2>1. call' = [call EXCEPT ![t] = d]
    BY <1>1, <1>6 DEF Files
  <2> HIDE DEF c, d, l
  <2>2. d = [pc |-> c.pc, op |-> c.op, path |-> c.path, body |-> c.body,
             left |-> l, answer |-> c.answer]
    BY <1>1, CallRemoves DEF c, d
  <2>3. PICK e : /\ call' = [call EXCEPT ![t] = e] /\ e.pc = "remove" /\ e.path[2] = r
                 /\ e.body = call[t].body /\ e.left = call[t].left \ {b}
                 /\ e.answer = call[t].answer
    <3>1. d.pc = c.pc /\ d.path = c.path /\ d.body = c.body /\ d.left = l /\ d.answer = c.answer
      BY <2>2
    <3> QED BY <1>1, <1>2, <2>1, <3>1 DEF c, l
  <2> QED BY <1>5, <1>6, <2>3
<1>7. ASSUME NEW b \in call[t].left, NEW x, file' = file,
             call' = [call EXCEPT ![t].left = @ \ {b}, ![t].answer = x],
             x = IF is_regular(file[<<b, r>>]) THEN "partly" ELSE call[t].answer
      PROVE  TruthInv'
  <2> DEFINE c == call[t]
             l == call[t].left \ {b}
             d == [c EXCEPT !.left = l, !.answer = x]
  <2>1. call' = [call EXCEPT ![t] = d]
    BY <1>1, <1>7 DEF Files
  <2> HIDE DEF c, d, l
  <2>2. d = [pc |-> c.pc, op |-> c.op, path |-> c.path, body |-> c.body,
             left |-> l, answer |-> x]
    <3>1. IsCall(c) /\ d = [c EXCEPT !.left = l, !.answer = x]
      BY <1>1 DEF c, d
    <3> QED BY <3>1, CallDrops
  <2>3. PICK e : /\ call' = [call EXCEPT ![t] = e] /\ e.pc = "remove" /\ e.path[2] = r
                 /\ e.body = call[t].body /\ e.left = call[t].left \ {b} /\ e.answer = x
    <3>1. d.pc = c.pc /\ d.path = c.path /\ d.body = c.body /\ d.left = l /\ d.answer = x
      BY <2>2
    <3> QED BY <1>1, <1>2, <2>1, <3>1 DEF c, l
  <2> QED BY <1>5, <1>7, <2>3
<1>8. CASE \E b \in call[t].left :
             /\ call' = [call EXCEPT ![t].left = @ \ {b},
                    ![t].answer = IF is_regular(file[<<b, r>>]) THEN "partly" ELSE @]
             /\ UNCHANGED <<file, reading>>
  <2>1. PICK b \in call[t].left :
             /\ call' = [call EXCEPT ![t].left = @ \ {b},
                    ![t].answer = IF is_regular(file[<<b, r>>]) THEN "partly" ELSE @]
             /\ UNCHANGED <<file, reading>>
    BY <1>8
  <2>2. PICK x : x = IF is_regular(file[<<b, r>>]) THEN "partly" ELSE call[t].answer
    OBVIOUS
  <2>3. call' = [call EXCEPT ![t].left = @ \ {b}, ![t].answer = x]
    BY <1>1, <2>1, <2>2 DEF Files
  <2> QED BY <1>7, <2>1, <2>2, <2>3
<1>9. CASE \E b \in call[t].left : /\ file' = [file EXCEPT ![<<b, r>>] = Absent]
                                   /\ call' = [call EXCEPT ![t].left = @ \ {b}]
  BY <1>6, <1>9
<1> QED BY <1>2, <1>4, <1>8, <1>9 DEF RemoveOverride

\* A call begins without the lock, whatever it is.
LEMMA RequestTells ==
    ASSUME StoreInv, TruthInv, NEW t \in Callers,
           set_defaults(t) \/ set_tool_defaults(t) \/ apply_tool_defaults(t)
    PROVE  TruthInv'
<1>1. /\ call[t].pc = "idle" /\ lock' = lock /\ file' = file /\ before' = before
      /\ \E e : call' = [call EXCEPT ![t] = e]
  BY DEF set_defaults, set_tool_defaults, apply_tool_defaults, np_defaults_save,
         np_defaults_save_build, np_defaults_apply_build, save_file, refuse, At
<1>2. lock # t
  BY <1>1 DEF TruthInv, Told, Holding, Writing
<1>3. PICK e : call' = [call EXCEPT ![t] = e]
  BY <1>1
<1> QED BY <1>1, <1>2, <1>3, OthersTell

\* The one that answered gives the lock up, and another never had it.
LEMMA ReturnTells ==
    ASSUME StoreInv, TruthInv, NEW t \in Callers, Return(t)
    PROVE  TruthInv'
<1>1. CASE lock = t
  <2>1. lock' = None /\ None \notin Callers
    BY <1>1, DefaultsConstants DEF Return
  <2> QED BY <2>1 DEF TruthInv
<1>2. CASE lock # t
  <2>1. PICK e : call' = [call EXCEPT ![t] = e]
    BY DEF Return
  <2>2. lock' = lock /\ file' = file /\ before' = before
    BY <1>2 DEF Return
  <2> QED BY <1>2, <2>1, <2>2, OthersTell
<1> QED BY <1>1, <1>2

\* A step that touches no call.
LEMMA SameTells ==
    ASSUME TruthInv, UNCHANGED <<file, lock, call, before>>
    PROVE  TruthInv'
<1>1. /\ file' = file /\ lock' = lock /\ call' = call /\ before' = before
  OBVIOUS
<1>2. ASSUME NEW t \in Callers, lock' = t PROVE Told(call'[t], file', before')
  BY <1>1, <1>2 DEF TruthInv
<1> QED BY <1>2 DEF TruthInv

\* Nobody holds the lock in the beginning.
LEMMA InitTells == Init => TruthInv
BY DefaultsConstants DEF Init, DefaultsInit, Initially, TruthInv

\* Every step keeps what the holder of the lock knows.
LEMMA TruthSteps ==
    ASSUME StoreInv, TruthInv, [Next]_allVars
    PROVE  TruthInv'
<1>1. ASSUME NEW t \in Callers, CallStep(t) PROVE TruthInv'
  BY <1>1, LockTells, EarlyTells, RenameTells, ListTells, RemoveTells DEF CallStep
<1>2. ASSUME NEW t \in Callers, DefaultsHandler(t) \/ DefaultsResult(t) PROVE TruthInv'
  BY <1>2, RequestTells, ReturnTells DEF DefaultsHandler, DefaultsResult
<1>3. ASSUME NEW t \in Callers, (\E name \in Asked : Dispatch(t, name)) \/ job_handler(t)
      PROVE TruthInv'
  <2>1. UNCHANGED <<file, lock, call, before>>
    BY <1>3 DEF Dispatch, job_handler
  <2> QED BY <2>1, SameTells
<1>4. ASSUME NEW d \in Readers, BeginPublish(d) \/ publish_defaults(d) \/ ClosePage(d)
      PROVE TruthInv'
  <2>1. UNCHANGED <<file, lock, call, before>>
    BY <1>4 DEF BeginPublish, publish_defaults, ClosePage
  <2> QED BY <2>1, SameTells
<1>5. CASE StateChanged
  <2>1. UNCHANGED <<file, lock, call, before>>
    BY <1>5 DEF StateChanged
  <2> QED BY <2>1, SameTells
<1>6. CASE Restart
  <2>1. lock' = None /\ None \notin Callers
    BY <1>6, DefaultsConstants DEF Restart, Ends
  <2> QED BY <2>1 DEF TruthInv
<1>7. CASE UNCHANGED allVars
  <2>1. UNCHANGED <<file, lock, call, before>>
    BY <1>7 DEF allVars
  <2> QED BY <2>1, SameTells
<1> QED BY <1>1, <1>2, <1>3, <1>4, <1>5, <1>6, <1>7 DEF Next, DefaultsOnly

\* A call that has answered and holds the lock told the truth.
LEMMA TruthIsTold == TruthInv => AnswerIsTrue
<1> SUFFICES ASSUME TruthInv, NEW t \in Callers, At(t, "ret"), lock = t
             PROVE  True(call[t], file, before)
  BY DEF AnswerIsTrue, True
<1> QED BY DEF TruthInv, Told, At

\* Every answer about the settings tells what happened to the files, whoever
\* else was asking (np_defaults_apply_build, save_file under g_save_lock).
THEOREM AnswersAreTrue == Spec => []AnswerIsTrue
<1>1. StoreInv /\ TruthInv /\ [Next]_allVars => StoreInv' /\ TruthInv'
  BY StoreSteps, TruthSteps
<1> QED BY <1>1, InitStore, InitTells, TruthIsTold, PTL DEF Spec

-----------------------------------------------------------------------------
(* Routes.                                                                 *)

SlotsOf(f, k, known) ==
    /\ k \in 0 .. MaxRoutes
    /\ f = [i \in 1 .. MaxRoutes |-> f[i]]
    /\ \A n \in DOMAIN known : known[n] \in 1 .. k /\ f[known[n]] = n

IsTable(R) == R = [table |-> R.table, count |-> R.count, served |-> R.served, ok |-> R.ok]

Slots(R) == IsTable(R) /\ SlotsOf(R.table, R.count, R.served)

(* What is registered stays where it is.                                   *)
Stays(f, k, g, l) == k <= l /\ \A i \in 1 .. k : g[i] = f[i]

Grows(R, S) == Slots(S) /\ Stays(R.table, R.count, S.table, S.count)

\* What a registration writes, field by field.
LEMMA RecordFacts ==
    ASSUME NEW R, R = [table |-> R.table, count |-> R.count, served |-> R.served, ok |-> R.ok],
           NEW x, NEW f, NEW k, NEW s
    PROVE  /\ [R EXCEPT !.ok = x]
                = [table |-> R.table, count |-> R.count, served |-> R.served, ok |-> x]
           /\ [R EXCEPT !.ok = x, !.table = f]
                = [table |-> f, count |-> R.count, served |-> R.served, ok |-> x]
           /\ [R EXCEPT !.ok = x, !.table = f, !.count = k, !.served = s]
                = [table |-> f, count |-> k, served |-> s, ok |-> x]
<1>1. R \in [table : {R.table}, count : {R.count}, served : {R.served}, ok : {R.ok}]
  OBVIOUS
<1> DEFINE d == [R EXCEPT !.ok = x]
           e == [R EXCEPT !.ok = x, !.table = f]
           g == [R EXCEPT !.ok = x, !.table = f, !.count = k, !.served = s]
<1>2. d \in [table : {R.table}, count : {R.count}, served : {R.served}, ok : {x}]
  BY <1>1
<1>3. e \in [table : {f}, count : {R.count}, served : {R.served}, ok : {x}]
  BY <1>1
<1>4. g \in [table : {f}, count : {k}, served : {s}, ok : {x}]
  BY <1>1
<1> HIDE DEF d, e, g
<1>5. d = [table |-> R.table, count |-> R.count, served |-> R.served, ok |-> x]
  BY <1>2
<1>6. e = [table |-> f, count |-> R.count, served |-> R.served, ok |-> x]
  BY <1>3
<1>7. g = [table |-> f, count |-> k, served |-> s, ok |-> x]
  BY <1>4
<1> QED BY <1>5, <1>6, <1>7 DEF d, e, g

\* A slot that is filled, and then counts or does not.
LEMMA FillFacts ==
    ASSUME NEW f, NEW k, NEW known, SlotsOf(f, k, known), k < MaxRoutes, NEW name
    PROVE  LET g == [f EXCEPT ![k + 1] = name]
               more == [n \in DOMAIN known \cup {name} |-> IF n = name THEN k + 1 ELSE known[n]]
           IN  /\ SlotsOf(g, k, known) /\ Stays(f, k, g, k)
               /\ SlotsOf(g, k + 1, more) /\ Stays(f, k, g, k + 1)
<1> DEFINE g == [f EXCEPT ![k + 1] = name]
           more == [n \in DOMAIN known \cup {name} |-> IF n = name THEN k + 1 ELSE known[n]]
<1>1. /\ k \in Nat /\ k + 1 \in 1 .. MaxRoutes /\ k + 1 \in 0 .. MaxRoutes /\ k + 1 \notin 1 .. k
      /\ 1 .. k \subseteq 1 .. k + 1 /\ 1 .. k \subseteq 1 .. MaxRoutes /\ k <= k + 1 /\ k <= k
      /\ k + 1 \in 1 .. k + 1
  BY RoutesConstants DEF SlotsOf
<1>2. /\ g = [i \in 1 .. MaxRoutes |-> g[i]] /\ g[k + 1] = name
      /\ \A i \in 1 .. k : g[i] = f[i]
  BY <1>1 DEF SlotsOf
<1>3. /\ DOMAIN more = DOMAIN known \cup {name} /\ more[name] = k + 1
      /\ \A n \in DOMAIN known \ {name} : more[n] = known[n]
  OBVIOUS
<1> HIDE DEF g, more
<1>4. SlotsOf(g, k, known) /\ Stays(f, k, g, k) /\ Stays(f, k, g, k + 1)
  BY <1>1, <1>2 DEF SlotsOf, Stays
<1>5. ASSUME NEW n \in DOMAIN more
      PROVE  more[n] \in 1 .. k + 1 /\ g[more[n]] = n
  <2>1. CASE n = name
    BY <1>1, <1>2, <1>3, <2>1
  <2>2. CASE n # name
    BY <1>1, <1>2, <1>3, <1>5, <2>2 DEF SlotsOf
  <2> QED BY <2>1, <2>2
<1>6. SlotsOf(g, k + 1, more)
  BY <1>1, <1>2, <1>5 DEF SlotsOf
<1> QED BY <1>4, <1>6 DEF g, more

\* Nothing changed is a growth too.
LEMMA StaysStill == ASSUME NEW f, NEW k \in Nat PROVE Stays(f, k, f, k)
BY DEF Stays

\* A registration fills the first slot that is free, if it does anything.
LEMMA RegisterGrows ==
    ASSUME NEW R, Slots(R), NEW name
    PROVE  Grows(R, register_route(R, name))
<1> DEFINE slot == R.count + 1
           filled == [R.table EXCEPT ![slot] = name]
           known == [n \in DOMAIN R.served \cup {name} |-> IF n = name THEN slot ELSE R.served[n]]
           S == register_route(R, name)
<1>1. /\ IsTable(R) /\ SlotsOf(R.table, R.count, R.served) /\ R.count \in Nat
      /\ R.count <= MaxRoutes
  <2>1. IsTable(R) /\ SlotsOf(R.table, R.count, R.served)
    BY DEF Slots
  <2>2. R.count \in Nat /\ R.count <= MaxRoutes
    BY <2>1, RoutesConstants DEF SlotsOf
  <2> QED BY <2>1, <2>2
<1> SUFFICES Grows(R, S)
  OBVIOUS
<1> HIDE DEF S
<1>2. ASSUME NEW f, NEW k, NEW s, NEW x, S = [table |-> f, count |-> k, served |-> s, ok |-> x],
             SlotsOf(f, k, s), Stays(R.table, R.count, f, k)
      PROVE  Grows(R, S)
  <2>1. S.table = f /\ S.count = k /\ S.served = s /\ S.ok = x
    BY <1>2
  <2> QED BY <1>2, <2>1 DEF Grows, Slots, IsTable
<1>3. CASE Full(R)
  <2>1. S = [table |-> R.table, count |-> R.count, served |-> R.served, ok |-> FALSE]
    BY <1>1, <1>3, RecordFacts DEF register_route, IsTable, S
  <2>2. Stays(R.table, R.count, R.table, R.count)
    BY <1>1, StaysStill
  <2> QED BY <1>1, <1>2, <2>1, <2>2
<1>4. CASE ~Full(R)
  <2>1. R.count < MaxRoutes
    BY <1>1, <1>4, RoutesConstants DEF Full
  <2>2. /\ SlotsOf(filled, R.count, R.served) /\ Stays(R.table, R.count, filled, R.count)
        /\ SlotsOf(filled, slot, known) /\ Stays(R.table, R.count, filled, slot)
    BY <1>1, <2>1, FillFacts
  <2>3. CASE name \in image.refused
    <3>1. S = [R EXCEPT !.ok = FALSE, !.table = filled]
      BY <1>4, <2>3 DEF register_route, S
    <3> HIDE DEF filled
    <3>2. S = [table |-> filled, count |-> R.count, served |-> R.served, ok |-> FALSE]
      BY <1>1, <3>1, RecordFacts DEF IsTable
    <3> QED BY <1>2, <2>2, <3>2
  <2>4. CASE name \notin image.refused
    <3>1. S = [R EXCEPT !.ok = TRUE, !.table = filled, !.count = slot, !.served = known]
      BY <1>4, <2>4 DEF register_route, S
    <3> HIDE DEF filled, known, slot
    <3>2. S = [table |-> filled, count |-> slot, served |-> known, ok |-> TRUE]
      BY <1>1, <3>1, RecordFacts DEF IsTable
    <3> QED BY <1>2, <2>2, <3>2
  <2> QED BY <2>3, <2>4
<1> QED BY <1>3, <1>4

\* So does a part of a chain, which may not even try.
LEMMA ChainGrows ==
    ASSUME NEW R, Slots(R), NEW name
    PROVE  Grows(R, R) /\ Grows(R, or_else(R, name)) /\ Grows(R, Chain(R))
<1>1. IsTable(R) /\ SlotsOf(R.table, R.count, R.served) /\ Stays(R.table, R.count, R.table, R.count)
  BY StaysStill, RoutesConstants DEF Slots, SlotsOf
<1>2. Grows(R, R)
  BY <1>1 DEF Grows, Slots
<1>3. Grows(R, or_else(R, name))
  BY <1>2, RegisterGrows DEF or_else
<1> DEFINE S == Chain(R)
<1>4. S = [table |-> R.table, count |-> R.count, served |-> R.served, ok |-> TRUE]
  BY <1>1, RecordFacts DEF Chain, IsTable
<1> HIDE DEF S
<1>5. S.table = R.table /\ S.count = R.count /\ S.served = R.served /\ S.ok = TRUE
  BY <1>4
<1>6. Grows(R, S)
  BY <1>1, <1>4, <1>5 DEF Grows, Slots, IsTable
<1> QED BY <1>2, <1>3, <1>6 DEF S

\* Growth adds up.
LEMMA GrowsOn ==
    ASSUME NEW Q, NEW R, NEW S, Slots(Q), Grows(Q, R), Grows(R, S)
    PROVE  Grows(Q, S)
<1>1. /\ Q.count \in 0 .. MaxRoutes /\ R.count \in 0 .. MaxRoutes /\ S.count \in 0 .. MaxRoutes
      /\ Slots(S)
  BY DEF Grows, Slots, SlotsOf
<1>2. Stays(Q.table, Q.count, R.table, R.count) /\ Stays(R.table, R.count, S.table, S.count)
  BY DEF Grows
<1>3. Stays(Q.table, Q.count, S.table, S.count)
  <2>1. Q.count <= S.count /\ 1 .. Q.count \subseteq 1 .. R.count
    BY <1>1, <1>2, RoutesConstants DEF Stays
  <2> QED BY <1>2, <2>1 DEF Stays
<1> QED BY <1>1, <1>3 DEF Grows

RouteInv ==
    /\ SlotsOf(table, count, served)
    /\ job = [t \in Callers |-> job[t]]
    /\ \A t \in Callers : job[t] # None =>
          job[t].slot \in 1 .. count /\ table[job[t].slot] = job[t].route

\* A chain of four routes more.
LEMMA LinkGrows ==
    ASSUME NEW Q, NEW R, NEW name, Slots(Q), Grows(Q, R)
    PROVE  Grows(Q, or_else(R, name)) /\ Grows(Q, Chain(R)) /\ Grows(Q, register_route(R, name))
<1>1. Slots(R)
  BY DEF Grows
<1>2. Grows(R, or_else(R, name)) /\ Grows(R, Chain(R)) /\ Grows(R, register_route(R, name))
  BY <1>1, ChainGrows, RegisterGrows
<1> QED BY <1>2, GrowsOn

\* Whatever part of the registration is run, what was registered stays.
LEMMA WholeGrows ==
    ASSUME Slots(Bare)
    PROVE  Grows(Bare, Bare) /\ Grows(Bare, register_route(Bare, GetTools)) /\ Grows(Bare, Whole)
<1>1. Grows(Bare, Bare)
  BY ChainGrows
<1>2. Grows(Bare, register_route(Bare, GetTools))
  BY <1>1, LinkGrows
<1>3. Grows(Bare, WithSpecify)
  BY <1>2, LinkGrows DEF WithSpecify
<1>4. Grows(Bare, Chain(WithSpecify))
  BY <1>3, LinkGrows
<1>5. Grows(Bare, or_else(Chain(WithSpecify), "SetDefaults"))
  BY <1>4, LinkGrows
<1>6. Grows(Bare, or_else(or_else(Chain(WithSpecify), "SetDefaults"), "SetToolDefaults"))
  BY <1>5, LinkGrows
<1>7. Grows(Bare, WithDefaults)
  BY <1>6, LinkGrows DEF WithDefaults
<1>8. Grows(Bare, Chain(WithDefaults))
  BY <1>7, LinkGrows
<1>9. Grows(Bare, or_else(Chain(WithDefaults), "PrefixState"))
  BY <1>8, LinkGrows
<1>10. Grows(Bare, or_else(or_else(Chain(WithDefaults), "PrefixState"), "RebuildPrefix"))
  BY <1>9, LinkGrows
<1>11. Grows(Bare, or_else(or_else(or_else(Chain(WithDefaults),
             "PrefixState"), "RebuildPrefix"), "BackupAndRebuildPrefix"))
  BY <1>10, LinkGrows
<1>12. Grows(Bare, Whole)
  BY <1>11, LinkGrows DEF Whole
<1> QED BY <1>1, <1>2, <1>12

\* The first lookup registers, all or a part of the routes or none.
LEMMA LookupGrows ==
    ASSUME SlotsOf(table, count, served),
           np_compatsvc_register \/ UNCHANGED <<settled, table, count, served>>
    PROVE  /\ SlotsOf(table', count', served') /\ Stays(table, count, table', count')
<1>1. /\ Slots(Bare) /\ Bare.table = table /\ Bare.count = count /\ Bare.served = served
      /\ count \in Nat
  <2>1. Bare.table = table /\ Bare.count = count /\ Bare.served = served /\ Bare.ok = TRUE
    BY DEF Bare
  <2>2. Bare = [table |-> Bare.table, count |-> Bare.count, served |-> Bare.served, ok |-> Bare.ok]
    BY <2>1 DEF Bare
  <2>3. count \in Nat
    BY RoutesConstants DEF SlotsOf
  <2> QED BY <2>1, <2>2, <2>3 DEF Slots, IsTable
<1>2. CASE UNCHANGED <<settled, table, count, served>>
  BY <1>1, <1>2, StaysStill
<1>3. ASSUME NEW R, Grows(Bare, R), NEW s, Becomes(R, s)
      PROVE  /\ SlotsOf(table', count', served') /\ Stays(table, count, table', count')
  BY <1>1, <1>3 DEF Grows, Slots, Becomes
<1>4. CASE np_compatsvc_register /\ ~UNCHANGED <<settled, table, count, served>>
  <2>1. \E s : Becomes(Bare, s) \/ Becomes(register_route(Bare, GetTools), s) \/ Becomes(Whole, s)
    BY <1>4 DEF np_compatsvc_register
  <2> QED BY <1>1, <1>3, <2>1, WholeGrows
<1> QED BY <1>2, <1>4

\* A job keeps its route through a step that does not touch it.
LEMMA JobsStay ==
    ASSUME RouteInv, UNCHANGED <<table, count, served, job>>
    PROVE  RouteInv'
BY DEF RouteInv

\* A lookup registers and makes a job for a route that is served.
LEMMA DispatchServes ==
    ASSUME RouteInv, NEW t \in Callers, NEW name \in Asked, Dispatch(t, name)
    PROVE  RouteInv'
<1>1. SlotsOf(table', count', served') /\ Stays(table, count, table', count')
  BY LookupGrows DEF RouteInv, Dispatch
<1>2. /\ job' = [u \in Callers |-> job'[u]] /\ \A u \in Callers : u # t => job'[u] = job[u]
      /\ job'[t] = IF name \in DOMAIN served' THEN [route |-> name, slot |-> served'[name]] ELSE None
  BY DEF RouteInv, Dispatch
<1>3. ASSUME NEW u \in Callers, job'[u] # None
      PROVE  job'[u].slot \in 1 .. count' /\ table'[job'[u].slot] = job'[u].route
  <2>1. CASE u = t
    <3>1. PICK j : j = [route |-> name, slot |-> served'[name]]
      OBVIOUS
    <3>2. name \in DOMAIN served' /\ job'[u] = j /\ j.route = name /\ j.slot = served'[name]
      BY <1>2, <1>3, <2>1, <3>1
    <3>3. served'[name] \in 1 .. count' /\ table'[served'[name]] = name
      BY <1>1, <3>2 DEF SlotsOf
    <3> QED BY <3>2, <3>3
  <2>2. CASE u # t
    <3>1. job[u].slot \in 1 .. count /\ table[job[u].slot] = job[u].route /\ job'[u] = job[u]
      BY <1>2, <1>3, <2>2 DEF RouteInv
    <3>2. count \in 0 .. MaxRoutes /\ count' \in 0 .. MaxRoutes
      BY <1>1 DEF RouteInv, SlotsOf
    <3> QED BY <1>1, <3>1, <3>2, RoutesConstants DEF Stays
  <2> QED BY <2>1, <2>2
<1> QED BY <1>1, <1>2, <1>3 DEF RouteInv

\* An answered job is gone.
LEMMA AnswerEnds ==
    ASSUME RouteInv, NEW t \in Callers, job' = [job EXCEPT ![t] = None],
           UNCHANGED <<table, count, served>>
    PROVE  RouteInv'
<1>1. /\ job' = [u \in Callers |-> job'[u]] /\ job'[t] = None
      /\ \A u \in Callers : u # t => job'[u] = job[u]
  BY DEF RouteInv
<1> QED BY <1>1 DEF RouteInv

\* A client that starts has no route of ours and no job.
LEMMA FreshRoutes ==
    /\ SlotsOf([i \in 1 .. MaxRoutes |-> None], 0, <<>>)
BY RoutesConstants DEF SlotsOf

\* Every step keeps the table of the routes and the jobs in order.
LEMMA RouteSteps ==
    ASSUME RouteInv, [Next]_allVars
    PROVE  RouteInv'
<1>1. ASSUME NEW t \in Callers, NEW name \in Asked, Dispatch(t, name) PROVE RouteInv'
  BY <1>1, DispatchServes
<1>2. ASSUME NEW t \in Callers, job_handler(t) \/ DefaultsResult(t) PROVE RouteInv'
  BY <1>2, AnswerEnds DEF job_handler, DefaultsResult
<1>3. ASSUME NEW t \in Callers, DefaultsHandler(t) PROVE RouteInv'
  BY <1>3, JobsStay DEF DefaultsHandler
<1>5. CASE StateChanged
  BY <1>5, JobsStay DEF StateChanged
<1>6. CASE Restart
  <2>1. /\ table' = [i \in 1 .. MaxRoutes |-> None] /\ count' = 0 /\ served' = <<>>
        /\ job' = [t \in Callers |-> None]
    BY <1>6 DEF Restart
  <2> QED BY <2>1, FreshRoutes DEF RouteInv
<1>7. CASE UNCHANGED allVars
  BY <1>7, JobsStay DEF allVars
<1>8. ASSUME NEW t \in Callers, DefaultsOnly(CallStep(t)) PROVE RouteInv'
  BY <1>8, JobsStay DEF DefaultsOnly, routeVars
<1>9. ASSUME NEW d \in Readers, \/ DefaultsOnly(BeginPublish(d)) \/ DefaultsOnly(publish_defaults(d))
                                \/ DefaultsOnly(ClosePage(d)) PROVE RouteInv'
  BY <1>9, JobsStay DEF DefaultsOnly, routeVars
<1> QED BY <1>1, <1>2, <1>3, <1>5, <1>6, <1>7, <1>8, <1>9 DEF Next

\* Every job is answered by the handler of the route it was made for, though
\* a slot that a refused route left is filled by the next one
\* (np_webui_register_route, job_handler of compatsvc.c).
THEOREM JobsAreTheirRoutes == Spec => []JobIsItsRoutes
<1>1. Init => RouteInv
  BY FreshRoutes DEF Init, RouteInv
<1>2. RouteInv => JobIsItsRoutes
  BY RoutesConstants DEF RouteInv, SlotsOf, JobIsItsRoutes, Waiting, handler
<1> QED BY <1>1, <1>2, RouteSteps, PTL DEF Spec

-----------------------------------------------------------------------------
(* What a page shows.  While a page is current no file has changed since   *)
(* it was begun, so what was read of each file is what would be read now.  *)

NowRead(p) == IF p[1] = Family THEN np_defaults_read(p) ELSE np_defaults_read_build(p)
ReadSoFar(n) == [i \in 1 .. n - 1 |-> NowRead(ReadOrder[i])]

IsReading(r) == r = [n |-> r.n, seen |-> r.seen, current |-> r.current]
ReadingOk(r) ==
    /\ IsReading(r)
    /\ r.current => r.n \in 1 .. Len(ReadOrder) + 1 /\ r.seen = ReadSoFar(r.n)

ReadInv == reading = [d \in Readers |-> reading[d]] /\ \A d \in Readers : ReadingOk(reading[d])

\* A step that changes no file and no reader.
LEMMA ReadersStay == ASSUME ReadInv, UNCHANGED <<file, reading>> PROVE ReadInv'
BY DEF ReadInv, ReadingOk, ReadSoFar, NowRead, np_defaults_read, np_defaults_read_build

\* A step that changes a file outdates every page.
LEMMA ReadersOutdated == ASSUME ReadInv, Outdated PROVE ReadInv'
<1>1. \A d \in Readers : IsReading(reading[d])
  BY DEF ReadInv, ReadingOk
<1>2. \A d \in Readers : reading'[d] = [reading[d] EXCEPT !.current = FALSE]
  BY DEF Outdated
<1>3. \A d \in Readers : IsReading(reading'[d]) /\ reading'[d].current = FALSE
  BY <1>1, <1>2 DEF IsReading
<1>4. reading' = [d \in Readers |-> reading'[d]]
  BY DEF Outdated
<1> QED BY <1>3, <1>4 DEF ReadInv, ReadingOk, IsReading

\* The next file is read as it is now.
LEMMA ReadsNext ==
    ASSUME ReadInv, NEW d \in Readers, publish_defaults(d)
    PROVE  ReadInv'
<1> DEFINE r == reading[d]
           c == NowRead(ReadOrder[r.n])
<1>1. /\ r.n \in 1 .. Len(ReadOrder) /\ Len(ReadOrder) \in Nat /\ UNCHANGED file
      /\ reading' = [reading EXCEPT ![d].n = @ + 1, ![d].seen = Append(@, c)]
  BY DefaultsConstants DEF publish_defaults, NowRead
<1>2. /\ reading = [x \in Readers |-> reading[x]] /\ IsReading(r)
      /\ \A x \in Readers : ReadingOk(reading[x])
  BY DEF ReadInv, ReadingOk
<1>3. reading'[d] = [n |-> r.n + 1, seen |-> Append(r.seen, c), current |-> r.current]
  BY <1>1, <1>2 DEF IsReading
<1>4. \A x \in Readers \ {d} : reading'[x] = reading[x]
  BY <1>1, <1>2
<1>5. \A n : ReadSoFar(n)' = ReadSoFar(n)
  BY <1>1 DEF ReadSoFar, NowRead, np_defaults_read, np_defaults_read_build
<1>6. \A x \in Readers \ {d} : ReadingOk(reading[x])'
  BY <1>2, <1>4, <1>5 DEF ReadingOk, IsReading
<1>7. r.current => Append(r.seen, c) = ReadSoFar(r.n + 1)
  <2> SUFFICES ASSUME r.current PROVE Append(r.seen, c) = ReadSoFar(r.n + 1)
    OBVIOUS
  <2>1. r.seen = ReadSoFar(r.n)
    BY <1>2 DEF ReadingOk
  <2> DEFINE k == r.n - 1
             S == {NowRead(ReadOrder[i]) : i \in 1 .. k + 1}
  <2>2. k \in Nat /\ r.n = k + 1
    BY <1>1
  <2>3. ReadSoFar(r.n) = [i \in 1 .. k |-> NowRead(ReadOrder[i])]
    BY <2>2 DEF ReadSoFar
  <2>4. ReadSoFar(r.n + 1) = [i \in 1 .. k + 1 |-> NowRead(ReadOrder[i])]
    BY <2>2 DEF ReadSoFar
  <2>5. c = NowRead(ReadOrder[k + 1])
    BY <2>2
  <2> HIDE DEF k, c, r
  <2>6. ReadSoFar(r.n) \in Seq(S) /\ Len(ReadSoFar(r.n)) = k
    BY <2>2, <2>3
  <2> QED BY <2>1, <2>2, <2>3, <2>4, <2>5, <2>6
<1>8. ReadingOk(reading[d])'
  BY <1>1, <1>2, <1>3, <1>5, <1>7 DEF ReadingOk, IsReading
<1>9. reading' = [x \in Readers |-> reading'[x]]
  BY <1>1, <1>2
<1> QED BY <1>6, <1>8, <1>9 DEF ReadInv

\* A page that is begun or closed.
LEMMA ReaderSet ==
    ASSUME ReadInv, NEW d \in Readers, BeginPublish(d) \/ ClosePage(d)
    PROVE  ReadInv'
<1>1. \A x \in Readers : ReadingOk(reading[x]) /\ reading = [y \in Readers |-> reading[y]]
  BY DEF ReadInv
<1>2. \A n : ReadSoFar(n)' = ReadSoFar(n)
  BY DEF BeginPublish, ClosePage, ReadSoFar, NowRead, np_defaults_read, np_defaults_read_build
<1>3. \A x \in Readers \ {d} : ReadingOk(reading[x])'
  BY <1>1, <1>2 DEF BeginPublish, ClosePage, ReadingOk, IsReading
<1>4. ReadingOk(reading[d])'
  <2>1. CASE BeginPublish(d)
    <3>1. reading'[d] = [n |-> 1, seen |-> <<>>, current |-> TRUE]
      BY <1>1, <2>1 DEF BeginPublish
    <3>2. ReadSoFar(1) = <<>> /\ 1 \in 1 .. Len(ReadOrder) + 1
      BY DefaultsConstants DEF ReadSoFar
    <3> QED BY <1>2, <3>1, <3>2 DEF ReadingOk, IsReading
  <2>2. CASE ClosePage(d)
    <3>1. reading'[d] = Closed
      BY <1>1, <2>2 DEF ClosePage
    <3> QED BY <3>1 DEF ReadingOk, IsReading, Closed
  <2> QED BY <2>1, <2>2
<1>5. (reading = [y \in Readers |-> reading[y]])'
  BY <1>1 DEF BeginPublish, ClosePage
<1> QED BY <1>3, <1>4, <1>5 DEF ReadInv

\* Every step keeps what the readers have.
LEMMA ReadSteps == ASSUME ReadInv, [Next]_allVars PROVE ReadInv'
<1>1. ASSUME NEW t \in Callers, CallStep(t) PROVE ReadInv'
  BY <1>1, ReadersStay, ReadersOutdated
     DEF CallStep, Lock, ReadSource, OpenTmp, WriteTmp, Rename, ListOverrides, RemoveOverride
<1>2. ASSUME NEW t \in Callers, DefaultsHandler(t) \/ DefaultsResult(t) PROVE ReadInv'
  <2>1. UNCHANGED <<file, reading>>
    BY <1>2 DEF DefaultsHandler, DefaultsResult, Return, set_defaults, set_tool_defaults,
                apply_tool_defaults, np_defaults_save, np_defaults_save_build,
                np_defaults_apply_build, save_file, refuse
  <2> QED BY <2>1, ReadersStay
<1>3. ASSUME NEW t \in Callers, (\E name \in Asked : Dispatch(t, name)) \/ job_handler(t) PROVE ReadInv'
  BY <1>3, ReadersStay DEF Dispatch, job_handler
<1>4. ASSUME NEW d \in Readers, BeginPublish(d) \/ publish_defaults(d) \/ ClosePage(d) PROVE ReadInv'
  BY <1>4, ReadsNext, ReaderSet
<1>5. CASE StateChanged
  BY <1>5, ReadersStay DEF StateChanged
<1>6. CASE Restart
  BY <1>6 DEF Restart, Ends, ReadInv, ReadingOk, IsReading, Closed
<1>7. CASE UNCHANGED allVars
  BY <1>7, ReadersStay DEF allVars
<1> QED BY <1>1, <1>2, <1>3, <1>4, <1>5, <1>6, <1>7 DEF Next, DefaultsOnly

\* A whole page, as long as no file has changed.
LEMMA SeenIsThere ==
    ASSUME ReadInv, NEW d \in Readers, reading[d].current, reading[d].n > Len(ReadOrder),
           NEW i \in DOMAIN ReadOrder
    PROVE  seen(d, ReadOrder[i]) = NowRead(ReadOrder[i])
<1> DEFINE r == reading[d]
           j == CHOOSE k \in DOMAIN ReadOrder : ReadOrder[k] = ReadOrder[i]
<1>1. j \in DOMAIN ReadOrder /\ ReadOrder[j] = ReadOrder[i]
  OBVIOUS
<1>2. /\ r.n = Len(ReadOrder) + 1 /\ r.seen = ReadSoFar(r.n)
      /\ Len(ReadOrder) \in Nat /\ DOMAIN ReadOrder = 1 .. Len(ReadOrder)
  BY DefaultsConstants DEF ReadInv, ReadingOk
<1>3. r.seen[j] = NowRead(ReadOrder[j])
  BY <1>1, <1>2 DEF ReadSoFar
<1> QED BY <1>1, <1>3 DEF seen

\* A page that is still current shows for a version exactly the set that
\* applying the version would make every version's (publish_defaults,
\* np_defaults_apply_build).
THEOREM ShownIsWhatIsApplied == Spec => []ShownIsWhatApplies
<1>1. ASSUME ReadInv PROVE ShownIsWhatApplies
  <2> SUFFICES ASSUME NEW d \in Readers, reading[d].current, reading[d].n > Len(ReadOrder),
                      NEW i \in DOMAIN ReadOrder, ReadOrder[i][1] # Family,
                      shown(d, ReadOrder[i]).is # "fails"
               PROVE  /\ ~read_fails(file[source_of(ReadOrder[i][1], ReadOrder[i][2])])
                      /\ shown(d, ReadOrder[i]) =
                            Yields("set", read_lines(ReadOrder[i][2],
                                                     file[source_of(ReadOrder[i][1], ReadOrder[i][2])]))
    BY DEF ShownIsWhatApplies
  <2> DEFINE p == ReadOrder[i]
             r == p[2]
  <2>1. p \in Builds \X Runners /\ p = <<p[1], r>> /\ r \in Runners
    BY DefaultsConstants
  <2>2. seen(d, p) = np_defaults_read_build(p)
    BY <1>1, SeenIsThere DEF NowRead
  <2>3. seen(d, <<Family, r>>) = np_defaults_read(<<Family, r>>)
    <3>1. PICK k \in DOMAIN ReadOrder : ReadOrder[k] = <<Family, r>>
      BY <2>1, DefaultsConstants
    <3> QED BY <1>1, <3>1, SeenIsThere DEF NowRead
  <2>4. CASE is_regular(file[p])
    BY <2>1, <2>2, <2>4 DEF shown, np_defaults_read_build, np_defaults_read, source_of, Yields
  <2>5. CASE ~is_regular(file[p])
    <3>1. seen(d, p).is = "none"
      BY <2>2, <2>5 DEF np_defaults_read_build, Yields
    <3>2. shown(d, p) = seen(d, <<Family, r>>)
      BY <3>1 DEF shown, Yields
    <3>3. source_of(p[1], r) = <<Family, r>>
      BY <2>1, <2>5 DEF source_of
    <3> QED BY <2>3, <3>2, <3>3 DEF np_defaults_read, Yields
  <2> QED BY <2>4, <2>5
<1>2. Init => ReadInv
  BY DEF Init, DefaultsInit, Initially, ReadInv, ReadingOk, IsReading, Closed
<1> QED BY <1>1, <1>2, ReadSteps, PTL DEF Spec
=============================================================================
