---------------------------- MODULE ToolDefaults ----------------------------
(***************************************************************************)
(* The default compatibility settings (defaults.c): one file for each      *)
(* family of runners and one for each CrossOver version that has settings  *)
(* of its own.  Saves and applies run on the threads that answer the       *)
(* Settings page, under g_save_lock; a page that is being opened reads the *)
(* files without the lock (compatpage.c).  Steam may end at any step.      *)
(***************************************************************************)
EXTENDS Naturals, Sequences, FiniteSets

CONSTANTS
    Callers,       \* threads that answer the Settings page
    Readers,       \* threads that open the page's file
    Builds,        \* CrossOver versions
    Runners,       \* families of runners
    Keys,          \* settings; KeyRunners says which runners know one
    KeyRunners,
    Values,        \* values a line may give, Good being the valid ones
    Good,
    TextMax,       \* lines a file may hold (NP_DEFAULTS_TEXT_MAX bytes)
    Texts,         \* texts the Settings page may send
    InitialFiles,  \* what may be found in a file when Steam starts
    Tools,         \* names the page may give; ToolOf says what is installed
    ToolOf,
    ReadOrder,     \* the files a page is made from, families first
    Family, NoBuild, None, Absent, Torn, Folder, Huge

ASSUME DefaultsConstants ==
    /\ KeyRunners \in [Keys -> SUBSET Runners]
    /\ Good \subseteq Values /\ TextMax \in Nat
    /\ \A t \in Tools : ToolOf[t] = None
          \/ ToolOf[t] \in [build : Builds \cup {NoBuild}, runner : Runners]
    /\ Family \notin Builds /\ NoBuild \notin Builds /\ None \notin Callers \cup Runners
    /\ Absent \notin Runners
    /\ Len(ReadOrder) \in Nat /\ DOMAIN ReadOrder = 1 .. Len(ReadOrder)
    /\ \A r \in Runners : \E i \in DOMAIN ReadOrder : ReadOrder[i] = <<Family, r>>
    /\ \A i \in DOMAIN ReadOrder : ReadOrder[i][1] # Family => ReadOrder[i] \in Builds \X Runners

VARIABLES
    file,          \* each file of the support folder
    tmp,           \* its ".new" beside it
    lock,          \* who holds g_save_lock
    call,          \* what each caller does
    reading,       \* how far each reader is and what it has read
    before         \* the files when the lock was taken (history)

Paths == ({Family} \cup Builds) \X Runners
Lines == [key : Keys, value : Values]
Odd == {Absent, Torn, Folder, Huge}

-----------------------------------------------------------------------------
(* Lines: a key the runner knows, given once, with a value it may have.    *)

valid_line(r, l) == r \in KeyRunners[l.key] /\ l.value \in Good

(* each_line: which lines of a text are taken; a second one for a key is   *)
(* bad once a first one was taken.                                         *)
taken(r, text) ==
    {i \in DOMAIN text : /\ valid_line(r, text[i])
                         /\ \A j \in 1 .. i - 1 : text[j].key = text[i].key
                                                    => ~valid_line(r, text[j])}

each_line(r, text) ==
    LET keep == taken(r, text)
    IN  [i \in 1 .. Cardinality(keep) |->
            text[CHOOSE n \in keep : Cardinality({m \in keep : m <= n}) = i]]

checked_body(r, text) == Len(text) <= TextMax /\ taken(r, text) = DOMAIN text

is_regular(c) == c \notin {Absent, Folder}

(* read_lines: no file is an empty set, a folder or too long a file is an  *)
(* error, and bad lines are left out.                                      *)
read_fails(c) == c \in {Folder, Huge}
read_lines(r, c) == IF c \in Odd THEN <<>> ELSE each_line(r, c)

SourceIsOwn(b, r) == <<b, r>>

source_of(b, r) == IF is_regular(file[<<b, r>>]) THEN <<b, r>> ELSE <<Family, r>>

-----------------------------------------------------------------------------
(* Calls of the Settings page.                                             *)

Idle == [pc |-> "idle", op |-> None, path |-> None, body |-> <<>>, left |-> {}, answer |-> None]

Closed == [n |-> 0, seen |-> <<>>, current |-> FALSE]

Unknown == [p \in Paths |-> Absent]

Initially(f) ==
    /\ file = f
    /\ tmp = [p \in Paths |-> Absent]
    /\ lock = None
    /\ call = [t \in Callers |-> Idle]
    /\ reading = [d \in Readers |-> Closed]
    /\ before = Unknown

DefaultsInit == \E f \in [Paths -> InitialFiles] : Initially(f)

At(t, pc) == call[t].pc = pc
(* A page made before a file changed is not current any more (history).    *)
Outdated == reading' = [d \in Readers |-> [reading[d] EXCEPT !.current = FALSE]]

Goto(t, pc) == call' = [call EXCEPT ![t].pc = pc]
Ret(t, answer) == call' = [call EXCEPT ![t].pc = "ret", ![t].answer = answer, ![t].left = {}]

(* save_file is entered only with a text whose every line is good.         *)
save_file(t, path, text) ==
    /\ At(t, "idle")
    /\ call' = [call EXCEPT ![t] =
          IF checked_body(path[2], text)
             THEN [Idle EXCEPT !.pc = "lock", !.op = "save", !.path = path, !.body = text]
             ELSE [Idle EXCEPT !.pc = "ret", !.op = "save", !.answer = "fail"]]
    /\ UNCHANGED <<file, tmp, lock, reading, before>>

np_defaults_save(t, r, text) == save_file(t, <<Family, r>>, text)

(* tool_build: an installed tool with a build identity, and its family.    *)
tool_build(tool) == IF ToolOf[tool] = None THEN [build |-> NoBuild, runner |-> None] ELSE ToolOf[tool]

refuse(t, op) ==
    /\ At(t, "idle")
    /\ call' = [call EXCEPT ![t] = [Idle EXCEPT !.pc = "ret", !.op = op, !.answer = "fail"]]
    /\ UNCHANGED <<file, tmp, lock, reading, before>>

np_defaults_save_build(t, tool, text) ==
    LET b == tool_build(tool)
    IN  IF b.build = NoBuild THEN refuse(t, "save")
                             ELSE save_file(t, <<b.build, b.runner>>, text)

np_defaults_apply_build(t, tool) ==
    LET b == tool_build(tool)
    IN  IF b.build = NoBuild THEN refuse(t, "apply")
        ELSE /\ At(t, "idle")
             /\ call' = [call EXCEPT ![t] = [Idle EXCEPT !.pc = "lock", !.op = "apply",
                                                         !.path = <<b.build, b.runner>>]]
             /\ UNCHANGED <<file, tmp, lock, reading, before>>

LockNotWaited(t) ==
    /\ At(t, "lock")
    /\ lock' = t
    /\ before' = file
    /\ \/ call[t].op = "save" /\ Goto(t, "open")
       \/ call[t].op = "apply" /\ (Goto(t, "read") \/ Ret(t, "fail"))
    /\ UNCHANGED <<file, tmp, reading>>

(* The lock; an apply also opens the folder, which may fail.               *)
Lock(t) ==
    /\ At(t, "lock") /\ lock = None
    /\ lock' = t
    /\ before' = file
    /\ \/ call[t].op = "save" /\ Goto(t, "open")
       \/ call[t].op = "apply" /\ (Goto(t, "read") \/ Ret(t, "fail"))
    /\ UNCHANGED <<file, tmp, reading>>

(* An apply reads the version's own set, or its family's when it has none, *)
(* and goes on to write it as the family's.                                *)
ReadSource(t) ==
    /\ At(t, "read")
    /\ LET r == call[t].path[2]
           p == source_of(call[t].path[1], r)
       IN  IF read_fails(file[p]) THEN Ret(t, "fail")
           ELSE call' = [call EXCEPT ![t].pc = "open", ![t].path = <<Family, r>>,
                                     ![t].body = read_lines(r, file[p])]
    /\ UNCHANGED <<file, tmp, lock, reading, before>>

(* write_locked: an older ".new" goes, a new one is opened and written ... *)
OpenTmp(t) ==
    /\ At(t, "open")
    /\ \/ tmp' = [tmp EXCEPT ![call[t].path] = Torn] /\ Goto(t, "write")
       \/ tmp' = [tmp EXCEPT ![call[t].path] = Absent] /\ Ret(t, "fail")
    /\ UNCHANGED <<file, lock, reading, before>>

WriteTmp(t) ==
    /\ At(t, "write")
    /\ \/ tmp' = [tmp EXCEPT ![call[t].path] = call[t].body] /\ Goto(t, "rename")
       \/ tmp' = [tmp EXCEPT ![call[t].path] = Absent] /\ Ret(t, "fail")
    /\ UNCHANGED <<file, lock, reading, before>>

(* ... and takes the place of the file, which a folder there refuses.      *)
Rename(t) ==
    LET p == call[t].path
    IN  /\ At(t, "rename")
        /\ tmp' = [tmp EXCEPT ![p] = Absent]
        /\ \/ /\ file[p] # Folder
              /\ file' = [file EXCEPT ![p] = tmp[p]]
              /\ Outdated
              /\ IF call[t].op = "apply" THEN Goto(t, "list") ELSE Ret(t, "ok")
           \/ UNCHANGED <<file, reading>> /\ Ret(t, "fail")
        /\ UNCHANGED <<lock, before>>

(* remove_overrides_locked: every version of the runner that has a file of *)
(* its own loses it; out of memory, none does.  An error of readdir ends   *)
(* the list early and is not told: that "ok" is "cut" here.                *)
ListOverrides(t) ==
    LET own == {b \in Builds : file[<<b, call[t].path[2]>>] # Absent}
        Found(some, answer) ==
            call' = [call EXCEPT ![t].pc = "remove", ![t].answer = answer, ![t].left = some]
    IN  /\ At(t, "list")
        /\ \/ Found(own, "ok")
           \/ \E some \in SUBSET own : Found(some, "cut")
           \/ Ret(t, "partly")
        /\ UNCHANGED <<file, tmp, lock, reading, before>>

RemoveOverride(t) ==
    LET r == call[t].path[2]
    IN  /\ At(t, "remove")
        /\ \/ \E b \in call[t].left :
                 /\ is_regular(file[<<b, r>>])
                 /\ file' = [file EXCEPT ![<<b, r>>] = Absent]
                 /\ call' = [call EXCEPT ![t].left = @ \ {b}]
                 /\ Outdated
           \/ \E b \in call[t].left :
                 /\ call' = [call EXCEPT ![t].left = @ \ {b},
                        ![t].answer = IF is_regular(file[<<b, r>>]) THEN "partly" ELSE @]
                 /\ UNCHANGED <<file, reading>>
           \/ call[t].left = {} /\ Ret(t, call[t].answer) /\ UNCHANGED <<file, reading>>
        /\ UNCHANGED <<tmp, lock, before>>

(* The call gives up the lock, when it had come to take it, and answers.   *)
Return(t) ==
    /\ At(t, "ret")
    /\ lock' = IF lock = t THEN None ELSE lock
    /\ before' = IF lock = t THEN Unknown ELSE before
    /\ call' = [call EXCEPT ![t] = Idle]
    /\ UNCHANGED <<file, tmp, reading>>

CallStep(t) ==
    \/ Lock(t) \/ ReadSource(t) \/ OpenTmp(t) \/ WriteTmp(t) \/ Rename(t)
    \/ ListOverrides(t) \/ RemoveOverride(t)

-----------------------------------------------------------------------------
(* publish_defaults: the page is given the families and then each          *)
(* installed version, read one after the other without the lock.  What     *)
(* cannot be read is left out, for a family both of them.                  *)

BeginPublish(d) ==
    /\ reading[d] = Closed
    /\ reading' = [reading EXCEPT ![d] = [n |-> 1, seen |-> <<>>, current |-> TRUE]]
    /\ UNCHANGED <<file, tmp, lock, call, before>>

(* What a read yields: a set, no set of its own, or a failure.             *)
Yields(is, lines) == [is |-> is, lines |-> lines]

np_defaults_read(p) ==
    IF read_fails(file[p]) THEN Yields("fails", <<>>) ELSE Yields("set", read_lines(p[2], file[p]))

ReadBuildLenient(p) ==
    IF is_regular(file[p]) /\ ~read_fails(file[p]) THEN np_defaults_read(p) ELSE Yields("none", <<>>)

np_defaults_read_build(p) ==
    IF is_regular(file[p]) THEN np_defaults_read(p) ELSE Yields("none", <<>>)

publish_defaults(d) ==
    /\ reading[d].n \in DOMAIN ReadOrder
    /\ LET p == ReadOrder[reading[d].n]
           c == IF p[1] = Family THEN np_defaults_read(p) ELSE np_defaults_read_build(p)
       IN  reading' = [reading EXCEPT ![d].n = @ + 1, ![d].seen = Append(@, c)]
    /\ UNCHANGED <<file, tmp, lock, call, before>>

(* The page is closed.                                                     *)
ClosePage(d) ==
    /\ reading[d].n > Len(ReadOrder)
    /\ reading' = [reading EXCEPT ![d] = Closed]
    /\ UNCHANGED <<file, tmp, lock, call, before>>

(* What the page shows for a version: its own set, else its family's, and  *)
(* nothing when its own cannot be read or any family cannot.               *)
seen(d, p) == reading[d].seen[CHOOSE i \in DOMAIN ReadOrder : ReadOrder[i] = p]

shown(d, p) ==
    IF seen(d, p).is # "none" THEN seen(d, p)
    ELSE IF \E r \in Runners : seen(d, <<Family, r>>).is = "fails" THEN Yields("fails", <<>>)
    ELSE seen(d, <<Family, p[2]>>)

(* Steam ends: the threads and their lock are gone, the files stay.        *)
Ends ==
    /\ lock' = None
    /\ call' = [t \in Callers |-> Idle]
    /\ reading' = [d \in Readers |-> Closed]
    /\ before' = Unknown
    /\ UNCHANGED <<file, tmp>>
=============================================================================
