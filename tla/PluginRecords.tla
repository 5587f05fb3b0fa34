--------------------------- MODULE PluginRecords ----------------------------
(***************************************************************************)
(* Descriptor files of plugins and runner variants.  Two programs read     *)
(* them: the panel in the Steam process (conf.c) and the launch script     *)
(* (np_conf_normalise in compat_run.sh, an awk program).  They have to     *)
(* agree on every file.  A directory is read file by file and line by      *)
(* line, by both readers; a line is abstracted to what the readers tell    *)
(* apart.                                                                  *)
(***************************************************************************)
EXTENDS Naturals, Sequences, FiniteSets

CONSTANTS
    Corpora,       \* what may be written, and bounds: [kind, lines, most, files]
    Ids,           \* valid ids
    BadId,         \* an id with characters it may not have, or too long
    Most,          \* kPlugin, kVariant: how often each field may be given
    Required,      \* fields a record of each kind has to have
    Num,           \* the values that are numbers, and which
    RecBuf,        \* NP_CONF_REC_BUF, room for the fields of a record
    RecordsMax,    \* NP_CONF_RECORDS_MAX, records of a directory
    Nil

(* What a record or a file is refused for.                                 *)
Codes == {"bad-id", "no-header", "line-too-long", "unknown-field", "empty-value", "tab-in-value",
          "duplicate-field", "limit", "missing-required", "bad-value", "bad-type", "slider-shape",
          "bad-default", "duplicate-id"}

ASSUME PluginConstants ==
    /\ RecordsMax \in Nat /\ RecBuf \in Nat
    /\ BadId \notin Ids /\ Nil \notin Ids \cup {BadId} \cup Codes
    /\ "file" \notin Ids \cup {BadId}
    /\ \A k \in Corpora : /\ k.kind \in DOMAIN Most /\ k.most \in Nat /\ k.files \in Nat \ {0}
                          /\ \A l \in k.lines : l.id \in Ids \cup {BadId, Nil}
    /\ \A k \in DOMAIN Most : /\ Required[k] \subseteq DOMAIN Most[k]
                              /\ \A f \in DOMAIN Most[k] : Most[k][f] \in Nat

VARIABLES
    corpus,        \* the lines these files are written with
    text,          \* the lines of each file, as far as they were read
    done,          \* the directory is read
    c,             \* the reader in conf.c
    w              \* the reader in compat_run.sh

recordsVars == <<corpus, text, done, c, w>>

(* A reader: the record it is in, why that is refused, whether the file    *)
(* has had a header, whether the rest of the file is passed over, the ids  *)
(* it admitted and what it told.                                           *)
Fresh == [id |-> Nil, fields |-> <<>>, code |-> Nil, header |-> FALSE,
          dropped |-> FALSE, seen |-> {}, told |-> <<>>]

Refusal(scope, code) == [id |-> scope, fields |-> <<>>, code |-> code]

-----------------------------------------------------------------------------
(* Walks over a record's fields.                                           *)

np_conf_count(fields, f) == Cardinality({i \in DOMAIN fields : fields[i].name = f})

values(fields, f) == {fields[i].value : i \in {j \in DOMAIN fields : fields[j].name = f}}

has(fields, f) == np_conf_count(fields, f) > 0

(* The value of a field that may be given once.                            *)
np_conf_get(fields, f) == CHOOSE v \in values(fields, f) : TRUE

np_conf_num(v) == v \in DOMAIN Num

conf_id_ok(id) == id \in Ids

Size(v) == IF v = "big" THEN RecBuf ELSE 1

kvlen(fields) ==
    Cardinality({i \in DOMAIN fields : fields[i].value # "big"})
    + RecBuf * Cardinality({i \in DOMAIN fields : fields[i].value = "big"})

-----------------------------------------------------------------------------
(* conf_schema: required fields, then the rules of single values ("bad"    *)
(* breaks one: a relative path, a tool name, an environment assignment, an *)
(* id to depend on), then the shape of a control: a slider is a range or a *)
(* ladder of choices, never one notch, and its default lies on it.  awk's  *)
(* schema() walks the same tables in the same order.                       *)

slider_shape_wrong(f) ==
    LET ladder == np_conf_count(f, "choice")
    IN  \/ ladder > 0 /\ (has(f, "min") \/ has(f, "max"))
        \/ ladder = 0 /\ ~(has(f, "min") /\ has(f, "max"))
        \/ ladder = 1

(* A given default that is not where the slider can stand.                 *)
off_slider(f) ==
    /\ has(f, "default")
    /\ LET d == np_conf_get(f, "default")
       IN  IF has(f, "choice") THEN d \notin values(f, "choice")
           ELSE ~np_conf_num(d) \/ Num[d] \notin Num[np_conf_get(f, "min")] .. Num[np_conf_get(f, "max")]

range_wrong(f) ==
    /\ ~has(f, "choice")
    /\ \/ \E e \in {"min", "max", "step"} : has(f, e) /\ ~np_conf_num(np_conf_get(f, e))
       \/ Num[np_conf_get(f, "max")] <= Num[np_conf_get(f, "min")]
       \/ has(f, "step") /\ Num[np_conf_get(f, "step")] = 0

conf_schema(f) ==
    IF \E r \in Required[corpus.kind] : ~has(f, r) THEN "missing-required"
    ELSE IF \E i \in DOMAIN f : f[i].value = "bad" THEN "bad-value"
    ELSE IF corpus.kind = "variant" \/ ~has(f, "type") THEN Nil
    ELSE IF np_conf_get(f, "type") = "choice" THEN (IF has(f, "choice") THEN Nil ELSE "missing-required")
    ELSE IF np_conf_get(f, "type") # "slider" THEN "bad-type"
    ELSE IF slider_shape_wrong(f) THEN "slider-shape"
    ELSE IF range_wrong(f) THEN "bad-value"
    ELSE IF off_slider(f) THEN "bad-default"
    ELSE Nil

(* What is wrong with one more field of a record.                          *)
FieldCodeOffByOne(fields, line) ==
    IF line.name \notin DOMAIN Most[corpus.kind] THEN "unknown-field"
    ELSE IF line.value = "" THEN "empty-value"
    ELSE IF line.value = "\t" THEN "tab-in-value"
    ELSE IF np_conf_count(fields, line.name) > Most[corpus.kind][line.name]
         THEN (IF Most[corpus.kind][line.name] = 1 THEN "duplicate-field" ELSE "limit")
    ELSE IF kvlen(fields) + Size(line.value) > RecBuf THEN "limit"
    ELSE Nil

field_code(fields, line) ==
    IF line.name \notin DOMAIN Most[corpus.kind] THEN "unknown-field"
    ELSE IF line.value = "" THEN "empty-value"
    ELSE IF line.value = "\t" THEN "tab-in-value"
    ELSE IF np_conf_count(fields, line.name) >= Most[corpus.kind][line.name]
         THEN (IF Most[corpus.kind][line.name] = 1 THEN "duplicate-field" ELSE "limit")
    ELSE IF kvlen(fields) + Size(line.value) > RecBuf THEN "limit"
    ELSE Nil

AdmitNoLimit(seen, id) == IF id \in seen THEN "duplicate-id" ELSE Nil

(* conf_admit: ids and the number of records are counted over the files.   *)
conf_admit(seen, id) ==
    IF id \in seen THEN "duplicate-id"
    ELSE IF Cardinality(seen) >= RecordsMax THEN "limit"
    ELSE Nil

Verdict(r) ==
    IF r.code # Nil THEN r.code
    ELSE IF conf_schema(r.fields) # Nil THEN conf_schema(r.fields)
    ELSE conf_admit(r.seen, r.id)

(* conf_emit: the record that ends is taken or refused, and cleared.       *)
conf_emit(r) ==
    IF r.id = Nil THEN [r EXCEPT !.fields = <<>>]
    ELSE [r EXCEPT !.id = Nil, !.fields = <<>>,
                   !.told = Append(@, [id |-> r.id, fields |-> r.fields, code |-> Verdict(r)]),
                   !.seen = IF Verdict(r) = Nil THEN @ \cup {r.id} ELSE @]

Tell(r, refusal) == [r EXCEPT !.told = Append(@, refusal)]

-----------------------------------------------------------------------------
(* conf_read_file, for one line.                                           *)

(* A header ends the record before it.  One without a name is refused as   *)
(* the file's, and what follows it belongs to no record.                   *)
CHeader(r, line) ==
    LET e == [conf_emit(r) EXCEPT !.code = Nil, !.header = TRUE]
    IN  IF line.id = Nil THEN Tell(e, Refusal("file", "bad-id"))
        ELSE [e EXCEPT !.id = line.id, !.code = IF conf_id_ok(line.id) THEN Nil ELSE "bad-id"]

(* The first fault refuses a record; the rest of it is passed over.  A     *)
(* field before any header gives the file up.                              *)
CField(r, line) ==
    IF ~r.header THEN Tell([r EXCEPT !.dropped = TRUE], Refusal("file", "no-header"))
    ELSE IF r.code # Nil THEN r
    ELSE IF field_code(r.fields, line) # Nil THEN [r EXCEPT !.code = field_code(r.fields, line)]
    ELSE [r EXCEPT !.fields = Append(@, [name |-> line.name, value |-> line.value])]

(* A line that is too long gives the file up, and the record with it.      *)
conf_read_line(r, line) ==
    IF r.dropped THEN r
    ELSE IF line.kind = "long" THEN Tell([r EXCEPT !.id = Nil, !.dropped = TRUE], Refusal("file", "line-too-long"))
    ELSE IF line.kind = "header" THEN CHeader(r, line)
    ELSE IF line.kind = "field" THEN CField(r, line)
    ELSE r

EndForgetsRecord(r) == [r EXCEPT !.id = Nil, !.fields = <<>>, !.code = Nil, !.header = FALSE, !.dropped = FALSE]

(* The end of a file: its last record, and locals that are new for the     *)
(* next one.  A file that was given up has no record left to emit.         *)
conf_read_end(r) ==
    [(IF r.dropped THEN r ELSE conf_emit(r)) EXCEPT
        !.id = Nil, !.fields = <<>>, !.code = Nil, !.header = FALSE, !.dropped = FALSE]

-----------------------------------------------------------------------------
(* The awk program.  Its variables are global, so a record is cleared by   *)
(* reset() and ends with flush(), which the first line of the next file    *)
(* calls, or the end of the program.                                       *)

reset(r) == [r EXCEPT !.id = Nil, !.code = Nil, !.fields = <<>>]

flush(r) == IF r.id = Nil THEN reset(r) ELSE reset(conf_emit(r))

StartfileKeepsHeader(r) == [r EXCEPT !.dropped = FALSE]

startfile(r) == [r EXCEPT !.header = FALSE, !.dropped = FALSE]

AwkHeader(r, line) ==
    LET e == [flush(r) EXCEPT !.header = TRUE, !.id = line.id]
    IN  IF line.id = Nil THEN Tell(e, Refusal("file", "bad-id"))
        ELSE IF conf_id_ok(line.id) THEN e ELSE [e EXCEPT !.code = "bad-id"]

AwkField(r, line) ==
    IF ~r.header THEN Tell([reset(r) EXCEPT !.dropped = TRUE], Refusal("file", "no-header"))
    ELSE IF r.code # Nil THEN r
    ELSE IF field_code(r.fields, line) # Nil THEN [r EXCEPT !.code = field_code(r.fields, line)]
    ELSE [r EXCEPT !.fields = Append(@, [name |-> line.name, value |-> line.value])]

awk_line(r, first, line) ==
    LET s == IF first THEN startfile(flush(r)) ELSE r
    IN  IF s.dropped THEN s
        ELSE IF line.kind = "long" THEN Tell([reset(s) EXCEPT !.dropped = TRUE], Refusal("file", "line-too-long"))
        ELSE IF line.kind = "header" THEN AwkHeader(s, line)
        ELSE IF line.kind = "field" THEN AwkField(s, line)
        ELSE s

-----------------------------------------------------------------------------
Total(f, n) ==
    LET upto[i \in 0 .. n] == IF i = 0 THEN 0 ELSE upto[i - 1] + f[i]
    IN  upto[n]

LineCount == Total([i \in DOMAIN text |-> Len(text[i])], Len(text))

Last == text[Len(text)]

(* One more line of the file, for both readers.                            *)
ReadLine ==
    /\ ~done /\ LineCount < corpus.most
    /\ \E line \in corpus.lines :
          /\ text' = [text EXCEPT ![Len(text)] = Append(@, line)]
          /\ c' = conf_read_line(c, line)
          /\ w' = awk_line(w, Last = <<>>, line)
    /\ UNCHANGED <<corpus, done>>

(* np_conf_read_dir goes on with the next file, with the ids it has seen.  *)
NextFile ==
    /\ ~done /\ Len(text) < corpus.files
    /\ text' = Append(text, <<>>)
    /\ c' = conf_read_end(c)
    /\ UNCHANGED <<corpus, done, w>>

EndOfDirectory ==
    /\ ~done
    /\ done' = TRUE
    /\ c' = conf_read_end(c) /\ w' = flush(w)
    /\ UNCHANGED <<corpus, text>>

RecordsInit ==
    /\ corpus \in Corpora
    /\ text = <<<<>>>> /\ done = FALSE
    /\ c = Fresh /\ w = Fresh

RecordsNext == ReadLine \/ NextFile \/ EndOfDirectory

RecordsSpec == RecordsInit /\ [][RecordsNext]_recordsVars

-----------------------------------------------------------------------------
(* Shapes of the state: what conf.c holds of a directory fits its tables.  *)
RecordsTypeOK ==
    /\ corpus \in Corpora /\ Len(text) \in 1 .. corpus.files /\ LineCount <= corpus.most
    /\ c.id \in Ids \cup {BadId, Nil} /\ c.seen \subseteq Ids
    /\ Cardinality(c.seen) <= RecordsMax /\ kvlen(c.fields) <= RecBuf

(* Every file is read alike by the panel and the launch: the same records  *)
(* with the same fields, and the same refusals in the same order (conf.c   *)
(* and np_conf_normalise, which "agree on every file").                    *)
ReadersAgree == done => c.told = w.told

(* The fields of the record that a header begins, from the text.           *)
OwnLines(file, h) ==
    {j \in h + 1 .. Len(file) : file[j].kind = "field" /\ \A k \in h + 1 .. j : file[k].kind # "header"}

Faulty(file, own, j) ==
    LET most == Most[corpus.kind]
    IN  \/ file[j].name \notin DOMAIN most \/ file[j].value \in {"", "\t", "bad"}
        \/ Cardinality({k \in own : file[k].name = file[j].name}) > most[file[j].name]

(* These lines, in their order.                                            *)
AreFieldsOf(fields, file, own) ==
    /\ Len(fields) = Cardinality(own)
    /\ \A j \in own : fields[Cardinality({k \in own : k <= j})] = [name |-> file[j].name, value |-> file[j].value]

Accepted == {i \in DOMAIN c.told : c.told[i].code = Nil}

(* An accepted record is one whose own lines are all in order, whatever    *)
(* records, files and stray lines surround it, and it has exactly their    *)
(* values; no id is accepted twice in a directory (conf_read_file,         *)
(* conf_emit, conf_admit).                                                 *)
AcceptedAreSound ==
    /\ \A i, j \in Accepted : c.told[i].id = c.told[j].id => i = j
    /\ \A i \in Accepted : \E n \in DOMAIN text : \E h \in DOMAIN text[n] :
          LET own == OwnLines(text[n], h)
          IN  /\ text[n][h].kind = "header" /\ text[n][h].id = c.told[i].id
              /\ \A j \in own : ~Faulty(text[n], own, j)
              /\ AreFieldsOf(c.told[i].fields, text[n], own)

(* No record is lost or told twice: every named header that was passed has *)
(* one verdict, but for the record that is being read and those of a file  *)
(* that was given up where they stood (conf_emit, conf_read_file).         *)
GivenUpAt(file) ==
    LET bad == {j \in DOMAIN file :
                  \/ file[j].kind = "long"
                  \/ file[j].kind = "field" /\ \A h \in 1 .. j - 1 : file[h].kind # "header"}
    IN  IF bad = {} THEN Len(file) + 1 ELSE CHOOSE j \in bad : \A k \in bad : j <= k

(* The headers of a file that are to be told.                              *)
ToTell(file, id) ==
    Cardinality({h \in 1 .. GivenUpAt(file) - 1 :
        /\ file[h].kind = "header" /\ file[h].id = id
        /\ GivenUpAt(file) <= Len(file) =>
              \E j \in h + 1 .. GivenUpAt(file) - 1 : file[j].kind = "header"})

Told(id) == Cardinality({i \in DOMAIN c.told : c.told[i].id = id})

EveryRecordIsTold ==
    \A id \in Ids \cup {BadId} :
        Total([n \in DOMAIN text |-> ToTell(text[n], id)], Len(text))
            = Told(id) + (IF c.id = id THEN 1 ELSE 0)
=============================================================================
