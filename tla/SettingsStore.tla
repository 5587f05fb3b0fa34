--------------------------- MODULE SettingsStore ---------------------------
(***************************************************************************)
(* What the default compatibility settings promise, without threads, locks *)
(* or temporary files: a file is replaced whole by one checked set, and a  *)
(* version loses settings of its own only after its family received the    *)
(* set that was applied.  ToolDefaults implements this.                    *)
(***************************************************************************)

CONSTANTS
    Builds,        \* CrossOver versions that may have settings of their own
    Runners,       \* the families, Rosetta and FEX
    Family,        \* stands in for a build in the path of a family's file
    Absent,        \* there is no file
    Bodies(_),     \* the sets a file of a runner may be given
    Regular(_),    \* a content that is a set of its own
    Kept(_, _)     \* the valid part of what a file holds, for a runner

VARIABLES
    file,          \* what each file holds
    applying       \* the runner whose versions lose their own settings, or Absent


Save(p, body) ==
    /\ applying = Absent
    /\ body \in Bodies(p[2])
    /\ file' = [file EXCEPT ![p] = body]
    /\ UNCHANGED applying

(* The set a version uses becomes the set of its family.                   *)
BeginApply(b, r) ==
    /\ applying = Absent
    /\ LET used == IF Regular(file[<<b, r>>]) THEN file[<<b, r>>] ELSE file[<<Family, r>>]
       IN  file' = [file EXCEPT ![<<Family, r>>] = Kept(r, used)]
    /\ applying' = r

Drop(b) ==
    /\ applying # Absent
    /\ file' = [file EXCEPT ![<<b, applying>>] = Absent]
    /\ UNCHANGED applying

EndApply ==
    /\ applying # Absent
    /\ applying' = Absent
    /\ UNCHANGED file

Next ==
    \/ \E p \in DOMAIN file : \E body \in Bodies(p[2]) : Save(p, body)
    \/ \E b \in Builds, r \in Runners : BeginApply(b, r)
    \/ \E b \in Builds : Drop(b)
    \/ EndApply

Spec == applying = Absent /\ [][Next]_<<file, applying>>
=============================================================================
