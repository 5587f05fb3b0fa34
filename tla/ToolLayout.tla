----------------------------- MODULE ToolLayout ------------------------------
(***************************************************************************)
(* Where the client keeps what compat.c reads and writes: offsets it reads *)
(* out of the code of the client, since fields move from build to build.   *)
(* An instruction is a record [op, rt, rn, imm]: destination, base and     *)
(* immediate; a branch has the name of its target in imm.                  *)
(***************************************************************************)
EXTENDS Integers, Sequences, SequencesExt, FiniteSets, FiniteSetsExt

CONSTANT None

COMPAT_TOOL_INSTALL_OFF     == 88
COMPAT_TOOL_APPID_OFF       == 96
COMPAT_TOOL_FROM_OSLIST_OFF == 112
COMPAT_TOOL_TO_OSLIST_OFF   == 120
COMPAT_MANAGER_ENABLED_OFF  == 1968
SP == 31

ldr32_from_x0(w) == w.op = "ldr32" /\ w.rn = 0
ldr64_from(w, base) == w.op = "ldr64" /\ w.rn = base
ldrb_from(w, base) == w.op = "ldrb" /\ w.rn = base
mov_from_x0(w) == w.op = "mov" /\ w.rn = 0
cbz32(w, rt) == w.op = "cbz" /\ w.rt = rt

(* The first instruction of a window that Test holds of, None without one. *)
FirstOf(code, span, Test(_)) ==
    LET i == SelectInSeq(SubSeq(code, 1, Min({span, Len(code)})), Test) IN IF i = 0 THEN None ELSE code[i]

(* The two offsets the comparison loads, the lower first; any other number *)
(* of them says nothing.                                                   *)
probe_oslist_offsets(code) ==
    LET seen == {w.imm : w \in {x \in ToSet(code) : ldr64_from(x, 21)}}
    IN  IF Cardinality(seen) = 2 THEN [from |-> Min(seen), to |-> Max(seen)] ELSE None

(* c.gate: the load of the appid and its branch; c.local: where the branch *)
(* lands; c.oslist: around the comparison.  Yields the shift, or None.     *)
NearShift(c) ==
    IF c.gate = <<>> \/ ~ldr32_from_x0(c.gate[1]) \/ ~cbz32(c.gate[2], c.gate[1].rt) THEN None
    ELSE LET install == FirstOf(c.local, 8, LAMBDA w : ldr64_from(w, 0))
             shift == c.gate[1].imm - COMPAT_TOOL_APPID_OFF
         IN  IF install = None \/ install.imm - COMPAT_TOOL_INSTALL_OFF # shift THEN None ELSE shift

(* The near end alone.                                                     *)
UncorroboratedShift(c) == NearShift(c)

np_compat_probe_tool_layout(c) ==
    LET shift == NearShift(c)
        far == probe_oslist_offsets(c.oslist)
    IN  IF shift = None \/ far = None THEN shift
        ELSE IF far.from - COMPAT_TOOL_FROM_OSLIST_OFF # shift \/ far.to - COMPAT_TOOL_TO_OSLIST_OFF # shift THEN None
        ELSE shift

(* A refused shift leaves the baseline, which is used all the same.        *)
g_tool_shift(c) == LET s == np_compat_probe_tool_layout(c) IN IF s = None THEN 0 ELSE s

np_compat_tool_off(c, off) == IF off < COMPAT_TOOL_INSTALL_OFF THEN off ELSE off + g_tool_shift(c)

(* The first byte tested through the register the manager is parked in.    *)
np_compat_probe_enabled_off(c) ==
    LET parked == FirstOf(c.enabled, 16, mov_from_x0)
        flag == FirstOf(c.enabled, 32, LAMBDA w : ldrb_from(w, parked.rt))
    IN  IF parked = None THEN None
        ELSE IF flag = None THEN None
        ELSE IF flag.imm < 256 THEN None ELSE flag.imm

np_compat_enabled_off(c) ==
    LET off == np_compat_probe_enabled_off(c) IN IF off = None THEN COMPAT_MANAGER_ENABLED_OFF ELSE off

(* What x0 is made of right before the first call of the lookup: the last  *)
(* addition of up to four instructions back that is not of a local.        *)
np_compat_probe_windows_only_off(c) ==
    LET call == SelectInSeq(SubSeq(c.wildcard, 1, Min({64, Len(c.wildcard)})), LAMBDA w : w.op = "bl" /\ w.imm = "lookup")
        makes == {i \in Max({1, call - 4}) .. call - 1 :
                    c.wildcard[i].op = "add" /\ c.wildcard[i].rt = 0 /\ c.wildcard[i].rn # SP}
    IN  IF call = 0 \/ makes = {} THEN None ELSE c.wildcard[Max(makes)].imm

np_compat_is_windows_only_table(c, map) ==
    np_compat_probe_windows_only_off(c) # None /\ map = np_compat_probe_windows_only_off(c)

(* A registration is read where the client has its fields: c.near and      *)
(* c.far are how far the two ends of an entry really moved.                *)
WrittenWhereRead(c) ==
    /\ np_compat_tool_off(c, COMPAT_TOOL_INSTALL_OFF) = COMPAT_TOOL_INSTALL_OFF + c.near
    /\ np_compat_tool_off(c, COMPAT_TOOL_APPID_OFF) = COMPAT_TOOL_APPID_OFF + c.near
    /\ np_compat_tool_off(c, COMPAT_TOOL_FROM_OSLIST_OFF) = COMPAT_TOOL_FROM_OSLIST_OFF + c.far
    /\ np_compat_tool_off(c, COMPAT_TOOL_TO_OSLIST_OFF) = COMPAT_TOOL_TO_OSLIST_OFF + c.far
=============================================================================
