----------------------------- MODULE CodeImage ------------------------------
(***************************************************************************)
(* Finding a function of the client by what it does (anchor.c), in an      *)
(* image as macho.c reads it.  An image im is                              *)
(*   lo, hi        its __TEXT, from lo to before hi                        *)
(*   code          <<first, after>>, its __text section                    *)
(*   insn          the instructions of __TEXT: [op, r, to]                 *)
(*   odd           places of __TEXT between two instructions whose bytes   *)
(*                 read like the begin of a function                       *)
(*   starts        its table of function starts, {} when it is no use      *)
(*   cstr          strings of __TEXT, __DATA_CONST and __DATA: sets of     *)
(*                 [at, s, whole], whole unless s ends a longer string     *)
(*   slots         pointers of __DATA_CONST and __DATA, by address         *)
(*   sections      <<first, after>> of the sections of data                *)
(*   stubs         names of imports, by address of the stub                *)
(*   objc          <<first, after>> of the stubs that send a message       *)
(*   selrefs       selectors, by address of the slot that holds them       *)
(*   sel           selectors the runtime replaced: string to pointer       *)
(* Instructions are at even addresses, Word apart.  Nil is no address.    *)
(***************************************************************************)
EXTENDS Naturals, Integers, Sequences, FiniteSets

CONSTANT Nil

ASSUME NilIsNoAddress == Nil \notin Nat

Word == 2
NP_FN_SPAN_MAX == 12       \* 0x400 bytes in the source
MAX_CALLER_HOPS == 4
NP_CALL_PATH_MAX == 4

Words(from, to) == {a \in from .. to - 1 : a % Word = 0}
Text(im) == Words(im.lo, im.hi)

(* The one element, or Nil: whatever is ambiguous is not found.           *)
Sole(S) == IF Cardinality(S) = 1 THEN CHOOSE x \in S : TRUE ELSE Nil
Lowest(S) == CHOOSE x \in S : \A y \in S : x <= y
Highest(S) == CHOOSE x \in S : \A y \in S : y <= x
(* A step on from a place, if there is one.                                *)
Then(a, Step(_)) == CHOOSE r \in {IF x = Nil THEN Nil ELSE Step(x) : x \in {a}} : TRUE
(* The n-th in ascending order.                                            *)
Nth(S, n) ==
    LET here == {x \in S : Cardinality({y \in S : y <= x}) = n}
    IN  IF here = {} THEN Nil ELSE Lowest(here)

-----------------------------------------------------------------------------
(* Decoders.                                                               *)

(* It reads what is there, on an instruction or not.                       *)
np_looks_like_prologue(im, a) == IF a % Word = 0 THEN im.insn[a].op \in {"sub", "stp"} ELSE a \in im.odd
is_entry_insn(im, a) == im.insn[a].op = "sub"
InText(im, a) == a >= im.lo /\ a <= im.hi - Word

(* ADRP and, next to it, ADD or LDR of the register it set.                *)
Refers(im, a, target, indirect) ==
    /\ a + Word < im.hi
    /\ im.insn[a].op = "adrp"
    /\ im.insn[a + Word].op = (IF indirect THEN "ldr" ELSE "add")
    /\ im.insn[a + Word].r = im.insn[a].r
    /\ im.insn[a].to + im.insn[a + Word].to = target

bl_target(im, a) == IF im.insn[a].op = "bl" THEN im.insn[a].to ELSE Nil
b_target(im, a) == IF im.insn[a].op = "b" THEN im.insn[a].to ELSE Nil
Calls(im, from, to) == {a \in Words(from, to) : bl_target(im, a) # Nil}

(* The function around an address, from the table; the last one has no end.*)
np_function_bounds(im, a) ==
    LET before == {s \in im.starts : s <= a}
        after  == {s \in im.starts : s > a}
    IN  IF before = {} \/ after = {} THEN Nil ELSE <<Highest(before), Lowest(after)>>

InCode(im, b) == b[1] >= im.code[1] /\ b[2] <= im.code[2] /\ b[1] % Word = 0 /\ b[2] % Word = 0

containing_fn(im, a) ==
    LET b == np_function_bounds(im, a)
    IN  IF b # Nil /\ InCode(im, b) THEN b[1] ELSE Nil

-----------------------------------------------------------------------------
(* The steps an anchor is followed by.                                     *)

(* The first segment that has the string has it once.                      *)
cstring_va(im, s) ==
    LET hits(k) == {e \in im.cstr[k] : e.s = s}
        having  == {k \in DOMAIN im.cstr : hits(k) # {}}
    IN  IF having = {} \/ Sole(hits(Lowest(having))) = Nil THEN Nil
        ELSE Sole(hits(Lowest(having))).at

xref_to_va(im, target, nth, indirect) ==
    LET refs == {a \in Text(im) : Refers(im, a, target, indirect)}
    IN  IF nth > 0 THEN Nth(refs, nth) ELSE Sole(refs)

(* A slot that holds the string, or the selector the runtime put there.    *)
slot_holding(im, str, s) ==
    LET holds(k) == {a \in DOMAIN im.slots[k] :
                        im.slots[k][a] = str \/ (s \in DOMAIN im.sel /\ im.slots[k][a] = im.sel[s])}
        having == {k \in DOMAIN im.slots : Cardinality(holds(k)) = 1}
    IN  IF having = {} THEN Nil ELSE Sole(holds(Lowest(having)))

FirstCaller(im, callee, tail) ==
    LET from == {a \in Text(im) : (IF tail THEN b_target(im, a) ELSE bl_target(im, a)) = callee}
    IN  IF from = {} THEN Nil ELSE containing_fn(im, Lowest(from))

(* A branch of a function to its own entry is a loop, not a caller.        *)
sole_caller(im, callee, tail) ==
    LET from == {a \in Text(im) :
                    /\ (IF tail THEN b_target(im, a) ELSE bl_target(im, a)) = callee
                    /\ ~(tail /\ containing_fn(im, a) = callee)}
    IN  Then(Sole(from), LAMBDA a : containing_fn(im, a))

hop_to_caller(im, start, hops, tail) ==
    LET at[i \in 0 .. hops] ==
            IF i = 0 THEN start ELSE Then(at[i - 1], LAMBDA f : sole_caller(im, f, tail))
    IN  IF hops > MAX_CALLER_HOPS THEN Nil ELSE at[hops]

(* One past the n-th of an opcode, wherever that is.                       *)
scan_for_insn(im, start, op, nth) ==
    Then(Nth({a \in Words(start, im.hi) : im.insn[a].op = op}, IF nth > 0 THEN nth ELSE 1),
         LAMBDA a : a + Word)

body_end(im, fn) ==
    LET cap == IF fn + NP_FN_SPAN_MAX > im.hi THEN im.hi ELSE fn + NP_FN_SPAN_MAX
        b   == np_function_bounds(im, fn)
        next == {a \in Words(fn + Word, cap) : is_entry_insn(im, a)}
    IN  IF b # Nil /\ b[1] = fn /\ b[2] <= im.hi THEN (IF b[2] < cap THEN b[2] ELSE cap)
        ELSE IF next # {} THEN Lowest(next) ELSE cap

(* What the n-th call of a function calls, through one branch island.      *)
nth_call_target(im, fn, nth) ==
    LET Through(t) ==
            IF ~InText(im, t) THEN Nil
            ELSE IF b_target(im, t) # Nil /\ InText(im, b_target(im, t)) THEN b_target(im, t) ELSE t
    IN  Then(Nth(Calls(im, fn, body_end(im, fn)), nth), LAMBDA a : Through(bl_target(im, a)))

walk_call_path(im, start, path) ==
    LET at[i \in 0 .. Len(path)] ==
            IF i = 0 THEN start ELSE Then(at[i - 1], LAMBDA f : nth_call_target(im, f, path[i]))
        Prologue(fn) == IF np_looks_like_prologue(im, fn) THEN fn ELSE Nil
    IN  IF Len(path) \in 1 .. NP_CALL_PATH_MAX THEN Then(at[Len(path)], Prologue) ELSE Nil

sole_insn_pair(im, fn, p) ==
    LET at == Sole({a \in Words(fn, body_end(im, fn) - Word) :
                       /\ im.insn[a].op = p.first /\ im.insn[a + Word].op = p.second
                       /\ p.tied => im.insn[a].r = im.insn[a + Word].r})
    IN  IF at # Nil /\ p.land = "second" THEN at + Word ELSE at

-----------------------------------------------------------------------------
(* By the calls a function makes, in order: of imports, or of methods by   *)
(* their selector.                                                         *)

np_import_stub_symbol(im, stub) == IF stub \in DOMAIN im.stubs THEN im.stubs[stub] ELSE Nil
np_import_stub_for_symbol(im, n) == Sole({a \in DOMAIN im.stubs : im.stubs[a] = n})

(* The stub loads a slot of the selectors; the table has no stride.        *)
objc_stub_selector(im, stub) ==
    Then(Sole({x \in DOMAIN im.selrefs : Refers(im, stub, x, TRUE)}), LAMBDA x : im.selrefs[x])
ObjcStubs(im) == Words(im.objc[1], im.objc[2] - Word)
objc_stub_for_selector(im, n) == Sole({a \in ObjcStubs(im) : objc_stub_selector(im, a) = n})

stub_for_name(im, c) ==
    IF c.selector THEN objc_stub_for_selector(im, c.name) ELSE np_import_stub_for_symbol(im, c.name)

callee_is_named(im, callee, c) ==
    IF c.selector THEN callee \in ObjcStubs(im) /\ objc_stub_selector(im, callee) = c.name
    ELSE np_import_stub_symbol(im, callee) = c.name

body_matches_calls(im, fn, end, calls, exact, no_data_refs) ==
    LET made == Calls(im, fn, end)
        wanted[i \in 0 .. Cardinality(made)] ==
            IF i = 0 THEN 0
            ELSE LET w == wanted[i - 1]
                     hit == /\ w < Len(calls)
                            /\ callee_is_named(im, bl_target(im, Nth(made, i)), calls[w + 1])
                 IN  IF hit THEN w + 1 ELSE w
    IN  /\ \A a \in made : InText(im, bl_target(im, a))
        /\ no_data_refs => \A a \in Words(fn, end) : im.insn[a].op # "adrp"
        /\ exact => Cardinality(made) = Len(calls) /\ \A a \in Words(fn, end) : im.insn[a].op # "blr"
        /\ wanted[Cardinality(made)] = Len(calls)

(* Among the callers of what is called first; one without bounds could     *)
(* hide a second match.                                                    *)
sole_fn_by_calls(im, a) ==
    LET seed == stub_for_name(im, a.calls[1])
        from == {pc \in Words(im.code[1], im.code[2]) : bl_target(im, pc) = seed}
        b(pc) == np_function_bounds(im, pc)
        hits == {pc \in from : body_matches_calls(im, b(pc)[1], b(pc)[2], a.calls, a.exact, a.no_data_refs)}
    IN  IF a.calls = <<>> \/ seed = Nil \/ \E pc \in from : b(pc) = Nil \/ ~InCode(im, b(pc)) THEN Nil
        ELSE Sole({b(pc)[1] : pc \in hits})

-----------------------------------------------------------------------------
(* By a slot of a table of virtual functions.                              *)

(* What a slot of data points to, when that starts like a function.        *)
SlotFunction(im, slot) ==
    LET fn == im.slots[CHOOSE k \in DOMAIN im.slots : slot \in DOMAIN im.slots[k]][slot]
    IN  IF /\ \E s \in im.sections : slot >= s[1] /\ slot + Word <= s[2]
           /\ \E k \in DOMAIN im.slots : slot \in DOMAIN im.slots[k]
           /\ InText(im, fn) /\ np_looks_like_prologue(im, fn)
        THEN fn ELSE Nil

(* The name of a type is a whole string of __TEXT, once.                   *)
type_name_va(im, s) ==
    LET e == Sole({x \in im.cstr[1] : x.s = s /\ x.whole}) IN IF e = Nil THEN Nil ELSE e.at

(* A primary table: zero below the type and code above it.                 *)
Tables(im, ti) ==
    UNION {{a \in DOMAIN im.slots[k] :
               /\ im.slots[k][a] = ti
               /\ {a - Word, a + Word} \subseteq DOMAIN im.slots[k]
               /\ im.slots[k][a - Word] = 0
               /\ im.slots[k][a + Word] \in Text(im)} : k \in DOMAIN im.slots}

vptr_from_typeinfo(im, ti) == IF Sole(Tables(im, ti)) = Nil THEN Nil ELSE Sole(Tables(im, ti)) + Word

np_rtti_vptr(im, s) ==
    LET name == type_name_va(im, s)
        infos == UNION {{a - Word : a \in {x \in DOMAIN im.slots[k] :
                            x - Word \in DOMAIN im.slots[k] /\ im.slots[k][x] = name}} : k \in DOMAIN im.slots}
    IN  IF name = Nil THEN Nil ELSE Sole({vptr_from_typeinfo(im, ti) : ti \in infos} \ {Nil})

-----------------------------------------------------------------------------
(* np_locate_anchor: a is an anchor as sigdb.c admitted it.                *)

(* Where a string of the anchor is used.                                   *)
StringRef(im, a) ==
    LET Holder(str) == IF a.indirect THEN slot_holding(im, str, a.str) ELSE str
    IN  Then(Then(cstring_va(im, a.str), Holder), LAMBDA x : xref_to_va(im, x, a.nth_xref, a.indirect))

(* The callers of the reference itself, else of its function.              *)
StringFunction(im, a, ref) ==
    LET direct == hop_to_caller(im, ref, a.hops, a.tail)
    IN  IF a.hops = 0 THEN containing_fn(im, ref)
        ELSE IF direct # Nil THEN direct
        ELSE Then(containing_fn(im, ref), LAMBDA f : hop_to_caller(im, f, a.hops, a.tail))

np_locate_anchor(im, a) ==
    LET InFunction(fn) == CASE a.kind = "pair" -> sole_insn_pair(im, fn, a.pair)
                            [] a.kind = "target" -> walk_call_path(im, fn, a.path)
                            [] OTHER -> fn
        FromString(ref) == IF a.kind = "insn" THEN scan_for_insn(im, ref, a.insn, a.nth)
                           ELSE Then(StringFunction(im, a, ref), InFunction)
    IN  CASE a.kind = "vtable" -> SlotFunction(im, a.va)
          [] a.kind = "calls" -> sole_fn_by_calls(im, a)
          [] a.kind = "rtti" -> Then(np_rtti_vptr(im, a.str), LAMBDA v : SlotFunction(im, v + a.slot * Word))
          [] OTHER -> Then(StringRef(im, a), FromString)

(* The one place that reads like the pattern.  One of wildcards only is    *)
(* none.                                                                   *)
np_scan_sole_match(im, pat) ==
    IF \A i \in DOMAIN pat : pat[i] = "?" THEN Nil
    ELSE Sole({a \in Text(im) :
                  /\ a + Word * Len(pat) <= im.hi
                  /\ \A i \in DOMAIN pat : pat[i] \in {"?", im.insn[a + Word * (i - 1)].op}})

-----------------------------------------------------------------------------
(* What a compiler and a linker make of the client.                        *)

(* What is called, through one branch island, and what data point to.      *)
Called(im) == {t \in {bl_target(im, a) : a \in Text(im)} \ {Nil} : InText(im, t)}
Islands(im) == {t \in {b_target(im, c) : c \in Called(im)} \ {Nil} : InText(im, t)}
Pointed(im) ==
    {t \in UNION {{im.slots[k][a] : a \in DOMAIN im.slots[k]} : k \in DOMAIN im.slots} : InText(im, t)}

(* Segments and sections lie where the format has them; the table of       *)
(* starts names functions only; and an instruction that is called or       *)
(* pointed to, if it begins like a function, is one.                       *)
WellMade(im) ==
    /\ {im.lo, im.hi, im.code[1], im.code[2]} \subseteq Nat /\ im.hi % Word = 0
    /\ im.lo <= im.code[1] /\ im.code[2] <= im.hi
    /\ \A a \in Text(im) : /\ im.insn[a].to \in Int
                           /\ im.insn[a].op \in {"b", "bl"} => im.insn[a].to % Word = 0
    /\ im.starts \subseteq im.entries /\ im.entries \subseteq Nat
    /\ DOMAIN im.cstr = 1 .. 3 /\ \A k \in 1 .. 3 : IsFiniteSet(im.cstr[k])
    /\ DOMAIN im.stubs \subseteq Text(im)
    /\ {im.objc[1], im.objc[2]} \subseteq Nat /\ Words(im.objc[1], im.objc[2]) \subseteq Text(im)
    /\ \A t \in Called(im) \cup Islands(im) \cup Pointed(im) :
          t % Word = 0 /\ np_looks_like_prologue(im, t) => t \in im.entries
=============================================================================
