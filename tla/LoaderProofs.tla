---------------------------- MODULE LoaderProofs -----------------------------
(***************************************************************************)
(* What the dylib does in the Steam process, for every list of modules,    *)
(* every database and image, every list of tools and every world: its      *)
(* hooks of the client's main image go in together or not at all, each at  *)
(* the start of the function its signature describes; the processes of     *)
(* Steam keep it and nothing else they start has it; the folders of the    *)
(* tools follow the list and the user's stay; and what the manager holds   *)
(* is read where it was written.                                           *)
(***************************************************************************)
EXTENDS HookInstall, CompatTools, FiniteSetTheorems, WellFoundedInduction, TLAPS

\* A set of indices that is not empty has a first one.
LEMMA Least ==
    ASSUME NEW T \in SUBSET Nat, T # {}
    PROVE  \E x \in T : \A y \in T : x <= y
<1> DEFINE R == {ss \in Nat \X Nat : ss[1] < ss[2]}
<1>1. IsWellFoundedOn(R, Nat)
  BY NatLessThanWellFounded DEF OpToRel
<1>2. \E x \in T : \A y \in T : ~ (<<y, x>> \in R)
  BY <1>1, WFMin
<1>3. PICK x \in T : \A y \in T : ~ (<<y, x>> \in R)
  BY <1>2
<1>4. ASSUME NEW y \in T PROVE x <= y
  <2>1. ~(y < x)
    BY <1>3
  <2> QED BY <2>1
<1> QED BY <1>3, <1>4

-----------------------------------------------------------------------------
(* The hooks.  Until the first module's signatures are resolved nothing is *)
(* hooked, and the thread gets past that only when it found as many as are *)
(* required; an image once loaded stays, and so does the database.         *)

First1 == Modules[1]

(* Everything the database requires of the first module was found.         *)
Passed == /\ image[First1] # Nil
          /\ \A s \in Required(sigdb, First1) : Site(image[First1], s) # Nil

HookInv ==
    /\ machine \in Machines
    /\ at \in 1 .. Len(Modules)
    /\ image = [m \in {Modules[i] : i \in 1 .. Len(Modules)} |-> image[m]]
    /\ IsFiniteSet(sigdb)
    /\ pc \in {"load", "resolve"} => image[module] # Nil
    /\ pc = "load" => at = 1
    /\ pc \in {"await", "load", "resolve"} /\ at = 1 => hooks = {} /\ broken = {}
    /\ at # 1 \/ pc = "hook" \/ hooks # {} \/ broken # {} => Passed

\* There is a first module.
LEMMA ModuleFacts ==
    /\ Len(Modules) \in Nat /\ 1 \in 1 .. Len(Modules) /\ DOMAIN Modules = 1 .. Len(Modules)
BY InstallConstants

\* The database that is read is one of the folder's, and finite.
LEMMA ProfileFacts ==
    ASSUME NEW w \in Machines, pick_latest_sigdb(w.profiles) # Nil
    PROVE  IsFiniteSet(np_load_profile(pick_latest_sigdb(w.profiles)))
<1> DEFINE p == pick_latest_sigdb(w.profiles)
<1>1. \E q \in w.profiles : \A r \in w.profiles : r.build <= q.build
  BY InstallConstants DEF pick_latest_sigdb
<1>2. p \in w.profiles
  BY <1>1 DEF pick_latest_sigdb
<1>3. IsFiniteSet(p.signatures)
  BY <1>2, InstallConstants
<1> DEFINE S == p.signatures
           T == np_load_profile(p)
           f == [s \in S |-> Admitted(s)]
<1>4. T = {Admitted(s) : s \in S}
  BY DEF np_load_profile
<1> HIDE DEF p, T, S
<1>5. f \in Surjection(S, T)
  BY <1>4 DEF Surjection
<1>6. IsFiniteSet(T)
  BY <1>3, <1>5, FS_Surjection DEF S
<1> QED BY <1>6 DEF T, p

\* As many found as required is all of them.
LEMMA CountIsAll ==
    ASSUME IsFiniteSet(sigdb), NEW im, NEW m,
           ~(Count(im, sigdb, m) < np_required_for_module(sigdb, m))
    PROVE  \A s \in Required(sigdb, m) : Site(im, s) # Nil
<1> DEFINE R == Required(sigdb, m)
           T == {s \in R : Site(im, s) # Nil}
<1>1. R \in SUBSET sigdb
  BY DEF Required, Of
<1>2. T \in SUBSET R
  OBVIOUS
<1>3. Count(im, sigdb, m) = Cardinality(T) /\ np_required_for_module(sigdb, m) = Cardinality(R)
  BY DEF Count, np_required_for_module
<1> HIDE DEF R
<1>4. IsFiniteSet(R)
  BY <1>1, FS_Subset
<1> DEFINE U == T
<1> HIDE DEF U
<1>5. U \in SUBSET R
  BY <1>2 DEF U
<1>6. /\ IsFiniteSet(U) /\ Cardinality(U) <= Cardinality(R)
      /\ Cardinality(R) = Cardinality(U) => R = U
  BY <1>4, <1>5, FS_Subset
<1>7. Cardinality(U) \in Nat /\ Cardinality(R) \in Nat
  BY <1>4, <1>6, FS_CardinalityType
<1>8. ~(Cardinality(U) < Cardinality(R))
  BY <1>3 DEF U
<1>9. R = U
  BY <1>6, <1>7, <1>8
<1> QED BY <1>9 DEF U, R

\* Nothing but the thread's place changes: the next module, or the end.
LEMMA NextFacts ==
    ASSUME HookInv, NextModule
    PROVE  /\ at' \in 1 .. Len(Modules) /\ pc' \in {"await", "end"}
           /\ pc' = "await" => at' # 1
           /\ at' # 1 => at # 1 \/ pc' = "await"
<1>1. at \in Nat /\ Len(Modules) \in Nat /\ at >= 1
  BY ModuleFacts DEF HookInv
<1> DEFINE rest == {i \in at + 1 .. Len(Modules) : np_module_has_signatures(sigdb, Modules[i])}
<1>2. CASE rest = {}
  BY <1>2 DEF NextModule, HookInv
<1>3. CASE rest # {}
  <2>1. pc' = "await" /\ at' \in rest
    BY <1>3 DEF NextModule
  <2>2. at' \in at + 1 .. Len(Modules)
    BY <2>1
  <2> QED BY <1>1, <2>1, <2>2
<1> QED BY <1>2, <1>3

\* Waiting for an image.
LEMMA AwaitHolds == ASSUME HookInv, Await PROVE HookInv'
<1>1. /\ UNCHANGED <<machine, image, sigdb, hooks, broken>> /\ pc = "await"
      /\ (Passed => Passed')
  BY DEF Await, Passed, First1
<1>2. CASE UsesSteamclient /\ Ends /\ UNCHANGED at
  BY <1>1, <1>2 DEF HookInv, UsesSteamclient, Ends
<1>3. CASE ~UsesSteamclient /\ NextModule
  <2>1. Passed
    BY <1>3 DEF HookInv, UsesSteamclient
  <2> QED BY <1>1, <1>3, <2>1, NextFacts DEF HookInv
<1>4. CASE /\ image[module] # Nil /\ UNCHANGED at
           /\ pc' = (IF UsesSteamclient THEN "load" ELSE "resolve")
  BY <1>1, <1>4 DEF HookInv, UsesSteamclient, module
<1>5. CASE UNCHANGED <<pc, at>>
  BY <1>1, <1>5 DEF HookInv, module
<1> QED BY <1>2, <1>3, <1>4, <1>5 DEF Await

\* The database is read before anything is hooked.
LEMMA LoadHolds == ASSUME HookInv, LoadProfile PROVE HookInv'
<1>1. /\ UNCHANGED <<machine, image, at, hooks, broken>> /\ pc = "load" /\ at = 1
      /\ hooks = {} /\ broken = {} /\ machine \in Machines
  BY DEF LoadProfile, HookInv
<1>2. CASE Ends /\ UNCHANGED sigdb
  BY <1>1, <1>2 DEF HookInv, Ends
<1>3. CASE /\ pick_latest_sigdb(machine.profiles) # Nil /\ pc' = "resolve"
           /\ sigdb' = np_load_profile(pick_latest_sigdb(machine.profiles))
  <2>1. IsFiniteSet(sigdb')
    BY <1>1, <1>3, ProfileFacts
  <2> QED BY <1>1, <1>3, <2>1 DEF HookInv, module
<1> QED BY <1>2, <1>3 DEF LoadProfile

\* The first module passes with all it requires.
LEMMA ResolveHolds == ASSUME HookInv, Resolve PROVE HookInv'
<1>1. /\ UNCHANGED <<machine, image, at, sigdb, hooks, broken>> /\ pc = "resolve"
      /\ IsFiniteSet(sigdb) /\ image[module] # Nil /\ (Passed => Passed')
  BY DEF Resolve, HookInv, Passed, First1
<1>2. CASE UsesSteamclient /\ Ends
  BY <1>1, <1>2 DEF HookInv, UsesSteamclient, Ends
<1>3. CASE /\ ~(UsesSteamclient /\ Count(image[module], sigdb, module) < np_required_for_module(sigdb, module))
           /\ pc' = "hook"
  <2>1. Passed
    <3>1. CASE at = 1
      <4>1. \A s \in Required(sigdb, module) : Site(image[module], s) # Nil
        BY <1>1, <1>3, <3>1, CountIsAll DEF UsesSteamclient
      <4> QED BY <1>1, <3>1, <4>1 DEF Passed, First1, module
    <3>2. CASE at # 1
      BY <3>2 DEF HookInv
    <3> QED BY <3>1, <3>2
  <2> QED BY <1>1, <1>3, <2>1 DEF HookInv, module
<1> QED BY <1>2, <1>3 DEF Resolve

\* Hooks are placed by one that passed.
LEMMA HookHolds == ASSUME HookInv, Apply \/ Installed PROVE HookInv'
<1>1. /\ UNCHANGED <<machine, image, sigdb>> /\ pc = "hook" /\ Passed /\ Passed'
  BY DEF Apply, Installed, HookInv, Passed, First1
<1>2. CASE Apply
  BY <1>1, <1>2 DEF Apply, HookInv, module
<1>3. CASE Installed
  BY <1>1, <1>3, NextFacts DEF Installed, HookInv
<1> QED BY <1>2, <1>3

\* An image that is loaded stays what it is.
LEMMA ImageHolds == ASSUME HookInv, NEW m \in DOMAIN image, ImageLoads(m) PROVE HookInv'
<1>1. /\ UNCHANGED <<machine, pc, at, sigdb, hooks, broken>>
      /\ image' = [x \in {Modules[i] : i \in 1 .. Len(Modules)} |-> image'[x]]
      /\ \A x \in {Modules[i] : i \in 1 .. Len(Modules)} : image[x] # Nil => image'[x] = image[x]
  BY DEF ImageLoads, HookInv
<1>2. First1 \in {Modules[i] : i \in 1 .. Len(Modules)} /\ module \in {Modules[i] : i \in 1 .. Len(Modules)}
  BY ModuleFacts DEF First1, module, HookInv
<1>3. module' = module
  BY <1>1 DEF module
<1>4. Passed => Passed'
  BY <1>1, <1>2 DEF Passed
<1>5. image[module] # Nil => (image[module] # Nil)'
  BY <1>1, <1>2, <1>3
<1> QED BY <1>1, <1>4, <1>5 DEF HookInv

\* Every step keeps the invariant.
LEMMA HookSteps == ASSUME HookInv, [InstallNext]_installVars PROVE HookInv'
<1>1. CASE UNCHANGED <<machine, image, pc, at, sigdb, hooks, broken>>
  BY <1>1 DEF HookInv, module, Passed, First1
<1>2. CASE Unload \/ Join
  BY <1>1, <1>2 DEF Unload, Join
<1>3. CASE UNCHANGED installVars
  BY <1>1, <1>3 DEF installVars
<1> QED BY <1>2, <1>3, AwaitHolds, LoadHolds, ResolveHolds, HookHolds, ImageHolds DEF InstallNext, Thread

\* Nothing is loaded and nothing is hooked in the beginning.
LEMMA HookInit == InstallInit => HookInv
<1> SUFFICES ASSUME InstallInit PROVE HookInv
  OBVIOUS
<1>1. image = [m \in {Modules[i] : i \in 1 .. Len(Modules)} |-> image[m]]
  BY ModuleFacts DEF InstallInit
<1>2. IsFiniteSet(sigdb)
  BY FS_EmptySet DEF InstallInit
<1> QED BY <1>1, <1>2, ModuleFacts DEF InstallInit, HookInv

\* Unless every signature the database requires of the client's main image
\* was found in it, no hook of any module is placed or half placed
\* (install_thread of loader.c).
THEOREM HooksAreAllOrNothing == InstallSpec => []AllRequiredOrNothing
<1>1. HookInv => AllRequiredOrNothing
  BY DEF HookInv, AllRequiredOrNothing, Passed, First1
<1> QED BY <1>1, HookInit, HookSteps, PTL DEF InstallSpec

-----------------------------------------------------------------------------
(* Where a signature is found.                                             *)

\* A choice of one is that one.
LEMMA Only == ASSUME NEW v PROVE (CHOOSE r \in {v} : TRUE) = v
OBVIOUS

\* Sole, of a finite set: its one element.
LEMMA SoleIs ==
    ASSUME NEW S, IsFiniteSet(S), Sole(S) # Nil
    PROVE  S = {Sole(S)}
<1>1. Cardinality(S) = 1
  BY DEF Sole
<1>2. S # {}
  BY <1>1, FS_EmptySet
<1>3. PICK x \in S : TRUE
  BY <1>2
<1>4. S = {x}
  BY <1>1, <1>3, FS_Singleton
<1>5. Sole(S) = CHOOSE y \in S : TRUE
  BY <1>1 DEF Sole
<1> QED BY <1>4, <1>5, Only

\* The text of an image.
LEMMA TextIs ==
    ASSUME NEW im, WellMade(im)
    PROVE  /\ IsFiniteSet(Text(im)) /\ Text(im) \subseteq Nat
           /\ im.lo \in Nat /\ im.hi \in Nat /\ im.code[1] \in Nat /\ im.code[2] \in Nat
           /\ Text(im) = {a \in im.lo .. im.hi - 1 : a % Word = 0}
<1>1. im.lo \in Nat /\ im.hi \in Nat /\ im.code[1] \in Nat /\ im.code[2] \in Nat
  BY DEF WellMade
<1>2. Text(im) = {a \in im.lo .. im.hi - 1 : a % Word = 0}
  BY DEF Text, Words
<1>3. IsFiniteSet(im.lo .. im.hi - 1)
  <2>1. PICK l \in Int : l = im.lo
    BY <1>1
  <2>2. PICK h \in Int : h = im.hi - 1
    BY <1>1
  <2>3. IsFiniteSet(l .. h)
    BY FS_Interval
  <2> QED BY <2>1, <2>2, <2>3
<1>4. Text(im) \in SUBSET (im.lo .. im.hi - 1)
  BY <1>2
<1>5. IsFiniteSet(Text(im))
  BY <1>3, <1>4, FS_Subset
<1>6. Text(im) \subseteq Nat
  BY <1>1, <1>4
<1> QED BY <1>1, <1>2, <1>5, <1>6

\* The last function that starts at or before an address, and the next.
LEMMA BoundsAre ==
    ASSUME NEW im, WellMade(im), NEW a \in Nat, np_function_bounds(im, a) # Nil
    PROVE  \E f, n \in im.starts :
              /\ np_function_bounds(im, a) = <<f, n>> /\ f <= a /\ a < n
              /\ \A s \in im.starts : s <= f \/ n <= s
<1> DEFINE before == {s \in im.starts : s <= a}
           after == {s \in im.starts : s > a}
<1>1. im.starts \subseteq Nat
  BY DEF WellMade
<1>2. before # {} /\ after # {} /\ np_function_bounds(im, a) = <<Highest(before), Lowest(after)>>
  BY DEF np_function_bounds
<1>3. \E x \in after : \A y \in after : x <= y
  <2>1. after \in SUBSET Nat
    BY <1>1
  <2> HIDE DEF after
  <2> QED BY <1>2, <2>1, Least
<1>4. \E x \in before : \A y \in before : y <= x
  <2> DEFINE T == {d \in 0 .. a : \E s \in before : d = a - s}
  <2>1. T \in SUBSET Nat
    OBVIOUS
  <2>2. T # {}
    <3>1. PICK s \in before : TRUE
      BY <1>2
    <3>2. a - s \in 0 .. a
      BY <1>1, <3>1
    <3> QED BY <3>1, <3>2
  <2>3. \E d \in T : \A e \in T : d <= e
    <3> HIDE DEF T
    <3> QED BY <2>1, <2>2, Least
  <2>4. PICK d \in T : \A e \in T : d <= e
    BY <2>3
  <2>5. PICK s \in before : d = a - s
    BY <2>4
  <2>6. ASSUME NEW y \in before PROVE y <= s
    <3>1. s \in Nat /\ y \in Nat /\ s <= a /\ y <= a
      BY <1>1
    <3>2. a - y \in T
      BY <3>1
    <3>3. d <= a - y
      BY <2>4, <3>2
    <3> QED BY <2>5, <3>1, <3>3
  <2> QED BY <2>6
<1> DEFINE f == Highest(before)
           n == Lowest(after)
<1>5. f \in before /\ \A y \in before : y <= f
  <2> HIDE DEF before
  <2> QED BY <1>4 DEF Highest
<1>6. n \in after /\ \A y \in after : n <= y
  <2> HIDE DEF after
  <2> QED BY <1>3 DEF Lowest
<1>7. \A s \in im.starts : s \in before \/ s \in after
  BY <1>1
<1> HIDE DEF f, n
<1> QED BY <1>2, <1>5, <1>6, <1>7 DEF f, n

(* Functions of the table that start in the text.                          *)
Listed(im) == {f \in im.starts : f \in Nat /\ im.lo <= f}

\* The function around an address starts where the table says.
LEMMA ContainingIs ==
    ASSUME NEW im, WellMade(im), NEW a \in Nat, containing_fn(im, a) # Nil
    PROVE  /\ containing_fn(im, a) \in Listed(im)
           /\ np_function_bounds(im, a) # Nil /\ InCode(im, np_function_bounds(im, a))
           /\ containing_fn(im, a) = np_function_bounds(im, a)[1]
<1>1. /\ np_function_bounds(im, a) # Nil /\ InCode(im, np_function_bounds(im, a))
      /\ containing_fn(im, a) = np_function_bounds(im, a)[1]
  BY DEF containing_fn
<1>2. PICK f \in im.starts, n \in im.starts : np_function_bounds(im, a) = <<f, n>>
  BY <1>1, BoundsAre
<1>3. f >= im.code[1]
  BY <1>1, <1>2 DEF InCode
<1>4. f \in Nat /\ im.lo <= f
  BY <1>3, TextIs DEF WellMade
<1> QED BY <1>1, <1>2, <1>4 DEF Listed

\* One function's addresses have its bounds.
LEMMA SameBounds ==
    ASSUME NEW im, WellMade(im), NEW f \in im.starts, NEW n \in im.starts,
           \A s \in im.starts : s <= f \/ n <= s, NEW a \in Nat, f <= a, a < n
    PROVE  np_function_bounds(im, a) = <<f, n>>
<1>1. im.starts \subseteq Nat
  BY DEF WellMade
<1> DEFINE before == {s \in im.starts : s <= a}
           after == {s \in im.starts : s > a}
<1>2. f \in before /\ \A s \in before : s <= f
  BY <1>1
<1>3. n \in after /\ \A s \in after : n <= s
  BY <1>1
<1>4. Highest(before) = f
  <2>1. before \subseteq Nat
    BY <1>1
  <2> DEFINE h == Highest(before)
  <2>2. h \in before /\ \A y \in before : y <= h
    <3> HIDE DEF before
    <3> QED BY <1>2 DEF Highest
  <2> HIDE DEF before, h
  <2>3. f \in Nat /\ h \in Nat /\ f <= h /\ h <= f
    BY <1>2, <2>1, <2>2
  <2>4. h = f
    BY <2>3
  <2> QED BY <2>4 DEF h
<1>5. Lowest(after) = n
  <2>1. after \subseteq Nat
    BY <1>1
  <2> DEFINE l == Lowest(after)
  <2>2. l \in after /\ \A y \in after : l <= y
    <3> HIDE DEF after
    <3> QED BY <1>3 DEF Lowest
  <2> HIDE DEF after, l
  <2>3. n \in Nat /\ l \in Nat /\ n <= l /\ l <= n
    BY <1>3, <2>1, <2>2
  <2>4. l = n
    BY <2>3
  <2> QED BY <2>4 DEF l
<1>6. before # {} /\ after # {}
  BY <1>2, <1>3
<1> QED BY <1>4, <1>5, <1>6 DEF np_function_bounds

\* The sole caller of a place is a function.
LEMMA CallerIs ==
    ASSUME NEW im, WellMade(im), NEW callee, NEW tail, sole_caller(im, callee, tail) # Nil
    PROVE  \E x \in Text(im) :
              /\ Callers(im, callee, tail) = {x}
              /\ containing_fn(im, x) = sole_caller(im, callee, tail)
<1> DEFINE from == {a \in Text(im) :
                    /\ (IF tail THEN b_target(im, a) ELSE bl_target(im, a)) = callee
                    /\ ~(tail /\ containing_fn(im, a) = callee)}
<1>1. from = Callers(im, callee, tail)
  BY DEF Callers, Branches
<1> DEFINE c == Callers(im, callee, tail)
           x == Sole(c)
           y == IF x = Nil THEN Nil ELSE containing_fn(im, x)
<1>2. sole_caller(im, callee, tail) =
         CHOOSE r \in {IF z = Nil THEN Nil ELSE containing_fn(im, z) : z \in {Sole(from)}} : TRUE
  BY DEF sole_caller, Then
<1> HIDE DEF from
<1>3. {IF z = Nil THEN Nil ELSE containing_fn(im, z) : z \in {Sole(from)}} = {y}
  BY <1>1
<1>4. sole_caller(im, callee, tail) = y
  <2> HIDE DEF y
  <2> QED BY <1>2, <1>3, Only
<1>5. x # Nil /\ containing_fn(im, x) = sole_caller(im, callee, tail)
  BY <1>4
<1>6. IsFiniteSet(c)
  <2>1. c \in SUBSET Text(im)
    BY DEF Callers, Branches
  <2> HIDE DEF c
  <2> QED BY <2>1, TextIs, FS_Subset
<1>7. c = {x}
  <2> HIDE DEF c
  <2> QED BY <1>5, <1>6, SoleIs
<1>8. x \in Text(im)
  <2>1. x \in c /\ c \subseteq Text(im)
    <3> HIDE DEF x
    <3> QED BY <1>7 DEF Callers, Branches
  <2> QED BY <2>1
<1> QED BY <1>5, <1>7, <1>8

(* One hop more, and the functions hop_to_caller goes through.             *)
Hop(im, f, tail) == IF f = Nil THEN Nil ELSE sole_caller(im, f, tail)
Hops(im, start, tail, n, u) ==
    /\ DOMAIN u = 0 .. n /\ u = [i \in DOMAIN u |-> u[i]]
    /\ u[0] = start /\ \A i \in 1 .. n : u[i] = Hop(im, u[i - 1], tail)

\* Hops can be made one after the other.
LEMMA HopsExist ==
    ASSUME NEW im, NEW start, NEW tail, NEW n \in Nat
    PROVE  \E u : Hops(im, start, tail, n, u)
<1> DEFINE T == {m \in 0 .. n : ~\E u : Hops(im, start, tail, m, u)}
<1>1. CASE T = {}
  BY <1>1
<1>2. CASE T # {}
  <2>1. \E m \in T : \A y \in T : m <= y
    <3>1. T \in SUBSET Nat
      OBVIOUS
    <3> HIDE DEF T
    <3> QED BY <1>2, <3>1, Least
  <2>2. PICK m \in T : \A y \in T : m <= y
    BY <2>1
  <2>3. m # 0
    <3> DEFINE z == [i \in 0 .. 0 |-> start]
    <3>1. DOMAIN z = 0 .. 0 /\ z[0] = start /\ z = [i \in DOMAIN z |-> z[i]] /\ 1 .. 0 = {}
      OBVIOUS
    <3> HIDE DEF z
    <3>2. Hops(im, start, tail, 0, z)
      BY <3>1 DEF Hops
    <3> QED BY <2>2, <3>2
  <2>4. m - 1 \in 0 .. n /\ m - 1 \notin T
    BY <2>2, <2>3
  <2>5. PICK u : Hops(im, start, tail, m - 1, u)
    BY <2>4
  <2> DEFINE v == [i \in 0 .. m |-> IF i = m THEN Hop(im, u[m - 1], tail) ELSE u[i]]
  <2>6. m \in 1 .. n
    BY <2>2, <2>3
  <2>7. Hops(im, start, tail, m, v)
    <3>1. DOMAIN v = 0 .. m /\ v = [i \in DOMAIN v |-> v[i]] /\ v[0] = start
      BY <2>5, <2>6 DEF Hops
    <3>2. \A i \in 1 .. m : v[i] = Hop(im, v[i - 1], tail)
      BY <2>5, <2>6 DEF Hops
    <3> HIDE DEF v
    <3> QED BY <3>1, <3>2 DEF Hops
  <2> QED BY <2>2, <2>7
<1> QED BY <1>1, <1>2

\* hop_to_caller: the last of the hops.
LEMMA HopIs ==
    ASSUME NEW im, NEW start, NEW tail, NEW n \in Nat, n <= MAX_CALLER_HOPS
    PROVE  \E u : Hops(im, start, tail, n, u) /\ hop_to_caller(im, start, n, tail) = u[n]
<1> DEFINE f == CHOOSE k : k = [i \in 0 .. n |->
                   IF i = 0 THEN start ELSE Then(k[i - 1], LAMBDA g : sole_caller(im, g, tail))]
<1>1. hop_to_caller(im, start, n, tail) = f[n]
  <2>1. ~(n > MAX_CALLER_HOPS)
    BY DEF MAX_CALLER_HOPS
  <2> QED BY <2>1, Zenon DEF hop_to_caller
<1>2. \A g : Then(g, LAMBDA h : sole_caller(im, h, tail)) = Hop(im, g, tail)
  <2> SUFFICES ASSUME NEW g PROVE Then(g, LAMBDA h : sole_caller(im, h, tail)) = Hop(im, g, tail)
    OBVIOUS
  <2>1. {IF x = Nil THEN Nil ELSE sole_caller(im, x, tail) : x \in {g}} = {Hop(im, g, tail)}
    BY DEF Hop
  <2> QED BY <2>1, Only DEF Then
<1>3. PICK u : Hops(im, start, tail, n, u)
  BY HopsExist
<1>4. u = [i \in 0 .. n |-> IF i = 0 THEN start ELSE Then(u[i - 1], LAMBDA g : sole_caller(im, g, tail))]
  <2> DEFINE F(i) == IF i = 0 THEN start ELSE Then(u[i - 1], LAMBDA g : sole_caller(im, g, tail))
  <2>1. ASSUME NEW i \in 0 .. n PROVE u[i] = F(i)
    <3>1. CASE i = 0
      BY <1>3, <3>1 DEF Hops
    <3>2. CASE i # 0
      <4>1. i \in 1 .. n
        BY <3>2
      <4>2. u[i] = Hop(im, u[i - 1], tail)
        BY <1>3, <4>1 DEF Hops
      <4>3. F(i) = Then(u[i - 1], LAMBDA g : sole_caller(im, g, tail))
        BY <3>2
      <4> QED BY <1>2, <4>2, <4>3
    <3> QED BY <3>1, <3>2
  <2>2. u = [i \in 0 .. n |-> u[i]]
    BY <1>3 DEF Hops
  <2> HIDE DEF F
  <2>3. u = [i \in 0 .. n |-> F(i)]
    BY <2>1, <2>2
  <2> QED BY <2>3 DEF F
<1>5. f = [i \in 0 .. n |-> IF i = 0 THEN start ELSE Then(f[i - 1], LAMBDA g : sole_caller(im, g, tail))]
  BY <1>4
<1> HIDE DEF f
<1>6. Hops(im, start, tail, n, f)
  <2>1. f = [i \in DOMAIN f |-> f[i]] /\ DOMAIN f = 0 .. n
    BY <1>5
  <2>2. f[0] = start
    BY <1>5
  <2>3. ASSUME NEW i \in 1 .. n PROVE f[i] = Hop(im, f[i - 1], tail)
    <3>1. i \in 0 .. n /\ i # 0
      OBVIOUS
    <3>2. f[i] = Then(f[i - 1], LAMBDA g : sole_caller(im, g, tail))
      BY <1>5, <3>1
    <3> QED BY <1>2, <3>2
  <2> QED BY <2>1, <2>2, <2>3 DEF Hops
<1> QED BY <1>1, <1>6

\* The n-th of some addresses is one of them.
LEMMA NthIs ==
    ASSUME NEW S \in SUBSET Nat, NEW n, Nth(S, n) # Nil
    PROVE  Nth(S, n) \in S
<1> DEFINE here == {x \in S : Cardinality({y \in S : y <= x}) = n}
<1>1. here # {} /\ Nth(S, n) = Lowest(here)
  BY DEF Nth
<1>2. here \in SUBSET Nat /\ here \subseteq S
  OBVIOUS
<1> HIDE DEF here
<1>3. \E x \in here : \A y \in here : x <= y
  BY <1>1, <1>2, Least
<1>4. Lowest(here) \in here
  BY <1>3 DEF Lowest
<1> QED BY <1>1, <1>2, <1>4

\* hop_to_caller yields a function of the table, after one hop or more.
LEMMA HopFound ==
    ASSUME NEW im, WellMade(im), NEW start, NEW tail, NEW n \in Nat \ {0}, hop_to_caller(im, start, n, tail) # Nil
    PROVE  /\ hop_to_caller(im, start, n, tail) \in Listed(im)
           /\ n = 1 => start # Nil /\ hop_to_caller(im, start, n, tail) = sole_caller(im, start, tail)
<1>1. n <= MAX_CALLER_HOPS
  BY DEF hop_to_caller, MAX_CALLER_HOPS
<1>2. PICK u : Hops(im, start, tail, n, u) /\ hop_to_caller(im, start, n, tail) = u[n]
  BY <1>1, HopIs
<1>3. PICK f : f = u[n - 1]
  OBVIOUS
<1>4. u[n] = Hop(im, f, tail)
  BY <1>2, <1>3 DEF Hops
<1>5. f # Nil /\ hop_to_caller(im, start, n, tail) = sole_caller(im, f, tail)
  BY <1>2, <1>4 DEF Hop
<1>6. PICK x \in Text(im) : containing_fn(im, x) = sole_caller(im, f, tail)
  BY <1>5, CallerIs
<1>7. x \in Nat
  BY TextIs
<1>8. containing_fn(im, x) \in Listed(im)
  BY <1>5, <1>6, <1>7, ContainingIs
<1>9. n = 1 => f = start
  BY <1>2, <1>3 DEF Hops
<1> QED BY <1>5, <1>6, <1>8, <1>9

(* Through any step of an anchor.                                          *)
\* xref_to_va yields an address of the text.
LEMMA XrefIs ==
    ASSUME NEW im, WellMade(im), NEW t, NEW n, NEW ind, xref_to_va(im, t, n, ind) # Nil
    PROVE  xref_to_va(im, t, n, ind) \in Text(im)
<1> DEFINE refs == {a \in Text(im) : Refers(im, a, t, ind)}
<1>1. refs \in SUBSET Nat /\ refs \subseteq Text(im) /\ IsFiniteSet(refs)
  <2>1. refs \in SUBSET Text(im) /\ refs \subseteq Text(im)
    OBVIOUS
  <2> HIDE DEF refs
  <2> QED BY <2>1, TextIs, FS_Subset
<1>2. xref_to_va(im, t, n, ind) = IF n > 0 THEN Nth(refs, n) ELSE Sole(refs)
  BY DEF xref_to_va
<1> HIDE DEF refs
<1> QED BY <1>1, <1>2, NthIs, SoleIs

\* A string of an anchor is used in the text.
LEMMA RefIs ==
    ASSUME NEW im, WellMade(im), NEW a, StringRef(im, a) # Nil
    PROVE  /\ StringRef(im, a) \in Text(im)
           /\ ~a.indirect => /\ cstring_va(im, a.str) # Nil
                             /\ StringRef(im, a) = xref_to_va(im, cstring_va(im, a.str), a.nth_xref, a.indirect)
<1> DEFINE Holder(str) == IF a.indirect THEN slot_holding(im, str, a.str) ELSE str
           c == cstring_va(im, a.str)
           h == IF c = Nil THEN Nil ELSE Holder(c)
           r == IF h = Nil THEN Nil ELSE xref_to_va(im, h, a.nth_xref, a.indirect)
<1>1. StringRef(im, a) = Then(Then(c, Holder), LAMBDA x : xref_to_va(im, x, a.nth_xref, a.indirect))
  BY DEF StringRef
<1>2. Then(c, Holder) = h
  <2>1. {IF x = Nil THEN Nil ELSE Holder(x) : x \in {c}} = {h}
    OBVIOUS
  <2> HIDE DEF h
  <2> QED BY <2>1, Only DEF Then
<1>3. Then(h, LAMBDA x : xref_to_va(im, x, a.nth_xref, a.indirect)) = r
  <2>1. {IF x = Nil THEN Nil ELSE xref_to_va(im, x, a.nth_xref, a.indirect) : x \in {h}} = {r}
    <3> HIDE DEF h
    <3> QED OBVIOUS
  <2> HIDE DEF h, r
  <2> QED BY <2>1, Only DEF Then
<1>4. StringRef(im, a) = r
  <2> HIDE DEF h, r, c, Holder
  <2> QED BY <1>1, <1>2, <1>3
<1>5. h # Nil /\ r = xref_to_va(im, h, a.nth_xref, a.indirect)
  <2> HIDE DEF h
  <2> QED BY <1>4
<1>6. r \in Text(im)
  <2> HIDE DEF h, r
  <2> QED BY <1>4, <1>5, XrefIs
<1> QED BY <1>4, <1>5, <1>6

\* The function that uses a string is one of the table.
LEMMA StringFunctionIs ==
    ASSUME NEW im, WellMade(im), NEW a, a.hops \in Nat, NEW ref \in Text(im), StringFunction(im, a, ref) # Nil
    PROVE  StringFunction(im, a, ref) \in Listed(im)
<1>1. ref \in Nat
  BY TextIs
<1> DEFINE direct == hop_to_caller(im, ref, a.hops, a.tail)
           c == containing_fn(im, ref)
           h == IF c = Nil THEN Nil ELSE hop_to_caller(im, c, a.hops, a.tail)
<1>2. CASE a.hops = 0
  <2>1. StringFunction(im, a, ref) = c
    BY <1>2 DEF StringFunction
  <2> QED BY <1>1, <2>1, ContainingIs
<1>3. CASE a.hops # 0 /\ direct # Nil
  <2>1. StringFunction(im, a, ref) = direct
    BY <1>3 DEF StringFunction
  <2> QED BY <1>3, <2>1, HopFound
<1>4. CASE a.hops # 0 /\ direct = Nil
  <2>1. StringFunction(im, a, ref) = Then(c, LAMBDA f : hop_to_caller(im, f, a.hops, a.tail))
    BY <1>4 DEF StringFunction
  <2>2. {IF x = Nil THEN Nil ELSE hop_to_caller(im, x, a.hops, a.tail) : x \in {c}} = {h}
    OBVIOUS
  <2>3. StringFunction(im, a, ref) = h
    <3> HIDE DEF c, h
    <3> QED BY <2>1, <2>2, Only DEF Then
  <2>4. h = hop_to_caller(im, c, a.hops, a.tail)
    <3> HIDE DEF c
    <3> QED BY <2>3
  <2> HIDE DEF c, h
  <2> QED BY <1>4, <2>3, <2>4, HopFound
<1> QED BY <1>2, <1>3, <1>4

\* A function's body ends inside the text.
LEMMA BodyEnds ==
    ASSUME NEW im, WellMade(im), NEW fn \in Nat
    PROVE  body_end(im, fn) \in Int /\ body_end(im, fn) <= im.hi
<1> DEFINE cap == IF fn + NP_FN_SPAN_MAX > im.hi THEN im.hi ELSE fn + NP_FN_SPAN_MAX
           b == np_function_bounds(im, fn)
           next == {a \in Words(fn + Word, cap) : is_entry_insn(im, a)}
<1>1. im.hi \in Nat /\ cap \in Nat /\ cap <= im.hi
  BY TextIs DEF NP_FN_SPAN_MAX
<1>2. CASE b # Nil /\ b[1] = fn /\ b[2] <= im.hi
  <2>1. b[2] \in Nat
    <3>1. PICK f \in im.starts, n \in im.starts : b = <<f, n>>
      BY <1>2, BoundsAre
    <3> HIDE DEF b
    <3> QED BY <3>1 DEF WellMade
  <2>2. body_end(im, fn) = IF b[2] < cap THEN b[2] ELSE cap
    BY <1>2 DEF body_end
  <2> HIDE DEF b, cap
  <2> QED BY <1>1, <1>2, <2>1, <2>2
<1>3. CASE ~(b # Nil /\ b[1] = fn /\ b[2] <= im.hi) /\ next # {}
  <2>1. body_end(im, fn) = Lowest(next)
    BY <1>3 DEF body_end
  <2>2. next \in SUBSET Nat /\ \A x \in next : x <= cap
    <3> HIDE DEF cap
    <3> QED BY <1>1 DEF Words, Word
  <2> HIDE DEF next, cap
  <2>3. \E x \in next : \A y \in next : x <= y
    BY <1>3, <2>2, Least
  <2>4. Lowest(next) \in next
    BY <2>3 DEF Lowest
  <2>5. Lowest(next) \in Nat /\ Lowest(next) <= cap
    BY <2>2, <2>4
  <2> QED BY <1>1, <2>1, <2>5
<1>4. CASE ~(b # Nil /\ b[1] = fn /\ b[2] <= im.hi) /\ next = {}
  <2>1. body_end(im, fn) = cap
    BY <1>4 DEF body_end
  <2> HIDE DEF cap
  <2> QED BY <1>1, <2>1
<1> QED BY <1>2, <1>3, <1>4

\* Calls of a function of the text are calls of the text.
LEMMA CallsInText ==
    ASSUME NEW im, WellMade(im), NEW fn \in Nat, im.lo <= fn
    PROVE  Calls(im, fn, body_end(im, fn)) \subseteq Text(im)
<1>1. PICK e \in Int : e = body_end(im, fn) /\ e <= im.hi
  BY BodyEnds
<1>2. im.lo \in Nat /\ im.hi \in Nat /\ Text(im) = {a \in im.lo .. im.hi - 1 : a % Word = 0}
  BY TextIs
<1>3. \A a \in fn .. e - 1 : a \in im.lo .. im.hi - 1
  BY <1>1, <1>2
<1>4. Calls(im, fn, e) \subseteq {a \in fn .. e - 1 : a % Word = 0}
  BY DEF Calls, Words
<1> QED BY <1>1, <1>2, <1>3, <1>4

\* What a call of a function leads to is called, or an island leads to it.
LEMMA TargetIs ==
    ASSUME NEW im, WellMade(im), NEW fn \in Nat, im.lo <= fn, NEW nth, nth_call_target(im, fn, nth) # Nil
    PROVE  /\ nth_call_target(im, fn, nth) \in Called(im) \cup Islands(im)
           /\ nth_call_target(im, fn, nth) \in Nat /\ im.lo <= nth_call_target(im, fn, nth)
<1> DEFINE S == Calls(im, fn, body_end(im, fn))
           Through(t) == IF ~InText(im, t) THEN Nil
                         ELSE IF b_target(im, t) # Nil /\ InText(im, b_target(im, t)) THEN b_target(im, t) ELSE t
           p == Nth(S, nth)
           r == IF p = Nil THEN Nil ELSE Through(bl_target(im, p))
<1>1. nth_call_target(im, fn, nth) = Then(p, LAMBDA a : Through(bl_target(im, a)))
  BY DEF nth_call_target
<1>2. nth_call_target(im, fn, nth) = r
  <2>1. {IF x = Nil THEN Nil ELSE Through(bl_target(im, x)) : x \in {p}} = {r}
    <3> HIDE DEF Through, p
    <3> QED OBVIOUS
  <2> HIDE DEF r, p, Through
  <2> QED BY <1>1, <2>1, Only DEF Then
<1>3. p # Nil /\ r = Through(bl_target(im, p))
  <2> HIDE DEF p, Through
  <2> QED BY <1>2
<1>4. S \in SUBSET Text(im)
  BY CallsInText
<1>5. p \in S
  <2>1. S \in SUBSET Nat
    <3> HIDE DEF S
    <3> QED BY <1>4, TextIs
  <2> HIDE DEF S
  <2> QED BY <1>3, <2>1, NthIs
<1>6. p \in Text(im) /\ bl_target(im, p) # Nil
  <2> HIDE DEF p
  <2>1. bl_target(im, p) # Nil
    BY <1>5 DEF Calls
  <2> HIDE DEF S
  <2> QED BY <1>4, <1>5, <2>1
<1> HIDE DEF p, S
<1>7. PICK t : t = bl_target(im, p)
  OBVIOUS
<1>8. InText(im, t) /\ r = IF b_target(im, t) # Nil /\ InText(im, b_target(im, t)) THEN b_target(im, t) ELSE t
  BY <1>2, <1>3, <1>7
<1>9. t \in Called(im)
  BY <1>6, <1>7, <1>8 DEF Called
<1>10. t \in Int /\ t % Word = 0
  BY <1>6, <1>7 DEF WellMade, bl_target
<1>11. \A x : InText(im, x) /\ x \in Int => x \in Nat /\ im.lo <= x
  BY TextIs DEF InText
<1> HIDE DEF r, Through
<1>12. CASE b_target(im, t) # Nil /\ InText(im, b_target(im, t))
  <2>1. PICK v : v = b_target(im, t)
    OBVIOUS
  <2>2. v \in Islands(im)
    BY <1>9, <1>12, <2>1 DEF Islands
  <2>3. r = v
    BY <1>8, <1>12, <2>1
  <2>4. t \in Text(im)
    <3>1. im.lo <= t /\ t <= im.hi - Word /\ im.lo \in Nat /\ im.hi \in Nat
          /\ Text(im) = {a \in im.lo .. im.hi - 1 : a % Word = 0}
      BY <1>8, TextIs DEF InText
    <3>2. t \in im.lo .. im.hi - 1
      BY <1>10, <3>1 DEF Word
    <3> QED BY <1>10, <3>1, <3>2
  <2>5. v \in Int
    BY <1>12, <2>1, <2>4 DEF WellMade, b_target
  <2>6. v \in Nat /\ im.lo <= v
    BY <1>11, <1>12, <2>1, <2>5
  <2> QED BY <1>2, <2>2, <2>3, <2>6
<1>13. CASE ~(b_target(im, t) # Nil /\ InText(im, b_target(im, t)))
  BY <1>2, <1>8, <1>9, <1>10, <1>11, <1>13
<1> QED BY <1>12, <1>13

(* One call more, and the functions walk_call_path goes through.           *)
Call1(im, f, nth) == IF f = Nil THEN Nil ELSE nth_call_target(im, f, nth)
Walks(im, start, path, n, u) ==
    /\ DOMAIN u = 0 .. n /\ u = [i \in DOMAIN u |-> u[i]]
    /\ u[0] = start /\ \A i \in 1 .. n : u[i] = Call1(im, u[i - 1], path[i])

\* Calls can be followed one after the other.
LEMMA WalksExist ==
    ASSUME NEW im, NEW start, NEW path, NEW n \in Nat
    PROVE  \E u : Walks(im, start, path, n, u)
<1> DEFINE T == {m \in 0 .. n : ~\E u : Walks(im, start, path, m, u)}
<1>1. CASE T = {}
  BY <1>1
<1>2. CASE T # {}
  <2>1. \E m \in T : \A y \in T : m <= y
    <3>1. T \in SUBSET Nat
      OBVIOUS
    <3> HIDE DEF T
    <3> QED BY <1>2, <3>1, Least
  <2>2. PICK m \in T : \A y \in T : m <= y
    BY <2>1
  <2>3. m # 0
    <3> DEFINE z == [i \in 0 .. 0 |-> start]
    <3>1. DOMAIN z = 0 .. 0 /\ z[0] = start /\ z = [i \in DOMAIN z |-> z[i]] /\ 1 .. 0 = {}
      OBVIOUS
    <3> HIDE DEF z
    <3>2. Walks(im, start, path, 0, z)
      BY <3>1 DEF Walks
    <3> QED BY <2>2, <3>2
  <2>4. m - 1 \in 0 .. n /\ m - 1 \notin T
    BY <2>2, <2>3
  <2>5. PICK u : Walks(im, start, path, m - 1, u)
    BY <2>4
  <2> DEFINE v == [i \in 0 .. m |-> IF i = m THEN Call1(im, u[m - 1], path[m]) ELSE u[i]]
  <2>6. m \in 1 .. n
    BY <2>2, <2>3
  <2>7. Walks(im, start, path, m, v)
    <3>1. DOMAIN v = 0 .. m /\ v = [i \in DOMAIN v |-> v[i]] /\ v[0] = start
      BY <2>5, <2>6 DEF Walks
    <3>2. \A i \in 1 .. m : v[i] = Call1(im, v[i - 1], path[i])
      BY <2>5, <2>6 DEF Walks
    <3> HIDE DEF v
    <3> QED BY <3>1, <3>2 DEF Walks
  <2> QED BY <2>2, <2>7
<1> QED BY <1>1, <1>2

\* walk_call_path: the last of the calls, if it begins like a function.
LEMMA WalkIs ==
    ASSUME NEW im, NEW start, NEW path \in Seq(Int), walk_call_path(im, start, path) # Nil
    PROVE  \E u : /\ Len(path) \in Nat \ {0} /\ Walks(im, start, path, Len(path), u)
                  /\ u[Len(path)] # Nil /\ np_looks_like_prologue(im, u[Len(path)])
                  /\ walk_call_path(im, start, path) = u[Len(path)]
<1> DEFINE n == Len(path)
           f == CHOOSE k : k = [i \in 0 .. n |->
                   IF i = 0 THEN start ELSE Then(k[i - 1], LAMBDA g : nth_call_target(im, g, path[i]))]
           Prologue(fn) == IF np_looks_like_prologue(im, fn) THEN fn ELSE Nil
<1>1. n \in 1 .. NP_CALL_PATH_MAX /\ n \in Nat \ {0}
  BY DEF walk_call_path, NP_CALL_PATH_MAX
<1>2. walk_call_path(im, start, path) = Then(f[n], Prologue)
  BY <1>1, Zenon DEF walk_call_path
<1>3. ASSUME NEW g, NEW nth PROVE Then(g, LAMBDA h : nth_call_target(im, h, nth)) = Call1(im, g, nth)
  <2>1. {IF x = Nil THEN Nil ELSE nth_call_target(im, x, nth) : x \in {g}} = {Call1(im, g, nth)}
    BY DEF Call1
  <2> QED BY <2>1, Only DEF Then
<1>4. PICK u : Walks(im, start, path, n, u)
  BY <1>1, WalksExist
<1>5. u = [i \in 0 .. n |-> IF i = 0 THEN start ELSE Then(u[i - 1], LAMBDA g : nth_call_target(im, g, path[i]))]
  <2> DEFINE F(i) == IF i = 0 THEN start ELSE Then(u[i - 1], LAMBDA g : nth_call_target(im, g, path[i]))
  <2>1. ASSUME NEW i \in 0 .. n PROVE u[i] = F(i)
    <3>1. CASE i = 0
      BY <1>4, <3>1 DEF Walks
    <3>2. CASE i # 0
      <4>1. i \in 1 .. n
        BY <1>1, <3>2
      <4>2. u[i] = Call1(im, u[i - 1], path[i])
        BY <1>4, <4>1 DEF Walks
      <4>3. F(i) = Then(u[i - 1], LAMBDA g : nth_call_target(im, g, path[i]))
        BY <3>2
      <4> QED BY <1>3, <4>2, <4>3
    <3> QED BY <3>1, <3>2
  <2>2. u = [i \in 0 .. n |-> u[i]]
    BY <1>4 DEF Walks
  <2> HIDE DEF F, n
  <2>3. u = [i \in 0 .. n |-> F(i)]
    BY <2>1, <2>2
  <2> QED BY <2>3 DEF F
<1>6. f = [i \in 0 .. n |-> IF i = 0 THEN start ELSE Then(f[i - 1], LAMBDA g : nth_call_target(im, g, path[i]))]
  BY <1>5
<1> HIDE DEF f
<1>7. Walks(im, start, path, n, f)
  <2> HIDE DEF n
  <2>1. f = [i \in DOMAIN f |-> f[i]] /\ DOMAIN f = 0 .. n
    BY <1>6
  <2>2. f[0] = start
    BY <1>1, <1>6
  <2>3. ASSUME NEW i \in 1 .. n PROVE f[i] = Call1(im, f[i - 1], path[i])
    <3>1. i \in 0 .. n /\ i # 0
      BY <1>1
    <3>2. f[i] = Then(f[i - 1], LAMBDA g : nth_call_target(im, g, path[i]))
      BY <1>6, <3>1
    <3> QED BY <1>3, <3>2
  <2> QED BY <2>1, <2>2, <2>3 DEF Walks
<1>8. PICK t : t = f[n]
  OBVIOUS
<1> DEFINE r == IF t = Nil THEN Nil ELSE Prologue(t)
<1>9. walk_call_path(im, start, path) = r
  <2>1. {IF x = Nil THEN Nil ELSE Prologue(x) : x \in {t}} = {r}
    OBVIOUS
  <2> HIDE DEF r, Prologue
  <2> QED BY <1>2, <1>8, <2>1, Only DEF Then
<1> QED BY <1>1, <1>7, <1>8, <1>9

\* A call path that is followed to its end leads to a function.
LEMMA WalkFound ==
    ASSUME NEW im, WellMade(im), NEW start \in Listed(im), NEW path \in Seq(Int),
           walk_call_path(im, start, path) # Nil, walk_call_path(im, start, path) % Word = 0
    PROVE  walk_call_path(im, start, path) \in im.entries
<1>1. PICK n \in Nat \ {0} : n = Len(path)
  BY WalkIs
<1>2. PICK u : /\ Walks(im, start, path, n, u) /\ u[n] # Nil /\ np_looks_like_prologue(im, u[n])
               /\ walk_call_path(im, start, path) = u[n]
  BY <1>1, WalkIs
<1>3. PICK f : f = u[n - 1]
  OBVIOUS
<1>4. u[n] = Call1(im, f, path[n])
  BY <1>2, <1>3 DEF Walks
<1>5. f # Nil /\ u[n] = nth_call_target(im, f, path[n])
  BY <1>2, <1>4 DEF Call1
<1>6. f \in Nat /\ im.lo <= f
  <2> DEFINE Good(x) == x # Nil => x \in Nat /\ im.lo <= x
             T == {i \in 0 .. n : ~Good(u[i])}
  <2>1. CASE T = {}
    <3>1. Good(u[n - 1])
      BY <2>1
    <3> QED BY <1>3, <1>5, <3>1
  <2>2. CASE T # {}
    <3>1. \E m \in T : \A y \in T : m <= y
      <4>1. T \in SUBSET Nat
        OBVIOUS
      <4> HIDE DEF T
      <4> QED BY <2>2, <4>1, Least
    <3>2. PICK m \in T : \A y \in T : m <= y
      BY <3>1
    <3>3. m # 0
      BY <1>2, <3>2 DEF Walks, Listed
    <3>4. m \in 1 .. n /\ m - 1 \in 0 .. n /\ m - 1 \notin T
      BY <3>2, <3>3
    <3>5. PICK g : g = u[m - 1]
      OBVIOUS
    <3>6. PICK h : h = u[m]
      OBVIOUS
    <3>7. h = Call1(im, g, path[m])
      BY <1>2, <3>4, <3>5, <3>6 DEF Walks
    <3>8. Good(g) /\ ~Good(h)
      BY <3>2, <3>4, <3>5, <3>6
    <3>9. g # Nil /\ h # Nil /\ h = nth_call_target(im, g, path[m])
      BY <3>7, <3>8 DEF Call1
    <3>10. g \in Nat /\ im.lo <= g
      BY <3>8, <3>9
    <3> QED BY <3>8, <3>9, <3>10, TargetIs
  <2> QED BY <2>1, <2>2
<1>7. u[n] \in Called(im) \cup Islands(im)
  BY <1>2, <1>5, <1>6, TargetIs
<1> QED BY <1>2, <1>7 DEF WellMade

\* Sole, of any set: an element of it.
LEMMA SoleIn == ASSUME NEW S, Sole(S) # Nil PROVE Sole(S) \in S
<1>1. Cardinality(S) = 1 /\ Sole(S) = CHOOSE y \in S : TRUE
  BY DEF Sole
<1>2. S # {}
  BY <1>1, FS_EmptySet
<1> QED BY <1>1, <1>2

\* A slot of data that leads to an instruction like the first of a function
\* leads to a function.
LEMMA SlotIs ==
    ASSUME NEW im, WellMade(im), NEW slot, SlotFunction(im, slot) # Nil, SlotFunction(im, slot) % Word = 0
    PROVE  SlotFunction(im, slot) \in im.entries
<1> DEFINE k == CHOOSE k \in DOMAIN im.slots : slot \in DOMAIN im.slots[k]
           fn == im.slots[k][slot]
<1>1. /\ \E j \in DOMAIN im.slots : slot \in DOMAIN im.slots[j]
      /\ InText(im, fn) /\ np_looks_like_prologue(im, fn) /\ SlotFunction(im, slot) = fn
  BY DEF SlotFunction
<1>2. k \in DOMAIN im.slots /\ slot \in DOMAIN im.slots[k]
  BY <1>1
<1> HIDE DEF k
<1>3. fn \in Pointed(im)
  BY <1>1, <1>2 DEF Pointed
<1> QED BY <1>1, <1>3 DEF WellMade

(* What sole_fn_by_calls goes through: the calls of the first name, the    *)
(* functions that make them, and those that match.                         *)
Seed(im, a) == stub_for_name(im, a.calls[1])
From(im, a) == {pc1 \in Words(im.code[1], im.code[2]) : bl_target(im, pc1) = Seed(im, a)}
Match(im, a, pc1) ==
    body_matches_calls(im, np_function_bounds(im, pc1)[1], np_function_bounds(im, pc1)[2],
                       a.calls, a.exact, a.no_data_refs)
Hits(im, a) == {np_function_bounds(im, pc1)[1] : pc1 \in {x \in From(im, a) : Match(im, a, x)}}

\* sole_fn_by_calls: the only one, and no caller is without bounds.
LEMMA ByCallsIs ==
    ASSUME NEW im, NEW a, sole_fn_by_calls(im, a) # Nil
    PROVE  /\ sole_fn_by_calls(im, a) = Sole(Hits(im, a)) /\ a.calls # <<>> /\ Seed(im, a) # Nil
           /\ \A x \in From(im, a) : np_function_bounds(im, x) # Nil /\ InCode(im, np_function_bounds(im, x))
BY DEF sole_fn_by_calls, Seed, From, Match, Hits

\* Addresses of the code are numbers.
LEMMA CodeIs ==
    ASSUME NEW im, WellMade(im)
    PROVE  Words(im.code[1], im.code[2]) \subseteq Text(im) /\ Words(im.code[1], im.code[2]) \subseteq Nat
<1>1. PICK c \in Nat, d \in Nat : c = im.code[1] /\ d = im.code[2] /\ im.lo <= c /\ d <= im.hi
  BY DEF WellMade
<1>2. im.lo \in Nat /\ im.hi \in Nat
  BY DEF WellMade
<1>3. Words(c, d) \subseteq Text(im) /\ Words(c, d) \subseteq Nat
  BY <1>1, <1>2 DEF Text, Words
<1> QED BY <1>1, <1>3

\* A function found by its calls is one of the table.
LEMMA ByCallsListed ==
    ASSUME NEW im, WellMade(im), NEW a, sole_fn_by_calls(im, a) # Nil
    PROVE  sole_fn_by_calls(im, a) \in Listed(im)
<1>1. sole_fn_by_calls(im, a) \in Hits(im, a)
  BY ByCallsIs, SoleIn
<1>2. PICK x \in From(im, a) : sole_fn_by_calls(im, a) = np_function_bounds(im, x)[1]
  BY <1>1 DEF Hits
<1>3. x \in Nat /\ np_function_bounds(im, x) # Nil /\ InCode(im, np_function_bounds(im, x))
  BY <1>2, ByCallsIs, CodeIs DEF From
<1>4. containing_fn(im, x) = np_function_bounds(im, x)[1]
  BY <1>3 DEF containing_fn
<1>5. containing_fn(im, x) # Nil
  <2>1. PICK f \in im.starts, n \in im.starts : np_function_bounds(im, x) = <<f, n>>
    BY <1>3, BoundsAre
  <2>2. f \in Nat
    BY DEF WellMade
  <2> QED BY <1>4, <2>1, <2>2, NilIsNoAddress
<1> QED BY <1>2, <1>3, <1>4, <1>5, ContainingIs

\* An anchor that names a function leads to one, if to an instruction.
LEMMA LocatedIsEntry ==
    ASSUME NEW im, WellMade(im), NEW a,
           a.kind \in {"string", "target"} => a.hops \in Nat /\ a.path \in Seq(Int),
           anchor_targets_function_entry(a.kind), np_locate_anchor(im, a) # Nil,
           np_locate_anchor(im, a) % Word = 0
    PROVE  np_locate_anchor(im, a) \in im.entries
<1>1. Listed(im) \subseteq im.entries
  BY DEF Listed, WellMade
<1>2. a.kind \in {"string", "vtable", "target", "calls", "rtti"}
  BY DEF anchor_targets_function_entry
<1>3. CASE a.kind = "vtable"
  <2>1. np_locate_anchor(im, a) = SlotFunction(im, a.va)
    BY <1>3 DEF np_locate_anchor
  <2> QED BY <2>1, SlotIs
<1>4. CASE a.kind = "calls"
  <2>1. np_locate_anchor(im, a) = sole_fn_by_calls(im, a)
    BY <1>4 DEF np_locate_anchor
  <2> QED BY <1>1, <2>1, ByCallsListed
<1>5. CASE a.kind = "rtti"
  <2>1. np_locate_anchor(im, a) = Then(np_rtti_vptr(im, a.str), LAMBDA v : SlotFunction(im, v + a.slot * Word))
    BY <1>5 DEF np_locate_anchor
  <2>2. PICK w : w = np_rtti_vptr(im, a.str)
    OBVIOUS
  <2> DEFINE r == IF w = Nil THEN Nil ELSE SlotFunction(im, w + a.slot * Word)
  <2>3. {IF x = Nil THEN Nil ELSE SlotFunction(im, x + a.slot * Word) : x \in {w}} = {r}
    OBVIOUS
  <2>4. np_locate_anchor(im, a) = r
    <3> HIDE DEF r
    <3> QED BY <2>1, <2>2, <2>3, Only DEF Then
  <2>5. PICK slot : slot = w + a.slot * Word
    OBVIOUS
  <2>6. r = SlotFunction(im, slot)
    BY <2>4, <2>5
  <2> HIDE DEF r
  <2> QED BY <2>4, <2>6, SlotIs
<1>6. CASE a.kind \in {"string", "target"}
  <2> DEFINE InFunction(fn) == IF a.kind = "target" THEN walk_call_path(im, fn, a.path) ELSE fn
             ref == StringRef(im, a)
             g == StringFunction(im, a, ref)
             z == IF g = Nil THEN Nil ELSE InFunction(g)
             r == IF ref = Nil THEN Nil ELSE z
  <2>1. \A fn : (CASE a.kind = "pair" -> sole_insn_pair(im, fn, a.pair)
                   [] a.kind = "target" -> walk_call_path(im, fn, a.path)
                   [] OTHER -> fn) = InFunction(fn)
    BY <1>6
  <2>2. np_locate_anchor(im, a) = r
    <3> DEFINE Inside1(fn) == CASE a.kind = "pair" -> sole_insn_pair(im, fn, a.pair)
                                [] a.kind = "target" -> walk_call_path(im, fn, a.path)
                                [] OTHER -> fn
               FromString(x) == IF a.kind = "insn" THEN scan_for_insn(im, x, a.insn, a.nth)
                                ELSE Then(StringFunction(im, a, x), Inside1)
    <3>1. np_locate_anchor(im, a) = Then(ref, FromString)
      BY <1>6 DEF np_locate_anchor
    <3>2. FromString(ref) = Then(g, Inside1)
      BY <1>6
    <3>3. \A fn : Inside1(fn) = InFunction(fn)
      BY <2>1
    <3>4. Then(g, Inside1) = z
      <4> HIDE DEF Inside1, InFunction, g
      <4>1. {IF x = Nil THEN Nil ELSE Inside1(x) : x \in {g}} = {z}
        BY <3>3
      <4> HIDE DEF z
      <4> QED BY <4>1, Only DEF Then
    <3>5. Then(ref, FromString) = r
      <4> HIDE DEF FromString, z, g, ref
      <4>1. {IF x = Nil THEN Nil ELSE FromString(x) : x \in {ref}} = {r}
        BY <3>2, <3>4
      <4> HIDE DEF r
      <4> QED BY <4>1, Only DEF Then
    <3> QED BY <3>1, <3>5
  <2>3. ref # Nil /\ g # Nil /\ r = InFunction(g)
    <3> HIDE DEF ref, g, InFunction
    <3> QED BY <2>2
  <2>4. ref \in Text(im)
    <3> HIDE DEF g, InFunction
    <3> QED BY <2>3, RefIs
  <2>5. g \in Listed(im)
    <3>1. g = StringFunction(im, a, ref) /\ a.hops \in Nat
      BY <1>6
    <3> HIDE DEF ref, g, z, r, InFunction
    <3> QED BY <2>3, <2>4, <3>1, StringFunctionIs
  <2> HIDE DEF ref, g, r, z
  <2>6. CASE a.kind = "target"
    BY <2>2, <2>3, <2>5, <2>6, WalkFound
  <2>7. CASE a.kind = "string"
    BY <1>1, <2>2, <2>3, <2>5, <2>7
  <2> QED BY <1>6, <2>6, <2>7
<1> QED BY <1>2, <1>3, <1>4, <1>5, <1>6

(* A signature as the database has it once it is read.                     *)
NamesCalls(a) ==
    /\ Len(a.calls) \in Nat /\ DOMAIN a.calls = 1 .. Len(a.calls)
    /\ \A i \in DOMAIN a.calls : a.calls[i].name # Nil
Sound(s) ==
    /\ s.off \in Int
    /\ s.anchor.kind = "calls" => NamesCalls(s.anchor)
    /\ s.anchor.kind \in {"string", "target"} => s.anchor.hops \in Nat /\ s.anchor.path \in Seq(Int)

\* np_aob_site: a place of the text.
LEMMA AobIs ==
    ASSUME NEW im, WellMade(im), NEW s, s.off \in Int, np_aob_site(im, s) # Nil
    PROVE  np_aob_site(im, s) \in Nat
<1>1. PICK m : m = np_scan_sole_match(im, s.aob)
  OBVIOUS
<1> DEFINE r == IF m = Nil THEN Nil ELSE IF usable_code_address(im, m - s.off) THEN m - s.off ELSE Nil
<1>2. np_aob_site(im, s) = Then(m, LAMBDA a : IF usable_code_address(im, a - s.off) THEN a - s.off ELSE Nil)
  BY <1>1 DEF np_aob_site
<1>3. np_aob_site(im, s) = r
  <2>1. {IF x = Nil THEN Nil ELSE IF usable_code_address(im, x - s.off) THEN x - s.off ELSE Nil : x \in {m}} = {r}
    OBVIOUS
  <2> HIDE DEF r
  <2> QED BY <1>2, <2>1, Only DEF Then
<1>4. m # Nil /\ usable_code_address(im, m - s.off) /\ r = m - s.off
  BY <1>3
<1> HIDE DEF r
<1>5. m \in Nat
  <2> DEFINE S == {a \in Text(im) :
                  /\ a + Word * Len(s.aob) <= im.hi
                  /\ \A i \in DOMAIN s.aob : s.aob[i] \in {"?", im.insn[a + Word * (i - 1)].op}}
  <2>1. m = Sole(S)
    BY <1>1, <1>4 DEF np_scan_sole_match
  <2>2. S \subseteq Nat
    <3>1. S \subseteq Text(im)
      OBVIOUS
    <3> HIDE DEF S
    <3> QED BY <3>1, TextIs
  <2> HIDE DEF S
  <2> QED BY <1>4, <2>1, <2>2, SoleIn
<1>6. PICK d \in Int : d = m - s.off
  BY <1>5
<1>7. im.lo \in Nat /\ d >= im.lo
  BY <1>4, <1>6, TextIs DEF usable_code_address
<1> QED BY <1>3, <1>4, <1>6, <1>7

\* A place found by its bytes alone is where a function starts, if its
\* function is known.
LEMMA PlausibleIs ==
    ASSUME NEW im, WellMade(im), NEW kind, anchor_targets_function_entry(kind), NEW x \in Nat,
           aob_site_plausible(im, kind, x), np_function_bounds(im, x) # Nil
    PROVE  x \in im.entries
<1>1. np_function_bounds(im, x)[1] = x
  BY DEF aob_site_plausible
<1>2. PICK f \in im.starts, n \in im.starts : np_function_bounds(im, x) = <<f, n>>
  BY BoundsAre
<1> QED BY <1>1, <1>2 DEF WellMade

\* A signature that names a function is found where one starts.
LEMMA SiteIsEntry ==
    ASSUME NEW im, WellMade(im), NEW s, Sound(s), anchor_targets_function_entry(s.anchor.kind),
           NEW x, x = Site(im, s), x # Nil, np_function_bounds(im, x) # Nil
    PROVE  x \in im.entries
<1> DEFINE kind == s.anchor.kind
           anchored == IF kind \in {"none", "aob"} THEN Nil ELSE np_locate_anchor(im, s.anchor)
           Plausible(a) == IF aob_site_plausible(im, kind, a) THEN a ELSE Nil
           Usable(a) == IF usable_code_address(im, a) THEN a ELSE Nil
           m == np_aob_site(im, s)
           p == IF m = Nil THEN Nil ELSE Plausible(m)
           u == IF p = Nil THEN Nil ELSE Usable(p)
           r == IF anchored = Nil THEN u ELSE Usable(anchored)
<1>1. try_anchor(im, s) =
         CHOOSE c \in {IF y = Nil THEN Then(Then(m, Plausible), Usable) ELSE Usable(y) : y \in {anchored}} : TRUE
  BY DEF try_anchor
<1>2. Then(m, Plausible) = p
  <2> HIDE DEF m, Plausible
  <2>1. {IF y = Nil THEN Nil ELSE Plausible(y) : y \in {m}} = {p}
    OBVIOUS
  <2> HIDE DEF p
  <2> QED BY <2>1, Only DEF Then
<1>3. Then(p, Usable) = u
  <2> HIDE DEF p, Usable
  <2>1. {IF y = Nil THEN Nil ELSE Usable(y) : y \in {p}} = {u}
    OBVIOUS
  <2> HIDE DEF u
  <2> QED BY <2>1, Only DEF Then
<1>4. try_anchor(im, s) = r
  <2> HIDE DEF m, p, u, Plausible, Usable, anchored
  <2>1. {IF y = Nil THEN Then(Then(m, Plausible), Usable) ELSE Usable(y) : y \in {anchored}} = {r}
    BY <1>2, <1>3
  <2> HIDE DEF r
  <2> QED BY <1>1, <2>1, Only
<1>5. x = r
  BY <1>4 DEF Site
<1>6. CASE anchored # Nil
  <2>1. x = anchored /\ x = np_locate_anchor(im, s.anchor) /\ x % Word = 0
    BY <1>5, <1>6 DEF usable_code_address
  <2> HIDE DEF anchored, r
  <2> QED BY <2>1, LocatedIsEntry DEF Sound
<1>7. CASE anchored = Nil
  <2>1. x = u
    <3> HIDE DEF anchored, u, Usable
    <3> QED BY <1>5, <1>7
  <2>2. x = m /\ m # Nil /\ aob_site_plausible(im, kind, m)
    <3> HIDE DEF m
    <3> QED BY <2>1
  <2>3. x \in Nat
    <3> HIDE DEF r, u, p, Plausible, Usable, anchored
    <3> QED BY <2>2, AobIs DEF Sound
  <2> HIDE DEF r, u, p, Plausible, Usable, anchored, m
  <2> QED BY <2>2, <2>3, PlausibleIs
<1> QED BY <1>6, <1>7

(* The database's signatures, as they are read.                            *)
Read(s) == \E w \in Machines : \E p \in w.profiles : s \in p.signatures

\* What Admitted changes of a signature.
LEMMA AdmittedIs ==
    ASSUME NEW s, Read(s)
    PROVE  /\ Admitted(s).name = s.name /\ Admitted(s).module = s.module
           /\ Sound(Admitted(s))
<1> DEFINE aob == IF s.off = Nil THEN <<>> ELSE s.aob
           off == IF s.off = Nil THEN 0 ELSE s.off
           a == load_anchor(s.anchor)
           b == IF a.kind = "aob" /\ aob = <<>> THEN [a EXCEPT !.kind = "none"] ELSE a
           t == [s EXCEPT !.aob = aob, !.off = off, !.anchor = b]
<1>1. Admitted(s) = t
  BY DEF Admitted
<1>2. /\ {"name", "module", "off", "aob", "anchor"} \subseteq DOMAIN s /\ "kind" \in DOMAIN s.anchor
      /\ s.off \in Int \cup {Nil} /\ s.anchor.hops \in Int /\ s.anchor.path \in Seq(Int)
      /\ NamesCalls(s.anchor)
  BY ResolverConstants DEF Read, NamesCalls
<1>3. off \in Int
  BY <1>2
<1>4. /\ b.kind \in {"string", "target"} => b.hops \in Nat /\ b.path \in Seq(Int)
      /\ b.kind = "calls" => NamesCalls(b)
  <2>1. a = s.anchor \/ a = [s.anchor EXCEPT !.kind = "none"]
    BY DEF load_anchor
  <2>2. a.kind \in {"string", "target"} => a = s.anchor /\ s.anchor.hops >= 0
    <3>1. CASE a = [s.anchor EXCEPT !.kind = "none"]
      <4>1. a.kind = "none"
        BY <1>2, <3>1
      <4> QED BY <4>1
    <3>2. CASE a = s.anchor /\ a # [s.anchor EXCEPT !.kind = "none"]
      BY <3>2 DEF load_anchor
    <3> QED BY <2>1, <3>1, <3>2
  <2>3. "kind" \in DOMAIN a
    BY <1>2, <2>1
  <2>4. b.kind \in {"string", "target", "calls"} => b = a
    <3> HIDE DEF a, aob
    <3> QED BY <2>3
  <2>5. a.kind = "calls" => a = s.anchor
    <3>1. a = [s.anchor EXCEPT !.kind = "none"] => a.kind = "none"
      BY <1>2
    <3> HIDE DEF a
    <3> QED BY <2>1, <3>1
  <2> HIDE DEF b, a, aob
  <2> QED BY <1>2, <2>2, <2>4, <2>5
<1> HIDE DEF aob, off, a, b
<1>5. t.name = s.name /\ t.module = s.module /\ t.off = off /\ t.anchor = b
  BY <1>2
<1> HIDE DEF t
<1> QED BY <1>1, <1>3, <1>4, <1>5 DEF Sound

(* The database once read: of one profile, and every signature of it.      *)
IsRead(sigs) == \E w \in Machines : \E p \in w.profiles : sigs = np_load_profile(p)

\* A database has one signature of a name in a module, fit to be resolved.
LEMMA DatabaseIs ==
    ASSUME NEW sigs, IsRead(sigs) \/ sigs = {}
    PROVE  \A s \in sigs : /\ Sound(s)
                           /\ \A t \in sigs : s.name = t.name /\ s.module = t.module => s = t
<1>1. CASE sigs = {}
  BY <1>1
<1>2. CASE IsRead(sigs)
  <2>0. PICK w \in Machines : \E p \in w.profiles : sigs = np_load_profile(p)
    BY <1>2 DEF IsRead
  <2>1. PICK p \in w.profiles : sigs = np_load_profile(p)
    BY <2>0
  <2>2. sigs = {Admitted(s) : s \in p.signatures}
    BY <2>1 DEF np_load_profile
  <2>3. \A s \in p.signatures : Read(s)
    BY <2>1 DEF Read
  <2>4. \A s, t \in p.signatures : s.name = t.name /\ s.module = t.module => s = t
    BY <2>1, ResolverConstants
  <2> SUFFICES ASSUME NEW s \in sigs
               PROVE  Sound(s) /\ \A t \in sigs : s.name = t.name /\ s.module = t.module => s = t
    OBVIOUS
  <2>5. PICK s0 \in p.signatures : s = Admitted(s0)
    BY <2>2
  <2>6. Sound(s) /\ s.name = s0.name /\ s.module = s0.module
    BY <2>3, <2>5, AdmittedIs
  <2>7. ASSUME NEW t \in sigs, s.name = t.name, s.module = t.module PROVE s = t
    <3>1. PICK t0 \in p.signatures : t = Admitted(t0)
      BY <2>2
    <3>2. t.name = t0.name /\ t.module = t0.module
      BY <2>3, <3>1, AdmittedIs
    <3> QED BY <2>4, <2>5, <2>6, <2>7, <3>1, <3>2
  <2> QED BY <2>6, <2>7
<1> QED BY <1>1, <1>2

\* What is looked up is where the signature of that name was found.
LEMMA LookupIs ==
    ASSUME IsRead(sigdb) \/ sigdb = {}, NEW im, NEW m, resolved = Sites(im, sigdb, m), NEW s \in Of(sigdb, m)
    PROVE  np_lookup_address(s.name) = Site(im, s)
<1>1. s.name \in {t.name : t \in Of(sigdb, m)}
  OBVIOUS
<1> DEFINE c == CHOOSE t \in Of(sigdb, m) : t.name = s.name
<1>2. np_lookup_address(s.name) = Site(im, c)
  BY <1>1 DEF np_lookup_address, Sites
<1>3. c \in Of(sigdb, m) /\ c.name = s.name
  OBVIOUS
<1> HIDE DEF c
<1>4. c = s
  BY <1>3, DatabaseIs DEF Of
<1> QED BY <1>2, <1>4

(* The hooks again: each is where the signature of its name is found, in   *)
(* the image of its module.                                                *)
Mods == {Modules[i] : i \in 1 .. Len(Modules)}
PlacedAt(h) ==
    /\ h.module \in Mods /\ image[h.module] # Nil
    /\ \A s \in Of(sigdb, h.module) : s.name = h.hook.signature => h.site = Site(image[h.module], s)
    /\ h.site # Nil
SiteInv ==
    /\ \A m \in Mods : image[m] # Nil => image[m] \in machine.images[m]
    /\ IsRead(sigdb) \/ sigdb = {}
    /\ pc = "hook" => image[module] # Nil /\ resolved = Sites(image[module], sigdb, module)
    /\ \A h \in hooks : PlacedAt(h)

\* Nothing is placed in the beginning.
LEMMA SiteInit == ASSUME InstallInit PROVE SiteInv
<1>1. \A m \in Mods : image[m] = Nil
  BY ModuleFacts DEF InstallInit, Mods
<1> QED BY <1>1 DEF InstallInit, SiteInv

\* What is placed stays so while the image and the database stay.
LEMMA PlacedStays ==
    ASSUME HookInv, SiteInv, UNCHANGED <<machine, sigdb>>, NEW h, PlacedAt(h),
           \A m \in Mods : image[m] # Nil => image'[m] = image[m]
    PROVE  PlacedAt(h)'
BY DEF PlacedAt, Of

\* Waiting and reading the database place nothing.
LEMMA SiteAwait == ASSUME HookInv, SiteInv, Await \/ LoadProfile PROVE SiteInv'
<1>1. UNCHANGED <<machine, image, hooks>> /\ pc' # "hook"
  <2>1. CASE Await
    BY <2>1 DEF Await, Ends, NextModule
  <2>2. CASE LoadProfile
    BY <2>2 DEF LoadProfile, Ends
  <2> QED BY <2>1, <2>2
<1>2. CASE UNCHANGED sigdb
  <2>1. \A h \in hooks : PlacedAt(h)'
    BY <1>1, <1>2, PlacedStays DEF SiteInv
  <2> QED BY <1>1, <1>2, <2>1 DEF SiteInv
<1>3. CASE sigdb' # sigdb
  <2>1. /\ LoadProfile /\ pick_latest_sigdb(machine.profiles) # Nil
        /\ sigdb' = np_load_profile(pick_latest_sigdb(machine.profiles))
    BY <1>3 DEF Await, LoadProfile
  <2>2. hooks = {}
    BY <2>1 DEF LoadProfile, HookInv
  <2>3. PICK p : p = pick_latest_sigdb(machine.profiles)
    OBVIOUS
  <2>4. p \in machine.profiles
    <3>1. machine \in Machines /\ p # Nil
      BY <2>1, <2>3 DEF HookInv
    <3>2. \E q \in machine.profiles : \A r \in machine.profiles : r.build <= q.build
      BY <2>3, <3>1, InstallConstants DEF pick_latest_sigdb
    <3> QED BY <2>3, <3>1, <3>2 DEF pick_latest_sigdb
  <2>5. sigdb' = np_load_profile(p) /\ machine \in Machines
    BY <2>1, <2>3 DEF HookInv
  <2>6. IsRead(sigdb')
    BY <2>4, <2>5 DEF IsRead
  <2> QED BY <1>1, <2>2, <2>6 DEF SiteInv
<1> QED BY <1>2, <1>3

\* The thread looks up in what it has just resolved.
LEMMA SiteResolve == ASSUME HookInv, SiteInv, Resolve PROVE SiteInv'
<1>1. /\ UNCHANGED <<machine, image, at, sigdb, hooks>> /\ image[module] # Nil
      /\ resolved' = Sites(image[module], sigdb, module)
  BY DEF Resolve, HookInv
<1>2. \A h \in hooks : PlacedAt(h)'
  BY <1>1, PlacedStays DEF SiteInv
<1>3. module' = module
  BY <1>1 DEF module
<1> QED BY <1>1, <1>2, <1>3 DEF SiteInv

\* A hook is placed where its signature was found.
LEMMA SiteApply == ASSUME HookInv, SiteInv, Apply PROVE SiteInv'
<1>1. /\ UNCHANGED <<machine, image, pc, at, sigdb, resolved>> /\ pc = "hook"
      /\ image[module] # Nil /\ resolved = Sites(image[module], sigdb, module)
      /\ module \in Mods /\ module' = module
  BY DEF Apply, SiteInv, HookInv, module, Mods
<1>2. PICK k : np_apply_entry(k)
  BY DEF Apply
<1>3. PICK site, m : site = np_lookup_address(k.signature) /\ m = module
  OBVIOUS
<1>4. \/ hooks' = hooks
      \/ site # Nil /\ hooks' = hooks \cup {[module |-> m, hook |-> k, site |-> site]}
  BY <1>2, <1>3 DEF np_apply_entry
<1>5. \A h \in hooks : PlacedAt(h)'
  BY <1>1, PlacedStays DEF SiteInv
<1>6. ASSUME NEW n, n = [module |-> m, hook |-> k, site |-> site], site # Nil PROVE PlacedAt(n)'
  <2>1. n.module = m /\ n.hook.signature = k.signature /\ n.site = site
    BY <1>6
  <2>2. \A s \in Of(sigdb, m) : s.name = k.signature => site = Site(image[m], s)
    BY <1>1, <1>3, LookupIs DEF SiteInv
  <2>3. Of(sigdb', m) = Of(sigdb, m)
    BY <1>1 DEF Of
  <2> QED BY <1>1, <1>3, <1>6, <2>1, <2>2, <2>3 DEF PlacedAt
<1>7. \A h \in hooks' : PlacedAt(h)'
  BY <1>4, <1>5, <1>6
<1> QED BY <1>1, <1>7 DEF SiteInv

\* A module is done.
LEMMA SiteInstalled == ASSUME HookInv, SiteInv, Installed PROVE SiteInv'
<1>1. UNCHANGED <<machine, image, sigdb, hooks>> /\ pc' # "hook"
  BY NextFacts DEF Installed
<1>2. \A h \in hooks : PlacedAt(h)'
  BY <1>1, PlacedStays DEF SiteInv
<1> QED BY <1>1, <1>2 DEF SiteInv

\* An image loads once.
LEMMA SiteImage == ASSUME HookInv, SiteInv, NEW m \in DOMAIN image, ImageLoads(m) PROVE SiteInv'
<1>1. /\ UNCHANGED <<machine, pc, at, sigdb, resolved, hooks>> /\ module' = module
  BY DEF ImageLoads, module
<1>2. /\ \A x \in Mods : image[x] # Nil => image'[x] = image[x]
      /\ \A x \in Mods : image'[x] = image[x] \/ image'[x] \in machine.images[x]
  BY DEF ImageLoads, HookInv, Mods
<1>3. module \in Mods
  BY DEF HookInv, module, Mods
<1>4. \A h \in hooks : PlacedAt(h)'
  BY <1>1, <1>2, PlacedStays DEF SiteInv
<1> QED BY <1>1, <1>2, <1>3, <1>4 DEF SiteInv

\* Every step keeps the hooks where they belong.
LEMMA SiteSteps == ASSUME HookInv, SiteInv, [InstallNext]_installVars PROVE SiteInv'
<1>1. CASE UNCHANGED <<machine, image, pc, at, sigdb, resolved, hooks>>
  <2>1. \A h \in hooks : PlacedAt(h)'
    BY <1>1, PlacedStays DEF SiteInv
  <2>2. module' = module
    BY <1>1 DEF module
  <2> QED BY <1>1, <2>1, <2>2 DEF SiteInv
<1>2. CASE Unload \/ Join
  BY <1>1, <1>2 DEF Unload, Join
<1>3. CASE UNCHANGED installVars
  BY <1>1, <1>3 DEF installVars
<1> QED BY <1>2, <1>3, SiteAwait, SiteResolve, SiteApply, SiteInstalled, SiteImage DEF InstallNext, Thread

\* A hook that replaces a function replaces a whole one: where its anchor
\* names a function and the table of starts knows the place, a function
\* starts there, in any image a compiler makes, of whatever build
\* (np_locate_anchor of anchor.c, aob_site_plausible of resolver.c).
THEOREM ReplacedIsEntry == InstallSpec => []ReplacedAtEntry
<1>1. HookInv /\ SiteInv => ReplacedAtEntry
  <2> SUFFICES ASSUME HookInv, SiteInv, NEW h \in hooks, NEW s \in Of(sigdb, h.module),
                      h.hook.signature = s.name, anchor_targets_function_entry(s.anchor.kind),
                      np_function_bounds(image[h.module], h.site) # Nil
               PROVE  h.site \in image[h.module].entries
    BY DEF ReplacedAtEntry
  <2>1. PICK im : im = image[h.module]
    OBVIOUS
  <2>2. h.module \in Mods /\ im # Nil /\ h.site # Nil /\ h.site = Site(im, s)
    BY <2>1 DEF SiteInv, PlacedAt
  <2>3. im \in machine.images[h.module] /\ machine \in Machines
    BY <2>1, <2>2 DEF SiteInv, HookInv
  <2>4. WellMade(im)
    BY <2>2, <2>3, ResolverConstants, ModuleFacts DEF Mods
  <2>5. Sound(s)
    BY DatabaseIs DEF SiteInv, Of
  <2> QED BY <2>1, <2>2, <2>4, <2>5, SiteIsEntry
<1>2. InstallInit => HookInv /\ SiteInv
  BY HookInit, SiteInit
<1>3. HookInv /\ SiteInv /\ [InstallNext]_installVars => (HookInv /\ SiteInv)'
  BY HookSteps, SiteSteps
<1> QED BY <1>1, <1>2, <1>3, PTL DEF InstallSpec

(* The one string, its one use, and the one function around that.          *)
\* The first segment that has the string has it once: it is the only copy.
LEMMA CopyIs ==
    ASSUME NEW im, WellMade(im), NEW s, cstring_va(im, s) # Nil
    PROVE  \E e : Copies(im, s) = {e} /\ e.at = cstring_va(im, s)
<1> DEFINE hits(k) == {e \in im.cstr[k] : e.s = s}
           having == {k \in DOMAIN im.cstr : hits(k) # {}}
           k0 == Lowest(having)
           S == hits(k0)
<1>1. having # {} /\ Sole(S) # Nil /\ cstring_va(im, s) = Sole(S).at
  BY DEF cstring_va
<1>2. DOMAIN im.cstr = 1 .. 3 /\ \A k \in 1 .. 3 : IsFiniteSet(im.cstr[k])
  BY DEF WellMade
<1>3. k0 \in having /\ \A y \in having : k0 <= y
  <2>1. having \in SUBSET Nat
    BY <1>2
  <2> HIDE DEF having
  <2>2. \E x \in having : \A y \in having : x <= y
    BY <1>1, <2>1, Least
  <2> QED BY <2>2 DEF Lowest
<1>4. k0 \in 1 .. 3 /\ \A j \in 1 .. k0 - 1 : hits(j) = {}
  <2>1. k0 \in 1 .. 3
    <3> HIDE DEF k0
    <3> QED BY <1>2, <1>3
  <2>2. ASSUME NEW j \in 1 .. k0 - 1 PROVE hits(j) = {}
    <3>1. j \in 1 .. 3 /\ ~(k0 <= j)
      <4> HIDE DEF k0
      <4> QED BY <2>1
    <3>2. j \notin having
      <4> HIDE DEF k0, having
      <4> QED BY <1>3, <3>1
    <3> QED BY <1>2, <3>1, <3>2
  <2> QED BY <2>1, <2>2
<1>5. S = {Sole(S)}
  <2>1. S \in SUBSET im.cstr[k0] /\ IsFiniteSet(im.cstr[k0])
    BY <1>2, <1>4
  <2> HIDE DEF S, k0
  <2> QED BY <1>1, <2>1, FS_Subset, SoleIs
<1> DEFINE firsts == {k \in DOMAIN im.cstr : \A j \in 1 .. k - 1 : \A e \in im.cstr[j] : e.s # s}
<1>6. Copies(im, s) = {e \in UNION {im.cstr[k] : k \in firsts} : e.s = s}
  BY DEF Copies
<1>7. ASSUME NEW e \in S PROVE e \in Copies(im, s)
  <2>1. k0 \in firsts
    <3> HIDE DEF k0
    <3> QED BY <1>2, <1>4
  <2>2. e \in im.cstr[k0] /\ e.s = s
    OBVIOUS
  <2> HIDE DEF k0, firsts
  <2> QED BY <1>6, <2>1, <2>2
<1>8. ASSUME NEW e \in Copies(im, s) PROVE e \in S
  <2>1. e \in UNION {im.cstr[k] : k \in firsts} /\ e.s = s
    BY <1>6
  <2>2. PICK k \in firsts : e \in im.cstr[k]
    BY <2>1
  <2>3. k \in 1 .. 3 /\ \A j \in 1 .. k - 1 : hits(j) = {}
    BY <1>2
  <2>4. k \in having
    BY <1>2, <2>1, <2>2
  <2>5. k0 <= k
    <3> HIDE DEF k0, having
    <3> QED BY <1>3, <2>4
  <2>6. hits(k0) # {}
    <3> HIDE DEF k0
    <3> QED BY <1>3
  <2>7. k = k0
    <3> HIDE DEF k0, hits
    <3> QED BY <1>4, <2>3, <2>5, <2>6
  <2> HIDE DEF k0
  <2> QED BY <2>1, <2>2, <2>7
<1>9. Copies(im, s) = S
  <2> HIDE DEF S
  <2> QED BY <1>7, <1>8
<1> HIDE DEF S
<1> QED BY <1>1, <1>5, <1>9

\* Its one use.
LEMMA UseIs ==
    ASSUME NEW im, WellMade(im), NEW a, StringRef(im, a) # Nil, ~a.indirect, a.nth_xref = 0
    PROVE  References(im, a.str) = {StringRef(im, a)}
<1>1. PICK c : c = cstring_va(im, a.str) /\ c # Nil /\ StringRef(im, a) = xref_to_va(im, c, a.nth_xref, a.indirect)
  BY RefIs
<1>2. PICK e : Copies(im, a.str) = {e} /\ e.at = c
  BY <1>1, CopyIs
<1> DEFINE refs == {x \in Text(im) : Refers(im, x, c, a.indirect)}
<1>3. StringRef(im, a) = Sole(refs)
  BY <1>1 DEF xref_to_va
<1>4. References(im, a.str) = refs
  BY <1>2 DEF References, Refers
<1>5. IsFiniteSet(refs)
  <2>1. refs \in SUBSET Text(im)
    OBVIOUS
  <2> HIDE DEF refs
  <2> QED BY <2>1, TextIs, FS_Subset
<1> HIDE DEF refs
<1> QED BY <1>3, <1>4, <1>5, SoleIs

\* An anchor that is a string leads to the function that uses it, or to the
\* one that branches to that.
LEMMA StringIsSole ==
    ASSUME NEW im, WellMade(im), NEW a, a.kind = "string", ~a.indirect, a.nth_xref = 0,
           NEW site, site # Nil, np_locate_anchor(im, a) = site
    PROVE  SoleOf(im, a, site)
<1> DEFINE ref == StringRef(im, a)
           g == StringFunction(im, a, ref)
           Same(fn) == CASE a.kind = "pair" -> sole_insn_pair(im, fn, a.pair)
                         [] a.kind = "target" -> walk_call_path(im, fn, a.path)
                         [] OTHER -> fn
           FromString(x) == IF a.kind = "insn" THEN scan_for_insn(im, x, a.insn, a.nth)
                            ELSE Then(StringFunction(im, a, x), Same)
           r == IF ref = Nil THEN Nil ELSE g
<1>1. site = Then(ref, FromString)
  BY DEF np_locate_anchor
<1>2. \A fn : Same(fn) = fn
  OBVIOUS
<1>3. FromString(ref) = g
  <2>1. FromString(ref) = Then(g, Same)
    OBVIOUS
  <2> HIDE DEF Same, g
  <2>2. {IF x = Nil THEN Nil ELSE Same(x) : x \in {g}} = {g}
    BY <1>2
  <2> QED BY <2>1, <2>2, Only DEF Then
<1>4. Then(ref, FromString) = r
  <2> HIDE DEF FromString, g, ref
  <2>1. {IF x = Nil THEN Nil ELSE FromString(x) : x \in {ref}} = {r}
    BY <1>3
  <2> HIDE DEF r
  <2> QED BY <2>1, Only DEF Then
<1>5. ref # Nil /\ g = site
  <2> HIDE DEF ref, g, FromString
  <2> QED BY <1>1, <1>4
<1>6. PICK u : u = ref
  OBVIOUS
<1>7. References(im, a.str) = {u} /\ u # Nil /\ u \in Text(im) /\ u \in Nat /\ StringFunction(im, a, u) = site
  <2>1. u \in Text(im)
    BY <1>5, <1>6, RefIs
  <2> QED BY <1>5, <1>6, <2>1, UseIs, TextIs
<1> HIDE DEF ref, g, r, FromString, Same
<1>8. PICK c : c = containing_fn(im, u)
  OBVIOUS
<1>9. FunctionsAt(im, References(im, a.str)) = {c}
  BY <1>7, <1>8 DEF FunctionsAt
<1>10. CASE a.hops = 0
  <2>1. site = c
    BY <1>7, <1>8, <1>10 DEF StringFunction
  <2> QED BY <1>9, <1>10, <2>1 DEF SoleOf
<1>11. CASE a.hops = 1
  <2> SUFFICES ASSUME \A x \in References(im, a.str) : Branches(im, x, a.tail) # {} => containing_fn(im, x) = x
               PROVE  FunctionsAt(im, Callers(im, c, a.tail)) = {site}
    BY <1>9, <1>11 DEF SoleOf
  <2>1. CASE hop_to_caller(im, u, a.hops, a.tail) # Nil
    <3>1. site = hop_to_caller(im, u, 1, a.tail)
      BY <1>7, <1>11, <2>1 DEF StringFunction
    <3>2. site = sole_caller(im, u, a.tail)
      BY <1>11, <2>1, <3>1, HopFound
    <3>3. PICK x \in Text(im) : Callers(im, u, a.tail) = {x} /\ containing_fn(im, x) = site
      BY <3>2, CallerIs
    <3>4. Branches(im, u, a.tail) # {}
      BY <3>3 DEF Callers
    <3>5. c = u
      BY <1>7, <1>8, <3>4
    <3> QED BY <3>3, <3>5 DEF FunctionsAt
  <2>2. CASE hop_to_caller(im, u, a.hops, a.tail) = Nil
    <3> DEFINE h == IF c = Nil THEN Nil ELSE hop_to_caller(im, c, 1, a.tail)
    <3>1. StringFunction(im, a, u) = Then(c, LAMBDA f : hop_to_caller(im, f, a.hops, a.tail))
      BY <1>8, <1>11, <2>2 DEF StringFunction
    <3>2. {IF x = Nil THEN Nil ELSE hop_to_caller(im, x, a.hops, a.tail) : x \in {c}} = {h}
      BY <1>11
    <3>3. StringFunction(im, a, u) = h
      <4> HIDE DEF h
      <4> QED BY <3>1, <3>2, Only DEF Then
    <3>4. site = hop_to_caller(im, c, 1, a.tail)
      BY <1>7, <3>3
    <3>5. site = sole_caller(im, c, a.tail)
      BY <3>4, HopFound
    <3>6. PICK x \in Text(im) : Callers(im, c, a.tail) = {x} /\ containing_fn(im, x) = site
      BY <3>5, CallerIs
    <3> QED BY <3>6 DEF FunctionsAt
  <2> QED BY <2>1, <2>2
<1>12. CASE a.hops # 0 /\ a.hops # 1
  BY <1>12 DEF SoleOf
<1> QED BY <1>10, <1>11, <1>12

(* The calls of a function, in their order.                                *)
Upto(S, x) == {y \in S : y <= x}

\* An address is the n-th of those it belongs to, if n of them are not
\* beyond it.
LEMMA NthOf ==
    ASSUME NEW S \in SUBSET Nat, IsFiniteSet(S), NEW x \in S
    PROVE  /\ Cardinality(Upto(S, x)) \in 1 .. Cardinality(S)
           /\ Nth(S, Cardinality(Upto(S, x))) = x
<1>1. \A y \in S : IsFiniteSet(Upto(S, y)) /\ Upto(S, y) \subseteq S /\ y \in Upto(S, y)
  <2> SUFFICES ASSUME NEW y \in S PROVE IsFiniteSet(Upto(S, y)) /\ Upto(S, y) \subseteq S /\ y \in Upto(S, y)
    OBVIOUS
  <2>1. Upto(S, y) \in SUBSET S /\ y \in Upto(S, y)
    BY DEF Upto
  <2> QED BY <2>1, FS_Subset
<1> DEFINE n == Cardinality(Upto(S, x))
<1>2. n \in 1 .. Cardinality(S)
  <2>1. n \in Nat /\ Cardinality(S) \in Nat /\ n <= Cardinality(S)
    <3>1. Upto(S, x) \in SUBSET S
      BY <1>1
    <3> QED BY <3>1, FS_Subset, FS_CardinalityType
  <2>2. n # 0
    BY <1>1, FS_EmptySet
  <2> QED BY <2>1, <2>2
<1> DEFINE here == {z \in S : Cardinality({y \in S : y <= z}) = n}
<1>3. here = {z \in S : Cardinality(Upto(S, z)) = n}
  BY DEF Upto
<1>4. ASSUME NEW z \in S, Cardinality(Upto(S, z)) = n PROVE z = x
  <2>1. CASE z <= x
    <3>1. Upto(S, z) \in SUBSET Upto(S, x)
      <4>1. \A y \in S : y <= z => y <= x
        BY <2>1
      <4> QED BY <4>1 DEF Upto
    <3>2. Upto(S, z) = Upto(S, x)
      BY <1>1, <1>4, <3>1, FS_Subset
    <3>3. x <= z
      BY <3>2 DEF Upto
    <3> QED BY <2>1, <3>3
  <2>2. CASE x <= z
    <3>1. Upto(S, x) \in SUBSET Upto(S, z)
      <4>1. \A y \in S : y <= x => y <= z
        BY <2>2
      <4> QED BY <4>1 DEF Upto
    <3>2. Upto(S, z) = Upto(S, x)
      BY <1>1, <1>4, <3>1, FS_Subset
    <3>3. z <= x
      BY <3>2 DEF Upto
    <3> QED BY <2>2, <3>3
  <2> QED BY <2>1, <2>2
<1>5. here = {x}
  <2> HIDE DEF n
  <2> QED BY <1>3, <1>4 DEF n
<1>6. Nth(S, n) = Lowest(here)
  BY <1>5 DEF Nth
<1>7. Lowest({x}) = x
  BY DEF Lowest
<1> HIDE DEF here, n
<1> QED BY <1>2, <1>5, <1>6, <1>7 DEF n

\* The first of some addresses is one of them.
LEMMA FirstIs ==
    ASSUME NEW S \in SUBSET Nat, IsFiniteSet(S), S # {}
    PROVE  Nth(S, 1) \in S
<1>1. PICK z \in S : \A y \in S : z <= y
  BY Least
<1>2. Upto(S, z) = {z}
  <2>1. z <= z /\ \A y \in S : y <= z => y = z
    BY <1>1
  <2> QED BY <2>1 DEF Upto
<1>3. Cardinality(Upto(S, z)) = 1
  BY <1>2, FS_Singleton
<1> QED BY <1>3, NthOf

(* How far body_matches_calls is after each call.                          *)
Named(im, callsOf, calls, i, w) == callee_is_named(im, bl_target(im, Nth(callsOf, i)), calls[w + 1])
Want(im, callsOf, calls, i, w) == IF w < Len(calls) /\ Named(im, callsOf, calls, i, w) THEN w + 1 ELSE w
Wants(im, callsOf, calls, n, u) ==
    /\ DOMAIN u = 0 .. n /\ u = [i \in DOMAIN u |-> u[i]]
    /\ u[0] = 0 /\ \A i \in 1 .. n : u[i] = Want(im, callsOf, calls, i, u[i - 1])

\* It goes on call by call.
LEMMA WantsExist ==
    ASSUME NEW im, NEW callsOf, NEW calls, NEW n \in Nat
    PROVE  \E u : Wants(im, callsOf, calls, n, u)
<1> DEFINE T == {m \in 0 .. n : ~\E u : Wants(im, callsOf, calls, m, u)}
<1>1. CASE T = {}
  BY <1>1
<1>2. CASE T # {}
  <2>1. \E m \in T : \A y \in T : m <= y
    <3>1. T \in SUBSET Nat
      OBVIOUS
    <3> HIDE DEF T
    <3> QED BY <1>2, <3>1, Least
  <2>2. PICK m \in T : \A y \in T : m <= y
    BY <2>1
  <2>3. m # 0
    <3> DEFINE z == [i \in 0 .. 0 |-> 0]
    <3>1. DOMAIN z = 0 .. 0 /\ z[0] = 0 /\ z = [i \in DOMAIN z |-> z[i]] /\ 1 .. 0 = {}
      OBVIOUS
    <3> HIDE DEF z
    <3>2. Wants(im, callsOf, calls, 0, z)
      BY <3>1 DEF Wants
    <3> QED BY <2>2, <3>2
  <2>4. m - 1 \in 0 .. n /\ m - 1 \notin T
    BY <2>2, <2>3
  <2>5. PICK u : Wants(im, callsOf, calls, m - 1, u)
    BY <2>4
  <2> DEFINE v == [i \in 0 .. m |-> IF i = m THEN Want(im, callsOf, calls, m, u[m - 1]) ELSE u[i]]
  <2>6. m \in 1 .. n
    BY <2>2, <2>3
  <2>7. Wants(im, callsOf, calls, m, v)
    <3>1. DOMAIN v = 0 .. m /\ v = [i \in DOMAIN v |-> v[i]] /\ v[0] = 0
      BY <2>5, <2>6 DEF Wants
    <3>2. \A i \in 1 .. m : v[i] = Want(im, callsOf, calls, i, v[i - 1])
      BY <2>5, <2>6 DEF Wants
    <3> HIDE DEF v
    <3> QED BY <3>1, <3>2 DEF Wants
  <2> QED BY <2>2, <2>7
<1> QED BY <1>1, <1>2

(* body_matches_calls, of the names it has gone through.                   *)
Conforms(im, fn, end, calls, exact, none, u) ==
    /\ \A x \in Calls(im, fn, end) : InText(im, bl_target(im, x))
    /\ none => \A x \in Words(fn, end) : im.insn[x].op # "adrp"
    /\ exact => /\ Cardinality(Calls(im, fn, end)) = Len(calls)
                /\ \A x \in Words(fn, end) : im.insn[x].op # "blr"
    /\ u[Cardinality(Calls(im, fn, end))] = Len(calls)

\* body_matches_calls: it got to the end of the names.
LEMMA MatchIs ==
    ASSUME NEW im, NEW fn, NEW end, NEW calls, NEW exact, NEW none, IsFiniteSet(Calls(im, fn, end))
    PROVE  \E u : /\ Wants(im, Calls(im, fn, end), calls, Cardinality(Calls(im, fn, end)), u)
                  /\ body_matches_calls(im, fn, end, calls, exact, none)
                        <=> Conforms(im, fn, end, calls, exact, none, u)
<1>1. PICK callsOf : callsOf = Calls(im, fn, end)
  OBVIOUS
<1>2. PICK n \in Nat : n = Cardinality(callsOf)
  BY <1>1, FS_CardinalityType
<1> DEFINE Next1(i, w) == IF w < Len(calls) /\ callee_is_named(im, bl_target(im, Nth(callsOf, i)), calls[w + 1])
                          THEN w + 1 ELSE w
           f == CHOOSE k : k = [i \in 0 .. n |-> IF i = 0 THEN 0 ELSE Next1(i, k[i - 1])]
           g == CHOOSE k : k = [i \in 0 .. Cardinality(Calls(im, fn, end)) |->
                   IF i = 0 THEN 0
                   ELSE LET w == k[i - 1]
                            hit == /\ w < Len(calls)
                                   /\ callee_is_named(im, bl_target(im, Nth(Calls(im, fn, end), i)), calls[w + 1])
                        IN  IF hit THEN w + 1 ELSE w]
<1>3. body_matches_calls(im, fn, end, calls, exact, none) <=> Conforms(im, fn, end, calls, exact, none, g)
  BY Zenon DEF body_matches_calls, Conforms
<1>4. g = f
  BY <1>1, <1>2
<1> HIDE DEF g
<1>5. \A i, w : Next1(i, w) = Want(im, callsOf, calls, i, w)
  BY DEF Want, Named
<1> HIDE DEF Next1
<1>6. PICK u : Wants(im, callsOf, calls, n, u)
  BY WantsExist
<1>7. u = [i \in 0 .. n |-> IF i = 0 THEN 0 ELSE Next1(i, u[i - 1])]
  <2> DEFINE F(i) == IF i = 0 THEN 0 ELSE Next1(i, u[i - 1])
  <2>1. ASSUME NEW i \in 0 .. n PROVE u[i] = F(i)
    <3>1. CASE i = 0
      BY <1>6, <3>1 DEF Wants
    <3>2. CASE i # 0
      <4>1. i \in 1 .. n
        BY <3>2
      <4>2. u[i] = Want(im, callsOf, calls, i, u[i - 1])
        BY <1>6, <4>1 DEF Wants
      <4>3. F(i) = Next1(i, u[i - 1])
        BY <3>2
      <4> QED BY <1>5, <4>2, <4>3
    <3> QED BY <3>1, <3>2
  <2>2. u = [i \in 0 .. n |-> u[i]]
    BY <1>6 DEF Wants
  <2> HIDE DEF F
  <2>3. u = [i \in 0 .. n |-> F(i)]
    BY <2>1, <2>2
  <2> QED BY <2>3 DEF F
<1>8. f = [i \in 0 .. n |-> IF i = 0 THEN 0 ELSE Next1(i, f[i - 1])]
  BY <1>7
<1> HIDE DEF f
<1>9. Wants(im, callsOf, calls, n, f)
  <2>1. f = [i \in DOMAIN f |-> f[i]] /\ DOMAIN f = 0 .. n
    BY <1>8
  <2>2. f[0] = 0
    BY <1>8
  <2>3. ASSUME NEW i \in 1 .. n PROVE f[i] = Want(im, callsOf, calls, i, f[i - 1])
    <3>1. i \in 0 .. n /\ i # 0
      OBVIOUS
    <3>2. f[i] = Next1(i, f[i - 1])
      BY <1>8, <3>1
    <3> QED BY <1>5, <3>2
  <2> QED BY <2>1, <2>2, <2>3 DEF Wants
<1> QED BY <1>1, <1>2, <1>3, <1>4, <1>9

\* To get to the end of as many names as there are calls, each call must be
\* the one named; and that is enough.
LEMMA WantsAll ==
    ASSUME NEW im, NEW callsOf, NEW calls, NEW n \in Nat, Len(calls) = n, NEW u, Wants(im, callsOf, calls, n, u)
    PROVE  u[n] = n <=> \A i \in 1 .. n : Named(im, callsOf, calls, i, i - 1)
<1>1. \A i \in 1 .. n : u[i] = Want(im, callsOf, calls, i, u[i - 1])
  BY DEF Wants
<1>2. u[0] = 0
  BY DEF Wants
<1>3. \A i, w : w \in Nat => Want(im, callsOf, calls, i, w) \in Nat /\ Want(im, callsOf, calls, i, w) <= w + 1
                             /\ w <= Want(im, callsOf, calls, i, w)
  BY DEF Want
<1>4. \A i \in 0 .. n : u[i] \in Nat /\ u[i] <= i
  <2> DEFINE T == {i \in 0 .. n : ~(u[i] \in Nat /\ u[i] <= i)}
  <2>1. CASE T = {}
    BY <2>1
  <2>2. CASE T # {}
    <3>1. T \in SUBSET Nat
      OBVIOUS
    <3>2. \E i \in T : \A y \in T : i <= y
      <4> HIDE DEF T
      <4> QED BY <2>2, <3>1, Least
    <3>3. PICK i \in T : \A y \in T : i <= y
      BY <3>2
    <3>4. i \in 1 .. n
      BY <1>2, <3>3
    <3>5. i - 1 \in 0 .. n /\ i - 1 \notin T
      BY <3>3, <3>4
    <3>6. PICK w : w = u[i - 1]
      OBVIOUS
    <3>7. w \in Nat /\ w <= i - 1 /\ u[i] = Want(im, callsOf, calls, i, w)
      BY <1>1, <3>4, <3>5, <3>6
    <3>8. u[i] \in Nat /\ u[i] <= w + 1
      BY <1>3, <3>7
    <3>9. u[i] <= i
      BY <3>4, <3>7, <3>8
    <3> QED BY <3>3, <3>8, <3>9
  <2> QED BY <2>1, <2>2
<1>5. ASSUME u[n] = n, NEW i \in 1 .. n PROVE Named(im, callsOf, calls, i, i - 1)
  <2>1. \A j \in 0 .. n : u[j] = j
    <3> DEFINE T == {d \in 0 .. n : u[n - d] # n - d}
    <3>1. CASE T = {}
      <4> SUFFICES ASSUME NEW j \in 0 .. n PROVE u[j] = j
        OBVIOUS
      <4>1. n - j \in 0 .. n /\ n - (n - j) = j
        OBVIOUS
      <4> QED BY <3>1, <4>1
    <3>2. CASE T # {}
      <4>1. T \in SUBSET Nat
        OBVIOUS
      <4>2. \E d \in T : \A y \in T : d <= y
        <5> HIDE DEF T
        <5> QED BY <3>2, <4>1, Least
      <4>3. PICK d \in T : \A y \in T : d <= y
        BY <4>2
      <4>4. d \in 1 .. n
        BY <1>5, <4>3
      <4>5. d - 1 \in 0 .. n /\ d - 1 \notin T
        BY <4>3, <4>4
      <4>6. PICK j \in 0 .. n : j = n - d
        BY <4>4
      <4>7. n - (d - 1) = j + 1 /\ j + 1 \in 1 .. n
        BY <4>4, <4>6
      <4>8. u[j + 1] = j + 1
        BY <4>5, <4>7
      <4>9. PICK w : w = u[j]
        OBVIOUS
      <4>10. u[j + 1] = Want(im, callsOf, calls, j + 1, w)
        <5>1. j + 1 - 1 = j
          BY <4>6
        <5> QED BY <1>1, <4>7, <4>9, <5>1
      <4>11. w \in Nat /\ w <= j
        BY <1>4, <4>9
      <4>12. j + 1 <= w + 1
        BY <1>3, <4>8, <4>10, <4>11
      <4>13. w = j
        BY <4>11, <4>12
      <4> QED BY <4>3, <4>6, <4>9, <4>13
    <3> QED BY <3>1, <3>2
  <2>2. u[i] = i /\ u[i - 1] = i - 1
    BY <2>1
  <2>3. Want(im, callsOf, calls, i, i - 1) = i
    BY <1>1, <2>2
  <2>4. i # i - 1
    OBVIOUS
  <2> QED BY <2>3, <2>4 DEF Want
<1>6. ASSUME \A i \in 1 .. n : Named(im, callsOf, calls, i, i - 1) PROVE u[n] = n
  <2> DEFINE T == {i \in 0 .. n : u[i] # i}
  <2>1. CASE T = {}
    BY <2>1
  <2>2. CASE T # {}
    <3>1. T \in SUBSET Nat
      OBVIOUS
    <3>2. \E i \in T : \A y \in T : i <= y
      <4> HIDE DEF T
      <4> QED BY <2>2, <3>1, Least
    <3>3. PICK i \in T : \A y \in T : i <= y
      BY <3>2
    <3>4. i \in 1 .. n
      BY <1>2, <3>3
    <3>5. i - 1 \in 0 .. n /\ i - 1 \notin T
      BY <3>3, <3>4
    <3>6. u[i - 1] = i - 1
      BY <3>5
    <3>7. u[i] = Want(im, callsOf, calls, i, i - 1)
      BY <1>1, <3>4, <3>6
    <3>8. i - 1 < Len(calls) /\ Named(im, callsOf, calls, i, i - 1) /\ (i - 1) + 1 = i
      BY <1>6, <3>4
    <3>9. u[i] = i
      BY <3>7, <3>8 DEF Want
    <3> QED BY <3>3, <3>9
  <2> QED BY <2>1, <2>2
<1> QED BY <1>5, <1>6

\* What is called by a name is a stub, in the text, and the seed if that is
\* the name searched for.
LEMMA NameIs ==
    ASSUME NEW im, WellMade(im), NEW c, c.name # Nil, NEW t, callee_is_named(im, t, c)
    PROVE  /\ t \in Text(im)
           /\ stub_for_name(im, c) # Nil => t = stub_for_name(im, c)
<1>1. CASE c.selector
  <2>1. t \in ObjcStubs(im) /\ objc_stub_selector(im, t) = c.name
    BY <1>1 DEF callee_is_named
  <2> DEFINE S == {x \in ObjcStubs(im) : objc_stub_selector(im, x) = c.name}
  <2>2. stub_for_name(im, c) = Sole(S)
    BY <1>1 DEF stub_for_name, objc_stub_for_selector
  <2>3. ObjcStubs(im) \in SUBSET Text(im)
    <3>1. PICK f \in Nat, n \in Nat : f = im.objc[1] /\ n = im.objc[2] /\ Words(f, n) \subseteq Text(im)
      BY DEF WellMade
    <3>2. Words(f, n - Word) \subseteq Words(f, n)
      BY DEF Words, Word
    <3> QED BY <3>1, <3>2 DEF ObjcStubs
  <2>4. IsFiniteSet(S)
    <3>1. S \in SUBSET Text(im)
      BY <2>3
    <3> HIDE DEF S
    <3> QED BY <3>1, TextIs, FS_Subset
  <2>5. t \in S
    BY <2>1
  <2> HIDE DEF S
  <2> QED BY <2>1, <2>2, <2>3, <2>4, <2>5, SoleIs
<1>2. CASE ~c.selector
  <2>1. t \in DOMAIN im.stubs /\ im.stubs[t] = c.name
    BY <1>2 DEF callee_is_named, np_import_stub_symbol
  <2> DEFINE S == {x \in DOMAIN im.stubs : im.stubs[x] = c.name}
  <2>2. stub_for_name(im, c) = Sole(S)
    BY <1>2 DEF stub_for_name, np_import_stub_for_symbol
  <2>3. DOMAIN im.stubs \in SUBSET Text(im)
    BY DEF WellMade
  <2>4. IsFiniteSet(S)
    <3>1. S \in SUBSET Text(im)
      BY <2>3
    <3> HIDE DEF S
    <3> QED BY <3>1, TextIs, FS_Subset
  <2>5. t \in S
    BY <2>1
  <2> HIDE DEF S
  <2> QED BY <2>1, <2>2, <2>3, <2>4, <2>5, SoleIs
<1> QED BY <1>1, <1>2

\* A function of the code with an end: all its addresses are of it.
LEMMA FunctionIs ==
    ASSUME NEW im, WellMade(im), NEW x \in Nat, np_function_bounds(im, x) # Nil, InCode(im, np_function_bounds(im, x))
    PROVE  \E f, n \in im.starts :
              /\ np_function_bounds(im, x) = <<f, n>> /\ f \in Nat /\ n \in Nat
              /\ np_function_bounds(im, f) = <<f, n>> /\ <<f, n>> \in BoundsOf(im)
              /\ \A y \in Words(f, n) : y \in Words(im.code[1], im.code[2]) /\ np_function_bounds(im, y) = <<f, n>>
              /\ Calls(im, f, n) \in SUBSET Nat /\ IsFiniteSet(Calls(im, f, n)) /\ Calls(im, f, n) \subseteq Words(f, n)
<1>1. PICK f \in im.starts, n \in im.starts :
              /\ np_function_bounds(im, x) = <<f, n>> /\ f <= x /\ x < n
              /\ \A s \in im.starts : s <= f \/ n <= s
  BY BoundsAre
<1>2. f \in Nat /\ n \in Nat /\ f < n
  BY <1>1 DEF WellMade
<1>3. np_function_bounds(im, f) = <<f, n>>
  BY <1>1, <1>2, SameBounds
<1>4. <<f, n>> # Nil /\ InCode(im, <<f, n>>)
  BY <1>1
<1>5. <<f, n>> \in BoundsOf(im)
  BY <1>3, <1>4 DEF BoundsOf
<1>6. ASSUME NEW y \in Words(f, n) PROVE y \in Words(im.code[1], im.code[2]) /\ np_function_bounds(im, y) = <<f, n>>
  <2>1. y \in Nat /\ f <= y /\ y < n /\ y % Word = 0
    BY <1>2 DEF Words
  <2>2. np_function_bounds(im, y) = <<f, n>>
    BY <1>1, <2>1, SameBounds
  <2>3. PICK c \in Nat, d \in Nat : c = im.code[1] /\ d = im.code[2]
    BY DEF WellMade
  <2>4. c <= f /\ n <= d
    BY <1>2, <1>4, <2>3 DEF InCode
  <2>5. y \in c .. d - 1
    BY <1>2, <2>1, <2>3, <2>4
  <2> QED BY <2>1, <2>2, <2>3, <2>5 DEF Words
<1>7. Calls(im, f, n) \subseteq Words(f, n)
  BY DEF Calls
<1>8. Calls(im, f, n) \in SUBSET Text(im)
  BY <1>6, <1>7, CodeIs
<1>9. IsFiniteSet(Calls(im, f, n)) /\ Calls(im, f, n) \in SUBSET Nat
  BY <1>8, TextIs, FS_Subset
<1> QED BY <1>1, <1>2, <1>3, <1>5, <1>6, <1>7, <1>9

\* A function of the code matches an exact anchor if it makes these calls
\* and no others.
LEMMA MatchMakes ==
    ASSUME NEW im, WellMade(im), NEW a, NamesCalls(a), a.exact,
           NEW f \in Nat, NEW n \in Nat, Calls(im, f, n) \in SUBSET Nat, IsFiniteSet(Calls(im, f, n))
    PROVE  body_matches_calls(im, f, n, a.calls, a.exact, a.no_data_refs) <=> Makes(im, <<f, n>>, a)
<1>1. PICK callsOf : callsOf = Calls(im, f, n)
  OBVIOUS
<1>2. PICK k \in Nat : k = Cardinality(callsOf)
  BY <1>1, FS_CardinalityType
<1>3. PICK calls : calls = a.calls
  OBVIOUS
<1>4. PICK u : /\ Wants(im, callsOf, calls, k, u)
               /\ body_matches_calls(im, f, n, calls, a.exact, a.no_data_refs) <=>
                     /\ \A x \in callsOf : InText(im, bl_target(im, x))
                     /\ a.no_data_refs => \A x \in Words(f, n) : im.insn[x].op # "adrp"
                     /\ a.exact => k = Len(calls) /\ \A x \in Words(f, n) : im.insn[x].op # "blr"
                     /\ u[k] = Len(calls)
  <2>1. PICK u : /\ Wants(im, Calls(im, f, n), calls, Cardinality(Calls(im, f, n)), u)
                 /\ body_matches_calls(im, f, n, calls, a.exact, a.no_data_refs)
                        <=> Conforms(im, f, n, calls, a.exact, a.no_data_refs, u)
    BY MatchIs
  <2>2. Conforms(im, f, n, calls, a.exact, a.no_data_refs, u) <=>
                     /\ \A x \in callsOf : InText(im, bl_target(im, x))
                     /\ a.no_data_refs => \A x \in Words(f, n) : im.insn[x].op # "adrp"
                     /\ a.exact => k = Len(calls) /\ \A x \in Words(f, n) : im.insn[x].op # "blr"
                     /\ u[k] = Len(calls)
    BY <1>1, <1>2, Zenon DEF Conforms
  <2> QED BY <1>1, <1>2, <2>1, <2>2
<1>5. Len(calls) \in Nat /\ DOMAIN calls = 1 .. Len(calls) /\ \A i \in DOMAIN calls : calls[i].name # Nil
  BY <1>3 DEF NamesCalls
<1>6. Makes(im, <<f, n>>, a) <=>
         /\ k = Len(calls)
         /\ \A i \in DOMAIN calls : callee_is_named(im, bl_target(im, Nth(callsOf, i)), calls[i])
         /\ \A x \in Words(f, n) : im.insn[x].op # "blr" /\ (a.no_data_refs => im.insn[x].op # "adrp")
  BY <1>1, <1>2, <1>3 DEF Makes
<1>7. ASSUME k = Len(calls)
      PROVE  u[k] = Len(calls)
                <=> \A i \in DOMAIN calls : callee_is_named(im, bl_target(im, Nth(callsOf, i)), calls[i])
  <2>1. u[k] = k <=> \A i \in 1 .. k : Named(im, callsOf, calls, i, i - 1)
    <3>1. Wants(im, callsOf, calls, k, u) /\ Len(calls) = k
      BY <1>4, <1>7
    <3> QED BY <3>1, WantsAll, SMTT(20)
  <2>2. \A i \in 1 .. k : Named(im, callsOf, calls, i, i - 1)
                            <=> callee_is_named(im, bl_target(im, Nth(callsOf, i)), calls[i])
    <3> SUFFICES ASSUME NEW i \in 1 .. k
                 PROVE  Named(im, callsOf, calls, i, i - 1)
                            <=> callee_is_named(im, bl_target(im, Nth(callsOf, i)), calls[i])
      OBVIOUS
    <3>1. (i - 1) + 1 = i
      OBVIOUS
    <3> QED BY <3>1 DEF Named
  <2> QED BY <1>5, <1>7, <2>1, <2>2
<1>8. ASSUME k = Len(calls), \A i \in DOMAIN calls : callee_is_named(im, bl_target(im, Nth(callsOf, i)), calls[i]),
             NEW x \in callsOf
      PROVE  InText(im, bl_target(im, x))
  <2>1. PICK i \in 1 .. k : Nth(callsOf, i) = x
    BY <1>1, <1>2, NthOf
  <2>2. PICK t : t = bl_target(im, x)
    OBVIOUS
  <2>3. callee_is_named(im, t, calls[i]) /\ calls[i].name # Nil
    BY <1>5, <1>8, <2>1, <2>2
  <2>4. t \in Text(im)
    BY <2>3, NameIs
  <2>5. PICK l \in Nat, h \in Nat : l = im.lo /\ h = im.hi /\ h % Word = 0 /\ t \in l .. h - 1 /\ t % Word = 0
    <3>1. im.hi % Word = 0
      BY DEF WellMade
    <3> QED BY <2>4, <3>1, TextIs
  <2>6. t >= l /\ t <= h - Word
    BY <2>5 DEF Word
  <2> QED BY <2>2, <2>5, <2>6 DEF InText
<1> QED BY <1>3, <1>4, <1>6, <1>7, <1>8

\* An exact anchor by calls leads to the function that makes them, and no
\* other does.
LEMMA CallsIsSole ==
    ASSUME NEW im, WellMade(im), NEW a, a.kind = "calls", NamesCalls(a), a.exact,
           NEW site, site # Nil, np_locate_anchor(im, a) = site
    PROVE  {b \in BoundsOf(im) : Makes(im, b, a)} = {np_function_bounds(im, site)}
<1>1. site = sole_fn_by_calls(im, a)
  BY DEF np_locate_anchor
<1>2. /\ site = Sole(Hits(im, a)) /\ a.calls # <<>> /\ Seed(im, a) # Nil
      /\ \A x \in From(im, a) : np_function_bounds(im, x) # Nil /\ InCode(im, np_function_bounds(im, x))
  BY <1>1, ByCallsIs
<1>3. \A x \in From(im, a) : x \in Nat /\ x \in Words(im.code[1], im.code[2])
  BY CodeIs DEF From
<1>4. Hits(im, a) = {site}
  <2>1. IsFiniteSet(From(im, a))
    <3>1. From(im, a) \in SUBSET Text(im)
      BY CodeIs DEF From
    <3> QED BY <3>1, TextIs, FS_Subset
  <2> DEFINE M == {x \in From(im, a) : Match(im, a, x)}
             first == [x \in M |-> np_function_bounds(im, x)[1]]
  <2>2. IsFiniteSet(M)
    <3>1. M \in SUBSET From(im, a)
      OBVIOUS
    <3> HIDE DEF M
    <3> QED BY <2>1, <3>1, FS_Subset
  <2>3. Hits(im, a) = {np_function_bounds(im, x)[1] : x \in M}
    BY DEF Hits
  <2> HIDE DEF M
  <2>4. first \in Surjection(M, Hits(im, a))
    BY <2>3 DEF Surjection
  <2>5. IsFiniteSet(Hits(im, a))
    <3> HIDE DEF first
    <3> QED BY <2>2, <2>4, FS_Surjection
  <2> QED BY <1>2, <2>5, SoleIs
<1>5. PICK x \in From(im, a) : Match(im, a, x) /\ np_function_bounds(im, x)[1] = site
  <2>1. site \in Hits(im, a)
    BY <1>4
  <2> QED BY <2>1 DEF Hits
<1>6. PICK f \in im.starts, n \in im.starts :
              /\ np_function_bounds(im, x) = <<f, n>> /\ f \in Nat /\ n \in Nat
              /\ np_function_bounds(im, f) = <<f, n>> /\ <<f, n>> \in BoundsOf(im)
              /\ Calls(im, f, n) \in SUBSET Nat /\ IsFiniteSet(Calls(im, f, n))
  BY <1>2, <1>3, <1>5, FunctionIs
<1>7. f = site /\ np_function_bounds(im, site) = <<f, n>>
  BY <1>5, <1>6
<1>8. Makes(im, <<f, n>>, a)
  <2>1. body_matches_calls(im, f, n, a.calls, a.exact, a.no_data_refs)
    <3>1. np_function_bounds(im, x)[1] = f /\ np_function_bounds(im, x)[2] = n
      BY <1>6
    <3>2. Match(im, a, x)
      BY <1>5
    <3> QED BY <3>1, <3>2, Zenon DEF Match
  <2> QED BY <1>6, <2>1, MatchMakes
<1>9. ASSUME NEW b \in BoundsOf(im), Makes(im, b, a) PROVE b = <<f, n>>
  <2>1. PICK e \in im.starts : b = np_function_bounds(im, e) /\ b # Nil /\ InCode(im, b)
    BY DEF BoundsOf
  <2>2. e \in Nat
    BY DEF WellMade
  <2>3. PICK g \in im.starts, m \in im.starts :
              /\ np_function_bounds(im, e) = <<g, m>> /\ g \in Nat /\ m \in Nat
              /\ np_function_bounds(im, g) = <<g, m>>
              /\ \A y \in Words(g, m) : y \in Words(im.code[1], im.code[2]) /\ np_function_bounds(im, y) = <<g, m>>
              /\ Calls(im, g, m) \in SUBSET Nat /\ IsFiniteSet(Calls(im, g, m)) /\ Calls(im, g, m) \subseteq Words(g, m)
    BY <2>1, <2>2, FunctionIs
  <2>4. b = <<g, m>>
    BY <2>1, <2>3
  <2>5. body_matches_calls(im, g, m, a.calls, a.exact, a.no_data_refs)
    BY <1>9, <2>3, <2>4, MatchMakes
  <2>6. PICK y : y = Nth(Calls(im, g, m), 1)
    OBVIOUS
  <2>7. Len(a.calls) \in Nat /\ DOMAIN a.calls = 1 .. Len(a.calls) /\ \A i \in DOMAIN a.calls : a.calls[i].name # Nil
    BY DEF NamesCalls
  <2>8. Cardinality(Calls(im, g, m)) = Len(a.calls)
        /\ \A i \in DOMAIN a.calls : callee_is_named(im, bl_target(im, Nth(Calls(im, g, m), i)), a.calls[i])
    BY <1>9, <2>4 DEF Makes
  <2>9. 1 \in DOMAIN a.calls
    <3>1. Len(a.calls) # 0
      BY <1>2, <2>7
    <3> QED BY <2>7, <3>1
  <2>10. bl_target(im, y) = Seed(im, a)
    <3>1. callee_is_named(im, bl_target(im, y), a.calls[1]) /\ a.calls[1].name # Nil
      BY <2>6, <2>7, <2>8, <2>9
    <3> QED BY <1>2, <3>1, NameIs DEF Seed
  <2>11. y \in Calls(im, g, m)
    <3>1. Calls(im, g, m) # {}
      <4>1. Cardinality(Calls(im, g, m)) # 0
        BY <2>7, <2>8, <2>9
      <4> QED BY <4>1, FS_EmptySet
    <3> QED BY <2>3, <2>6, <3>1, FirstIs
  <2>12. y \in From(im, a) /\ np_function_bounds(im, y) = <<g, m>>
    BY <2>3, <2>10, <2>11 DEF From
  <2>13. Match(im, a, y)
    <3>1. np_function_bounds(im, y)[1] = g /\ np_function_bounds(im, y)[2] = m
      BY <2>12
    <3> QED BY <2>5, <3>1, Zenon DEF Match
  <2>14. g \in Hits(im, a)
    <3>1. np_function_bounds(im, y)[1] = g
      BY <2>12
    <3> QED BY <2>12, <2>13, <3>1 DEF Hits
  <2>15. g = f
    BY <1>4, <1>7, <2>14
  <2> QED BY <1>6, <2>3, <2>4, <2>15
<1> QED BY <1>6, <1>7, <1>8, <1>9

\* A hook goes to the function its anchor describes, and there is no other:
\* in any image a compiler makes, for any database (cstring_va, xref_to_va,
\* sole_caller and sole_fn_by_calls of anchor.c).
THEOREM FoundIsTheOnly == InstallSpec => []FoundIsSole
<1>1. HookInv /\ SiteInv => FoundIsSole
  <2> SUFFICES ASSUME HookInv, SiteInv, NEW h \in hooks, NEW s \in Of(sigdb, h.module),
                      NEW im, im = image[h.module], NEW a, a = s.anchor,
                      a.kind \in {"string", "calls"}, a.nth_xref = 0, ~a.indirect,
                      np_locate_anchor(im, a) = h.site
               PROVE  SoleOf(im, a, h.site)
    BY DEF FoundIsSole
  <2>1. h.module \in Mods /\ im # Nil /\ h.site # Nil
    BY DEF SiteInv, PlacedAt
  <2>2. im \in machine.images[h.module] /\ machine \in Machines
    BY <2>1 DEF SiteInv, HookInv
  <2>3. WellMade(im)
    BY <2>1, <2>2, ResolverConstants, ModuleFacts DEF Mods
  <2>4. Sound(s)
    BY DatabaseIs DEF SiteInv, Of
  <2>5. CASE a.kind = "string"
    BY <2>1, <2>3, <2>5, StringIsSole
  <2>6. CASE a.kind = "calls"
    <3>1. NamesCalls(a)
      BY <2>4, <2>6 DEF Sound
    <3>2. a.exact => {b \in BoundsOf(im) : Makes(im, b, a)} = {np_function_bounds(im, h.site)}
      BY <2>1, <2>3, <2>6, <3>1, CallsIsSole
    <3> QED BY <2>6, <3>2 DEF SoleOf
  <2> QED BY <2>5, <2>6
<1>2. InstallInit => HookInv /\ SiteInv
  BY HookInit, SiteInit
<1>3. HookInv /\ SiteInv /\ [InstallNext]_installVars => (HookInv /\ SiteInv)'
  BY HookSteps, SiteSteps
<1> QED BY <1>1, <1>2, <1>3, PTL DEF InstallSpec

-----------------------------------------------------------------------------
(* Children of Steam.                                                      *)

Env(ins, b, compat) == [insert |-> ins, block |-> b, compat |-> compat]
Proc(env, own, blocks, placed, patched) ==
    [env |-> env, loaded |-> TRUE, insert |-> own, block |-> blocks, placed |-> placed, broken |-> patched]
No == FALSE
Yes == TRUE
Plainly(ins, b) == Env(ins, b, No)

(* With all functions hooked the process holds the entry and its           *)
(* environment does not; else both may, and the environment does.          *)
IsProc(p, b, own, blocks, placed, patched) ==
    IF placed = Apis
    THEN p = Proc(Plainly({}, b), {Dylib}, blocks, placed, patched) /\ (b => blocks)
    ELSE p = Proc(Plainly({Dylib}, b), own, blocks, placed, patched) /\ (placed # {} => own = {Dylib})

ProcOk(p) ==
    \E b \in BOOLEAN, own \in {{}, {Dylib}}, blocks \in BOOLEAN, placed \in SUBSET Apis :
       \E patched : IsProc(p, b, own, blocks, placed, patched)

Fresh(p) == \E b \in BOOLEAN : p = Process(Plainly({Dylib}, b))

ChildOk(c) ==
    c.all => IF np_target_keeps_insert(c.path) THEN Dylib \in c.env.insert
             ELSE /\ Dylib \notin c.env.insert
                  /\ c.path = "run" => c.env.insert = {}
                  /\ c.path = "game" => Overlay \in c.env.insert
                  /\ c.env.block => c.path = "opened"

ProcsInv ==
    /\ procs = [steam |-> procs.steam, helper |-> procs.helper]
    /\ phase = "start" => Fresh(procs.steam)
    /\ phase \in {"hook", "up"} => ProcOk(procs.steam)
    /\ procs.steam = None \/ ProcOk(procs.steam)
    /\ procs.helper = None \/ ProcOk(procs.helper)
    /\ child = None \/ ChildOk(child)

ChainInv == world \in Worlds /\ ProcsInv

\* The fields of an environment.
LEMMA EnvHas ==
    ASSUME NEW a, NEW b, NEW c
    PROVE  Env(a, b, c).insert = a /\ Env(a, b, c).block = b /\ Env(a, b, c).compat = c
BY DEF Env

\* The fields of a process.
LEMMA ProcHas ==
    ASSUME NEW e, NEW o, NEW b, NEW p, NEW k
    PROVE  /\ Proc(e, o, b, p, k).env = e /\ Proc(e, o, b, p, k).insert = o
           /\ Proc(e, o, b, p, k).block = b /\ Proc(e, o, b, p, k).placed = p
BY DEF Proc

(* The updates of an environment and of a process.                         *)
Inserted(e, x) == [e EXCEPT !.insert = x]
Taken(p, x) == [p EXCEPT !.env.insert = x]
Unblocked(e, x, y) == [e EXCEPT !.insert = x, !.block = y]
ForTool(e, x, y) == [e EXCEPT !.insert = x, !.compat = y]
HooksIn(p, x, y, z, k) == [p EXCEPT !.insert = x, !.block = y, !.placed = z, !.broken = k]

\* An environment with another entry.
LEMMA EnvInsert ==
    ASSUME NEW a, NEW b, NEW c, NEW x
    PROVE  Inserted(Env(a, b, c), x) = Env(x, b, c)
<1> DEFINE R(i, k, m) == [insert : {i}, block : {k}, compat : {m}]
           p == [Env(a, b, c) EXCEPT !.insert = x]
<1>1. p \in R(x, b, c)
  BY DEF Env
<1> HIDE DEF p
<1>2. p = Env(x, b, c)
  BY <1>1 DEF Env
<1> QED BY <1>2 DEF p, Inserted

\* An environment with another entry and another block list.
LEMMA EnvUnblocked ==
    ASSUME NEW a, NEW b, NEW c, NEW x, NEW y
    PROVE  Unblocked(Env(a, b, c), x, y) = Env(x, y, c)
<1> DEFINE R(i, k, m) == [insert : {i}, block : {k}, compat : {m}]
           q == [Env(a, b, c) EXCEPT !.insert = x, !.block = y]
<1>1. q \in R(x, y, c)
  BY DEF Env
<1> HIDE DEF q
<1>2. q = Env(x, y, c)
  BY <1>1 DEF Env
<1> QED BY <1>2 DEF q, Unblocked

\* An environment with another entry, of a game under a tool.
LEMMA EnvForTool ==
    ASSUME NEW a, NEW b, NEW c, NEW x, NEW y
    PROVE  ForTool(Env(a, b, c), x, y) = Env(x, b, y)
<1> DEFINE R(i, k, m) == [insert : {i}, block : {k}, compat : {m}]
           r == [Env(a, b, c) EXCEPT !.insert = x, !.compat = y]
<1>1. r \in R(x, b, y)
  BY DEF Env
<1> HIDE DEF r
<1>2. r = Env(x, b, y)
  BY <1>1 DEF Env
<1> QED BY <1>2 DEF r, ForTool

\* A process with other hooks.
LEMMA ProcHooks ==
    ASSUME NEW e, NEW o, NEW b, NEW p, NEW k0, NEW x, NEW y, NEW z, NEW k
    PROVE  HooksIn(Proc(e, o, b, p, k0), x, y, z, k) = Proc(e, x, y, z, k)
<1> DEFINE R(i, m, n, u, v) == [env : {i}, loaded : {TRUE}, insert : {m}, block : {n}, placed : {u}, broken : {v}]
           q == [Proc(e, o, b, p, k0) EXCEPT !.insert = x, !.block = y, !.placed = z, !.broken = k]
<1>1. q \in R(e, x, y, z, k)
  BY DEF Proc
<1> HIDE DEF q
<1>2. q = Proc(e, x, y, z, k)
  BY <1>1 DEF Proc
<1> QED BY <1>2 DEF q, HooksIn

\* A process with another entry in its environment.
LEMMA ProcEnv ==
    ASSUME NEW e, NEW o, NEW b, NEW p, NEW k, NEW x
    PROVE  Taken(Proc(e, o, b, p, k), x) = Proc(Inserted(e, x), o, b, p, k)
<1> DEFINE R(i, m, n, u, v) == [env : {i}, loaded : {TRUE}, insert : {m}, block : {n}, placed : {u}, broken : {v}]
           q == [Proc(e, o, b, p, k) EXCEPT !.env.insert = x]
<1>1. q \in R([e EXCEPT !.insert = x], o, b, p, k)
  BY DEF Proc
<1> HIDE DEF q
<1>2. q = Proc([e EXCEPT !.insert = x], o, b, p, k)
  BY <1>1 DEF Proc
<1> QED BY <1>2 DEF q, Taken, Inserted

\* np_hooks_spawn_install: whichever hooks fail, the process or its
\* environment keeps the entry.
LEMMA InstallKeeps ==
    ASSUME NEW p, Fresh(p), NEW placed \in SUBSET Apis, NEW patched, NEW disabled
    PROVE  ProcOk(p) /\ ProcOk(np_hooks_spawn_install(p, placed, patched, disabled))
<1>1. PICK b \in BOOLEAN : p = Process(Plainly({Dylib}, b))
  BY DEF Fresh
<1> DEFINE e == Plainly({Dylib}, b)
<1>2. e.insert = {Dylib} /\ e.block = b
  BY EnvHas DEF Plainly
<1>3. p = Proc(e, {}, No, {}, {})
  <2>1. (Dylib \in e.insert) = TRUE
    BY <1>2
  <2> HIDE DEF e
  <2> QED BY <1>1, <2>1 DEF Process, Proc, e, No
<1>4. {} # Apis /\ {Dylib} # {}
  BY DEF Apis
<1>5. ProcOk(p)
  <2>1. IsProc(p, b, {}, No, {}, {}) /\ No \in BOOLEAN
    BY <1>3, <1>4 DEF IsProc, No
  <2> QED BY <2>1 DEF ProcOk
<1>6. CASE disabled
  BY <1>5, <1>6 DEF np_hooks_spawn_install
<1>7. CASE ~disabled
  <2> DEFINE q == Proc(e, {Dylib}, b, placed, patched)
  <2>1. p.env = e
    BY <1>3, ProcHas
  <2>2. HooksIn(p, p.env.insert, p.env.block, placed, patched) = q
    BY <1>2, <1>3, <2>1, ProcHooks
  <2>3. np_take_insert(q) = Proc(Plainly({}, b), {Dylib}, b, placed, patched)
    <3>1. q.insert = {Dylib} /\ Taken(q, {}) = Proc(Inserted(e, {}), {Dylib}, b, placed, patched)
      BY ProcHas, ProcEnv
    <3>2. Inserted(e, {}) = Plainly({}, b)
      BY EnvInsert DEF Plainly
    <3> QED BY <1>4, <3>1, <3>2 DEF np_take_insert, Taken
  <2>4. np_hooks_spawn_install(p, placed, patched, disabled)
          = IF placed = Apis THEN Proc(Plainly({}, b), {Dylib}, b, placed, patched) ELSE q
    <3> HIDE DEF q
    <3> QED BY <1>7, <2>2, <2>3 DEF np_hooks_spawn_install, AllPlaced, HooksIn
  <2>5. IsProc(np_hooks_spawn_install(p, placed, patched, disabled), b, {Dylib}, b, placed, patched)
    <3>1. CASE placed = Apis
      BY <2>4, <3>1 DEF IsProc
    <3>2. CASE placed # Apis
      BY <2>4, <3>2 DEF IsProc
    <3> QED BY <3>1, <3>2
  <2>6. {Dylib} \in {{}, {Dylib}}
    OBVIOUS
  <2> QED BY <1>5, <2>5, <2>6 DEF ProcOk
<1> QED BY <1>5, <1>6, <1>7

\* np_spawn_filtered: an image of Steam and a Steam Helper get the entry.
LEMMA KeepsInsert ==
    ASSUME NEW p, ProcOk(p), NEW api \in Apis, NEW path, np_target_keeps_insert(path)
    PROVE  \E b \in BOOLEAN : ChildEnv(p, api, path, p.env) = Plainly({Dylib}, b)
<1>0. PICK b \in BOOLEAN, own \in {{}, {Dylib}}, blocks \in BOOLEAN, placed \in SUBSET Apis :
         \E patched : IsProc(p, b, own, blocks, placed, patched)
  BY DEF ProcOk
<1>1. PICK patched : IsProc(p, b, own, blocks, placed, patched)
  BY <1>0
<1>2. CASE placed = Apis
  <2>1. p.placed = Apis /\ p.insert = {Dylib} /\ p.env = Plainly({}, b)
    BY <1>1, <1>2, ProcHas DEF IsProc
  <2>2. Plainly({}, b).insert = {} /\ Inserted(Plainly({}, b), {Dylib}) = Plainly({Dylib}, b)
    BY EnvHas, EnvInsert DEF Plainly
  <2>3. np_with_insert(p, p.env) = Plainly({Dylib}, b)
    BY <2>1, <2>2 DEF np_with_insert, Inserted
  <2> QED BY <2>1, <2>3 DEF ChildEnv
<1>3. CASE placed # Apis
  <2>1. p.env = Plainly({Dylib}, b) /\ Plainly({Dylib}, b).insert = {Dylib}
    BY <1>1, <1>3, ProcHas, EnvHas DEF Plainly, IsProc
  <2>2. np_with_insert(p, p.env) = Plainly({Dylib}, b)
    BY <2>1 DEF np_with_insert
  <2> QED BY <2>1, <2>2 DEF ChildEnv
<1> QED BY <1>2, <1>3

\* np_without_insert, in a process that holds the entry.
LEMMA Without ==
    ASSUME NEW p, p.insert = {Dylib}, NEW a, NEW b, NEW c, b => p.block,
           NEW x, x = IF c THEN {} ELSE a \ {Dylib}
    PROVE  \E y : np_without_insert(p, Env(a, b, c)) = Env(x, y, c) /\ ~y
<1> DEFINE e == Env(a, b, c)
           y == e.block /\ ~p.block
<1>1. e.insert = a /\ e.block = b /\ e.compat = c
  BY EnvHas
<1>2. (IF e.compat THEN {} ELSE e.insert \ {Dylib}) = x
  BY <1>1
<1>3. ~y
  BY <1>1
<1>4. np_without_insert(p, e) = Unblocked(e, x, y)
  <2>1. ~(p.insert = {} /\ ~p.block)
    OBVIOUS
  <2> QED BY <1>2, <2>1 DEF np_without_insert, Unblocked
<1> HIDE DEF y
<1>5. np_without_insert(p, e) = Env(x, y, c)
  BY <1>4, EnvUnblocked
<1> QED BY <1>3, <1>5

\* np_spawn_filtered, np_without_insert: what is started is ChildOk.
LEMMA StartsOk ==
    ASSUME NEW p, ProcOk(p), NEW api, NEW path,
           path = "opened" => api = "LaunchServices", path # "opened" => api \in Apis
    PROVE  ChildOk([path |-> path, api |-> api, given |-> Given(p, path),
                    env |-> ChildEnv(p, api, path, Given(p, path)), all |-> p.placed = Apis])
<1>1. CASE p.placed # Apis
  BY <1>1 DEF ChildOk
<1>2. CASE p.placed = Apis
  <2>0. PICK b \in BOOLEAN, blocks \in BOOLEAN :
           \E patched : p = Proc(Plainly({}, b), {Dylib}, blocks, Apis, patched) /\ (b => blocks)
    BY <1>2, ProcHas DEF ProcOk, IsProc
  <2>1. PICK patched : p = Proc(Plainly({}, b), {Dylib}, blocks, Apis, patched) /\ (b => blocks)
    BY <2>0
  <2>2. p.insert = {Dylib} /\ p.block = blocks /\ p.env = Plainly({}, b)
    BY <2>1, ProcHas
  <2>3. CASE np_target_keeps_insert(path)
    <3>1. Given(p, path) = p.env /\ api \in Apis
      BY <2>3 DEF Given, np_target_keeps_insert
    <3>2. PICK c \in BOOLEAN : ChildEnv(p, api, path, p.env) = Plainly({Dylib}, c)
      BY <2>3, <3>1, KeepsInsert
    <3> QED BY <2>3, <3>1, <3>2, EnvHas DEF ChildOk, Plainly
  <2>4. CASE path = "opened"
    <3>1. api \notin Apis /\ Given(p, path) = p.env /\ ~np_target_keeps_insert(path)
      BY <2>4 DEF Apis, Given, np_target_keeps_insert
    <3>2. ChildEnv(p, api, path, p.env) = Plainly({}, b)
      BY <1>2, <2>2, <3>1 DEF ChildEnv
    <3> QED BY <2>4, <3>1, <3>2, EnvHas DEF ChildOk, Plainly
  <2>5. CASE ~np_target_keeps_insert(path) /\ path # "opened"
    <3>1. ChildEnv(p, api, path, Given(p, path)) = np_without_insert(p, Given(p, path))
      BY <1>2, <2>5 DEF ChildEnv
    <3>2. CASE path = "game"
      <4>1. Given(p, path) = Env({Overlay}, b, No)
        <5>1. Given(p, path) = Inserted(p.env, p.env.insert \cup {Overlay})
          BY <3>2 DEF Given, Inserted
        <5> DEFINE g == p.env.insert \cup {Overlay}
        <5>2. g = {Overlay} /\ p.env = Env({}, b, No)
          BY <2>2, EnvHas DEF Plainly
        <5> HIDE DEF g
        <5>3. Inserted(Env({}, b, No), g) = Env(g, b, No)
          BY EnvInsert
        <5> QED BY <5>1, <5>2, <5>3 DEF g
      <4>2. PICK y : np_without_insert(p, Given(p, path)) = Env({Overlay} \ {Dylib}, y, No) /\ ~y
        <5> DEFINE x == {Overlay} \ {Dylib}
        <5>1. x = IF No THEN {} ELSE {Overlay} \ {Dylib}
          BY DEF No
        <5>2. p.insert = {Dylib} /\ (b => p.block)
          BY <2>1, <2>2
        <5> HIDE DEF x
        <5>3. \E y : np_without_insert(p, Given(p, path)) = Env(x, y, No) /\ ~y
          BY <4>1, <5>1, <5>2, Without
        <5> QED BY <5>3 DEF x
      <4> QED BY <2>5, <3>1, <3>2, <4>2, ChainConstants, EnvHas DEF ChildOk
    <3>3. CASE path = "run"
      <4>1. Given(p, path) = Env({Overlay}, b, Yes)
        <5>1. Given(p, path) = ForTool(p.env, p.env.insert \cup {Overlay}, Yes)
          BY <3>3 DEF Given, ForTool, Yes
        <5>2. {} \cup {Overlay} = {Overlay}
          OBVIOUS
        <5> QED BY <2>2, <5>1, <5>2, EnvHas, EnvForTool DEF Plainly
      <4>2. PICK y : np_without_insert(p, Given(p, path)) = Env({}, y, Yes) /\ ~y
        <5>1. {} = IF Yes THEN {} ELSE {Overlay} \ {Dylib}
          BY DEF Yes
        <5>2. p.insert = {Dylib} /\ (b => p.block)
          BY <2>1, <2>2
        <5>3. \E y : np_without_insert(p, Given(p, path)) = Env({}, y, Yes) /\ ~y
          BY <4>1, <5>1, <5>2, Without
        <5> QED BY <5>3
      <4> QED BY <2>5, <3>1, <3>3, <4>2, EnvHas DEF ChildOk
    <3>4. CASE path \notin {"game", "run"}
      <4>1. Given(p, path) = Env({}, b, No)
        BY <2>2, <3>4 DEF Given, Plainly
      <4>2. PICK y : np_without_insert(p, Given(p, path)) = Env({} \ {Dylib}, y, No) /\ ~y
        <5>1. {} \ {Dylib} = IF No THEN {} ELSE {} \ {Dylib}
          BY DEF No
        <5>2. p.insert = {Dylib} /\ (b => p.block)
          BY <2>1, <2>2
        <5>3. \E y : np_without_insert(p, Given(p, path)) = Env({} \ {Dylib}, y, No) /\ ~y
          BY <4>1, <5>1, <5>2, Without
        <5> QED BY <5>3
      <4> QED BY <2>5, <3>1, <3>4, <4>2, EnvHas DEF ChildOk
    <3> QED BY <3>2, <3>3, <3>4
  <2> QED BY <2>3, <2>4, <2>5
<1> QED BY <1>1, <1>2

\* A process the next image of Steam becomes is fresh.
LEMMA NextImage ==
    ASSUME NEW who, ProcOk(procs[who]), NEW api \in Apis, NEW path, np_target_keeps_insert(path)
    PROVE  Fresh(Process(Starts(who, api, path).env)) /\ ChildOk(Starts(who, api, path))
<1>1. path # "opened" /\ Given(procs[who], path) = procs[who].env
  BY DEF np_target_keeps_insert, Given
<1>2. ChildOk(Starts(who, api, path))
  BY <1>1, StartsOk DEF Starts
<1>3. PICK b \in BOOLEAN : ChildEnv(procs[who], api, path, procs[who].env) = Plainly({Dylib}, b)
  BY KeepsInsert
<1>4. Starts(who, api, path).env = Plainly({Dylib}, b)
  BY <1>1, <1>3 DEF Starts
<1> QED BY <1>2, <1>4 DEF Fresh

\* A start of an image with the entry.
LEMMA BeginKeeps ==
    ASSUME ChainInv, NEW p, Fresh(p), Begin(p), child' = None \/ ChildOk(child')
    PROVE  ChainInv'
<1>1. ProcOk(p)
  <2>1. {} \in SUBSET Apis
    OBVIOUS
  <2> QED BY <2>1, InstallKeeps
<1>2. procs' = [steam |-> p, helper |-> None] /\ phase' \in {"start", "bare"} /\ world' = world
  BY DEF Begin
<1>3. procs'.steam = p /\ procs'.helper = None
  BY <1>2
<1> QED BY <1>1, <1>2, <1>3 DEF ChainInv, ProcsInv

\* np_init, np_spawn_filtered: the processes of Steam keep the entry.
LEMMA ChainStep == ChainInv /\ [Next]_vars => ChainInv'
<1> SUFFICES ASSUME ChainInv, [Next]_vars PROVE ChainInv'
  OBVIOUS
<1> USE DEF ChainInv, ProcsInv
<1>1. CASE UNCHANGED vars
  BY <1>1 DEF vars
<1>2. CASE AppStartsSteam
  <2>1. Fresh(Process([insert |-> {Dylib}, block |-> TRUE, compat |-> FALSE]))
    <3>1. [insert |-> {Dylib}, block |-> TRUE, compat |-> FALSE] = Plainly({Dylib}, Yes) /\ Yes \in BOOLEAN
      BY DEF Plainly, Env, Yes, No
    <3> QED BY <3>1 DEF Fresh
  <2> QED BY <1>2, <2>1, BeginKeeps DEF AppStartsSteam
<1>3. CASE StartStep
  BY <1>3 DEF StartStep
<1>4. CASE InstallSpawn
  <2>1. PICK placed \in world.placed, patched \in SUBSET Apis :
          procs' = [procs EXCEPT !.steam = np_hooks_spawn_install(@, placed, patched, world.disabled)]
    BY <1>4 DEF InstallSpawn, PlaceSpawn, Breakable
  <2> DEFINE p == np_hooks_spawn_install(procs.steam, placed, patched, world.disabled)
  <2>2. placed \in SUBSET Apis /\ Fresh(procs.steam)
    BY <1>4, <2>1, WorldConstants DEF InstallSpawn
  <2>3. ProcOk(p)
    BY <2>2, InstallKeeps
  <2>4. procs'.steam = p /\ procs'.helper = procs.helper /\ procs' = [steam |-> procs'.steam, helper |-> procs'.helper]
    <3> HIDE DEF p
    <3>1. procs' = [procs EXCEPT !.steam = p]
      BY <2>1 DEF p
    <3> QED BY <3>1
  <2>5. phase' = "hook" /\ child' = child /\ world' = world
    BY <1>4 DEF InstallSpawn, PlaceSpawn
  <2> QED BY <2>3, <2>4, <2>5
<1>5. CASE ManagerComes
  BY <1>5 DEF ManagerComes
<1>6. CASE Kill
  <2>1. procs' = [steam |-> None, helper |-> None] /\ child' = None /\ phase' = "off" /\ world' = world
    BY <1>6 DEF Kill
  <2>2. procs'.steam = None /\ procs'.helper = None
    BY <2>1
  <2> QED BY <2>1, <2>2
<1>7. CASE ListChanges
  BY <1>7 DEF ListChanges
<1>8. CASE \E who \in {"steam", "helper"} : Spawn(who)
  <2>1. PICK who \in {"steam", "helper"} : Spawn(who)
    BY <1>8
  <2>2. ProcOk(procs[who])
    BY <2>1 DEF Spawn
  <2>3. PICK path \in SpawnPaths[who], api \in Apis :
          child' = Starts(who, IF path = "opened" THEN "LaunchServices" ELSE api, path)
    BY <2>1 DEF Spawn
  <2>4. ChildOk(child')
    BY <2>2, <2>3, StartsOk DEF Starts
  <2> QED BY <2>1, <2>4 DEF Spawn
<1>9. CASE StartHelper
  <2>1. PICK api \in Apis, placed \in world.placed, patched \in SUBSET Apis :
          LET c == Starts("steam", api, "Steam Helper")
              p == Process(c.env)
          IN  /\ child' = c
              /\ procs' = [procs EXCEPT !.helper =
                             IF p.loaded THEN np_hooks_spawn_install(p, placed, patched, world.disabled) ELSE p]
    BY <1>9 DEF StartHelper, Breakable
  <2> DEFINE c == Starts("steam", api, "Steam Helper")
             p == Process(c.env)
             h == IF p.loaded THEN np_hooks_spawn_install(p, placed, patched, world.disabled) ELSE p
  <2>2. ProcOk(procs["steam"]) /\ np_target_keeps_insert("Steam Helper") /\ placed \in SUBSET Apis
    BY <1>9, WorldConstants DEF StartHelper, np_target_keeps_insert
  <2>3. Fresh(p) /\ ChildOk(c)
    BY <2>2, NextImage
  <2>4. ProcOk(h)
    BY <2>2, <2>3, InstallKeeps
  <2>5. child' = c /\ procs' = [procs EXCEPT !.helper = h]
    BY <2>1
  <2> HIDE DEF c, p, h
  <2>6. procs'.steam = procs.steam /\ procs'.helper = h /\ procs' = [steam |-> procs'.steam, helper |-> procs'.helper]
    BY <2>5
  <2>7. phase' = phase /\ world' = world
    BY <1>9 DEF StartHelper
  <2> QED BY <2>3, <2>4, <2>5, <2>6, <2>7
<1>10. CASE ReExec
  <2>1. PICK api \in Apis : /\ child' = Starts("steam", api, "steam_osx")
                            /\ Begin(Process(Starts("steam", api, "steam_osx").env))
    BY <1>10 DEF ReExec
  <2>2. ProcOk(procs["steam"]) /\ np_target_keeps_insert("steam_osx")
    BY <1>10 DEF ReExec, np_target_keeps_insert
  <2>3. /\ Fresh(Process(Starts("steam", api, "steam_osx").env))
        /\ ChildOk(Starts("steam", api, "steam_osx"))
    BY <2>2, NextImage
  <2> QED BY <2>1, <2>3, BeginKeeps
<1>11. CASE \E t \in Threads : Query(t) \/ Claim(t) \/ RegisterTool(t)
  BY <1>11 DEF Query, Claim, RegisterTool
<1>12. CASE \/ TurnedOff \/ AskPage \/ Specify \/ np_compatsvc_state_changed
            \/ RunCommand \/ \E app \in Apps : Launch(app)
  BY <1>12 DEF TurnedOff, AskPage, Specify, np_compatsvc_state_changed, RunCommand, Launch
<1>13. CASE HelperCrashes
  <2>1. procs' = [procs EXCEPT !.helper = None] /\ UNCHANGED <<world, phase, child>>
    BY <1>13 DEF HelperCrashes
  <2>2. procs'.steam = procs.steam /\ procs'.helper = None /\ procs' = [steam |-> procs'.steam, helper |-> procs'.helper]
    BY <2>1
  <2> QED BY <2>1, <2>2
<1> QED BY <1>1, <1>2, <1>3, <1>4, <1>5, <1>6, <1>7, <1>8, <1>9, <1>10, <1>11, <1>12, <1>13 DEF Next

\* np_hooks_spawn_install, np_spawn_filtered: every image of Steam and every
\* main Steam Helper has the dylib, whichever hooks fail; with all hooks in
\* place nothing else that Steam starts has it.
THEOREM ChainIsHeld == Spec => []ChainHolds
<1>1. Init => ChainInv
  <2> SUFFICES ASSUME Init PROVE ChainInv
    OBVIOUS
  <2>1. procs = [steam |-> None, helper |-> None] /\ child = None /\ phase = "off" /\ world \in Worlds
    BY DEF Init
  <2>2. procs.steam = None /\ procs.helper = None
    BY <2>1
  <2> QED BY <2>1, <2>2 DEF ChainInv, ProcsInv
<1>2. ChainInv => ChainHolds
  <2> SUFFICES ASSUME ChainInv PROVE ChainHolds
    OBVIOUS
  <2>1. \A p : ProcOk(p) => p.loaded
    BY DEF ProcOk, IsProc, Proc
  <2> QED BY <2>1 DEF ChainInv, ProcsInv, ChildOk, ChainHolds
<1> QED BY <1>1, <1>2, ChainStep, PTL DEF Spec

-----------------------------------------------------------------------------
(* The list of tools.                                                      *)

(* One more line, as np_compat_load_tool_list reads it.                    *)
WithLine(tl, line) == IF parse_tool_line(line) /\ line.name \notin Names(tl) THEN Append(tl, line) ELSE tl
Reads(lines, n, u) ==
    /\ DOMAIN u = 0 .. n /\ u = [i \in DOMAIN u |-> u[i]]
    /\ u[0] = <<>> /\ \A i \in 1 .. n : u[i] = WithLine(u[i - 1], lines[i])

(* Tools of different names, all of them lines of the list.                *)
IsList(tl, lines) ==
    /\ tl \in Seq({lines[i] : i \in DOMAIN lines})
    /\ \A i \in DOMAIN tl : parse_tool_line(tl[i])
    /\ \A i, j \in DOMAIN tl : tl[i].name = tl[j].name => i = j

\* Lines can be read one after the other.
LEMMA ReadsExist ==
    ASSUME NEW lines, NEW n \in Nat
    PROVE  \E u : Reads(lines, n, u)
<1> DEFINE T == {m \in 0 .. n : ~\E u : Reads(lines, m, u)}
<1>1. CASE T = {}
  BY <1>1
<1>2. CASE T # {}
  <2>1. \E m \in T : \A y \in T : m <= y
    <3>1. T \in SUBSET Nat
      OBVIOUS
    <3> HIDE DEF T
    <3> QED BY <1>2, <3>1, Least
  <2>2. PICK m \in T : \A y \in T : m <= y
    BY <2>1
  <2>3. m # 0
    <3> DEFINE z == [i \in 0 .. 0 |-> <<>>]
    <3>1. DOMAIN z = 0 .. 0 /\ z[0] = <<>> /\ z = [i \in DOMAIN z |-> z[i]] /\ 1 .. 0 = {}
      OBVIOUS
    <3> HIDE DEF z
    <3>2. Reads(lines, 0, z)
      BY <3>1 DEF Reads
    <3> QED BY <2>2, <3>2
  <2>4. m - 1 \in 0 .. n /\ m - 1 \notin T
    BY <2>2, <2>3
  <2>5. PICK u : Reads(lines, m - 1, u)
    BY <2>4
  <2> DEFINE v == [i \in 0 .. m |-> IF i = m THEN WithLine(u[m - 1], lines[m]) ELSE u[i]]
  <2>6. m \in 1 .. n
    BY <2>2, <2>3
  <2>7. Reads(lines, m, v)
    <3>1. DOMAIN v = 0 .. m /\ v = [i \in DOMAIN v |-> v[i]] /\ v[0] = <<>>
      BY <2>5, <2>6 DEF Reads
    <3>2. \A i \in 1 .. m : v[i] = WithLine(v[i - 1], lines[i])
      BY <2>5, <2>6 DEF Reads
    <3> HIDE DEF v
    <3> QED BY <3>1, <3>2 DEF Reads
  <2> QED BY <2>2, <2>7
<1> QED BY <1>1, <1>2

\* A line more, or none, leaves a list.
LEMMA LineAdds ==
    ASSUME NEW lines, NEW tl, IsList(tl, lines), NEW i \in DOMAIN lines
    PROVE  IsList(WithLine(tl, lines[i]), lines)
<1> DEFINE S == {lines[k] : k \in DOMAIN lines}
           line == lines[i]
<1>1. tl \in Seq(S) /\ line \in S
  BY DEF IsList
<1>2. CASE parse_tool_line(line) /\ line.name \notin Names(tl)
  <2>1. WithLine(tl, line) = Append(tl, line)
    BY <1>2 DEF WithLine
  <2> HIDE DEF S, line
  <2> DEFINE a == Append(tl, line)
  <2>2. a \in Seq(S) /\ DOMAIN a = 1 .. Len(tl) + 1 /\ a[Len(tl) + 1] = line /\ DOMAIN tl = 1 .. Len(tl)
        /\ Len(tl) \in Nat /\ \A k \in DOMAIN tl : a[k] = tl[k]
    BY <1>1
  <2> HIDE DEF a
  <2>3. \A k \in DOMAIN a : k = Len(tl) + 1 \/ k \in DOMAIN tl
    BY <2>2
  <2>4. \A k \in DOMAIN a : parse_tool_line(a[k])
    BY <1>2, <2>2, <2>3 DEF IsList
  <2>5. \A k \in DOMAIN tl : tl[k].name # line.name
    BY <1>2 DEF Names
  <2>6. ASSUME NEW k \in DOMAIN a, NEW j \in DOMAIN a, a[k].name = a[j].name PROVE k = j
    BY <2>2, <2>3, <2>5, <2>6 DEF IsList
  <2>7. IsList(a, lines)
    BY <2>2, <2>4, <2>6 DEF IsList, S
  <2> QED BY <2>1, <2>7 DEF a, line
<1>3. CASE ~(parse_tool_line(line) /\ line.name \notin Names(tl))
  BY <1>3 DEF WithLine
<1> QED BY <1>2, <1>3

\* np_compat_load_tool_list: the tools it yields have different names and are
\* lines that parse.
LEMMA ListIs ==
    ASSUME NEW lines \in Lists
    PROVE  /\ lines = Missing => np_compat_load_tool_list(lines) = <<>>
           /\ lines # Missing => IsList(np_compat_load_tool_list(lines), lines)
<1>1. CASE lines = Missing
  BY <1>1 DEF np_compat_load_tool_list
<1>2. CASE lines # Missing
  <2> DEFINE n == Len(lines)
             kept == CHOOSE k : k = [i \in 0 .. n |->
                        IF i = 0 THEN <<>>
                        ELSE IF parse_tool_line(lines[i]) /\ lines[i].name \notin Names(k[i - 1])
                             THEN Append(k[i - 1], lines[i]) ELSE k[i - 1]]
  <2>1. np_compat_load_tool_list(lines) = kept[n]
    BY <1>2, Zenon DEF np_compat_load_tool_list
  <2>2. n \in Nat /\ DOMAIN lines = 1 .. n
    BY <1>2, ListConstants
  <2>3. PICK u : Reads(lines, n, u)
    BY <2>2, ReadsExist
  <2>4. u = [i \in 0 .. n |-> IF i = 0 THEN <<>>
                              ELSE IF parse_tool_line(lines[i]) /\ lines[i].name \notin Names(u[i - 1])
                                   THEN Append(u[i - 1], lines[i]) ELSE u[i - 1]]
    <3> DEFINE F(i) == IF i = 0 THEN <<>>
                       ELSE IF parse_tool_line(lines[i]) /\ lines[i].name \notin Names(u[i - 1])
                            THEN Append(u[i - 1], lines[i]) ELSE u[i - 1]
    <3>1. ASSUME NEW i \in 1 .. n PROVE u[i] = F(i)
      <4>1. u[i] = WithLine(u[i - 1], lines[i]) /\ i # 0
        BY <2>2, <2>3 DEF Reads
      <4> QED BY <4>1 DEF WithLine
    <3>2. ASSUME NEW i \in 0 .. n PROVE u[i] = F(i)
      <4>1. CASE i = 0
        BY <2>3, <4>1 DEF Reads
      <4>2. CASE i # 0
        <5>1. i \in 1 .. n
          BY <2>2, <4>2
        <5> QED BY <3>1, <5>1
      <4> QED BY <4>1, <4>2
    <3>3. u = [i \in 0 .. n |-> u[i]]
      BY <2>3 DEF Reads
    <3> HIDE DEF F, n
    <3>4. u = [i \in 0 .. n |-> F(i)]
      BY <3>2, <3>3
    <3> QED BY <3>4 DEF F
  <2>5. kept = [i \in 0 .. n |-> IF i = 0 THEN <<>>
                                 ELSE IF parse_tool_line(lines[i]) /\ lines[i].name \notin Names(kept[i - 1])
                                      THEN Append(kept[i - 1], lines[i]) ELSE kept[i - 1]]
    BY <2>4
  <2> HIDE DEF kept
  <2>6. kept[0] = <<>> /\ \A i \in 1 .. n : kept[i] = WithLine(kept[i - 1], lines[i])
    <3> HIDE DEF n
    <3>1. 0 \in 0 .. n /\ \A i \in 1 .. n : i \in 0 .. n /\ i # 0
      BY <2>2
    <3>2. kept[0] = <<>>
      BY <2>5, <3>1
    <3>3. ASSUME NEW i \in 1 .. n PROVE kept[i] = WithLine(kept[i - 1], lines[i])
      BY <2>5, <3>1 DEF WithLine
    <3> QED BY <3>2, <3>3
  <2> DEFINE T == {m \in 0 .. n : ~IsList(kept[m], lines)}
  <2>7. CASE T = {}
    BY <1>2, <2>1, <2>2, <2>7
  <2>8. CASE T # {}
    <3>1. \E m \in T : \A y \in T : m <= y
      <4>1. T \in SUBSET Nat
        BY <2>2
      <4> HIDE DEF T
      <4> QED BY <2>8, <4>1, Least
    <3>2. PICK m \in T : \A y \in T : m <= y
      BY <3>1
    <3>3. IsList(<<>>, lines)
      BY DEF IsList
    <3>4. m \in 1 .. n
      <4>1. m # 0
        BY <2>6, <3>2, <3>3
      <4> QED BY <2>2, <3>2, <4>1
    <3>5. m - 1 \in 0 .. n /\ m - 1 \notin T
      BY <2>2, <3>2, <3>4
    <3>6. IsList(kept[m - 1], lines)
      BY <3>5
    <3>7. IsList(kept[m], lines)
      BY <2>2, <2>6, <3>4, <3>6, LineAdds
    <3> QED BY <3>2, <3>7
  <2> QED BY <2>7, <2>8
<1> QED BY <1>1, <1>2

-----------------------------------------------------------------------------
(* The folders.                                                            *)

FileValues == {Absent, Torn, Ours, "theirs"} \cup Builds \cup Flavors
Vdf(n) == disk[n].files["compatibilitytool.vdf"]
Flavor(n) == disk[n].files["flavor"]

(* Tools of different names that are ours to write.                        *)
GoodTools(tl) ==
    /\ Len(tl) \in Nat /\ DOMAIN tl = 1 .. Len(tl)
    /\ \A i \in DOMAIN tl : /\ parse_tool_line(tl[i]) /\ tl[i].name \in DOMAIN world.disk
                            /\ ~HasTheirs(world.disk[tl[i].name])
    /\ \A i, j \in DOMAIN tl : tl[i].name = tl[j].name => i = j

ListInv ==
    /\ world \in Worlds /\ list \in Lists
    /\ g_tools = Unread \/ GoodTools(g_tools)
    /\ present => g_tools # Unread

DiskInv ==
    /\ DOMAIN disk = DOMAIN world.disk
    /\ \A n \in DOMAIN disk : /\ IsFolder(disk[n]) /\ disk[n].foreign = world.disk[n].foreign
                              /\ HasTheirs(world.disk[n]) => disk[n] = world.disk[n]

WorkInv ==
    /\ DOMAIN work = {"pc", "i", "f", "name", "left"}
    /\ work.pc \in {"done", "mkdir", "write", "sweep", "unlink", "rmdir"}
    /\ work.pc # "done" => present
    /\ work.pc \in {"mkdir", "write"} => work.i \in DOMAIN g_tools
    /\ work.pc \in {"write", "unlink"} => work.f \in 1 .. 5
    /\ work.pc = "write" => disk[g_tools[work.i].name].there
    /\ work.pc \in {"unlink", "rmdir"} =>
         work.name \in DOMAIN disk /\ work.name \notin Names(g_tools) /\ ~HasTheirs(world.disk[work.name])
    /\ work.pc \in {"sweep", "unlink", "rmdir"} => work.left \subseteq DOMAIN disk

(* What is written: all files of the tools before this one, and the files  *)
(* of this one before the next; but for the manifest.                      *)
HasFile(t, k) == disk[t.name].files[Files[k]] = Content(t, Files[k])
Right(t) == \A k \in {1, 3, 4, 5} : HasFile(t, k)
WrittenInv ==
    clean /\ present =>
        /\ \A j \in DOMAIN g_tools : (work.pc \in {"mkdir", "write"} => j < work.i) => Right(g_tools[j])
        /\ work.pc = "write" => \A k \in {1, 3, 4, 5} : k < work.f => HasFile(g_tools[work.i], k)

(* A folder that was made is known as ours until it is no longer offered,  *)
(* and one that is no longer listed is still to be looked at, or gone.     *)
Looked(n) ==
    \/ n \in Names(g_tools) \/ Vdf(n) = Absent
    \/ work.pc # "done" /\ n \in work.left
    \/ work.pc = "unlink" /\ work.f = 1 /\ n = work.name
MadeInv ==
    /\ \A n \in made : n \in DOMAIN disk /\ is_tool_name(n) /\ (Vdf(n) = Absent \/ Flavor(n) # Absent)
    /\ work.pc = "write" /\ g_tools[work.i].name \in made => Flavor(g_tools[work.i].name) # Absent
    /\ work.pc = "rmdir" \/ (work.pc = "unlink" /\ work.f > 1) => Vdf(work.name) = Absent \/ work.name \notin made
    /\ present /\ work.pc \notin {"mkdir", "write"} => \A n \in made : Looked(n)

FolderInv == ListInv /\ DiskInv /\ WorkInv /\ WrittenInv /\ MadeInv
folderEnv == <<world, list, g_tools, present>>

\* The files of a folder.
LEMMA FilesAre ==
    /\ DOMAIN Files = 1 .. 5 /\ Len(Files) = 5
    /\ Files[1] = "compatibilitytool.vdf" /\ Files[2] = "toolmanifest.vdf" /\ Files[3] = "run"
    /\ Files[4] = "flavor" /\ Files[5] = "build"
    /\ ToSet(Files) = {"compatibilitytool.vdf", "toolmanifest.vdf", "run", "flavor", "build"}
    /\ \A k \in 1 .. 5 : Files[k] \in ToSet(Files)
<1>1. /\ DOMAIN Files = 1 .. 5 /\ Len(Files) = 5
      /\ Files[1] = "compatibilitytool.vdf" /\ Files[2] = "toolmanifest.vdf" /\ Files[3] = "run"
      /\ Files[4] = "flavor" /\ Files[5] = "build"
  BY DEF Files
<1>2. ToSet(Files) = {Files[k] : k \in 1 .. 5}
  BY <1>1 DEF ToSet
<1>3. \A k \in 1 .. 5 : k \in {1, 2, 3, 4, 5}
  OBVIOUS
<1>4. {Files[k] : k \in 1 .. 5} = {"compatibilitytool.vdf", "toolmanifest.vdf", "run", "flavor", "build"}
  BY <1>1, <1>3
<1> QED BY <1>1, <1>2, <1>4

\* write_file, unlink: one file of one folder changes.
LEMMA FileChanges ==
    ASSUME NEW name \in DOMAIN disk, IsFolder(disk[name]), NEW f \in ToSet(Files), NEW v \in FileValues,
           Holds(name, f, v), v # Absent => disk[name].there
    PROVE  /\ DOMAIN disk' = DOMAIN disk
           /\ \A n \in DOMAIN disk : n # name => disk'[n] = disk[n]
           /\ (disk[name].there => disk'[name].there) /\ disk'[name].foreign = disk[name].foreign
           /\ disk'[name].files[f] = v
           /\ \A g \in ToSet(Files) : g # f => disk'[name].files[g] = disk[name].files[g]
           /\ IsFolder(disk'[name])
<1>1. disk' = [disk EXCEPT ![name] = [disk[name] EXCEPT !.files = [disk[name].files EXCEPT ![f] = v]]]
  BY DEF Holds
<1> DEFINE d == disk[name]
           fs == [d.files EXCEPT ![f] = v]
           e == [d EXCEPT !.files = fs]
<1>2. d \in [there : BOOLEAN, foreign : BOOLEAN, files : [ToSet(Files) -> FileValues]]
  BY DEF IsFolder, FileValues
<1>3. fs \in [ToSet(Files) -> FileValues] /\ fs[f] = v /\ \A g \in ToSet(Files) : g # f => fs[g] = d.files[g]
  BY <1>2
<1> HIDE DEF fs, d
<1>4. /\ e \in [there : BOOLEAN, foreign : BOOLEAN, files : [ToSet(Files) -> FileValues]]
      /\ e.files = fs /\ e.there = d.there /\ e.foreign = d.foreign
  BY <1>2, <1>3
<1> HIDE DEF e
<1>5. DOMAIN disk' = DOMAIN disk /\ disk'[name] = e /\ \A n \in DOMAIN disk : n # name => disk'[n] = disk[n]
  BY <1>1 DEF d, e, fs
<1>6. d.foreign \/ (\E g \in ToSet(Files) : d.files[g] # Absent) => d.there
  BY DEF IsFolder, d
<1>7. e.foreign \/ (\E g \in ToSet(Files) : e.files[g] # Absent) => e.there
  BY <1>3, <1>4, <1>6 DEF d
<1>8. IsFolder(e)
  BY <1>4, <1>7 DEF IsFolder, FileValues
<1> QED BY <1>3, <1>4, <1>5, <1>8 DEF d

\* The work after a tool.
LEMMA NextTool ==
    ASSUME NEW tl, NEW i, NEW w, w = ToTool(tl, i)
    PROVE  /\ DOMAIN w = {"pc", "i", "f", "name", "left"}
           /\ i \in DOMAIN tl => w.pc = "mkdir" /\ w.i = i
           /\ i \notin DOMAIN tl => w.pc = "sweep" /\ w.left = DOMAIN disk
BY DEF ToTool, NoWork

\* write_tool: a folder is made, or its tool is passed over.
LEMMA MakeDirKeeps ==
    ASSUME FolderInv, MakeDir, UNCHANGED folderEnv
    PROVE  FolderInv'
<1> USE DEF FolderInv, folderEnv
<1> DEFINE name == g_tools[work.i].name
<1>1. /\ work.pc = "mkdir" /\ present /\ work.i \in DOMAIN g_tools /\ GoodTools(g_tools)
      /\ DOMAIN work = {"pc", "i", "f", "name", "left"}
  BY DEF MakeDir, WorkInv, ListInv
<1>2. /\ name \in DOMAIN disk /\ is_tool_name(name) /\ ~HasTheirs(world.disk[name]) /\ name \in Names(g_tools)
      /\ Len(g_tools) \in Nat /\ DOMAIN g_tools = 1 .. Len(g_tools)
  BY <1>1 DEF GoodTools, DiskInv, parse_tool_line, Names
<1>3. ListInv'
  BY DEF ListInv, GoodTools
<1>4. CASE /\ disk' = [disk EXCEPT ![name].there = TRUE]
           /\ work' = [work EXCEPT !.pc = "write", !.f = 1]
           /\ made' = IF disk[name].files["flavor"] = Absent THEN made \ {name} ELSE made
           /\ UNCHANGED <<spent, clean>>
  <2>1. /\ DOMAIN disk' = DOMAIN disk /\ \A n \in DOMAIN disk : n # name => disk'[n] = disk[n]
        /\ disk'[name].there /\ disk'[name].foreign = disk[name].foreign /\ disk'[name].files = disk[name].files
        /\ IsFolder(disk'[name])
    <3>1. IsFolder(disk[name])
      BY <1>2 DEF DiskInv
    <3>2. disk' = [disk EXCEPT ![name] = [disk[name] EXCEPT !.there = TRUE]]
      BY <1>4
    <3> DEFINE e == [disk[name] EXCEPT !.there = TRUE]
    <3>3. /\ e.there = TRUE /\ e.foreign = disk[name].foreign /\ e.files = disk[name].files
          /\ e \in [there : BOOLEAN, foreign : BOOLEAN, files : [ToSet(Files) -> {Absent, Torn, Ours, "theirs"} \cup Builds \cup Flavors]]
      BY <3>1 DEF IsFolder
    <3> HIDE DEF e
    <3>4. DOMAIN disk' = DOMAIN disk /\ disk'[name] = e /\ \A n \in DOMAIN disk : n # name => disk'[n] = disk[n]
      BY <1>2, <3>2 DEF e
    <3>5. IsFolder(e)
      BY <3>3 DEF IsFolder
    <3> QED BY <3>3, <3>4, <3>5
  <2>2. /\ DOMAIN work' = DOMAIN work /\ work'.pc = "write" /\ work'.f = 1 /\ work'.i = work.i
    BY <1>1, <1>4
  <2>3. \A n \in DOMAIN disk : disk'[n].files = disk[n].files
    BY <2>1
  <2>4. DiskInv'
    BY <1>2, <2>1 DEF DiskInv, folderEnv
  <2>5. WorkInv'
    BY <1>1, <1>2, <2>1, <2>2 DEF WorkInv
  <2>6. WrittenInv'
    <3>1. \A j \in DOMAIN g_tools, k \in {1, 3, 4, 5} : HasFile(g_tools[j], k)' <=> HasFile(g_tools[j], k)
      BY <1>1, <2>3 DEF HasFile, GoodTools, DiskInv, Content
    <3>2. (clean /\ present)' <=> (clean /\ present)
      BY <1>4
    <3>3. \A k \in {1, 3, 4, 5} : ~(k < 1)
      OBVIOUS
    <3> QED BY <1>1, <2>2, <3>1, <3>2, <3>3 DEF WrittenInv, Right
  <2>7. MadeInv'
    <3>1. \A n \in DOMAIN disk : Vdf(n)' = Vdf(n) /\ Flavor(n)' = Flavor(n)
      BY <2>3 DEF Vdf, Flavor
    <3>2. made' \subseteq made /\ (name \in made' => Flavor(name) # Absent)
      BY <1>4 DEF Flavor
    <3> QED BY <1>2, <2>1, <2>2, <3>1, <3>2 DEF MadeInv
  <2> QED BY <1>3, <2>4, <2>5, <2>6, <2>7
<1>5. CASE /\ ~disk[name].there /\ Fails /\ work' = ToTool(g_tools, work.i + 1)
           /\ UNCHANGED <<disk, made>>
  <2>1. clean' = FALSE
    BY <1>5 DEF Fails
  <2>2. DiskInv' /\ WrittenInv'
    BY <1>5, <2>1 DEF DiskInv, WrittenInv
  <2>3. /\ DOMAIN work' = {"pc", "i", "f", "name", "left"}
        /\ work.i + 1 \in DOMAIN g_tools => work'.pc = "mkdir" /\ work'.i = work.i + 1
        /\ work.i + 1 \notin DOMAIN g_tools => work'.pc = "sweep" /\ work'.left = DOMAIN disk
    BY <1>5, NextTool
  <2>4. WorkInv'
    BY <1>1, <1>5, <2>3 DEF WorkInv
  <2>5. MadeInv'
    <3>1. \A n \in made : n \in DOMAIN disk
      BY DEF MadeInv
    <3> QED BY <1>1, <1>5, <2>3, <3>1 DEF MadeInv, Looked, Vdf, Flavor
  <2> QED BY <1>3, <2>2, <2>4, <2>5
<1> QED BY <1>4, <1>5 DEF MakeDir, Tool

\* write_tool: one file after the other.
LEMMA WriteFileKeeps ==
    ASSUME FolderInv, WriteFile, UNCHANGED folderEnv
    PROVE  FolderInv'
<1> USE DEF FolderInv, folderEnv
<1>0. PICK c \in DOMAIN g_tools : c = work.i
  BY DEF WriteFile, WorkInv
<1> DEFINE t == g_tools[c]
           name == t.name
           f == Files[work.f]
           last == work.f = 5
<1>1. /\ c = work.i /\ work.pc = "write" /\ present /\ work.i \in DOMAIN g_tools /\ GoodTools(g_tools)
      /\ work.f \in 1 .. 5 /\ disk[name].there
      /\ DOMAIN work = {"pc", "i", "f", "name", "left"}
  BY <1>0 DEF WriteFile, WorkInv, ListInv
<1>2. /\ name \in DOMAIN disk /\ is_tool_name(name) /\ ~HasTheirs(world.disk[name]) /\ name \in Names(g_tools)
      /\ Len(g_tools) \in Nat /\ DOMAIN g_tools = 1 .. Len(g_tools) /\ IsFolder(disk[name])
      /\ parse_tool_line(t) /\ \A j \in DOMAIN g_tools : g_tools[j].name \in DOMAIN disk
  BY <1>1 DEF GoodTools, DiskInv, parse_tool_line, Names
<1>3. ListInv'
  BY DEF ListInv, GoodTools
<1>4. f \in ToSet(Files) /\ Content(t, f) \in FileValues /\ Torn \in FileValues
  BY <1>1, <1>2, FilesAre DEF Content, FileValues, parse_tool_line
<1>5. work' = IF work.f < 5 THEN [work EXCEPT !.f = @ + 1] ELSE ToTool(g_tools, work.i + 1)
  BY <1>1, FilesAre DEF WriteFile
<1>6. /\ DOMAIN work' = {"pc", "i", "f", "name", "left"}
      /\ ~last => work'.pc = "write" /\ work'.f = work.f + 1 /\ work'.i = work.i
      /\ last /\ work.i + 1 \in DOMAIN g_tools => work'.pc = "mkdir" /\ work'.i = work.i + 1
      /\ last /\ work.i + 1 \notin DOMAIN g_tools => work'.pc = "sweep" /\ work'.left = DOMAIN disk
  BY <1>1, <1>5, NextTool
<1>7. \/ f \in Once /\ UNCHANGED <<disk, clean>>
      \/ Holds(name, f, Content(t, f)) /\ UNCHANGED clean
      \/ clean' = FALSE /\ (Holds(name, f, Torn) \/ UNCHANGED disk)
  BY <1>0 DEF WriteFile, Tool, File, Fails
<1>8. /\ DOMAIN disk' = DOMAIN disk /\ \A n \in DOMAIN disk : n # name => disk'[n] = disk[n]
      /\ (disk[name].there => disk'[name].there) /\ disk'[name].foreign = disk[name].foreign
      /\ \A g \in ToSet(Files) : g # f => disk'[name].files[g] = disk[name].files[g]
      /\ IsFolder(disk'[name])
      /\ clean' => clean /\ (disk'[name].files[f] = Content(t, f) \/ f \in Once)
      /\ disk'[name].files[f] \in {disk[name].files[f], Content(t, f), Torn}
  <2>1. CASE f \in Once /\ UNCHANGED <<disk, clean>>
    BY <1>2, <2>1
  <2>4. CASE clean' = FALSE /\ UNCHANGED disk
    BY <1>2, <2>4
  <2> DEFINE v == Content(t, f)
  <2> HIDE DEF name, f, v
  <2>2. CASE Holds(name, f, v) /\ UNCHANGED clean
    <3>1. /\ DOMAIN disk' = DOMAIN disk /\ \A n \in DOMAIN disk : n # name => disk'[n] = disk[n]
          /\ (disk[name].there => disk'[name].there) /\ disk'[name].foreign = disk[name].foreign
          /\ disk'[name].files[f] = v /\ IsFolder(disk'[name])
          /\ \A g \in ToSet(Files) : g # f => disk'[name].files[g] = disk[name].files[g]
      BY <1>1, <1>2, <1>4, <2>2, FileChanges DEF name, v
    <3> QED BY <2>2, <3>1 DEF v
  <2>3. CASE clean' = FALSE /\ Holds(name, f, Torn)
    <3>1. /\ DOMAIN disk' = DOMAIN disk /\ \A n \in DOMAIN disk : n # name => disk'[n] = disk[n]
          /\ (disk[name].there => disk'[name].there) /\ disk'[name].foreign = disk[name].foreign
          /\ disk'[name].files[f] = Torn /\ IsFolder(disk'[name])
          /\ \A g \in ToSet(Files) : g # f => disk'[name].files[g] = disk[name].files[g]
      BY <1>1, <1>2, <1>4, <2>3, FileChanges DEF name
    <3> QED BY <2>3, <3>1
  <2> QED BY <1>7, <2>1, <2>2, <2>3, <2>4 DEF v
<1> HIDE DEF f
<1>9. DiskInv'
  BY <1>2, <1>8 DEF DiskInv
<1>10. WorkInv'
  <2>1. disk'[name].there
    BY <1>1, <1>8
  <2> QED BY <1>1, <1>6, <1>8, <2>1 DEF WorkInv
<1>11. WrittenInv'
  <2> SUFFICES ASSUME clean', present' PROVE WrittenInv!2'
    BY DEF WrittenInv
  <2>1. clean /\ (disk'[name].files[f] = Content(t, f) \/ f \in Once) /\ WrittenInv!2
    BY <1>1, <1>8 DEF WrittenInv
  <2>2. ASSUME NEW j \in DOMAIN g_tools, Right(g_tools[j]), j # work.i PROVE Right(g_tools[j])'
    <3>1. g_tools[j].name # name /\ g_tools[j].name \in DOMAIN disk
      BY <1>1, <1>2, <2>2 DEF GoodTools
    <3> QED BY <1>8, <2>2, <3>1 DEF Right, HasFile, Content
  <2>3. ASSUME NEW k \in {1, 3, 4, 5}, k <= work.f PROVE HasFile(t, k)'
    <3>1. CASE k = work.f
      <4>1. f \notin Once /\ f = Files[k]
        BY <3>1, FilesAre DEF Once, f
      <4> QED BY <2>1, <4>1 DEF HasFile, Content
    <3>2. CASE k # work.f
      <4>1. k < work.f /\ HasFile(t, k)
        BY <1>1, <2>1, <2>3, <3>2
      <4>2. Files[k] # f /\ Files[k] \in ToSet(Files)
        BY <1>1, <3>2, FilesAre DEF f
      <4> QED BY <1>8, <4>1, <4>2 DEF HasFile, Content
    <3> QED BY <3>1, <3>2
  <2>4. CASE ~last
    <3>1. ASSUME NEW k \in {1, 3, 4, 5}, k < work'.f PROVE HasFile(t, k)'
      BY <1>1, <1>6, <2>3, <2>4, <3>1
    <3>2. work'.i = c /\ work'.pc = "write" /\ g_tools' = g_tools /\ c \in Nat
      BY <1>1, <1>2, <1>6, <2>4
    <3>3. ASSUME NEW j \in DOMAIN g_tools, j < c PROVE Right(g_tools[j])'
      <4>1. j \in Nat /\ j # c
        BY <1>2, <3>2, <3>3
      <4> QED BY <1>1, <2>1, <2>2, <3>3, <4>1
    <3> QED BY <3>1, <3>2, <3>3
  <2>5. CASE last
    <3>1. Right(t)'
      BY <2>3, <2>5 DEF Right
    <3>2. ASSUME NEW j \in DOMAIN g_tools, work'.pc = "mkdir" => j < work'.i PROVE Right(g_tools[j])'
      <4>1. j <= work.i
        BY <1>1, <1>2, <1>6, <2>5, <3>2
      <4>2. CASE j = work.i
        BY <1>1, <3>1, <4>2
      <4>3. CASE j # work.i
        BY <1>1, <1>2, <2>1, <2>2, <4>1, <4>3
      <4> QED BY <4>2, <4>3
    <3> QED BY <1>6, <2>5, <3>2
  <2> QED BY <2>4, <2>5
<1>12. MadeInv'
  <2>1. \A n \in DOMAIN disk : n # name => Vdf(n)' = Vdf(n) /\ Flavor(n)' = Flavor(n)
    BY <1>8 DEF Vdf, Flavor
  <2>2. name \in made => Flavor(name)' # Absent
    <3>1. name \in made => Flavor(name) # Absent
      BY <1>1 DEF MadeInv
    <3>2. CASE f = "flavor"
      <4>1. Content(t, f) # Absent /\ Torn # Absent
        BY <1>2, <3>2, FlavorConstants DEF Content, parse_tool_line, Torn, Absent
      <4> QED BY <1>8, <3>1, <3>2, <4>1 DEF Flavor
    <3>3. CASE f # "flavor"
      BY <1>8, <3>1, <3>3, FilesAre DEF Flavor
    <3> QED BY <3>2, <3>3
  <2>3. made' = made /\ \A n \in made : n \in DOMAIN disk
    BY DEF WriteFile, MadeInv
  <2>4. work'.pc = "sweep" => work'.left = DOMAIN disk
    BY <1>6
  <2>5. work'.pc \in {"write", "mkdir", "sweep"} /\ (work'.pc = "write" => work'.i = work.i)
    BY <1>6
  <2>6. \A n \in made' : n \in DOMAIN disk' /\ is_tool_name(n) /\ (Vdf(n)' = Absent \/ Flavor(n)' # Absent)
    <3>1. \A n \in made : is_tool_name(n) /\ (Vdf(n) = Absent \/ Flavor(n) # Absent)
      BY DEF MadeInv
    <3>2. \A n \in made : n # name => Vdf(n)' = Vdf(n) /\ Flavor(n)' = Flavor(n)
      BY <2>1, <2>3
    <3>3. ASSUME NEW n \in made' PROVE n \in DOMAIN disk' /\ is_tool_name(n) /\ (Vdf(n)' = Absent \/ Flavor(n)' # Absent)
      <4>1. CASE n = name
        BY <1>8, <2>2, <2>3, <3>1, <4>1
      <4>2. CASE n # name
        BY <1>8, <2>3, <3>1, <3>2, <4>2
      <4> QED BY <4>1, <4>2
    <3> QED BY <3>3
  <2>7. work'.pc = "write" /\ g_tools'[work'.i].name \in made' => Flavor(g_tools[work.i].name)' # Absent
    BY <1>1, <2>2, <2>3, <2>5
  <2>8. \A n \in made' : work'.pc = "sweep" => Looked(n)'
    BY <1>8, <2>3, <2>4 DEF Looked
  <2> QED BY <2>5, <2>6, <2>7, <2>8 DEF MadeInv
<1> QED BY <1>3, <1>9, <1>10, <1>11, <1>12

\* remove_unlisted_tools: a folder that was made and is not listed goes.
LEMMA SweepKeeps ==
    ASSUME FolderInv, remove_unlisted_tools, UNCHANGED folderEnv
    PROVE  FolderInv'
<1> USE DEF FolderInv, folderEnv
<1>1. /\ work.pc = "sweep" /\ present /\ g_tools # Unread /\ GoodTools(g_tools)
      /\ DOMAIN work = {"pc", "i", "f", "name", "left"} /\ work.left \subseteq DOMAIN disk
  BY DEF remove_unlisted_tools, WorkInv, ListInv
<1>2. UNCHANGED <<disk, clean>> /\ ListInv' /\ DiskInv'
  BY DEF remove_unlisted_tools, ListInv, DiskInv, GoodTools
<1>3. \A n : Vdf(n)' = Vdf(n) /\ Flavor(n)' = Flavor(n)
  BY <1>2 DEF Vdf, Flavor
<1>4. \A j \in DOMAIN g_tools : Right(g_tools[j])' <=> Right(g_tools[j])
  BY <1>2 DEF Right, HasFile, Content
<1>5. work'.pc \in {"done", "sweep", "unlink"} => WrittenInv'
  BY <1>1, <1>2, <1>4 DEF WrittenInv
<1>6. CASE work.left = {} /\ work' = NoWork /\ made' = made \cup {n \in Names(g_tools) : Whole(n)}
  <2>1. work'.pc = "done" /\ DOMAIN work' = {"pc", "i", "f", "name", "left"}
    BY <1>6 DEF NoWork
  <2>2. WorkInv'
    BY <2>1 DEF WorkInv
  <2>3. ASSUME NEW n \in Names(g_tools), Whole(n) PROVE n \in DOMAIN disk /\ is_tool_name(n) /\ Flavor(n) # Absent
    <3>1. PICK i \in DOMAIN g_tools : n = g_tools[i].name
      BY DEF Names
    <3>2. n \in DOMAIN disk /\ is_tool_name(n)
      BY <1>1, <3>1 DEF GoodTools, DiskInv, parse_tool_line
    <3>3. "flavor" \in ToSet(Files)
      BY FilesAre
    <3> QED BY <2>3, <3>2, <3>3 DEF Whole, Flavor
  <2>4. \A n \in made' : n \in DOMAIN disk /\ is_tool_name(n) /\ (Vdf(n) = Absent \/ Flavor(n) # Absent)
    BY <1>6, <2>3 DEF MadeInv
  <2>5. \A n \in made' : n \in Names(g_tools) \/ Vdf(n) = Absent
    <3>1. \A n \in made : Looked(n)
      BY <1>1 DEF MadeInv
    <3> QED BY <1>1, <1>6, <3>1 DEF Looked
  <2>6. MadeInv'
    BY <1>2, <1>3, <2>1, <2>4, <2>5 DEF MadeInv, Looked
  <2> QED BY <1>2, <1>5, <2>1, <2>2, <2>6
<1>7. ASSUME NEW name \in work.left, UNCHANGED made,
             work' = IF Goes(name) THEN [work EXCEPT !.pc = "unlink", !.f = 1, !.name = name, !.left = @ \ {name}]
                     ELSE [work EXCEPT !.left = @ \ {name}]
      PROVE  FolderInv'
  <2>1. is_listed(name) <=> name \in Names(g_tools)
    BY <1>1 DEF is_listed, load_tool_list_once
  <2>2. name \in DOMAIN disk /\ IsFolder(disk[name])
    BY <1>1, <1>7 DEF DiskInv
  <2>3. CASE Goes(name)
    <3>1. /\ work'.pc = "unlink" /\ work'.f = 1 /\ work'.name = name /\ work'.left = work.left \ {name}
          /\ DOMAIN work' = {"pc", "i", "f", "name", "left"}
      BY <1>1, <1>7, <2>3
    <3>2. name \notin Names(g_tools) /\ written_here(name)
      BY <2>1, <2>3 DEF Goes
    <3>3. ~HasTheirs(world.disk[name])
      <4> SUFFICES ASSUME HasTheirs(world.disk[name]) PROVE FALSE
        OBVIOUS
      <4>1. disk[name] = world.disk[name]
        BY <2>2 DEF DiskInv
      <4>2. world.disk[name].files["flavor"] = Absent /\ world.disk[name].files["run"] # Ours
        BY <2>2, WorldConstants DEF ListInv, DiskInv
      <4> QED BY <3>2, <4>1, <4>2 DEF written_here
    <3>4. WorkInv'
      BY <1>1, <1>2, <2>2, <3>1, <3>2, <3>3 DEF WorkInv
    <3>5. MadeInv'
      <4>1. \A n \in made : Looked(n)
        BY <1>1 DEF MadeInv
      <4>2. \A n \in made : Looked(n)'
        BY <1>1, <1>3, <3>1, <4>1 DEF Looked
      <4> QED BY <1>2, <1>3, <1>7, <3>1, <4>2 DEF MadeInv
    <3> QED BY <1>2, <1>5, <3>1, <3>4, <3>5
  <2>4. CASE ~Goes(name)
    <3>1. work'.pc = "sweep" /\ work'.left = work.left \ {name} /\ DOMAIN work' = {"pc", "i", "f", "name", "left"}
      BY <1>1, <1>7, <2>4
    <3>2. name \in made => name \in Names(g_tools) \/ Vdf(name) = Absent
      <4>1. Flavor(name) # Absent => disk[name].there /\ written_here(name)
        BY <2>2, FilesAre DEF IsFolder, Flavor, written_here
      <4> QED BY <2>1, <2>4, <4>1 DEF MadeInv, Goes
    <3>3. WorkInv'
      BY <1>1, <1>2, <3>1 DEF WorkInv
    <3>4. MadeInv'
      <4>1. \A n \in made : Looked(n)
        BY <1>1 DEF MadeInv
      <4>2. \A n \in made : Looked(n)'
        BY <1>1, <1>3, <3>1, <3>2, <4>1 DEF Looked
      <4> QED BY <1>2, <1>3, <1>7, <3>1, <4>2 DEF MadeInv
    <3> QED BY <1>2, <1>5, <3>1, <3>3, <3>4
  <2> QED BY <2>3, <2>4
<1> QED BY <1>6, <1>7 DEF remove_unlisted_tools

\* remove_tool: the declaration goes first.
LEMMA UnlinkKeeps ==
    ASSUME FolderInv, Unlink, UNCHANGED folderEnv
    PROVE  FolderInv'
<1> USE DEF FolderInv, folderEnv
<1>0. PICK name \in DOMAIN disk : name = work.name
  BY DEF Unlink, WorkInv
<1> DEFINE f == Files[work.f]
<1>1. /\ work.pc = "unlink" /\ present /\ g_tools # Unread /\ GoodTools(g_tools)
      /\ DOMAIN work = {"pc", "i", "f", "name", "left"} /\ work.left \subseteq DOMAIN disk
      /\ work.f \in 1 .. 5 /\ name \notin Names(g_tools) /\ ~HasTheirs(world.disk[name]) /\ IsFolder(disk[name])
  BY <1>0 DEF Unlink, WorkInv, ListInv, DiskInv
<1>2. ListInv'
  BY DEF ListInv, GoodTools
<1>3. f \in ToSet(Files) /\ Absent \in FileValues
  BY <1>1, FilesAre DEF FileValues
<1>4. /\ clean' = clean /\ made' \subseteq made
      /\ \/ Holds(name, f, Absent) /\ made' = made
         \/ disk' = disk /\ (f = "compatibilitytool.vdf" => name \notin made')
  BY <1>0 DEF Unlink, File
<1>5. /\ DOMAIN work' = {"pc", "i", "f", "name", "left"}
      /\ work'.name = name /\ work'.left = work.left
      /\ (work'.pc = "unlink" /\ work'.f = work.f + 1 /\ work.f < 5) \/ work'.pc = "rmdir"
  BY <1>0, <1>1, FilesAre DEF Unlink
<1>6. /\ DOMAIN disk' = DOMAIN disk /\ \A n \in DOMAIN disk : n # name => disk'[n] = disk[n]
      /\ disk'[name].foreign = disk[name].foreign /\ IsFolder(disk'[name])
      /\ disk'[name].files[f] = Absent \/ (disk' = disk /\ (f = "compatibilitytool.vdf" => name \notin made'))
      /\ \A g \in ToSet(Files) : g # f => disk'[name].files[g] = disk[name].files[g]
  <2>1. CASE Holds(name, f, Absent)
    BY <1>0, <1>1, <1>3, <2>1, FileChanges
  <2>2. CASE disk' = disk /\ (f = "compatibilitytool.vdf" => name \notin made')
    BY <1>1, <2>2
  <2> HIDE DEF f
  <2> QED BY <1>4, <2>1, <2>2
<1>7. Vdf(name)' = Absent \/ name \notin made'
  <2>1. work.f = 1 => f = "compatibilitytool.vdf"
    BY FilesAre
  <2>2. work.f > 1 => Vdf(name) = Absent \/ name \notin made
    BY <1>0, <1>1 DEF MadeInv
  <2>3. "compatibilitytool.vdf" \in ToSet(Files)
    BY FilesAre
  <2> HIDE DEF f
  <2>4. work.f > 1 \/ work.f = 1
    BY <1>1
  <2>5. CASE work.f = 1
    BY <1>6, <2>1, <2>5 DEF Vdf
  <2>6. CASE work.f > 1
    <3>1. CASE f = "compatibilitytool.vdf"
      BY <1>6, <3>1 DEF Vdf
    <3>2. CASE f # "compatibilitytool.vdf"
      BY <1>4, <1>6, <2>2, <2>3, <2>6, <3>2 DEF Vdf
    <3> QED BY <3>1, <3>2
  <2> QED BY <2>4, <2>5, <2>6
<1> HIDE DEF f
<1>8. DiskInv'
  BY <1>1, <1>6 DEF DiskInv
<1>9. WorkInv'
  BY <1>1, <1>5, <1>6 DEF WorkInv
<1>10. WrittenInv'
  <2>1. \A j \in DOMAIN g_tools : g_tools[j].name # name /\ g_tools[j].name \in DOMAIN disk
    BY <1>1 DEF Names, GoodTools, DiskInv
  <2>2. \A j \in DOMAIN g_tools : Right(g_tools[j])' <=> Right(g_tools[j])
    BY <1>6, <2>1 DEF Right, HasFile, Content
  <2> QED BY <1>1, <1>4, <1>5, <2>2 DEF WrittenInv
<1>11. MadeInv'
  <2>1. \A n \in made : Looked(n) /\ n \in DOMAIN disk /\ is_tool_name(n) /\ (Vdf(n) = Absent \/ Flavor(n) # Absent)
    BY <1>1 DEF MadeInv
  <2>2. \A n \in DOMAIN disk : n # name => Vdf(n)' = Vdf(n) /\ Flavor(n)' = Flavor(n)
    BY <1>6 DEF Vdf, Flavor
  <2>3. ASSUME NEW n \in made' PROVE Looked(n)' /\ (Vdf(n)' = Absent \/ Flavor(n)' # Absent)
    <3>0. n \in made
      BY <1>4
    <3>1. CASE n = name
      BY <1>7, <3>1 DEF Looked
    <3>2. CASE n # name
      BY <1>0, <1>1, <1>5, <2>1, <2>2, <3>0, <3>2 DEF Looked
    <3> QED BY <3>1, <3>2
  <2>4. Vdf(work.name)' = Absent \/ work'.name \notin made'
    BY <1>5, <1>7
  <2> QED BY <1>4, <1>5, <1>6, <2>1, <2>3, <2>4 DEF MadeInv
<1> QED BY <1>2, <1>8, <1>9, <1>10, <1>11

\* remove_tool: a folder goes, unless it holds something else.
LEMMA RemoveDirKeeps ==
    ASSUME FolderInv, RemoveDir, UNCHANGED folderEnv
    PROVE  FolderInv'
<1> USE DEF FolderInv, folderEnv
<1>0. PICK name \in DOMAIN disk : name = work.name
  BY DEF RemoveDir, WorkInv
<1>1. /\ work.pc = "rmdir" /\ present /\ g_tools # Unread /\ GoodTools(g_tools)
      /\ DOMAIN work = {"pc", "i", "f", "name", "left"} /\ work.left \subseteq DOMAIN disk
      /\ name \notin Names(g_tools) /\ ~HasTheirs(world.disk[name]) /\ IsFolder(disk[name])
  BY <1>0 DEF RemoveDir, WorkInv, ListInv, DiskInv
<1>2. ListInv'
  BY DEF ListInv, GoodTools
<1>3. /\ DOMAIN work' = {"pc", "i", "f", "name", "left"} /\ work'.pc = "sweep" /\ work'.left = work.left
      /\ UNCHANGED <<clean, made>>
  BY <1>1 DEF RemoveDir
<1>4. NoFolder.foreign = FALSE /\ IsFolder(NoFolder) /\ NoFolder.files["compatibilitytool.vdf"] = Absent
  <2>1. NoFiles \in [ToSet(Files) -> {Absent}]
    BY DEF NoFiles
  <2>2. NoFolder.foreign = FALSE /\ NoFolder.there = FALSE /\ NoFolder.files = NoFiles
    BY DEF NoFolder
  <2>3. NoFolder \in [there : BOOLEAN, foreign : BOOLEAN, files : [ToSet(Files) -> {Absent, Torn, Ours, "theirs"} \cup Builds \cup Flavors]]
    BY <2>1 DEF NoFolder
  <2>4. \A f \in ToSet(Files) : NoFiles[f] = Absent
    BY DEF NoFiles
  <2> QED BY <2>2, <2>3, <2>4, FilesAre DEF IsFolder
<1>5. /\ DOMAIN disk' = DOMAIN disk /\ \A n \in DOMAIN disk : n # name => disk'[n] = disk[n]
      /\ IsFolder(disk'[name]) /\ disk'[name].foreign = disk[name].foreign
      /\ Vdf(name)' = Absent \/ name \notin made
  <2>1. disk' = disk \/ (~disk[name].foreign /\ disk' = [disk EXCEPT ![name] = NoFolder])
    BY <1>0 DEF RemoveDir
  <2>2. CASE disk' = disk
    BY <1>0, <1>1, <2>2 DEF MadeInv, Vdf
  <2>3. CASE ~disk[name].foreign /\ disk' = [disk EXCEPT ![name] = NoFolder]
    <3>1. disk[name].foreign = FALSE
      BY <1>1, <2>3 DEF IsFolder
    <3>2. disk'[name] = NoFolder /\ DOMAIN disk' = DOMAIN disk /\ \A n \in DOMAIN disk : n # name => disk'[n] = disk[n]
      BY <2>3
    <3> QED BY <1>4, <3>1, <3>2 DEF Vdf
  <2> QED BY <2>1, <2>2, <2>3
<1>6. DiskInv'
  BY <1>1, <1>5 DEF DiskInv
<1>7. WorkInv'
  BY <1>1, <1>3, <1>5 DEF WorkInv
<1>8. WrittenInv'
  <2>1. \A j \in DOMAIN g_tools : g_tools[j].name # name /\ g_tools[j].name \in DOMAIN disk
    BY <1>1 DEF Names, GoodTools, DiskInv
  <2>2. \A j \in DOMAIN g_tools : Right(g_tools[j])' <=> Right(g_tools[j])
    BY <1>5, <2>1 DEF Right, HasFile, Content
  <2> QED BY <1>1, <1>3, <2>2 DEF WrittenInv
<1>9. MadeInv'
  <2>1. \A n \in made : Looked(n) /\ n \in DOMAIN disk /\ is_tool_name(n) /\ (Vdf(n) = Absent \/ Flavor(n) # Absent)
    BY <1>1 DEF MadeInv
  <2>2. (Vdf(name)' = Absent \/ name \notin made) /\ \A n \in DOMAIN disk : n # name => Vdf(n)' = Vdf(n) /\ Flavor(n)' = Flavor(n)
    BY <1>5 DEF Vdf, Flavor
  <2>3. ASSUME NEW n \in made PROVE Looked(n)' /\ (Vdf(n)' = Absent \/ Flavor(n)' # Absent)
    <3>1. CASE n = name
      BY <2>2, <3>1 DEF Looked
    <3>2. CASE n # name
      BY <1>0, <1>1, <1>3, <2>1, <2>2, <3>2 DEF Looked
    <3> QED BY <3>1, <3>2
  <2> QED BY <1>3, <1>5, <2>1, <2>3 DEF MadeInv
<1> QED BY <1>2, <1>6, <1>7, <1>8, <1>9

\* np_compat_load_tool_list: its tools have folders that are ours to write.
LEMMA ToolsAreGood ==
    ASSUME world \in Worlds, list \in Lists, DOMAIN disk = DOMAIN world.disk, NEW tl, tl = np_compat_load_tool_list(list)
    PROVE  tl # Unread /\ GoodTools(tl)
<1>1. tl # Unread
  BY ListConstants
<1>2. CASE list = Missing
  BY <1>1, <1>2, ListIs DEF GoodTools
<1>3. CASE list # Missing
  <2>1. IsList(tl, list)
    BY <1>3, ListIs
  <2>2. Len(tl) \in Nat /\ DOMAIN tl = 1 .. Len(tl) /\ \A i \in DOMAIN tl : tl[i] \in {list[k] : k \in DOMAIN list}
    BY <2>1 DEF IsList
  <2>3. ASSUME NEW i \in DOMAIN tl
        PROVE  parse_tool_line(tl[i]) /\ tl[i].name \in DOMAIN world.disk /\ ~HasTheirs(world.disk[tl[i].name])
    <3>1. parse_tool_line(tl[i]) /\ tl[i].name \in Names(list) /\ is_tool_name(tl[i].name)
      <4>1. parse_tool_line(tl[i])
        BY <2>1 DEF IsList
      <4>2. PICK k \in DOMAIN list : tl[i] = list[k]
        BY <2>2
      <4>3. tl[i].name \in Names(list)
        BY <4>2 DEF Names
      <4> QED BY <4>1, <4>3 DEF parse_tool_line
    <3>2. tl[i].name \in DOMAIN world.disk
      BY <1>3, <3>1, WorldConstants
    <3> QED BY <1>3, <3>1, <3>2, WorldConstants
  <2>4. \A i, j \in DOMAIN tl : tl[i].name = tl[j].name => i = j
    BY <2>1 DEF IsList
  <2> QED BY <1>1, <2>2, <2>3, <2>4 DEF GoodTools
<1> QED BY <1>2, <1>3

\* np_compat_ensure_tool_manifest: a start begins with nothing written.
LEMMA StartKeeps ==
    ASSUME FolderInv, np_compat_ensure_tool_manifest, UNCHANGED <<world, list>>
    PROVE  FolderInv'
<1> USE DEF FolderInv
<1>1. world \in Worlds /\ list \in Lists /\ DOMAIN disk = DOMAIN world.disk
  BY DEF ListInv, DiskInv
<1>2. UNCHANGED <<disk, made>> /\ (present' <=> list # Missing)
  BY DEF np_compat_ensure_tool_manifest
<1>3. g_tools' # Unread /\ GoodTools(g_tools')
  BY <1>1, ToolsAreGood DEF np_compat_ensure_tool_manifest
<1>4. ListInv'
  BY <1>1, <1>3 DEF ListInv, GoodTools
<1>5. DiskInv'
  BY <1>2 DEF DiskInv
<1>6. DOMAIN g_tools' = 1 .. Len(g_tools') /\ Len(g_tools') \in Nat
  BY <1>3 DEF GoodTools
<1>7. /\ DOMAIN work' = {"pc", "i", "f", "name", "left"}
      /\ ~present' => work'.pc = "done"
      /\ present' /\ 1 \in DOMAIN g_tools' => work'.pc = "mkdir" /\ work'.i = 1
      /\ present' /\ 1 \notin DOMAIN g_tools' => work'.pc = "sweep" /\ work'.left = DOMAIN disk
  <2>1. CASE list = Missing
    BY <1>2, <2>1 DEF np_compat_ensure_tool_manifest, NoWork
  <2>2. CASE list # Missing
    BY <1>2, <2>2, NextTool DEF np_compat_ensure_tool_manifest
  <2> QED BY <2>1, <2>2
<1>8. WorkInv'
  BY <1>2, <1>7 DEF WorkInv
<1>9. WrittenInv'
  <2>1. \A j \in DOMAIN g_tools' : ~(j < 1) /\ 1 \in DOMAIN g_tools'
    BY <1>6
  <2> QED BY <1>7, <2>1 DEF WrittenInv
<1>10. MadeInv'
  <2>1. \A n \in made : n \in DOMAIN disk /\ is_tool_name(n) /\ (Vdf(n) = Absent \/ Flavor(n) # Absent)
    BY DEF MadeInv
  <2>2. \A n : Vdf(n)' = Vdf(n) /\ Flavor(n)' = Flavor(n)
    BY <1>2 DEF Vdf, Flavor
  <2> QED BY <1>2, <1>7, <2>1, <2>2 DEF MadeInv, Looked
<1> QED BY <1>4, <1>5, <1>8, <1>9, <1>10

\* A start without a list, and the end of a process.
LEMMA NothingKeeps ==
    ASSUME FolderInv, UNCHANGED <<world, list, disk, made>>, ~present', work' = NoWork, g_tools' = Unread
    PROVE  FolderInv'
<1> USE DEF FolderInv
<1>1. work'.pc = "done" /\ DOMAIN work' = {"pc", "i", "f", "name", "left"}
  BY DEF NoWork
<1>2. \A n : Vdf(n)' = Vdf(n) /\ Flavor(n)' = Flavor(n)
  BY DEF Vdf, Flavor
<1>3. ListInv' /\ DiskInv'
  BY DEF ListInv, DiskInv
<1>4. WorkInv' /\ WrittenInv'
  BY <1>1 DEF WorkInv, WrittenInv
<1>5. MadeInv'
  <2>1. \A n \in made : n \in DOMAIN disk /\ is_tool_name(n) /\ (Vdf(n) = Absent \/ Flavor(n) # Absent)
    BY DEF MadeInv
  <2> QED BY <1>1, <1>2, <2>1 DEF MadeInv
<1> QED BY <1>3, <1>4, <1>5

\* load_tool_list_once: a thread may read the list a start did not.
LEMMA ReadKeeps ==
    ASSUME FolderInv, UNCHANGED <<world, list, present, disk, work, clean, made>>, g_tools' = load_tool_list_once
    PROVE  FolderInv'
<1> USE DEF FolderInv
<1>1. CASE g_tools # Unread
  <2>1. g_tools' = g_tools
    BY <1>1 DEF load_tool_list_once
  <2>2. ListInv' /\ DiskInv' /\ WorkInv'
    BY <2>1 DEF ListInv, DiskInv, WorkInv, GoodTools
  <2>3. WrittenInv'
    <3>1. \A t, k : HasFile(t, k)' <=> HasFile(t, k)
      BY DEF HasFile, Content
    <3> QED BY <2>1, <3>1 DEF WrittenInv, Right
  <2>4. MadeInv'
    BY <2>1 DEF MadeInv, Looked, Vdf, Flavor
  <2> QED BY <2>2, <2>3, <2>4
<1>2. CASE g_tools = Unread
  <2>1. ~present /\ ~present' /\ work.pc = "done"
    BY <1>2 DEF ListInv, WorkInv
  <2>2. g_tools' = np_compat_load_tool_list(list)
    BY <1>2 DEF load_tool_list_once
  <2>3. g_tools' # Unread /\ GoodTools(g_tools')
    BY <2>2, ToolsAreGood DEF ListInv, DiskInv
  <2>4. ListInv'
    BY <2>3 DEF ListInv, GoodTools
  <2>5. DiskInv' /\ WorkInv' /\ WrittenInv'
    BY <2>1 DEF DiskInv, WorkInv, WrittenInv
  <2>6. MadeInv'
    BY <2>1 DEF MadeInv, Vdf, Flavor
  <2> QED BY <2>4, <2>5, <2>6
<1> QED BY <1>1, <1>2

\* The invariant of the folders, over every step of Steam.
LEMMA FolderStepKeeps == FolderInv /\ [Next]_vars => FolderInv'
<1> SUFFICES ASSUME FolderInv, [Next]_vars PROVE FolderInv'
  OBVIOUS
<1>1. ASSUME UNCHANGED <<world, list, folders>> PROVE FolderInv'
  BY <1>1 DEF folders, FolderInv, ListInv, GoodTools, DiskInv, WorkInv, WrittenInv, Right, HasFile, Content, MadeInv,
              Looked, Vdf, Flavor
<1>2. ASSUME NEW p, Begin(p) PROVE FolderInv'
  <2>1. CASE np_compat_ensure_tool_manifest
    BY <1>2, <2>1, StartKeeps DEF Begin
  <2>2. CASE NoToolsFolder
    BY <1>2, <2>2, NothingKeeps DEF Begin, NoToolsFolder
  <2>3. CASE UNCHANGED folders
    BY <1>1, <1>2, <2>3 DEF Begin
  <2> QED BY <1>2, <2>1, <2>2, <2>3 DEF Begin
<1>3. CASE StartStep
  <2>1. UNCHANGED folderEnv /\ (MakeDir \/ WriteFile \/ remove_unlisted_tools \/ Unlink \/ RemoveDir)
    BY <1>3 DEF StartStep, FolderStep, folderEnv
  <2> QED BY <2>1, MakeDirKeeps, WriteFileKeeps, SweepKeeps, UnlinkKeeps, RemoveDirKeeps
<1>4. CASE Kill
  BY <1>4, NothingKeeps DEF Kill
<1>5. CASE ListChanges
  <2>1. list' \in Lists /\ UNCHANGED <<world, g_tools, present, disk, work, clean, made>>
    BY <1>5 DEF ListChanges, AppWritesList
  <2> QED BY <2>1 DEF FolderInv, ListInv, GoodTools, DiskInv, WorkInv, WrittenInv, Right, HasFile, Content, MadeInv,
                      Looked, Vdf, Flavor
<1>6. CASE \E t \in Threads : Claim(t)
  BY <1>6, ReadKeeps DEF Claim
<1>7. CASE AppStartsSteam \/ ReExec
  BY <1>2, <1>7 DEF AppStartsSteam, ReExec
<1>8. CASE \/ UNCHANGED vars \/ InstallSpawn \/ ManagerComes \/ \E who \in {"steam", "helper"} : Spawn(who)
           \/ StartHelper \/ HelperCrashes \/ \E t \in Threads : Query(t) \/ RegisterTool(t)
           \/ TurnedOff \/ AskPage \/ Specify \/ np_compatsvc_state_changed
           \/ RunCommand \/ \E app \in Apps : Launch(app)
  <2>1. UNCHANGED <<world, list, folders>>
    BY <1>8 DEF vars, InstallSpawn, PlaceSpawn, ManagerComes, Spawn, StartHelper, HelperCrashes, Query, RegisterTool,
                TurnedOff, AskPage, Specify, np_compatsvc_state_changed, RunCommand, Launch
  <2> QED BY <1>1, <2>1
<1> QED BY <1>3, <1>4, <1>5, <1>6, <1>7, <1>8 DEF Next

\* The invariant of the folders.
LEMMA FolderInvariant == Spec => []FolderInv
<1>1. Init => FolderInv
  <2> SUFFICES ASSUME Init PROVE FolderInv
    OBVIOUS
  <2>1. /\ world \in Worlds /\ list \in Lists /\ g_tools = Unread /\ present = FALSE /\ disk = world.disk
        /\ work = NoWork /\ clean = FALSE /\ made = {}
    BY DEF Init
  <2>2. work.pc = "done" /\ DOMAIN work = {"pc", "i", "f", "name", "left"}
    BY <2>1 DEF NoWork
  <2>3. \A n \in DOMAIN disk : IsFolder(disk[n])
    BY <2>1, WorldConstants
  <2> QED BY <2>1, <2>2, <2>3 DEF FolderInv, ListInv, DiskInv, WorkInv, WrittenInv, MadeInv
<1> QED BY <1>1, FolderStepKeeps, PTL DEF Spec

\* np_compat_ensure_tool_manifest: a start whose writes went well leaves the
\* folder of a listed tool with this build and flavor, and a tool that had its
\* folder and is no longer listed is not offered from it.
THEOREM FoldersAreFollowed == Spec => []FoldersFollowList
<1>1. FolderInv => FoldersFollowList
  <2> SUFFICES ASSUME FolderInv, work.pc = "done", present PROVE FoldersFollowList!2
    BY DEF FoldersFollowList
  <2>1. g_tools # Unread
    BY DEF FolderInv, ListInv
  <2>2. ASSUME clean, NEW i \in DOMAIN g_tools
        PROVE  /\ disk[g_tools[i].name].files["compatibilitytool.vdf"] = Ours /\ disk[g_tools[i].name].files["run"] = Ours
               /\ disk[g_tools[i].name].files["flavor"] = g_tools[i].flavor
               /\ disk[g_tools[i].name].files["build"] = g_tools[i].build
    <3>1. Right(g_tools[i])
      BY <2>2 DEF FolderInv, WrittenInv
    <3> QED BY <3>1, FilesAre DEF Right, HasFile, Content
  <2>3. ASSUME NEW name \in made PROVE is_listed(name) \/ Vdf(name) = Absent
    <3>1. Looked(name)
      BY DEF FolderInv, MadeInv
    <3> QED BY <2>1, <3>1 DEF Looked, is_listed, load_tool_list_once
  <2> QED BY <2>2, <2>3 DEF Vdf
<1> QED BY <1>1, FolderInvariant, PTL

\* remove_tool: folders and files of the user stay.
THEOREM TheirsAreKept == Spec => []TheirsStay
<1>1. FolderInv => TheirsStay
  <2> SUFFICES ASSUME FolderInv, NEW name \in DOMAIN disk
               PROVE  /\ world.disk[name].foreign => disk[name].there /\ disk[name].foreign
                      /\ \A f \in ToSet(Files) : world.disk[name].files[f] = "theirs" => disk[name].files[f] = "theirs"
    BY DEF TheirsStay
  <2>1. IsFolder(disk[name]) /\ disk[name].foreign = world.disk[name].foreign
        /\ (HasTheirs(world.disk[name]) => disk[name] = world.disk[name])
    BY DEF FolderInv, DiskInv
  <2> QED BY <2>1 DEF IsFolder, HasTheirs
<1> QED BY <1>1, FolderInvariant, PTL

-----------------------------------------------------------------------------
(* The page and the launches.                                              *)

(* Both ends of an entry say where its fields are.                         *)
Vouched(c) == np_compat_probe_tool_layout(c) # None /\ probe_oslist_offsets(c.oslist) # None

(* What an app without a tool of its own runs, as the page computes it.    *)
Default(app) ==
    IF np_compat_wildcard_mapping(app) = NoTool /\ (app = 0 \/ np_compat_would_force(app))
    THEN np_compat_registered_tool ELSE np_compat_wildcard_mapping(app)

HeldInv ==
    \A n \in DOMAIN held : /\ n \notin {NoTool, NP_COMPAT_TOOL_NONE}
                           /\ DOMAIN held[n] = {"appid", "dir", "reads"}
                           /\ Vouched(world.client) => held[n].reads
                           /\ is_tool_name(n) => is_tool_name(held[n].dir)

RegsInv ==
    /\ DOMAIN regs = Threads /\ DOMAIN manager = {"on", "seen"}
    /\ \A t \in Threads : /\ DOMAIN regs[t] = {"pc", "i"} /\ regs[t].pc \in {"idle", "claim", "tools"}
                          /\ regs[t].pc # "idle" => manager.seen
                          /\ regs[t].pc = "tools" => registered /\ regs[t].i \in Nat \ {0}
    /\ registered => manager.seen /\ g_tools # Unread
    /\ phase # "up" => ~registered /\ page = None /\ \A t \in Threads : regs[t].pc = "idle"

MapInv ==
    /\ DOMAIN map = Apps \cup {0}
    /\ \A a \in DOMAIN map : map[a] # NoTool

(* A page of settled tools still shows what is.                            *)
Shown ==
    /\ Settled
    /\ page.app # 0 => /\ page.active = hook_FindToolForTargetApp(page.app)
                       /\ page.chosen = np_compat_app_mapping(page.app)
                       /\ page.default = Default(page.app)
                       /\ page.chosen = NP_COMPAT_TOOL_NONE \/ page.default # NoTool => NP_COMPAT_TOOL_NONE \in page.offers

PageInv ==
    page # None =>
        /\ page.app \in Apps \cup {0} /\ NoTool \notin page.offers
        /\ page.result = "ok" /\ page.settled /\ Hooked("InternalSpecifyCompatTool") /\ ~news.behind => Shown

(* A page that is behind will be told, or was not reached.                 *)
NewsInv ==
    /\ DOMAIN news = {"due", "behind", "missed"} /\ news.due \in Nat
    /\ news.behind => news.due > 0 \/ news.missed

(* A launch that was resolved goes to a folder of its tool.                *)
LaunchInv ==
    /\ LaunchIsSound
    /\ launch # None /\ launch.pc = "resolved" /\ is_tool_name(launch.tool) => is_tool_name(launch.dir)
    /\ launch # None => manager.seen /\ phase = "up"

UseInv == HeldInv /\ RegsInv /\ MapInv /\ PageInv /\ NewsInv /\ LaunchInv

\* np_compat_probe_tool_layout: a shift both ends vouch for is the client's.
LEMMA VouchedIsRight ==
    ASSUME NEW w \in Worlds, Vouched(w.client)
    PROVE  WrittenWhereRead(w.client)
<1> DEFINE c == w.client
           s == np_compat_probe_tool_layout(c)
           far == probe_oslist_offsets(c.oslist)
<1>1. c.near \in Int /\ c.far \in Int /\ s # None /\ far # None
  BY ClientConstants DEF Vouched
<1>2. far.from = 112 + c.far /\ far.to = 120 + c.far
  <2>1. far = [from |-> COMPAT_TOOL_FROM_OSLIST_OFF + c.far, to |-> COMPAT_TOOL_TO_OSLIST_OFF + c.far]
    BY <1>1, ClientConstants
  <2> HIDE DEF far
  <2> QED BY <2>1 DEF COMPAT_TOOL_FROM_OSLIST_OFF, COMPAT_TOOL_TO_OSLIST_OFF
<1>3. NearShift(c) # None /\ s = NearShift(c) /\ far.from - 112 = s /\ far.to - 120 = s
  BY <1>1 DEF np_compat_probe_tool_layout, COMPAT_TOOL_FROM_OSLIST_OFF, COMPAT_TOOL_TO_OSLIST_OFF
<1>4. s = c.near
  <2>1. NearShift(c) \in {None, c.near}
    BY ClientConstants
  <2> QED BY <1>3, <2>1
<1>5. s = c.far
  BY <1>1, <1>2, <1>3, <1>4
<1>6. g_tool_shift(c) = s
  BY <1>1 DEF g_tool_shift
<1> HIDE DEF c, s, far
<1> QED
  BY <1>1, <1>4, <1>5, <1>6 DEF c, WrittenWhereRead, np_compat_tool_off, COMPAT_TOOL_INSTALL_OFF, COMPAT_TOOL_APPID_OFF,
     COMPAT_TOOL_FROM_OSLIST_OFF, COMPAT_TOOL_TO_OSLIST_OFF

\* np_compat_registered_tool yields a tool the manager holds.
LEMMA RegisteredIsHeld == ASSUME FolderInv PROVE np_compat_registered_tool \in DOMAIN held \cup {NoTool}
<1> DEFINE tl == load_tool_list_once
           I == {i \in 1 .. Len(tl) : find_tool(tl[i].name)}
<1>1. tl # Unread /\ GoodTools(tl)
  BY ToolsAreGood DEF FolderInv, ListInv, DiskInv, load_tool_list_once
<1>2. CASE tl = <<>>
  BY <1>2 DEF np_compat_registered_tool, find_tool
<1>3. CASE tl # <<>> /\ I = {}
  BY <1>3 DEF np_compat_registered_tool, SelectInSeq
<1>4. CASE tl # <<>> /\ I # {}
  <2>1. Min(I) \in I
    <3>1. I \in SUBSET Nat
      OBVIOUS
    <3> HIDE DEF I
    <3>2. \E x \in I : \A y \in I : x <= y
      BY <1>4, <3>1, Least
    <3> QED BY <3>2 DEF Min
  <2>2. np_compat_registered_tool = tl[Min(I)].name
    <3>1. SelectInSeq(tl, LAMBDA t : find_tool(t.name)) = Min(I) /\ Min(I) # 0
      BY <1>4, <2>1 DEF SelectInSeq
    <3> QED BY <1>4, <3>1 DEF np_compat_registered_tool
  <2>3. find_tool(tl[Min(I)].name)
    BY <2>1
  <2> QED BY <2>2, <2>3 DEF find_tool
<1> QED BY <1>2, <1>3, <1>4

\* hook_FindToolForTargetApp: so does the resolution.
LEMMA FoundIsHeld ==
    ASSUME FolderInv, NEW app
    PROVE  hook_FindToolForTargetApp(app) \in DOMAIN held \cup {NoTool}
<1>1. OrigFindTool(app) \in DOMAIN held \cup {NoTool}
  BY DEF OrigFindTool
<1> QED BY <1>1, RegisteredIsHeld DEF hook_FindToolForTargetApp

\* The answers depend on the names that are held, the mappings and the list.
LEMMA SameAnswers ==
    ASSUME UNCHANGED <<world, map, g_tools>>, g_tools # Unread, DOMAIN held' = DOMAIN held,
           manager'.seen <=> manager.seen, NEW app
    PROVE  /\ np_compat_app_mapping(app)' = np_compat_app_mapping(app)
           /\ hook_FindToolForTargetApp(app)' = hook_FindToolForTargetApp(app)
           /\ Default(app)' = Default(app)
<1>1. load_tool_list_once' = load_tool_list_once
  BY DEF load_tool_list_once
<1>2. \A n : find_tool(n)' <=> find_tool(n)
  BY <1>1 DEF find_tool, np_compat_manager_tools_max
<1>3. np_compat_registered_tool' = np_compat_registered_tool
  BY <1>1, <1>2 DEF np_compat_registered_tool, SelectInSeq
<1>4. np_compat_app_mapping(app)' = np_compat_app_mapping(app)
  BY DEF np_compat_app_mapping
<1>5. WindowsOnlyLookup' <=> WindowsOnlyLookup
  BY DEF WindowsOnlyLookup, Broken, Hooked
<1>6. np_compat_wildcard_mapping(app)' = np_compat_wildcard_mapping(app)
  BY <1>5 DEF np_compat_wildcard_mapping
<1>7. OrigFindTool(app)' = OrigFindTool(app)
  BY <1>6 DEF OrigFindTool
<1>8. np_compat_would_force(app)' <=> np_compat_would_force(app)
  BY DEF np_compat_would_force
<1>9. hook_FindToolForTargetApp(app)' = hook_FindToolForTargetApp(app)
  BY <1>3, <1>4, <1>7, <1>8 DEF hook_FindToolForTargetApp, Broken, Hooked
<1> QED BY <1>3, <1>4, <1>6, <1>8, <1>9 DEF Default

AnswersOf(app, o, x, y, z, s) ==
    [app : {app}, result : {"ok"}, offers : {o}, active : {x}, chosen : {y}, default : {z}, settled : {s}]
Filled(e, o, x, y, z) == [e EXCEPT !.offers = o, !.active = x, !.chosen = y, !.default = z]

\* An answer that is filled in.
LEMMA Answered ==
    ASSUME NEW app, NEW o, NEW x, NEW y, NEW z, NEW s, NEW o0, NEW x0, NEW y0, NEW z0,
           NEW e \in AnswersOf(app, o0, x0, y0, z0, s), NEW a,
           a = Filled(e, o, x, y, z)
    PROVE  a.app = app /\ a.offers = o /\ a.active = x /\ a.chosen = y /\ a.default = z /\ a.settled = s
<1>1. a \in AnswersOf(app, o, x, y, z, s)
  BY DEF AnswersOf, Filled
<1> QED BY <1>1 DEF AnswersOf

\* get_compat_tools: what the page is told, when the manager was seen.
LEMMA AnswerIs ==
    ASSUME FolderInv, HeldInv, NEW app, NEW a, a = get_compat_tools(app)
    PROVE  /\ a.app = app /\ NoTool \notin a.offers
           /\ a.settled => Settled
           /\ a.result = "ok" /\ manager.seen =>
                /\ a.active = hook_FindToolForTargetApp(app)
                /\ app # 0 => /\ a.chosen = np_compat_app_mapping(app)
                              /\ a.default = Default(app)
                              /\ a.chosen = NP_COMPAT_TOOL_NONE \/ a.default # NoTool => NP_COMPAT_TOOL_NONE \in a.offers
<1>1. /\ Answer(app, "ok").app = app /\ Answer(app, "ok").offers = {} /\ (Answer(app, "ok").settled => Settled)
      /\ Answer(app, "fail").app = app /\ Answer(app, "fail").offers = {} /\ (Answer(app, "fail").settled => Settled)
      /\ Answer(app, "is a tool").app = app /\ Answer(app, "is a tool").offers = {} /\ (Answer(app, "is a tool").settled => Settled)
      /\ Answer(app, "fail").result # "ok" /\ Answer(app, "is a tool").result # "ok"
  BY DEF Answer
<1>2. CASE ~manager.seen
  BY <1>1, <1>2 DEF get_compat_tools
<1>3. CASE manager.seen /\ a = Answer(app, "fail")
  BY <1>1, <1>3
<1>4. CASE manager.seen /\ a = Answer(app, "is a tool")
  BY <1>1, <1>4
<1>5. CASE manager.seen /\ a # Answer(app, "fail") /\ a # Answer(app, "is a tool")
  <2> DEFINE platforms == IF app = 0 THEN {Windows} ELSE world.platforms
             chosen == IF app = 0 THEN OrigFindTool(0) ELSE np_compat_app_mapping(app)
             none == app # 0 /\ (Default(app) # NoTool \/ chosen = NP_COMPAT_TOOL_NONE)
             offers == {n \in DOMAIN held : offered(n, platforms)} \cup (IF none THEN {NP_COMPAT_TOOL_NONE} ELSE {})
             active == hook_FindToolForTargetApp(app)
             default == Default(app)
  <2>1. a = [Answer(app, "ok") EXCEPT !.offers = offers, !.active = active, !.chosen = chosen, !.default = default]
    BY <1>5 DEF get_compat_tools, Default
  <2>2. NoTool \notin offers /\ (none => NP_COMPAT_TOOL_NONE \in offers)
    BY DEF HeldInv, NoTool, NP_COMPAT_TOOL_NONE
  <2>3. app # 0 => chosen = np_compat_app_mapping(app)
    OBVIOUS
  <2>4. app # 0 /\ (chosen = NP_COMPAT_TOOL_NONE \/ default # NoTool) => none
    OBVIOUS
  <2> HIDE DEF platforms, chosen, none, offers, active, default
  <2>5. /\ a.app = app /\ a.offers = offers /\ a.active = active /\ a.chosen = chosen /\ a.default = default
        /\ a.settled = Answer(app, "ok").settled
    <3> DEFINE e == Answer(app, "ok")
               s == e.settled
    <3>1. e \in AnswersOf(app, {}, NoTool, NoTool, NoTool, s)
      BY DEF Answer, AnswersOf
    <3>2. a = Filled(e, offers, active, chosen, default)
      BY <2>1 DEF Filled
    <3> HIDE DEF e, s
    <3>3. a.app = app /\ a.offers = offers /\ a.active = active /\ a.chosen = chosen /\ a.default = default /\ a.settled = s
      BY <3>1, <3>2, Answered
    <3> QED BY <3>3 DEF e, s
  <2>6. a.settled => Settled
    BY <1>1, <2>5
  <2> QED BY <2>2, <2>3, <2>4, <2>5, <2>6 DEF active, default
<1> QED BY <1>2, <1>3, <1>4, <1>5 DEF get_compat_tools

\* A page stays right while the tools, the mappings and the list do.
LEMMA PageKeeps ==
    ASSUME RegsInv, PageInv, UNCHANGED <<world, map, page, news>>, DOMAIN held' = DOMAIN held,
           Settled => Settled' /\ g_tools' = g_tools /\ (manager'.seen <=> manager.seen)
    PROVE  PageInv'
<1> SUFFICES ASSUME page # None, page.result = "ok", page.settled, Hooked("InternalSpecifyCompatTool"),
                    ~news.behind
             PROVE  Shown'
  BY DEF PageInv, Hooked
<1>1. Shown /\ g_tools # Unread
  BY DEF PageInv, Shown, Settled, RegsInv
<1>2. Settled' /\ g_tools' = g_tools /\ (manager'.seen <=> manager.seen)
  BY <1>1 DEF Shown
<1>3. PICK p : p = page
  OBVIOUS
<1>4. /\ np_compat_app_mapping(p.app)' = np_compat_app_mapping(p.app)
      /\ hook_FindToolForTargetApp(p.app)' = hook_FindToolForTargetApp(p.app)
      /\ Default(p.app)' = Default(p.app)
  BY <1>1, <1>2, SameAnswers
<1> QED BY <1>1, <1>2, <1>3, <1>4 DEF Shown

\* Where nothing changed that the tools, the page and a launch have.
LEMMA UseKeeps ==
    ASSUME UseInv, UNCHANGED <<world, g_tools, phase, tools, map, page, news, launch>>
    PROVE  UseInv'
<1>1. HeldInv' /\ MapInv' /\ NewsInv' /\ LaunchInv' /\ RegsInv'
  BY DEF UseInv, HeldInv, MapInv, NewsInv, LaunchInv, LaunchIsSound, Hooked, RegsInv, tools
<1>2. PageInv'
  <2>1. Settled' <=> Settled
    BY DEF Settled, tools
  <2> QED BY <2>1, PageKeeps DEF UseInv, tools
<1> QED BY <1>1, <1>2 DEF UseInv

\* The start and the end of a process.
LEMMA NothingIsSound ==
    ASSUME UseInv, Nothing, UNCHANGED <<world, map>>
    PROVE  UseInv'
<1>1. DOMAIN held' = {} /\ DOMAIN manager' = {"on", "seen"} /\ page' = None /\ launch' = None /\ ~registered' /\ news' = NoNews
  BY DEF Nothing
<1>2. DOMAIN regs' = Threads /\ \A t \in Threads : DOMAIN regs'[t] = {"pc", "i"} /\ regs'[t].pc = "idle"
  BY DEF Nothing, Idle
<1>3. NewsInv'
  BY <1>1 DEF NewsInv, NoNews
<1> QED BY <1>1, <1>2, <1>3 DEF UseInv, HeldInv, RegsInv, MapInv, PageInv, LaunchInv, LaunchIsSound

\* The manager comes with tools that read right.
LEMMA ManagerIsSound == ASSUME FolderInv, UseInv, ManagerComes PROVE UseInv'
<1>1. PICK scan \in {{}, OnDisk} :
         held' = [n \in DOMAIN world.own \cup scan |->
                    IF n \in scan THEN [appid |-> 0, dir |-> n, reads |-> TRUE]
                    ELSE [appid |-> world.own[n], dir |-> n, reads |-> TRUE]]
  BY DEF ManagerComes
<1>2. \A n \in scan : n \in DOMAIN world.disk
  BY DEF OnDisk, FolderInv, DiskInv
<1>3. world \in Worlds
  BY DEF FolderInv, ListInv
<1>4. HeldInv'
  <2>1. \A n \in DOMAIN held' : n \in DOMAIN world.own \/ n \in DOMAIN world.disk
    BY <1>1, <1>2
  <2>2. \A n \in DOMAIN held' : DOMAIN held'[n] = {"appid", "dir", "reads"} /\ held'[n].reads /\ held'[n].dir = n
    BY <1>1
  <2> QED BY <1>3, <2>1, <2>2, NameConstants DEF HeldInv, ManagerComes
<1>5. phase = "hook" /\ page = None /\ launch = None
      /\ UNCHANGED <<world, g_tools, registered, regs, map, page, news, launch>>
  BY DEF UseInv, RegsInv, LaunchInv, ManagerComes, folders, shown
<1>6. DOMAIN manager' = DOMAIN manager /\ (manager'.seen <=> manager.seen)
  BY DEF UseInv, RegsInv, ManagerComes
<1>7. RegsInv' /\ PageInv' /\ MapInv' /\ NewsInv' /\ LaunchInv'
  BY <1>5, <1>6 DEF UseInv, RegsInv, PageInv, MapInv, NewsInv, LaunchInv, LaunchIsSound
<1> QED BY <1>4, <1>7 DEF UseInv

\* force_enable: a query turns the switch on, and may begin to register.
LEMMA QueryIsSound == ASSUME FolderInv, UseInv, NEW t \in Threads, Query(t) PROVE UseInv'
<1>1. UNCHANGED <<world, g_tools, phase, held, registered, map, page, news, launch>> /\ phase = "up" /\ manager'.seen
      /\ DOMAIN manager' = {"on", "seen"}
  BY DEF Query, folders, shown
<1>2. DOMAIN regs' = Threads /\ (registered => regs' = regs)
      /\ \A u \in Threads : DOMAIN regs'[u] = {"pc", "i"} /\ (regs'[u] = regs[u] \/ regs'[u].pc = "claim")
  BY DEF Query, UseInv, RegsInv
<1>3. RegsInv'
  BY <1>1, <1>2 DEF UseInv, RegsInv
<1>4. PageInv'
  BY <1>1, <1>2, PageKeeps DEF UseInv, RegsInv, Settled
<1>5. HeldInv' /\ MapInv' /\ NewsInv' /\ LaunchInv'
  BY <1>1 DEF UseInv, HeldInv, MapInv, NewsInv, LaunchInv, LaunchIsSound, Hooked
<1> QED BY <1>3, <1>4, <1>5 DEF UseInv

\* np_compat_register_crossover: its flag is set and the list is read.
LEMMA ClaimIsSound == ASSUME FolderInv, UseInv, NEW t \in Threads, Claim(t) PROVE UseInv'
<1>1. UNCHANGED <<world, phase, held, manager, map, page, news, launch>> /\ regs[t].pc = "claim" /\ registered'
  BY DEF Claim, shown
<1>2. g_tools' # Unread
  BY ToolsAreGood DEF Claim, load_tool_list_once, FolderInv, ListInv, DiskInv
<1>3. /\ DOMAIN regs' = Threads
      /\ \A u \in Threads : DOMAIN regs'[u] = {"pc", "i"} /\ (regs'[u] = regs[u] \/ (regs'[u].pc = "tools" /\ regs'[u].i = 1))
  BY DEF Claim, UseInv, RegsInv
<1>4. manager.seen /\ phase = "up"
  BY <1>1 DEF UseInv, RegsInv
<1>5. RegsInv'
  BY <1>1, <1>2, <1>3, <1>4 DEF UseInv, RegsInv
<1>6. PageInv'
  <2>1. ~Settled
    BY <1>1 DEF Settled
  <2> QED BY <1>1, <2>1, PageKeeps DEF UseInv
<1>7. HeldInv' /\ MapInv' /\ NewsInv' /\ LaunchInv'
  BY <1>1 DEF UseInv, HeldInv, MapInv, NewsInv, LaunchInv, LaunchIsSound, Hooked
<1> QED BY <1>5, <1>6, <1>7 DEF UseInv

\* np_compat_register_crossover: a tool is written where it is read.
LEMMA RegisterIsSound == ASSUME FolderInv, UseInv, NEW t \in Threads, RegisterTool(t) PROVE UseInv'
<1>1. UNCHANGED <<world, g_tools, phase, manager, registered, map, page, news, launch>> /\ regs[t].pc = "tools"
  BY DEF RegisterTool, folders, shown
<1>2. registered /\ manager.seen /\ phase = "up" /\ regs[t].i \in Nat \ {0} /\ g_tools # Unread
  BY <1>1 DEF UseInv, RegsInv
<1>3. world \in Worlds /\ GoodTools(g_tools)
  BY <1>2 DEF FolderInv, ListInv
<1>4. /\ DOMAIN regs' = Threads
      /\ \A u \in Threads : DOMAIN regs'[u] = {"pc", "i"}
      /\ \A u \in Threads : regs'[u] = regs[u] \/ regs'[u].pc = "idle" \/ (regs'[u].pc = "tools" /\ regs'[u].i \in Nat \ {0})
  BY <1>1, <1>2 DEF RegisterTool, UseInv, RegsInv
<1>5. RegsInv'
  BY <1>1, <1>2, <1>4 DEF UseInv, RegsInv
<1>6. PageInv'
  <2>1. ~Settled
    BY <1>1 DEF Settled
  <2>2. page # None => page.app \in Apps \cup {0} /\ NoTool \notin page.offers
                       /\ ~(page.result = "ok" /\ page.settled /\ Hooked("InternalSpecifyCompatTool") /\ ~news.behind)
    BY <2>1 DEF UseInv, PageInv, Shown
  <2> QED BY <1>1, <2>2 DEF PageInv, Hooked
<1>7. HeldInv'
  <2>1. CASE held' = held
    BY <1>1, <2>1 DEF UseInv, HeldInv
  <2>2. CASE held' # held
    <3> DEFINE name == g_tools[regs[t].i].name
               e == [appid |-> 0, dir |-> name, reads |-> WrittenWhereRead(world.client)]
    <3>1. held' = [n \in DOMAIN held \cup {name} |-> IF n = name THEN e ELSE held[n]] /\ regs[t].i \in DOMAIN g_tools
      BY <1>2, <1>3, <2>2 DEF RegisterTool, GoodTools
    <3>2. name \in OurNames
      BY <1>3, <3>1 DEF GoodTools, parse_tool_line, is_tool_name
    <3>3. name \notin {NoTool, NP_COMPAT_TOOL_NONE}
      BY <3>2, NameConstants
    <3>4. DOMAIN e = {"appid", "dir", "reads"} /\ (Vouched(world.client) => e.reads) /\ e.dir = name
      BY <1>3, VouchedIsRight
    <3> HIDE DEF name, e
    <3>5. DOMAIN held' = {name} \cup DOMAIN held /\ \A n \in DOMAIN held' : held'[n] = IF n = name THEN e ELSE held[n]
      BY <3>1
    <3> QED BY <1>1, <3>3, <3>4, <3>5 DEF UseInv, HeldInv
  <2> QED BY <2>1, <2>2
<1>8. MapInv' /\ NewsInv' /\ LaunchInv'
  BY <1>1 DEF UseInv, MapInv, NewsInv, LaunchInv, LaunchIsSound, Hooked
<1> QED BY <1>5, <1>6, <1>7, <1>8 DEF UseInv

\* Steam turns the switch off.
LEMMA OffIsSound == ASSUME FolderInv, UseInv, TurnedOff PROVE UseInv'
<1>1. UNCHANGED <<world, g_tools, phase, held, registered, regs, map, page, news, launch>>
  BY DEF TurnedOff, folders, shown
<1>2. DOMAIN manager' = DOMAIN manager /\ (manager'.seen <=> manager.seen)
  BY DEF TurnedOff, UseInv, RegsInv
<1>3. PageInv'
  BY <1>1, <1>2, PageKeeps DEF UseInv, Settled
<1>4. RegsInv' /\ HeldInv' /\ MapInv' /\ NewsInv' /\ LaunchInv'
  BY <1>1, <1>2 DEF UseInv, RegsInv, HeldInv, MapInv, NewsInv, LaunchInv, LaunchIsSound, Hooked
<1> QED BY <1>3, <1>4 DEF UseInv

\* get_compat_tools: the page is told what is.
LEMMA AskIsSound == ASSUME FolderInv, UseInv, AskPage PROVE UseInv'
<1>1. PICK app \in Apps \cup {0} : page' = get_compat_tools(app)
  BY DEF AskPage
<1>2. UNCHANGED <<world, g_tools, phase, held, manager, registered, regs, map, launch>> /\ phase = "up"
  BY DEF AskPage, folders, tools
<1>3. HeldInv' /\ MapInv' /\ NewsInv' /\ LaunchInv' /\ RegsInv'
  <2>1. DOMAIN news' = {"due", "behind", "missed"} /\ news'.due = news.due /\ ~news'.behind
    BY DEF AskPage, UseInv, NewsInv
  <2> QED BY <1>2, <2>1 DEF UseInv, HeldInv, MapInv, NewsInv, LaunchInv, LaunchIsSound, Hooked, RegsInv
<1>4. PICK a : a = get_compat_tools(app)
  OBVIOUS
<1>5. /\ a.app = app /\ NoTool \notin a.offers
      /\ a.settled => Settled
      /\ a.result = "ok" /\ manager.seen =>
           /\ a.active = hook_FindToolForTargetApp(app)
           /\ app # 0 => /\ a.chosen = np_compat_app_mapping(app)
                         /\ a.default = Default(app)
                         /\ a.chosen = NP_COMPAT_TOOL_NONE \/ a.default # NoTool => NP_COMPAT_TOOL_NONE \in a.offers
  BY <1>4, AnswerIs DEF UseInv
<1>6. PageInv'
  <2>1. SUFFICES ASSUME a.result = "ok", a.settled PROVE Shown'
    BY <1>1, <1>4, <1>5 DEF PageInv
  <2>2. Settled /\ g_tools # Unread /\ manager.seen
    BY <1>5, <2>1 DEF UseInv, RegsInv, Settled
  <2>3. /\ np_compat_app_mapping(app)' = np_compat_app_mapping(app)
        /\ hook_FindToolForTargetApp(app)' = hook_FindToolForTargetApp(app)
        /\ Default(app)' = Default(app)
    BY <1>2, <2>2, SameAnswers
  <2>4. Settled' /\ page' = a
    BY <1>1, <1>2, <1>4, <2>2 DEF Settled
  <2> QED BY <1>5, <2>1, <2>2, <2>3, <2>4 DEF Shown
<1> QED BY <1>3, <1>6 DEF UseInv

\* hook_InternalSpecifyCompatTool: a page that shows a mapping is behind,
\* and will be told.
LEMMA SpecifyIsSound == ASSUME FolderInv, UseInv, Specify PROVE UseInv'
<1>1. UNCHANGED <<world, g_tools, phase, held, manager, registered, regs, page, launch>> /\ phase = "up" /\ world \in Worlds
  BY DEF Specify, folders, tools, FolderInv, ListInv
<1>2. \E app \in Apps \cup {0} : \E name : hook_InternalSpecifyCompatTool(app, name) /\ name # NoTool
  <2>1. CASE \E app \in Apps \cup {0}, name \in world.mappings : hook_InternalSpecifyCompatTool(app, name)
    BY <1>1, <2>1, MappingConstants
  <2>2. CASE page # None /\ \E name \in page.offers \cup {NoMapping} : hook_InternalSpecifyCompatTool(page.app, name)
    <3>1. PICK name \in page.offers \cup {NoMapping} : hook_InternalSpecifyCompatTool(page.app, name)
      BY <2>2
    <3>2. page.app \in Apps \cup {0} /\ NoTool \notin page.offers
      BY <2>2 DEF UseInv, PageInv
    <3>3. name # NoTool
      BY <3>2 DEF NoMapping, NoTool
    <3> QED BY <3>1, <3>2, <3>3
  <2> QED BY <2>1, <2>2 DEF Specify
<1>3. PICK app \in Apps \cup {0} : \E name : hook_InternalSpecifyCompatTool(app, name) /\ name # NoTool
  BY <1>2
<1>4. PICK name : hook_InternalSpecifyCompatTool(app, name) /\ name # NoTool
  BY <1>3
<1>5. HeldInv' /\ RegsInv' /\ LaunchInv'
  BY <1>1 DEF UseInv, HeldInv, RegsInv, LaunchInv, LaunchIsSound, Hooked
<1>6. MapInv'
  BY <1>4 DEF UseInv, MapInv, hook_InternalSpecifyCompatTool
<1>7. NewsInv' /\ (news'.behind <=> IF Hooked("InternalSpecifyCompatTool") THEN page # None ELSE news.behind)
  <2>1. CASE Hooked("InternalSpecifyCompatTool")
    <3>1. news' = [news EXCEPT !.due = @ + 1, !.behind = page # None]
      BY <1>4, <2>1 DEF hook_InternalSpecifyCompatTool, Hooked, Broken
    <3>2. DOMAIN news' = {"due", "behind", "missed"} /\ news'.due = news.due + 1 /\ (news'.behind <=> page # None)
      BY <3>1 DEF UseInv, NewsInv
    <3> QED BY <2>1, <3>2 DEF UseInv, NewsInv
  <2>2. CASE ~Hooked("InternalSpecifyCompatTool")
    <3>1. news' = news
      BY <1>4, <2>2 DEF hook_InternalSpecifyCompatTool
    <3> QED BY <2>2, <3>1 DEF UseInv, NewsInv
  <2> QED BY <2>1, <2>2
<1>8. PageInv'
  <2>1. CASE Hooked("InternalSpecifyCompatTool")
    BY <1>1, <1>7, <2>1 DEF UseInv, PageInv, Hooked
  <2>2. CASE ~Hooked("InternalSpecifyCompatTool")
    BY <1>1, <2>2 DEF UseInv, PageInv, Hooked
  <2> QED BY <2>1, <2>2
<1> QED BY <1>5, <1>6, <1>7, <1>8 DEF UseInv

\* np_compatsvc_state_changed: the page asks again, or was not reached.
LEMMA TellIsSound == ASSUME FolderInv, UseInv, np_compatsvc_state_changed PROVE UseInv'
<1>1. UNCHANGED <<world, g_tools, phase, held, manager, registered, regs, map, launch>> /\ phase = "up" /\ news.due > 0
  BY DEF np_compatsvc_state_changed, folders, tools
<1>2. HeldInv' /\ MapInv' /\ LaunchInv'
  BY <1>1 DEF UseInv, HeldInv, MapInv, LaunchInv, LaunchIsSound, Hooked
<1>3. CASE page' = None /\ news' = [NoNews EXCEPT !.due = news.due - 1]
  <2>1. DOMAIN news' = {"due", "behind", "missed"} /\ news'.due = news.due - 1 /\ ~news'.behind
    BY <1>3 DEF NoNews
  <2> QED BY <1>1, <1>2, <1>3, <2>1 DEF UseInv, RegsInv, PageInv, NewsInv
<1>4. CASE news' = [news EXCEPT !.due = @ - 1, !.missed = news.behind] /\ page' = page
  <2>1. /\ DOMAIN news' = {"due", "behind", "missed"} /\ news'.due = news.due - 1
        /\ news'.behind = news.behind /\ news'.missed = news.behind
    BY <1>4 DEF UseInv, NewsInv
  <2>2. NewsInv' /\ RegsInv'
    BY <1>1, <1>4, <2>1 DEF UseInv, NewsInv, RegsInv
  <2>3. PageInv'
    <3> SUFFICES ASSUME page # None, page.result = "ok", page.settled, Hooked("InternalSpecifyCompatTool"),
                        ~news.behind
                 PROVE  Shown'
      BY <1>1, <1>4, <2>1 DEF UseInv, PageInv, Hooked
    <3>1. Shown /\ g_tools # Unread
      BY DEF UseInv, PageInv, Shown, Settled, RegsInv
    <3>2. PICK p : p = page
      OBVIOUS
    <3>3. /\ np_compat_app_mapping(p.app)' = np_compat_app_mapping(p.app)
          /\ hook_FindToolForTargetApp(p.app)' = hook_FindToolForTargetApp(p.app)
          /\ Default(p.app)' = Default(p.app)
      BY <1>1, <3>1, SameAnswers
    <3> QED BY <1>1, <1>4, <3>1, <3>2, <3>3 DEF Shown, Settled
  <2> QED BY <1>2, <2>2, <2>3 DEF UseInv
<1> QED BY <1>3, <1>4 DEF np_compatsvc_state_changed

\* np_compat_tool_dir is a folder of ours.
LEMMA DirIsOurs == ASSUME FolderInv PROVE is_tool_name(np_compat_tool_dir)
<1>1. GoodTools(load_tool_list_once)
  BY ToolsAreGood DEF FolderInv, ListInv, DiskInv, load_tool_list_once
<1>2. CASE load_tool_list_once = <<>>
  BY <1>2, DirConstants DEF np_compat_tool_dir, is_tool_name
<1>3. CASE load_tool_list_once # <<>>
  <2>1. 1 \in DOMAIN load_tool_list_once
    BY <1>1, <1>3 DEF GoodTools
  <2> QED BY <1>1, <1>3, <2>1 DEF np_compat_tool_dir, GoodTools, parse_tool_line
<1> QED BY <1>2, <1>3

\* local_redirect: a launch has a tool that is held, and a folder of its own.
LEMMA LaunchKeeps == ASSUME FolderInv, UseInv, NEW app \in Apps, Launch(app) PROVE UseInv'
<1> DEFINE tool == hook_FindToolForTargetApp(app)
<1>1. UNCHANGED <<world, g_tools, phase, manager, registered, regs, map, page, news>> /\ manager.seen /\ phase = "up"
  BY DEF Launch, folders
<1>2. tool \in DOMAIN held
  BY FoundIsHeld DEF Launch
<1>3. /\ held' = [held EXCEPT ![tool] = local_redirect(@)]
      /\ launch' = [pc |-> "resolved", app |-> app, tool |-> tool, reads |-> held[tool].reads,
                    dir |-> local_redirect(held[tool]).dir]
  BY DEF Launch
<1> HIDE DEF tool
<1>4. /\ DOMAIN local_redirect(held[tool]) = {"appid", "dir", "reads"}
      /\ local_redirect(held[tool]).reads = held[tool].reads
      /\ local_redirect(held[tool]).dir \in {held[tool].dir, np_compat_tool_dir}
  BY <1>2 DEF UseInv, HeldInv, local_redirect
<1>5. /\ Vouched(world.client) => held[tool].reads
      /\ is_tool_name(tool) => is_tool_name(local_redirect(held[tool]).dir)
  BY <1>2, <1>4, DirIsOurs DEF UseInv, HeldInv
<1>6. DOMAIN held' = DOMAIN held /\ \A n \in DOMAIN held' : held'[n] = IF n = tool THEN local_redirect(held[tool]) ELSE held[n]
  BY <1>2, <1>3
<1>7. HeldInv'
  BY <1>1, <1>4, <1>5, <1>6 DEF UseInv, HeldInv, is_tool_name
<1>8. LaunchInv'
  <2>1. /\ launch'.pc = "resolved" /\ launch'.tool = tool /\ launch'.reads = held[tool].reads
        /\ launch'.dir = local_redirect(held[tool]).dir
    BY <1>3
  <2> QED BY <1>1, <1>5, <2>1 DEF LaunchInv, LaunchIsSound, Vouched, is_tool_name
<1>9. PageInv'
  BY <1>1, <1>6, PageKeeps DEF UseInv, Settled
<1>10. RegsInv' /\ MapInv' /\ NewsInv'
  BY <1>1 DEF UseInv, RegsInv, MapInv, NewsInv
<1> QED BY <1>7, <1>8, <1>9, <1>10 DEF UseInv

\* np_hook_vr_support, np_launch_shell: the arguments are doubled where the
\* command is wrapped.
LEMMA CommandIsSound == ASSUME FolderInv, UseInv, RunCommand PROVE UseInv'
<1>1. UNCHANGED <<world, g_tools, phase, tools, map, page, news>> /\ launch # None /\ launch.pc = "resolved"
  BY DEF RunCommand, folders
<1>2. PICK grown, copied, l :
        /\ l = launch
        /\ launch' = [pc |-> "run", app |-> l.app, tool |-> l.tool, reads |-> l.reads,
                      again |-> hook_FindToolForTargetApp(l.app), grown |-> grown, copied |-> copied,
                      doubled |-> np_hook_vr_support(l.app, grown), wrapped |-> np_launch_shell(l.dir, copied)]
  BY DEF RunCommand
<1>3. /\ launch'.pc = "run" /\ launch'.tool = l.tool /\ launch'.reads = l.reads
      /\ launch'.again = hook_FindToolForTargetApp(l.app) /\ launch'.grown = grown /\ launch'.copied = copied
      /\ launch'.doubled = np_hook_vr_support(l.app, grown) /\ launch'.wrapped = np_launch_shell(l.dir, copied)
  BY <1>2
<1>4. ASSUME is_tool_name(l.tool), hook_FindToolForTargetApp(l.app) = l.tool, Hooked("SteamVRSupportCheck"), grown, copied
      PROVE  np_hook_vr_support(l.app, grown) <=> np_launch_shell(l.dir, copied)
  <2>1. manager.seen /\ is_tool_name(l.dir)
    BY <1>1, <1>2, <1>4 DEF UseInv, LaunchInv
  <2> QED BY <1>4, <2>1 DEF np_hook_vr_support, np_launch_shell, np_compat_app_runs_tool, np_compat_runs_tool, is_tool_name
<1>5. LaunchInv'
  <2>1. l.reads \/ ~Vouched(world.client)
    BY <1>1, <1>2 DEF UseInv, LaunchInv, LaunchIsSound, Vouched
  <2>2. manager.seen /\ phase = "up" /\ UNCHANGED <<world, manager, phase>>
    BY <1>1 DEF UseInv, LaunchInv, tools
  <2> QED BY <1>3, <1>4, <2>1, <2>2 DEF LaunchInv, LaunchIsSound, Vouched, Hooked, is_tool_name
<1>6. HeldInv' /\ MapInv' /\ NewsInv' /\ RegsInv'
  BY <1>1 DEF UseInv, HeldInv, MapInv, NewsInv, RegsInv, tools
<1>7. PageInv'
  <2>1. Settled' <=> Settled
    BY <1>1 DEF Settled, tools
  <2> QED BY <1>1, <2>1, PageKeeps DEF UseInv, tools
<1> QED BY <1>5, <1>6, <1>7 DEF UseInv

\* Every step keeps the page and the launches right.
LEMMA UseStep == FolderInv /\ UseInv /\ [Next]_vars => UseInv'
<1> SUFFICES ASSUME FolderInv, UseInv, [Next]_vars PROVE UseInv'
  OBVIOUS
<1>1. CASE UNCHANGED vars
  BY <1>1, UseKeeps DEF vars, folders, tools
<1>2. CASE AppStartsSteam
  BY <1>2, NothingIsSound DEF AppStartsSteam, Begin
<1>3. CASE StartStep
  BY <1>3, UseKeeps DEF StartStep, FolderStep, shown
<1>4. CASE InstallSpawn
  <2>1. phase = "start" /\ phase' = "hook" /\ UNCHANGED <<world, g_tools, held, manager, registered, regs, map, page, news, launch>>
    BY <1>4 DEF InstallSpawn, PlaceSpawn, folders, tools, shown
  <2>2. page = None /\ launch = None
    BY <2>1 DEF UseInv, RegsInv, LaunchInv
  <2> QED BY <2>1, <2>2 DEF UseInv, HeldInv, RegsInv, MapInv, PageInv, NewsInv, LaunchInv, LaunchIsSound
<1>5. CASE ManagerComes
  BY <1>5, ManagerIsSound
<1>6. CASE Kill
  BY <1>6, NothingIsSound DEF Kill
<1>7. CASE ListChanges
  BY <1>7, UseKeeps DEF ListChanges, AppWritesList, shown
<1>8. CASE \E who \in {"steam", "helper"} : Spawn(who)
  BY <1>8, UseKeeps DEF Spawn, folders, shown
<1>9. CASE StartHelper
  BY <1>9, UseKeeps DEF StartHelper, folders, shown
<1>10. CASE ReExec
  BY <1>10, NothingIsSound DEF ReExec, Begin
<1>11. CASE \E t \in Threads : Query(t) \/ Claim(t) \/ RegisterTool(t)
  BY <1>11, QueryIsSound, ClaimIsSound, RegisterIsSound
<1>12. CASE TurnedOff
  BY <1>12, OffIsSound
<1>13. CASE AskPage
  BY <1>13, AskIsSound
<1>14. CASE Specify
  BY <1>14, SpecifyIsSound
<1>15. CASE \E app \in Apps : Launch(app)
  BY <1>15, LaunchKeeps
<1>16. CASE HelperCrashes
  BY <1>16, UseKeeps DEF HelperCrashes, folders, shown
<1>17. CASE np_compatsvc_state_changed
  BY <1>17, TellIsSound
<1>18. CASE RunCommand
  BY <1>18, CommandIsSound
<1> QED BY <1>1, <1>2, <1>3, <1>4, <1>5, <1>6, <1>7, <1>8, <1>9, <1>10, <1>11, <1>12, <1>13, <1>14, <1>15, <1>16,
           <1>17, <1>18 DEF Next

\* In every behaviour.
LEMMA UseInvariant == Spec => []UseInv
<1>1. Init => UseInv
  <2> SUFFICES ASSUME Init PROVE UseInv
    OBVIOUS
  <2>1. DOMAIN held = {} /\ DOMAIN manager = {"on", "seen"} /\ page = None /\ launch = None /\ ~registered /\ news = NoNews
    BY DEF Init
  <2>2. DOMAIN regs = Threads /\ \A t \in Threads : DOMAIN regs[t] = {"pc", "i"} /\ regs[t].pc = "idle"
    BY DEF Init, Idle
  <2>3. MapInv
    BY DEF Init, MapInv, NoMapping, NoTool
  <2>4. NewsInv
    BY <2>1 DEF NewsInv, NoNews
  <2> QED BY <2>1, <2>2, <2>3, <2>4 DEF UseInv, HeldInv, RegsInv, PageInv, LaunchInv, LaunchIsSound
<1> QED BY <1>1, UseStep, FolderInvariant, PTL DEF Spec

\* np_compat_probe_tool_layout, np_hook_vr_support: a launch runs a tool that
\* was registered where the client reads it, and its arguments are doubled
\* exactly where a shell takes them apart, if the hook is in place, gets the
\* memory and still finds the tool of the launch.
THEOREM LaunchesAreSound == Spec => []LaunchIsSound
<1>1. UseInv => LaunchIsSound
  BY DEF UseInv, LaunchInv
<1> QED BY <1>1, UseInvariant, PTL

\* get_compat_tools, hook_FindToolForTargetApp: what the page shows is what a
\* launch does, but for a change that is still to be told or reached nobody.
THEOREM PageIsTheLaunch == Spec => []PageMatchesLaunch
<1>1. FolderInv /\ UseInv => PageMatchesLaunch
  <2> SUFFICES ASSUME FolderInv, UseInv, page # None, page.app # 0, page.result = "ok", page.settled,
                      Hooked("FindToolForTargetApp"), Hooked("InternalSpecifyCompatTool"),
                      ~(news.behind /\ (news.due > 0 \/ news.missed))
               PROVE  LET runs == hook_FindToolForTargetApp(page.app)
                      IN  /\ page.active = runs
                          /\ page.chosen = NP_COMPAT_TOOL_NONE => runs = NoTool
                          /\ page.chosen = NoTool /\ map[0] \in DOMAIN held \cup {NoMapping} => page.default = runs
                          /\ page.chosen = NP_COMPAT_TOOL_NONE \/ (page.chosen = NoTool /\ runs # NoTool)
                               => NP_COMPAT_TOOL_NONE \in page.offers
    BY DEF PageMatchesLaunch
  <2> DEFINE app == page.app
             runs == hook_FindToolForTargetApp(app)
             falls == np_compat_wildcard_mapping(app)
  <2>1. /\ page.active = runs /\ page.chosen = np_compat_app_mapping(app) /\ page.default = Default(app)
        /\ page.chosen = NP_COMPAT_TOOL_NONE \/ page.default # NoTool => NP_COMPAT_TOOL_NONE \in page.offers
        /\ app \in Apps
    <3>1. ~news.behind
      BY DEF UseInv, NewsInv
    <3> QED BY <3>1 DEF UseInv, PageInv, Shown
  <2>2. NoTool \notin DOMAIN held /\ NP_COMPAT_TOOL_NONE \notin DOMAIN held /\ map[app] # NoTool /\ map[0] # NoTool
    BY <2>1 DEF UseInv, HeldInv, MapInv
  <2>3. NP_COMPAT_TOOL_NONE # NoTool /\ NP_COMPAT_TOOL_NONE # NoMapping /\ NoTool # NoMapping
    BY DEF NP_COMPAT_TOOL_NONE, NoTool, NoMapping
  <2>4. runs = IF OrigFindTool(app) # NoTool THEN OrigFindTool(app)
               ELSE IF np_compat_app_mapping(app) = NP_COMPAT_TOOL_NONE \/ ~np_compat_would_force(app) THEN NoTool
               ELSE np_compat_registered_tool
    BY DEF hook_FindToolForTargetApp, Broken, Hooked
  <2>5. page.chosen = NP_COMPAT_TOOL_NONE => runs = NoTool
    <3> SUFFICES ASSUME page.chosen = NP_COMPAT_TOOL_NONE PROVE runs = NoTool
      OBVIOUS
    <3>1. map[app] = NP_COMPAT_TOOL_NONE
      BY <2>1, <2>3 DEF np_compat_app_mapping
    <3>2. OrigFindTool(app) = NoTool
      BY <2>2, <2>3, <3>1 DEF OrigFindTool
    <3> QED BY <2>1, <2>4, <3>2
  <2>6. ASSUME page.chosen = NoTool
        PROVE  IF falls = NoTool THEN Default(app) = runs
               ELSE falls = map[0] /\ Default(app) = falls /\ (map[0] \in DOMAIN held => runs = falls) /\ map[0] # NoMapping
    <3>1. map[app] = NoMapping /\ app # 0
      BY <2>1, <2>2, <2>6 DEF np_compat_app_mapping
    <3>2. OrigFindTool(app) = IF falls \in DOMAIN held THEN falls ELSE NoTool
      BY <3>1 DEF OrigFindTool
    <3>3. CASE falls = NoTool
      BY <2>1, <2>2, <2>3, <2>4, <2>6, <3>1, <3>2, <3>3 DEF Default
    <3>4. CASE falls # NoTool
      <4>1. falls = map[0] /\ map[0] # NoMapping
        BY <3>4 DEF np_compat_wildcard_mapping
      <4> QED BY <2>4, <3>2, <3>4, <4>1 DEF Default
    <3> QED BY <3>3, <3>4
  <2> QED BY <2>1, <2>5, <2>6
<1> QED BY <1>1, UseInvariant, FolderInvariant, PTL
=============================================================================
