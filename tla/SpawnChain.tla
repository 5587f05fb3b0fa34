----------------------------- MODULE SpawnChain ------------------------------
(***************************************************************************)
(* Which children of Steam get the dylib (hook_spawn.c).  The app starts   *)
(* steam_osx with it in the environment; it takes the entry out, so that   *)
(* what LaunchServices opens does not get it, and puts it back for its own *)
(* next image and for Steam Helper.  An environment is [insert, block,     *)
(* compat]: parts of DYLD_INSERT_LIBRARIES, the block list of SDL, and     *)
(* STEAM_COMPAT_DATA_PATH of a game that runs under a tool.                *)
(***************************************************************************)
EXTENDS Naturals, FiniteSets

CONSTANTS Dylib, Overlay

ASSUME ChainConstants == Dylib # Overlay

Apis == {"execve", "posix_spawn", "posix_spawnp"}

(* A process: its environment, whether the dylib is in it, the entries it  *)
(* holds, the functions it has hooked and those a hook that failed left    *)
(* patched: a call of one of these ends the process.                       *)
Process(env) ==
    [env |-> env, loaded |-> Dylib \in env.insert, insert |-> {}, block |-> FALSE, placed |-> {}, broken |-> {}]

np_target_keeps_insert(path) == path \in {"steam_osx", "Steam Helper"}

(* np_init of a process the dylib is in: a hook that fails leaves its      *)
(* function as it was, or patched with no original behind it; with one     *)
(* missing the entry stays in the environment.                             *)
AnyPlaced(placed) == placed # {}
AllPlaced(placed) == placed = Apis

np_take_insert(p) == IF p.insert = {} THEN p ELSE [p EXCEPT !.env.insert = {}]

np_hooks_spawn_install(p, placed, broken, disabled) ==
    IF disabled THEN p
    ELSE LET q == [p EXCEPT !.insert = p.env.insert, !.block = p.env.block, !.placed = placed, !.broken = broken]
         IN  IF AllPlaced(placed) THEN np_take_insert(q) ELSE q

np_with_insert(p, env) == IF p.insert = {} \/ env.insert # {} THEN env ELSE [env EXCEPT !.insert = p.insert]

(* Ours go; all of them for the run script, which makes its own.           *)
np_without_insert(p, env) ==
    IF p.insert = {} /\ ~p.block THEN env
    ELSE [env EXCEPT !.insert = IF env.compat THEN {} ELSE @ \ p.insert,
                     !.block = @ /\ ~p.block]

(* What the child gets of what Steam gives: LaunchServices takes the       *)
(* environment of the process.                                             *)
ChildEnv(p, api, path, given) ==
    IF api \notin p.placed THEN given
    ELSE IF np_target_keeps_insert(path) THEN np_with_insert(p, given) ELSE np_without_insert(p, given)
=============================================================================
