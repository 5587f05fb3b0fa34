# NotProton, specified

NotProton makes Steam's own Steam Play work on macOS. An app sets up a Wine
runner and patches the Steam client; a dynamic library inside Steam answers the
client's compatibility code; a shell script, `compat_run.sh`, runs each time a
Windows game starts. These are separate processes that share files under the
Steam library and `~/Library/Application Support/notproton`, with no server
between them: everything they agree on is a `flock`, a rename, or a small file
that one writes and another reads. Any of them may be killed at any time, by the
player, by Steam's Stop button or by a crash. That is where this code is hard to
test, and that is what these modules are about.

## Inventory

| Part | Source | State it keeps | Operations | Shared with |
|---|---|---|---|---|
| Launch script | `dylib/feats/compat_run.sh` | the prefix directory, its records, its seed from a template | prepare, check the machine, offer a rebuild, set up, release the lock, run the game, record how the session ended | the app (prefix lock, rebuild command), other launches (template lock) |
| Prefix operations of the app | `Model/PrefixStore`, `PrefixRebuild`, `PrefixTools`, `PrefixesModel` | `pfx`, `pfx.rebuild`, `pfx.previous-*` | rebuild, back up, delete, delete a backup, Winetricks, open a Wine tool | launches (prefix lock, Wine servers) |
| Rebuild command | `Support/Launch`, `FileLock`; `compatsvc.c`, `prefixstate.c`; `run_rebuild` in the script | `notproton-rebuild` (progress), `notproton-rebuild-exit`, the rebuild lock | start, refuse, report a phase, answer, give up, show on the page | script, app and page all read and write these files |
| Session record | `compat_run.sh` 1510-1647 | `notproton-build`, `notproton-switch`, `notproton-healthy` | note another build, record a session, offer a rebuild once | launches of one game, which may overlap |
| Prefix templates | `compat_run.sh` 2111-2388; `RunnerInstaller`, `RunnerSetup`, `RunnerPatcher` | a template and its `ready` file per library and runner | identify, build, record, copy, link; replace, patch, sign, remove the runner; clean | all games of a library, the app |
| Steam installation | `SteamInstaller`, `SteamRepair`, `Uninstall`, `UpdateBlock`, `DeploymentContent` | Steam's bundle, staged content, the installation and Steam locks | install, repair, remove, block updates | the app's commands, launches (rebuild waits for the installation lock) |
| CEG service | `ceg.c`, `hook_ceg.c` | a ring of 16 games, the call that runs, its files and its helper | note a game's tool and folder, take a job, run a helper in the prefix, time out, stop | Steam's threads, the unloading thread |
| Loader and hooks | `core/loader.c`, `hooks/hooks.c`, `resolver/*.c` | the database, what was resolved, hooks in place | wait for an image, resolve, install, stop waiting | dyld, Steam's threads, the client's updates |
| Tools offered to Steam | `compat.c`, `hook_compat.c`, `hook_launch.c`, `hook_spawn.c` | folders of `compatibilitytools.d`, entries in the client's manager, the environment of children | write and remove folders, probe the client's structures, register, map, launch, pass the dylib on | the app (its list), the user's folders, the page |
| Default settings | `defaults.c`, `compatpage.c` | a settings file per family and per CrossOver version | save, apply, read | the pages' threads, the launch script |
| Routes of the pages | `webui.c`, `compatsvc.c`, `hook_webui.c` | the table of routes, jobs that wait for an answer | read the client's code, register, answer, notify | the client's dispatcher, the pages |
| Patched scripts | `webpatch.c`, `hook_webpatch.c`, `nativeplatform.c` | thread-local lists, a helper process with a deadline | recognise a script, fill the lists in, patch all or nothing, serve | the client's threads, the disk |
| Plugins and variants | `conf.c`, `webpatch.c`, `compat_run.sh` 300-1115 | descriptor files, trees of files | read, refuse, offer on the page, take at a launch | page and script read the same files |
| Steam helper | `steam-shim/steam.cpp` | files of the prefix, events and semaphores of the session, the game's processes | set up, start, wait, start again, answer the DRM | the game, other copies of itself, the client |
| Other in-prefix parts | `lsteamclient`, `overlay-shim`, `ntdll-patch` | per game process | marshal Steam calls | Wine |

What is hard in it: launches and the app interleave on one prefix; the lock is
given up before the game starts, because the game must not hold it; dialogs are
open for minutes without the lock; a rebuild is renames that a kill can split;
the progress, the exit status and the lock of a rebuild are read one after the
other by processes that cannot wait for each other; the runner a template was
made with can be replaced while it is made. Inside Steam the client is updated on
its own: code that was found by its shape yesterday has moved today. And much is
decided twice, by two programs in two languages from the same files: the panel
says what a launch will do, and the launch script does it.

What makes the parts correct:

- *Prefix*: save games survive every sequence of rebuilds, failures and kills;
  two parties never work on a prefix at once; a prefix is only set up for the
  machine it was made for; the lock is always given up again.
- *Rebuild command*: one rebuild at a time; its progress is its own; whoever
  started it learns how it ended and never waits for ever.
- *Templates*: no prefix is completed from a broken template, or from one that
  another runner made.
- *Session record*: a switch of builds is blamed for a crash only if the build
  before was healthy, and asked about once.
- *Installation*: a crash at any step leaves Steam working or repairable.
- *CEG*: a call returns a whole output or fails, and always returns; no process
  is signalled that is not its helper; nothing stays behind on disk; a job is
  taken from Steam only when its calls can be served.
- *Loader and resolver*: the client is hooked whole or not at all; a hook goes to
  the function its signature describes, at its entry, in every build.
- *Tools*: the folders follow the app's list after any kill, and the user's own
  stay; the dylib reaches Steam and nobody else; a page that can be told of changes
  tells what a launch does.
- *Settings and routes*: an answer is true; a file is a whole set; a job is
  answered by its own handler.
- *Plugins, variants, scripts*: both readers agree on every file; a page is
  patched whole and fresh, and the panel's checks of a variant and the script's
  agree.
- *Steam helper*: the prefix is of this launch, one game runs at a time, and the
  helper stays as long as the game does and no longer.

## Modules

| Module | Models | Run | Proofs |
|---|---|---|---|
| `PrefixLifecycle` | the directories of one prefix and everyone who works on them | `lifecycle_*` | `PrefixLifecycleProofs` |
| `RebuildCommand` | the progress and exit files, rebuild lock and the waits on them | `rebuild_progress` | `RebuildCommandProofs` |
| `TemplateCache` | one template slot and the runner it belongs to | `template_safety` | `TemplateCacheProofs` |
| `CegService` | service calls of games with CEG inside Steam, the install thread and the unloading | `ceg_calls` | `GameProofs` |
| `SteamInstall` | copies of Steam.app, and what each account knows of them, under installing, repairing and removing | `steam_safety` | `SteamInstallProofs` |
| `SettingsStore` | what the default settings promise (abstract) | as a property of `compat_routes` | refined in `CompatRoutesProofs` |
| `ToolDefaults` | the settings files, saved, applied and read by threads | with `CompatRoutes` | `CompatRoutesProofs` |
| `CompatRoutes` | routes, jobs and handlers; runs the calls of `ToolDefaults` | `compat_routes` | `CompatRoutesProofs` |
| `PluginRecords` | two readers of descriptor files, in C and in awk | `plugin_records` | `PanelProofs` |
| `PanelOffers` | what a variant and a plugin need, on the page and at a launch | with `PagePatch` | `PanelProofs` |
| `PagePatch` | the client's scripts as they are served; composes `PanelOffers` | `page_patch` | `PanelProofs` |
| `CodeImage` | ways to find a function in an image of code (operators) | with `HookInstall` | `LoaderProofs` |
| `HookInstall` | the install thread: database, resolving, hooking, unloading | `hook_install` | `LoaderProofs` |
| `SteamHelper` | `steam.exe` of the prefix and the session it serves | `steam_helper` | `GameProofs` |
| `ToolLayout` | where the client keeps what is read of it (operators) | with `CompatTools` | `LoaderProofs` |
| `ToolFolders` | folders of `compatibilitytools.d` | with `CompatTools` | `LoaderProofs` |
| `SpawnChain` | environments of the children of Steam (operators) | with `CompatTools` | `LoaderProofs` |
| `CompatTools` | the tools from a start of Steam to a launch; composes the three above | `compat_tools` | `LoaderProofs` |

The actions of `SteamHelper` and `HookInstall` are joined in `HelperNext` and
`InstallNext` (with `HelperInit`, `HelperSpec`, `InstallInit`, `InstallSpec`), since
their proofs stand in one module with those of another system of the same process.

`MC*` modules only add instances, symmetry sets and constraints; the `.cfg` files
give constants their values. Operators that are a plausible bug in the definition
that follows them (`Bad...` in the older modules, and those `PROJECT.json` names as
mutants) are used by no specification: with one in the place of its definition,
TLC finds the property that guards it violated.

### PrefixLifecycle

A directory is an inode, because renames move it and Wine servers are bound to
it (`server-<dev>-<ino>`). What it holds is cut down to the game's saves, the
machine of `ntdll.dll` and whether `user.reg` exists. `prefixLock` is the flock
on `.notproton-prefix.lock`.

Launches go `idle -> checking -> checked -> cleared -> setup -> staged ->
released -> playing`; the lock is held from `prepare_prefix_directory` (2395) to
`exec 8>&-` (2766), except in a dialog. Workers are operations of the app:
rebuild (`claimed, booted, carried, parked, swapped`, from `PrefixRebuild`), back
up, delete, Winetricks. Tools are Wine programs the app opens after a probe of the
lock that it does not keep. A kill leaves the disk as it is and closes the lock.

Abstractions: deleting is one step, with the lock file (see hazards); the server
that wineboot leaves in `pfx.rebuild` is not counted as a running game; probes
that hold the lock for a moment are not modelled; a claim that finds the prefix
busy does nothing; whether a launch offers a rebuild after a crash is a free
choice here; the name `pfx.replaced.*` of old versions is not modelled.
`promised` is what the dialogs promise to keep: saves in the folders a rebuild
carries, written into `pfx` while no rebuild or delete has claimed it.

Bounds: three directories are the most that one worker needs (old, new and one
backup); one save is enough, since saves are independent of each other; two
machines, so that a mismatch can happen.

### RebuildCommand

The app's `--rebuild-prefix` command, started by a script (`run_rebuild`) or by
the page (`start_rebuild` in `compatsvc.c`), takes the rebuild lock, then the
prefix lock, and reports its phase in `notproton-rebuild`. A subshell of the script leaves
the exit status in `notproton-rebuild-exit`. The page polls, reading the phase
first and the lock after (`read_rebuild`). Time is a set of grace periods that
elapse (`Age`, `GraceOver`), not a clock. A report the app cannot write is lost, and it
goes on (`try?`, `Launch.swift:81`): the page then shows the phase before, and a rebuild
whose `done` is lost as one that failed. `ProgressIsOwn` is therefore about steps: from
an app's claim to its end the file only takes its own reports, or grows old.

With `Prompt` the processes keep to the graces the code counts on: the app
claims within 30 s of its start, the subshell writes within 2 s of the app's end,
an app that the page started reports within 30 s. Without it nothing is assumed.
Whether a rebuild is needed, the tool, and whether the game runs are inputs; `done` and
`done-backup` are one answer; the page's native handlers run one at a time, as
they do on the client's one thread; a row's sticky error is merged into what is shown.
Stop kills the script's process group, and the app goes on in its own
(`setsid`). `Apps` bounds how many rebuilds a behaviour has.

### TemplateCache

One slot: one library, one runner (a variant has its own). The runner's files
are a version that only grows, plus the loader's signature, which is what
`template_identity` hashes. A template remembers the first and the last version
it was made by. A launch computes the identity, compares it with `ready`,
and builds, records, copies and links; the app replaces, patches, signs, rolls
back and removes the runner and cleans templates of runners it does not find.
`rm` and `cp` inherit the lock descriptor of a killed shell and go on
(`orphan`); Wine does not. All the app's operations hold the installation lock.

Abstractions: the identity is read in one step (a mixture of two states never equals a
later one, because of the order the files are patched in); dead scratch
directories are only swept; a wineboot that a kill orphaned is not counted as
running; the uninstaller's removal is left out. `MaxVersion` bounds the changes of the runner.

### CegService

Everything here runs in Steam's process, on threads that Steam owns: download
jobs note a game in the ring (`NoteTool`, `LookUpTool`, `TakeJob`), service calls
run a helper (`CallStep`), the library's own thread installs the hooks
(`InstallStep`) and the thread that ends Steam unloads it (`FiniStep`). A call
goes `idle -> waiting -> entered -> named -> written -> spawned`, then between
`watching` and `looking` until the helper has ended, is late or Steam stops, then
`killing` if need be, `exited -> reaping -> judging -> reading -> leaving ->
done`. Each read or write of something another thread can change is a step of its
own, so `np_ceg_stop` can come between any two of them.

A helper is its process group. `zombie ok` and `zombie bad` are a helper that has
ended and was not waited for, `reaped` one that the call waited for, `stolen` one
that Steam waited for first (`Reaper`), which the call sees as ECHILD. An output
is missing, half written, whole, or larger than the call allows.

Abstractions: a callid is used once; of the jobs between the look at
`g_service_ready` and the note of the folder one at a time is followed, while
any game's tool may change; a call reads the ring once, so the slot it copied
is only the guard of `BeginCall`; errors of `waitid` other than ECHILD and EINTR
do not happen to a pid of one's own; what a call kept on its stack is reset when
it returns; Steam's threads end when `np_fini` has returned.

Bounds: two slots and three games, so that slots run out; the counter wraps at 4,
a multiple of the slots as 2^32 is of 16 (assumption `RingFits`); two calls, so
that one can wait for the other. `CallsForOneGame` in `MCCegService` explores the
ring in full before the first call and the calls with one game in the ring: a
call does not read the ring again, and does not write to it.

### SteamInstall

Copies of Steam.app are shared by the accounts of a Mac; an account may change
some of them (`CanWrite`) and has one chosen. Of a copy the model keeps what
`SteamModifications.inspect` and `DeploymentContent` look at: whether it is
there, what `Info.plist` inserts, the build of the dylib in it and its signature.
Of an account it keeps the list of copies it may have changed
(`notproton-steam-bundles.json`, and the rule for installs older than that list),
the stamp and the record of the installed build, and the build of its own files.

An operation is a program counter per account. Installing goes `preflight ->
patching -> stage -> copy -> files -> insert -> sign -> verify -> finish ->
record` (`SteamInstaller.run`, then `finish` after Valve's files have come);
repairing `fetch -> replace -> retire`; removing loops over its targets through
`inspect -> clear -> drop -> resign -> fetch -> replace -> retire -> settle` and
then deletes the support folder file by file. Any of them may be killed or throw
before any step (`Stops`); where the code catches, there is an action of its own
(`SigningFails`, `DetachFails`, `RepairFails`, `TargetFails`).

Abstractions: the lock of an account's own folder is the rule that an account has
one operation at a time; the lock of the folder a copy lies in is `lock`, not
taken while the folder is away. A volume that holds an open lock cannot be
unmounted, and the user does not replace a copy that an operation works on or
mount a volume while an operation looks at it (`Untouched`). The controller
block goes with the insert; signing the dylib and `steam_osx` is part of signing
the bundle. A dylib's hashes stand for its build. A lock that is taken, a newer
build and a failed check are actions that are not enabled, since `Stops` gives the
outcome. Left out: whether the client runs, the backup of the plist, the
inner plist, the update block, the contents of the bridge, what is reported, and
a bundle that is moved by hand.

Bounds: two accounts, of which one may write to both copies and one to
`/Applications` only; one copy on a drive; builds 1 and 2, the second account
having only the newer; `MaxEvents` is 4, so that what one operation left can meet
a second operation, of the other account or on the other copy, with two changes
of the world around them. The proofs have none of these bounds.

### SettingsStore, ToolDefaults and CompatRoutes

`ToolDefaults` has one file per family of runners and one per CrossOver version
with settings of its own, a `.new` beside each, and `g_save_lock`. A call goes
`idle -> lock -> open -> write -> rename -> ret` (`save_file`), an apply reads
first and then `list`s and `remove`s the versions' own files one by one
(`np_defaults_apply_build`). Every write, rename and removal may fail, and Steam
may end at any step, which leaves torn `.new` files. Readers open the Settings
page without the lock, file after file. Lines are a key and a value: which keys a
runner knows and which values are good is data. A reader and `before` (the files
when the lock was taken) are histories for the properties.

`CompatRoutes` puts the pages around it: the accessor and the dispatcher read out
of the client's code, the registration at the first lookup with its chain of
routes (`register_route`, `or_else`), factories, jobs and the answer. A request
for the settings is a call of `ToolDefaults`; those of prefixes are in
`RebuildCommand`, those of tools in `CompatTools`, and are answered at once here.

`SettingsStore` is the promise without threads: a file is replaced whole by a
checked set; an apply makes the set a version uses the family's, and versions
lose their own only behind it. `StoreSpec` maps `applying` to the runner whose
versions the holder of the lock is dropping.

Left out: the folder on the way to a file, sync of the disk, what a text looks
like. A page that was opened before a change may show a mixture of old and new
files; `ShownIsWhatApplies` speaks of pages no file changed under, since the page
is not told of changes and is read again when it is opened again. Bounds: one
family and one version (files of other runners are never touched by a call), two
threads for the lock, two texts, one of them with a line too many.

A folder that cannot be read to its end leaves versions with settings of their own, and
the apply answers ok all the same (`defaults.c:327`). The model has that answer as
`cut`; `AnswerIsTrue` then claims the family's set and that no other runner's file
changed, and for an ok of a folder read whole also that no version keeps its own.

### PluginRecords

Both programs read the same directory, line by line and side by side: `c` is
`np_conf_read` with its buffer, `w` the awk program of `np_conf_normalise`. A line
is a header, a field, too long or something else; a value is good, empty, blank,
bad for its field, or too big for the buffer. Limits on records, fields and bytes
are constants. `schema()` of the awk program and `conf_schema` are one table here,
`Most` and `Required`. The worlds of `MCPluginRecords` are four alphabets: several
records over two files, sliders, values that are refused, variants; five or six lines
reach every pair of a record, its neighbour and a stray line.

### PanelOffers and PagePatch

`PanelOffers` has the rules for a variant (its tree, the runner it is laid over,
what it removes, entitlements) and for a plugin with a library, once as
`webpatch.c` computes them for the page (`var_...`) and once as `compat_run.sh` computes
them for a launch (`np_variant_...`), each in its own operators: they share only the
facts of the disk. The panel walks `VarDepth` folders down, the script has no limit; the
panel tests a descriptor as a conjunction, the script goes through the top of the tree
entry by entry. A tree is a set of files with a folder, a name, a kind and a body: data,
a DLL of Wine, a DLL without Wine's mark, code, or code that cannot be signed.

A launch (`np_variant_build`) either lays the variant (`built`) or leaves the game on the
base runner for a reason (`refused`): `read` (descriptor, bridge or Wine's files),
`apple` (an entitlement), `native` (a DLL that is not Wine's), `unsignable`, `nothing`
(no file has a folder to go to), or `failed` (a copy or a move, a lock held for too long).
`OfferMatchesLaunch` says that an offered variant is not refused for `read` or `apple`,
and that one a launch gets past these with was offered, of trees the panel walks whole.
The other reasons come up only while the tree is laid; the panel does not look for them
(see the disagreements). Left out: that a build made earlier is used again, and `last_good`,
the variant runner a launch keeps when it cannot build anew.

`PagePatch` opens scripts: `publish` makes the lists, `begin` looks at the shape
and settles which parts (gates) match, `fixes` asks a helper process for the
platforms where a part needs them, with `read` and `wait` up to its deadline,
then `expand` fills in what the parts need, and the page is served, or Valve's
file. Lists are thread-local and outlive an open, which is what `ResetBuilt` is
about; one thread is enough, since threads share nothing but the disk. `quiet` and
`page` are histories.

Matching of text is abstracted to which parts match as often as they should.
Left out: the script text, the lists' wording and escaping, the end of memory.
The page is not told when the registration comes after it.

### CodeImage and HookInstall

An image is instructions, a table of function starts, strings, slots of data,
stubs and selectors, at word addresses; `CodeImage` has every kind of anchor of
`anchor.c` and the byte pattern as operators on it. `HookInstall` is the thread of
`loader.c`: `await -> load -> resolve -> hook` for each module, with a poll that
times out, while dyld loads images, the client unloads the library and Dobby fails
on any hook. The image that loads is the one the database was made for or an
update of it. A pointer may also hold an address between two instructions: then only the bytes there
count (`odd`), and a slot that points to such a place is refused without a pattern in its
place (`resolver.c:223`). Decoding of an instruction is a record instead of a 32-bit word;
the database is a set of records, checked as `sigdb.c` checks it.

`WellMade` says what the proofs need of an image, and it is what a compiler and a
linker make: segments lie where the format has them, branches go to instructions, the
table of starts names functions only, stubs are in the text, and what is called or
pointed to and begins like a function is one. `MCHookInstall`'s images satisfy it (TLC
evaluates the assumption `ResolverConstants`). It does not say that the table is complete,
that a string, a caller or a sequence of calls is alone, or that an image and the
database belong together: those are what the resolver has to deal with.

`SoleOf` says what an anchor describes without looking at how it is followed:
the function that uses the string, in the first segment that has it; the only function that
branches to that one; the function that makes these calls, in this order and
no others. It leaves one case aside (`Entered`, see below).

`MCHookInstall` has seven functions that a loop to the use of a string, a second use of a string, a second copy,
a second caller, a moved pair of calls, another prologue or a missing table of
functions disturbs, and one signature of each kind at a time, with and without a
pattern to fall back on, and three databases with several.

### SteamHelper

`pc` is `main` of `steam.cpp`: set the prefix up, attach to the client, write
libraries and VR paths, start the game, start the DRM thread, wait for the child
or for the last process of the session, start again when ordered. Other copies of
`steam.exe` in the session run commands (`Command`); game, launcher and session
are the environment. Wine's event that ends when the last user process does is
`SessionEnds`. Bounds: two commands, three runs; worlds differ from a plain game in
one thing each, since the branches they take do not meet.

`refused` in a world is what Wine or the disk does not let the helper do, which it passes
over: make the folders or write the list of libraries (`folders`, `foldersCut`), find the
folder of the VR file, write or delete it (`appdata`, `vrpaths`, `vrpathsCut`, `delete`),
become a system process (`system`), look the event of the DRM up (`lookup`). The game is
started all the same. `PrefixIsCurrent` exempts a file by the very refusal that leaves
it, `OneGame` and `HelperLeaves` the `system` one (see the disagreements),
`AckArrives` the `lookup` one.

As the code has it, and so the model: the loop's condition binds differently than
it is laid out, so a wait that fails passes for an order; the event for a restart is opened without the right to set it
where the other copy has none; a restart that is ordered while a game that was
started directly still runs is dropped; the acknowledgement event of an earlier
run may still be there after a restart; a helper that is no system process waits for
its child alone, and after an order for a handle it has closed (`WaitAfterClose`). An invalid command leaves
`should_await` unset: there the model chooses. Left out: a second helper, cleanup
after EA's launcher, registry text, the Vulkan queries behind VR's answer.

### ToolLayout, ToolFolders, SpawnChain and CompatTools

`ToolFolders`: `work` is where a start is: it makes the folder, `write`s its files one by one, and
`sweep`s, `unlink`s and removes afterwards. Every start of Steam writes five files into a folder for each
tool of the app's list and removes folders of ours that are listed no more, file by
file, with writes and removals that fail and kills in between. A folder is ours when it
has a flavor, or a run script with our mark (`written_here`). `ToolLayout`: the shift of the client's structures, read
out of its code at two ends. `SpawnChain`: the environment of each child, with the
dylib in `DYLD_INSERT_LIBRARIES` taken out and put back. `CompatTools` composes
them with the first thread that asks the client's manager, the registration, the
page's answers and the launch.

A mapping changes and the page is told in two steps (`hook_InternalSpecifyCompatTool`,
`np_compatsvc_state_changed`): in between a launch, a question or a second change may
come. `world.notifies` says whether a notification reaches the page: where its type was not
found nothing is ever sent, and where it was, there may be no page to reach. `news` keeps
whether the page asked before the last change and whether its notification was lost;
`PageMatchesLaunch` sets aside a page that is behind while its notification is due or
after it was lost (`compatsvc.c:583`: "the page will show a stale tool until it is
reopened"), and no other.

A launch is two steps too, since two hooks decide it at two times: `Launch` resolves the
tool; `RunCommand` doubles the backslashes by the app's tool at that moment
(`np_hook_vr_support`) and wraps the command by the folder in it (`np_launch_shell`). Every
hook of `g_hooks` and that one may be placed, absent (failed, disabled) or broken (its
target patched, no original behind it); `Plat_Realloc` and `malloc` may give nothing
(`world.grows`). `LaunchIsSound` sets aside the VR hook not being in place, either
allocation failing, and the app having been given another tool between the steps; what is
left to go wrong is that the two hooks disagree about one launch. Its first part is about
clients both ends of whose entries can be read; where they cannot, the shift of one end
is taken unconfirmed.

A hook of `SpawnChain` that fails may leave its function patched without an original:
a call of it ends the process (`Breakable`, `HelperCrashes`; for Steam that is `Kill`).

As the code has it: `unlink` is not looked at (`compat.c:559`), so a declaration that cannot
be removed leaves the folder offered, and with its flavor and script gone no later start
removes it; a torn `toolmanifest.vdf` is not written again, since only the
vdf and `build` are compared; a folder whose start was killed right after its vdf
and that leaves the list before the next is not recognised again; a shift that the two
ends disagree on leaves the baseline, which is used all the same; a game that
was redirected from another Proton is wrapped but its backslashes are not
doubled; a global default that names a tool that is gone makes the page's default
differ from the launch; a folder of the user's that has a `flavor` file and a name
like ours is taken for ours. The properties name these preconditions.

Left out: the priorities of tools, the gate on platforms, the user's own folder
list, the incompatible flag, the end of a process by pid, shortcuts, other failures of
memory, pins and features that only tests set. Bounds: three starts with one failed
write or removal and one change of the list; or three starts with two children; or one
start with two changes of mappings, two threads, notifications that arrive or not, and
each hook present, absent or broken.

## Runs

| Run | Instance | Shows |
|---|---|---|
| `lifecycle_safety` | 1 launch, 1 worker, 1 tool, 3 directories, 1 save, 2 machines | `SavesKept`, `DiscardIsSafe`, `SetUpMatchesTool` |
| `lifecycle_liveness` | 1 launch, 1 worker | `LockIsGivenUp`, dialogs included |
| `rebuild_progress` | 1 script, the page, 2 apps | `ProgressIsOwn`, `NotAbandoned` (a script does not give up on a rebuild that goes on), `BarEnds` |
| `template_safety` | 2 games, 3 versions | `SeedsAreWhole`, `SeedIsOfThisRunner` |
| `ceg_calls` | 3 games, 2 slots, 2 calls, Steam reaping | `AnswerIsWhole`, `PgidIsOurs`, `CallReturns` |
| `steam_safety` | 2 accounts, 2 copies, 2 builds, 4 events | `ModifiedIsTracked`, `InsertHasDylib` |
| `compat_routes` | 2 threads, 1 reader, 1 family and 1 version, 8 clients | `AnswerIsTrue`, `ShownIsWhatApplies`, `JobIsItsRoutes`, and the refinement `StoreSpec` |
| `plugin_records` | 4 alphabets of lines, 5 or 6 lines, 1 or 2 files | `ReadersAgree`, `AcceptedAreSound`, `EveryRecordIsTold`, `RecordsTypeOK` (the buffers of `conf.c` hold) |
| `page_patch` | 1 thread, 2 tools, 7 scripts, many disks | `PatchIsWhole`, `PageIsFresh`, `OfferMatchesLaunch`, `BuiltKeepsBridge`, `OpenReturns` |
| `hook_install` | 2 modules, 10 images, a signature of each kind | `AllRequiredOrNothing`, `ReplacedAtEntry`, `FoundIsSole`, `UnloadReturns` |
| `steam_helper` | 26 worlds, 2 commands | `PrefixIsCurrent`, `OneGame`, `HelperLeaves`, `AckArrives` |
| `compat_tools` | worlds about folders, children and launches | `FoldersFollowList`, `TheirsStay`, `ChainHolds`, `PageMatchesLaunch`, `LaunchIsSound` |

The comment above each property says which behaviour of the code it is about.
Type invariants and the invariants that are only stepping stones are not in the
runs; those of the first five modules are theorems. `made` in `ToolFolders` is a
history.

Deadlock is checked where the system cannot stop. In the life cycle and the
template runs everyone may be done, or out of inodes or versions; Steam ends in
the CEG, loader and tool runs; the users of the installation runs have no events
left; a directory of records has been read; a session is over. It is off there.

Fairness. In the life cycle: weak fairness of each launch's own steps and each
worker's own steps, since a process that is not blocked runs on. Nothing is
assumed of the player, dialogs, the game or Winetricks. In the rebuild command:
weak fairness of the steps of app, script and page and of time passing; strong
fairness of a grace running out, because the probes that interrupt it hold a lock
for milliseconds and the script looks every second. In the CEG service: weak
fairness of a call's own steps and of its deadline. Nothing is assumed of the
helper: SIGKILL, not its good will, ends it. In `PagePatch`: weak fairness of each
thread and of its deadline, and none of the helper process. In `HookInstall`: weak
fairness of the install thread and of the join; none of dyld, an image may never
load. In `SteamHelper`: weak fairness of the helper's own threads and of Wine
ending a session that is over; none of the game.

## Disagreements found

Where the code does other than its comments, dialogs or tests say, the modules
model the code, and the claim is a definition beside the properties. No run checks
these: to see one, add it to the run's `.cfg` as an invariant (or a property
where it begins with `[][`) with the change that is named, and TLC prints the behaviour.

| Claim | Where | What happens |
|---|---|---|
| `AllSavesPreserved` ("Your save games will be preserved and not lost.", `compat_run.sh:1507`) | `lifecycle_safety`, with a save in `Outside` (TLC stops at the behaviour of the next row, which is shorter) | what a game keeps in a folder of `drive_c` that wineboot makes too, such as `ProgramData`, is not carried (`PrefixRebuild.swift:228`), and the backup can be discarded |
| the same | `lifecycle_safety` as it is | a rebuild claims the prefix after a launch released the lock (`compat_run.sh:2766`) and before its Wine starts; the game plays in the directory that is put away |
| `AlwaysMatchesTool` ("Retake the normal launch lock and check both mismatches before touching Wine", `compat_run.sh:1477`) | `lifecycle_safety` | "Launch Without Rebuilding" does not repeat the checks, though another launch may have rebuilt for the other machine meanwhile |
| `AcceptedIsDone` ("the script only waits for the exit status the subshell leaves behind", `compat_run.sh:1400`) | `rebuild_progress`, two scripts and `Prompt = FALSE` | two launches share one exit file, and one takes the other's status for its own |
| `NoCallOnceStopping` ("no call starts once Steam is stopping", `ceg-check.c:422`) | `ceg_calls` | `g_stopping` is looked at once, before the input is written; `np_ceg_stop` comes in between, and the helper starts after it |
| `InstalledIsSealed` ("The bundle is signed inner to outer, so every seal verifies afterwards", `SteamInstallerTests.swift:195`) | `steam_safety` | an update is cut short before it signs; the next install takes the copy for patched, does not sign, and succeeds |
| `PageIsServed` (the page "offers the log", `prefix-row.js:125-128`) | `compat_routes` | nine routes are registered (`compatsvc.c:545-576`) and there is room for `MAX_ROUTES = 8` (`webui.c:26`): `OpenPrefixLog` is never served |
| a tool that leaves the app's list is no longer offered (`remove_tool`, `compat.c`) | `compat_tools` with 4 starts and 3 changes of the list, if `made` in `MakeDir` keeps the folder | a removal is killed after `flavor` was unlinked; the tool is listed again and a start is killed right after it wrote `compatibilitytool.vdf` (`compat.c:496-516`); it is unlisted: `written_here` (`compat.c:531`) wants a `flavor` and no longer knows the folder, which stays offered. `FoldersFollowList` leaves this case aside |
| a jump inside a function is no call ("B also encodes intra-function jumps", `anchor.c:198`) | `hook_install`, without `Entered` in `SoleOf` | `hop_to_caller` starts at the use of the string itself (`np_locate_anchor`); a loop inside the function that branches to that instruction, not to the entry, is taken for a tail caller, and the anchor leads to the function with the string instead of the one that calls it |
| the panel leaves out what "only ever falls back" (`webpatch.c:836`) | `page_patch`, with `launch.tool \in page.vars => launch.refused \in {None, "failed"}` in `OfferMatchesLaunch` | the panel checks entitlements, but not whether a DLL is Wine's (`compat_run.sh:859-864`), code can be signed (866-869) or a file has a folder to go to (878-881): such a row is offered and every launch falls back to the base runner |
| the panel's walk finds what the script's finds | `page_patch`, without `Walked(src) = Laid(src)` | the panel stops a number of folders down (`webpatch.c`, depth 16; `VarDepth` here): a file of Wine's or one with an entitlement below that is not seen, and the variant is offered and refused; one whose only files lie below is laid and not offered |
| the page shows the tool a launch takes | `compat_tools`, `PageMatchesLaunch` without `news.missed` | the notification was not found or reached nobody: the page shows the tool before, as the warning at `compatsvc.c:583` says |
| the files in the prefix are of this launch ("delete the windows file only if the linux conversion fails", `steam.cpp:679`) | `steam_helper`, `PrefixIsCurrent` without its exemptions | a conversion whose write failed says that it succeeded (`steam.cpp:661`), and nothing is deleted; folders that cannot be made (1582-1592) leave the earlier list of libraries |
| a wait that fails ends the loop ("Wait failed.", `steam.cpp:1921`) | `steam_helper`, `OneGame` without `"system" \notin world.refused` | the comparison is inside the assignment (1915), so `ret` is 1 for a failed wait as for an order: the game is started again, without one |
| the helper goes when the session is over | `steam_helper`, `HelperLeaves` without its exemption | Wine refused to make it a system process and it has no child: `Sleep(INFINITE)` (`steam.cpp:1887-1892`) |
| `SameParameters` (a game that is started again is the same game) | `steam_helper` | `ShellExecute` gets the command line cut in place at its first space (`steam.cpp:1443`), so the second start has no parameters |

## Proofs

Every theorem holds for every value of the constants that satisfies the named
assumptions of its module. Each safety property of each run is a theorem; what a
run shows of it on a small instance, the theorem shows of all of them.

Assumptions worth a look: that names of different things differ (`NoneIsApart`,
`RolesAreApart`, `NilIsNoAddress`, `GatesApart`, `ChainConstants`, `NameConstants`,
`MappingConstants`, `FlavorConstants`, `NoneApart`); that the folder every build of this
program has used begins like ours (`DirConstants`); that a depth is a number
(`DepthConstant`); that lists are sequences (`ListConstants`,
`SessionConstants`, `OfferConstants`, `PluginConstants`); that counters hold what they
count (`RingFits`); that the files a page reads are those an apply writes, families first
(`DefaultsConstants`); that the user's folders do not carry our names or look like ours
(`WorldConstants`); that what is read of the client's code at one end is right where it is found
(`ClientConstants`); and that images are made by a compiler (`ResolverConstants`).
TLC evaluates each of them on the instance of its run.

- `PrefixLifecycleProofs`: `TypeCorrect` and `OnlyTheLockHolderWorks` are
  inductive on their own. `SavesSurvive` needs to know, for each step of a
  rebuild, where the promised saves are: while it has claimed the prefix nothing
  new is promised, after the carry the fresh directory holds what `pfx` held,
  after parking the backup does. That is the inductive invariant (`Inductive`);
  `DiscardingIsSafe` and `ParkingIsSafe` are read off it. `SetUpIsForTheTool`
  rests on the lock: what would change the machine either holds it or marks the
  launch as unchecked.
- `RebuildCommandProofs`: `OneAtATime` from who can be the holder of each
  lock at each step. `ProgressIsNotOverwritten`, an action property, follows from it: who
  writes the progress holds the rebuild lock, and an app at work holds it. `GivingUpIsRight` uses
  the assumption `Prompt` and which graces are still running.
- `TemplateCacheProofs`: `IInv` says who holds the template lock at which step,
  what a cleaner has seen, what a launch between building and recording has in
  hand, and that the record is true. The argument: versions only grow, an
  identity is taken before the build and recorded after it, and a template is
  torn only while no runner can come back with the identity in `ready`.

- `GameProofs`, the CEG service: the invariant ties each call's place to the lock
  (`LockInv`), to what its helper can be (`HelperInv`), to `g_call_pgid`
  (`PgidInv`) and to its files (`FilesInv`); `AnswerInv` carries the fact that a
  helper that exited with 0 left no half output from its exit to the return.
  `RingInv` says that the ring fills in order: until every slot is in use, the
  used ones are those below the counter. That is why a game is not evicted early
  and why the counter's wrap does no harm; the proof needs that there are no more
  slots than the counter has values.

- `SteamInstallProofs`: `IInv` adds to the properties who holds a copy's lock at
  which step (`LockInv`: an operation at work on a copy that is there holds its
  lock, so no other account changes it), that the list is written before the first
  change and names the target from then on (`ListInv`), what an install has
  already brought about at each of its steps (`PatchInv`), and that a target that
  a removal has left behind is retired, failed or out of reach (`LoopInv`).
  `ModifiedIsTracked` needs the lock: a copy may be in two lists, and what
  one account retires another must not be changing. The two action properties
  first show which steps write a dylib or a record (the footprint lemmas).

- `CompatRoutesProofs`: `StoreInv` says that only the holder of `g_save_lock`
  is past the lock, that an apply has in hand what some version uses *now*, since
  nobody else writes, and that the `.new` a call renames is the one it wrote. With
  it every step of `CompatRoutes` is a step of `SettingsStore` or a stutter
  (`StoreSteps`), which is `ImplementsStore`. `TruthInv` adds what the holder has
  done to the files since it took the lock, and gives `AnswersAreTrue`.
  `RouteInv` says that a served route's slot holds it, below the count;
  registration only grows the table (`Grows`, `WholeGrows`), which gives
  `JobsAreTheirRoutes`. `ShownIsWhatIsApplied`: a page that is current has read, of
  each file it has come to, what is in it now (`ReadInv`), and families come first;
  so what the page shows for a version is the set an apply would read of the same files.

- `PanelProofs`, pages (`PanelInv`): a thread that is past the counting of the gates has a
  script it may patch (`OpenInv`); the lists it has built since it opened the script are
  those of the disk, unless that changed since (`FreshInv`), which is where
  `ResetBuilt` is needed; what is served is one of the forms a script can take, each
  whole (`PageInv`); and a launch was refused, or not, for a reason that holds of the disk as
  it is now (`LaunchInv`). `OffersMatchLaunches` then compares the panel's rules with the
  script's one by one, for any tree, runner and descriptor.
  `BuiltRunnersKeepBridge` is about all trees and removals.

- `PanelProofs`, plugin files: in the middle of a file the readers are in the same
  state, or both have given it up; `conf.c` ends a record at the end of a file, the awk program
  when it sees the first line of the next one, so at a boundary the one is where
  the other comes to (`ReadersInv`). That the tables of `conf.c` hold needs what was
  counted of each field in the record that is read (`HeldInv`). `EachRecordOnce`
  counts: headers passed are verdicts told, plus the record in hand (`TellInv`).

- `GameProofs`, the Steam helper: while a run of the game lives, `main` waits for it or
  for the session, and starts another only when the child it holds has ended; each start
  after the first takes an order away. That is `GameIsSole` (`SessionInv`).
  `PrefixIsOfThisLaunch`: `PrefixInv` says what has been done of the prefix at each
  step of `main`; that the paths of `libraryfolders.vdf` are those of the launch needs
  what flattening the list of lists gives (`Flattened`); that nothing of the client is held
  when a game runs is that the shutdown gives back what was taken, at whichever step the
  client's set-up stopped (`NothingIsHeld`).

- `LoaderProofs`, hooks: until the first module is resolved nothing is hooked; past
  that, as many were found as are required, which is all of them (`CountIsAll`,
  by cardinality); a loaded image and the database stay as they are (`HookInv`).
  `SiteInv` adds that each hook is where its signature is found in the image of its
  module: what was resolved is looked up by name, and a database has a name once.
  `ReplacedIsEntry` then follows each kind of anchor to its end: through strings,
  callers and calls one comes to a function of the table, through slots and islands to one
  that is pointed to or called and begins like a function; a pattern alone is
  taken at a start only. `FoundIsTheOnly` goes back from what is found: the string has
  one copy in its segment and one use; `sole_caller` was alone; and a function that
  makes the calls in order calls the first of the names, so `sole_fn_by_calls` has looked at it
  (`NthOf` and `WantsAll` relate its single pass to the n-th call).

- `LoaderProofs`, children (`ChainInv`): what each process of Steam holds, by how many of the
  functions it hooked: with all three, the entry is held and the environment is
  without it; else the environment has it. Each child is made by one of these.

- `LoaderProofs`, folders (`FolderInv`): the files are written in an order, so at each
  step of a start those before are as they should be, if no write failed (`WrittenInv`); a folder that was
  left whole is known as ours until its vdf, the first file to go, is gone
  (`MadeInv`); what a list holds is built line by line (`ListIs`).

- `LoaderProofs`, page and launches (`UseInv`): what the manager holds was read where
  it was written, if both ends vouch for the shift; a page that was
  settled shows what a launch would take now, unless it is behind (`news`); a launch under
  a tool of ours goes to a folder of ours, also after a redirection, which is why both
  hooks see the same launch.

Induction over data. The library's induction theorems take an operator, which no backend here
instantiates. What is proved about recursive functions (lines of a list or
a file, calls of a body, hops, flattened lists) goes another way: the set
of the indices at which the claim fails has a least element if it is not empty (`Least`, from
the well-foundedness of `<` on `Nat`), and that one contradicts the step. A recursive
function is a `CHOOSE` to the provers; that there is one is a lemma of the same kind
(`HopsExist`, `WalksExist`, `WantsExist`, `ReadsExist`).

Only model-checked:

- liveness, which is out of the prover's reach (`LockIsGivenUp`, `BarEnds`,
  `CallReturns`, `OpenReturns`, `UnloadReturns`, `HelperLeaves`, `AckArrives`);
- the disagreements, which are counterexamples.

## Not modelled

Components with status `not_modelled` in `PROJECT.json`:

- vendored code (`jsoncpp.cpp`, `json/json.h`, about 30 % of the lines) and the
  marshalling of `lsteamclient`, which is ported: one function per interface method
  that copies arguments and keeps no state of this program's;
- the session record (which build is blamed for a crash) and the settings of a
  single game, in the script; that a launch may offer a rebuild is a free choice
  in `PrefixLifecycle`;
- byte patching of ntdll, the carry of a rebuild, the runner store: functions of
  files with no state between calls;
- presentation, downloads, CrossOver's licence rows, updates of the app: pure input
  and output;
- the overlay shim, build tools, fonts.

In modelled parts, hazards no property covers: a delete removes the lock file with
the directory, so a launch that opened it before locks an inode no one else sees
(`PrefixTools.swift:418`); `read_rebuild` reads the progress before it probes the
lock (`prefixstate.c:232`), so a rebuild that ends in between is shown as running
for one more poll; the script removes the progress without the rebuild lock
(`compat_run.sh:1472`); a game that starts between the look at the process list and the
rename of its runner (`RunnerInstaller.swift:81`); a volume that is mounted while a
removal looks at its copy (`DeploymentContent.swift:98`); a removal interrupted
after its own signature (`Uninstall.swift:95`).

## Plan

Done: the prefix life cycle, the rebuild command, the template cache, the CEG
service, the installation in Steam, the settings with the routes of the pages, plugin
records, the patched pages, the loader with the resolver, the Steam helper and
the tools; theorems for every safety property the runs check. What is left, in this order:

1. An abstract specification of the prefix (saves are written and never lost) that
   `PrefixLifecycle` refines, and of a rebuild that `RebuildCommand` refines.
2. `SessionRecord`: which build is blamed for a crash, with overlapping sessions.
3. `LockFile`: the prefix lock as an inode that a delete removes.
4. The update block and the carry of a rebuild.
