--------------------------- MODULE MCCompatTools ----------------------------
(* Instance: worlds about the folders (lists change, writes fail, starts   *)
(* are killed), about children, and about the page and the launches.       *)
EXTENDS CompatTools, TLC

W(o, t, n, i) == [op |-> o, rt |-> t, rn |-> n, imm |-> i]
(* A client whose entries moved by near at one end and by far at the other;*)
(* sees: the comparison of platforms uses the register this knows.         *)
Client(near, far, sees, enabled) ==
    [near |-> near, far |-> far, table |-> 512, enabledAt |-> IF enabled = 16 THEN 1968 ELSE enabled,
     gate |-> <<W("ldr32", 8, 0, 96 + near), W("cbz", 8, 0, 0)>>,
     local |-> <<W("mov", 19, 0, 0), W("ldr64", 1, 0, 88 + near)>>,
     oslist |-> LET r == IF sees THEN 21 ELSE 22
                IN  <<W("ldr64", 1, r, 120 + far), W("ldr64", 2, r, 112 + far), W("ldr64", 1, r, 120 + far)>>,
     enabled |-> <<W("sub", 31, 31, 64), W("mov", 19, 0, 0), W("ldrb", 8, 19, enabled)>>,
     wildcard |-> <<W("add", 1, 31, 8), W("add", 0, 19, 512), W("add", 0, 31, 16), W("bl", 0, 0, "lookup")>>]
Plain == Client(0, 0, TRUE, 1968)
Clients == {Plain, Client(8, 8, TRUE, 1976), Client(8, 0, TRUE, 16), Client(8, 0, FALSE, 1968),
            [Plain EXCEPT !.gate = <<>>, !.wildcard = <<>>], [Plain EXCEPT !.local = <<>>, !.enabled = <<>>]}

Line(n, b, f) == [name |-> n, build |-> b, flavor |-> f, display |-> n]
Two == <<Line("notproton-26", "26.0", "fex"), Line("notproton-27", "27.0", "rosetta")>>
MCLists ==
    {Missing, Two, <<Line("notproton-27", "27.0", "rosetta")>>,
     <<Line("notproton-26", "26.1", "rosetta"), Line("notproton-26", "26.0", "fex"), Line("wine", "26.0", "fex")>>}

Theirs == [there |-> TRUE, foreign |-> TRUE, files |-> [f \in ToSet(Files) |-> IF f = "flavor" THEN Absent ELSE "theirs"]]
OldOne == [there |-> TRUE, foreign |-> TRUE, files |-> [f \in ToSet(Files) |-> IF f \in {"flavor", "build"} THEN Absent ELSE Ours]]
EmptyDisk == [n \in {"notproton-26", "notproton-27", "notproton-mine", "GE-Proton"} |-> NoFolder]
FullDisk == [EmptyDisk EXCEPT !["notproton-mine"] = Theirs, !["GE-Proton"] = Theirs, !["notproton-26"] = OldOne]

Labels == {"Init", "BIsCompatibilityToolEnabled", "FindToolForTargetApp", "WindowsOnlyLookup", "InternalSpecifyCompatTool",
           "SteamVRSupportCheck"}
AllIn(how) == [l \in Labels |-> how]
World ==
    [starts |-> 1, faults |-> 0, lists |-> 0, maps |-> 0, spawns |-> 0, disk |-> EmptyDisk, list |-> Missing,
     placed |-> {Apis}, disabled |-> FALSE, hook |-> AllIn("absent"), platforms |-> {Windows}, windowsOnly |-> FALSE,
     exe |-> FALSE, own |-> [n \in {"proton"} |-> 7], hidden |-> {}, bypass |-> FALSE, mappings |-> {"proton"},
     client |-> Plain, elsewhere |-> TRUE, shell |-> TRUE, grows |-> {TRUE}, notifies |-> {TRUE}]
FolderWorlds ==
    {[World EXCEPT !.starts = 3, !.faults = 1, !.lists = 1, !.disk = d] : d \in {EmptyDisk, FullDisk}}
ChainWorlds ==
    {[World EXCEPT !.starts = 3, !.spawns = 2, !.disabled = d, !.placed = {Apis, {"execve"}, {"posix_spawn", "posix_spawnp"}, {}}] :
        d \in BOOLEAN}
InUse == [World EXCEPT !.list = Two, !.maps = 2, !.hook = AllIn("placed"), !.mappings = {"gone", "notproton-27", NP_COMPAT_TOOL_NONE}]
UseWorlds ==
    {[InUse EXCEPT !.platforms = p, !.windowsOnly = w, !.maps = IF MacOS \in p \/ w THEN 1 ELSE 2] :
        p \in {{Windows}, {Windows, MacOS}}, w \in BOOLEAN}
    \cup {[InUse EXCEPT !.maps = 1, !.elsewhere = FALSE, !.disk = FullDisk, !.mappings = {"notproton-mine"}],
          [InUse EXCEPT !.maps = 1, !.platforms = {}, !.own = [n \in {"proton"} |-> 1]]}
    \cup {[InUse EXCEPT !.maps = 1, !.hook[l] = how] : l \in Labels, how \in {"absent", "broken"}}
    \cup {[InUse EXCEPT !.maps = 1, !.platforms = {Windows, MacOS}, !.exe = TRUE, !.client = c] : c \in Clients}
    \cup {[InUse EXCEPT !.maps = 1, !.own = [n \in {"proton", "proton-8"} |-> 7], !.hidden = {"proton"}, !.bypass = b, !.list = l] :
            b \in BOOLEAN, l \in {Two, Missing}}
    \cup {[InUse EXCEPT !.notifies = BOOLEAN, !.mappings = {"notproton-27"}],
          [InUse EXCEPT !.maps = 1, !.notifies = {FALSE}], [InUse EXCEPT !.maps = 1, !.grows = BOOLEAN],
          [InUse EXCEPT !.maps = 1, !.shell = FALSE]}
MCWorlds == FolderWorlds \cup ChainWorlds \cup UseWorlds
=============================================================================
