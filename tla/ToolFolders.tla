----------------------------- MODULE ToolFolders -----------------------------
(***************************************************************************)
(* Folders of compatibilitytools.d (compat.c): the app keeps a list of the *)
(* tools to offer, and every start of Steam writes a folder for each and   *)
(* removes the folders of tools no longer listed, file by file.  The user  *)
(* has folders there too; a write can fail; Steam can be killed between    *)
(* any two files.                                                          *)
(***************************************************************************)
EXTENDS ToolLayout

CONSTANTS
    OurNames,      \* folder names that begin like ours
    Builds, Flavors, Unread,
    Lists          \* what the list of the app may hold: Missing, or its lines

VARIABLES
    world,         \* what a behaviour starts from, and its bounds: see MCCompatTools
    list,          \* the list of the app
    g_tools,       \* the list as this process read it; Unread before
    present,       \* g_tool_list_present: this start had a list to go by
    disk,          \* folder name to [there, files, foreign]
    work,          \* where this start is: see NoWork
    spent,         \* [faults, lists]: writes that failed, changes of the list
    clean,         \* no write of this start has failed
    made           \* folders a start left whole, none began anew since and
                   \* none kept the declaration when it was removed

folders == <<g_tools, present, disk, work, spent, clean, made>>

Missing == None
Absent == "absent"
ASSUME FlavorConstants == Absent \notin Flavors
Torn == "torn"
Ours == "ours"
Files == <<"compatibilitytool.vdf", "toolmanifest.vdf", "run", "flavor", "build">>
NoFiles == [f \in ToSet(Files) |-> Absent]
NoFolder == [there |-> FALSE, files |-> NoFiles, foreign |-> FALSE]

(* What a name of the disk holds: nothing where no folder is.              *)
IsFolder(d) ==
    /\ d \in [there : BOOLEAN, foreign : BOOLEAN,
              files : [ToSet(Files) -> {Absent, Torn, Ours, "theirs"} \cup Builds \cup Flavors]]
    /\ d.foreign \/ (\E f \in ToSet(Files) : d.files[f] # Absent) => d.there
HasTheirs(d) == \E f \in ToSet(Files) : d.files[f] = "theirs"

-----------------------------------------------------------------------------
(* The list.                                                               *)

is_tool_name(name) == name \in OurNames

parse_tool_line(line) ==
    is_tool_name(line.name) /\ line.build \in Builds /\ line.flavor \in Flavors /\ line.display # ""

Names(tools) == {tools[i].name : i \in DOMAIN tools}

(* The first line of a name counts.                                        *)
np_compat_load_tool_list(lines) ==
    LET kept[i \in 0 .. Len(lines)] ==
            IF i = 0 THEN <<>>
            ELSE IF parse_tool_line(lines[i]) /\ lines[i].name \notin Names(kept[i - 1])
                 THEN Append(kept[i - 1], lines[i]) ELSE kept[i - 1]
    IN  IF lines = Missing THEN <<>> ELSE kept[Len(lines)]

(* The list of the app has lines, and no list is Unread.                   *)
ASSUME ListConstants ==
    \A l \in Lists : /\ np_compat_load_tool_list(l) # Unread
                     /\ l # Missing => Len(l) \in Nat /\ DOMAIN l = 1 .. Len(l)

(* Read once, by whoever needs it first.                                   *)
load_tool_list_once == IF g_tools = Unread THEN np_compat_load_tool_list(list) ELSE g_tools
is_listed(name) == name \in Names(load_tool_list_once)

np_compat_manager_tools_max(headroom) == headroom + Len(load_tool_list_once)

-----------------------------------------------------------------------------
(* One file after the other.                                               *)

NoWork == [pc |-> "done", i |-> 0, f |-> 0, name |-> "", left |-> {}]

(* The tools of the list in its order, then the folders of readdir.        *)
ToTool(listed, i) ==
    IF i \in DOMAIN listed THEN [NoWork EXCEPT !.pc = "mkdir", !.i = i]
    ELSE [NoWork EXCEPT !.pc = "sweep", !.left = DOMAIN disk]

(* ensure_tool_manifest: without a list nothing is written or removed.     *)
np_compat_ensure_tool_manifest ==
    /\ g_tools' = np_compat_load_tool_list(list)
    /\ present' = (list # Missing)
    /\ work' = IF list = Missing THEN NoWork ELSE ToTool(g_tools', 1)
    /\ clean' = TRUE
    /\ UNCHANGED <<disk, spent, made>>

(* The folder of all tools cannot be made: the list is read later.         *)
NoToolsFolder ==
    /\ spent.faults < world.faults
    /\ spent' = [spent EXCEPT !.faults = @ + 1]
    /\ g_tools' = Unread
    /\ present' = FALSE
    /\ work' = NoWork
    /\ clean' = FALSE
    /\ UNCHANGED <<disk, made>>

Tool == g_tools[work.i]
File == Files[work.f]

Fails ==
    /\ spent.faults < world.faults
    /\ spent' = [spent EXCEPT !.faults = @ + 1]
    /\ clean' = FALSE

(* A folder that cannot be made has its files skipped.  One that lost its  *)
(* flavor is begun anew: it is not made before a start leaves it whole.    *)
MakeDir ==
    /\ work.pc = "mkdir"
    /\ \/ /\ disk' = [disk EXCEPT ![Tool.name].there = TRUE]
          /\ work' = [work EXCEPT !.pc = "write", !.f = 1]
          /\ made' = IF disk[Tool.name].files["flavor"] = Absent THEN made \ {Tool.name} ELSE made
          /\ UNCHANGED <<spent, clean>>
       \/ /\ ~disk[Tool.name].there
          /\ Fails
          /\ work' = ToTool(g_tools, work.i + 1)
          /\ UNCHANGED <<disk, made>>

KeepsOldBuild == {"toolmanifest.vdf", "flavor", "build"}

(* The manifest is written where there is none; the rest at every start.   *)
Once == {"toolmanifest.vdf"}

Content(t, f) ==
    CASE f = "flavor" -> t.flavor
      [] f = "build" -> t.build
      [] OTHER -> Ours

Holds(name, f, value) == disk' = [disk EXCEPT ![name].files[f] = value]

(* A write that fails leaves the file as it was, or cut.                   *)
WriteFile ==
    /\ work.pc = "write"
    /\ work' = IF work.f < Len(Files) THEN [work EXCEPT !.f = @ + 1] ELSE ToTool(g_tools, work.i + 1)
    /\ IF File \in Once /\ disk[Tool.name].files[File] # Absent
       THEN UNCHANGED <<disk, spent, clean>>
       ELSE \/ Holds(Tool.name, File, Content(Tool, File)) /\ UNCHANGED <<spent, clean>>
            \/ Fails /\ (Holds(Tool.name, File, Torn) \/ UNCHANGED disk)
    /\ UNCHANGED made

NameIsEnough(name) == disk[name].there

(* A flavor, or a run script with our mark.                                *)
written_here(name) == disk[name].files["flavor"] # Absent \/ disk[name].files["run"] = Ours

(* The folders, in any order of readdir.  What a start with no work left   *)
(* has made is a ghost.                                                    *)
Whole(name) == \A f \in ToSet(Files) : disk[name].files[f] \notin {Absent, Torn}
Goes(name) == disk[name].there /\ is_tool_name(name) /\ ~is_listed(name) /\ written_here(name)

remove_unlisted_tools ==
    /\ work.pc = "sweep"
    /\ \/ /\ work.left = {}
          /\ work' = NoWork
          /\ made' = made \cup {n \in Names(g_tools) : Whole(n)}
       \/ /\ \E name \in work.left :
                work' = IF Goes(name)
                        THEN [work EXCEPT !.pc = "unlink", !.f = 1, !.name = name, !.left = @ \ {name}]
                        ELSE [work EXCEPT !.left = @ \ {name}]
          /\ UNCHANGED made
    /\ UNCHANGED <<disk, spent, clean>>

(* remove_tool, file by file.  A file that cannot be removed stays, and    *)
(* the next one is tried: with its declaration the folder is still         *)
(* offered, and without its flavor and script nothing removes it later.    *)
Unlink ==
    /\ work.pc = "unlink"
    /\ \/ Holds(work.name, File, Absent) /\ UNCHANGED <<spent, made>>
       \/ /\ spent.faults < world.faults
          /\ spent' = [spent EXCEPT !.faults = @ + 1]
          /\ made' = IF File = "compatibilitytool.vdf" THEN made \ {work.name} ELSE made
          /\ UNCHANGED disk
    /\ work' = IF work.f < Len(Files) THEN [work EXCEPT !.f = @ + 1] ELSE [work EXCEPT !.pc = "rmdir"]
    /\ UNCHANGED clean

(* rmdir fails where a file is left, the user's or one of these.           *)
RemoveDir ==
    /\ work.pc = "rmdir"
    /\ disk' = IF disk[work.name].foreign \/ (\E f \in ToSet(Files) : disk[work.name].files[f] # Absent)
               THEN disk ELSE [disk EXCEPT ![work.name] = NoFolder]
    /\ work' = [work EXCEPT !.pc = "sweep"]
    /\ UNCHANGED <<spent, clean, made>>

FolderStep ==
    /\ MakeDir \/ WriteFile \/ remove_unlisted_tools \/ Unlink \/ RemoveDir
    /\ UNCHANGED <<list, g_tools, present>>

(* The app sets a build up or takes one away.                              *)
AppWritesList ==
    /\ spent.lists < world.lists
    /\ list' \in Lists \ {list}
    /\ spent' = [spent EXCEPT !.lists = @ + 1]
    /\ UNCHANGED <<g_tools, present, disk, work, clean, made>>

(* TOOL_DIR_NAME is a name of ours.                                        *)
ASSUME DirConstants == "notproton" \in OurNames

np_compat_tool_dir ==
    IF load_tool_list_once = <<>> THEN "notproton" ELSE load_tool_list_once[1].name

-----------------------------------------------------------------------------
(* np_compat_ensure_tool_manifest: a start whose writes went well leaves   *)
(* the folder of a listed tool with the build and the flavor of this list, *)
(* whatever was there before; and a tool that had its folder and is no     *)
(* longer listed is not offered from it, however often starts were cut     *)
(* short: unless one was cut short that began the folder anew, or its      *)
(* declaration could not be removed.                                       *)
FoldersFollowList ==
    work.pc = "done" /\ present =>
        /\ clean => \A i \in DOMAIN g_tools :
              LET files == disk[g_tools[i].name].files
              IN  /\ files["compatibilitytool.vdf"] = Ours /\ files["run"] = Ours
                  /\ files["flavor"] = g_tools[i].flavor /\ files["build"] = g_tools[i].build
        /\ \A name \in made : is_listed(name) \/ disk[name].files["compatibilitytool.vdf"] = Absent

(* remove_tool: folders and files of the user stay.                        *)
TheirsStay ==
    \A name \in DOMAIN disk :
        /\ world.disk[name].foreign => disk[name].there /\ disk[name].foreign
        /\ \A f \in ToSet(Files) : world.disk[name].files[f] = "theirs" => disk[name].files[f] = "theirs"
=============================================================================
