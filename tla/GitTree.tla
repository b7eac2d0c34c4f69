------------------------------ MODULE GitTree ------------------------------
(***************************************************************************)
(* swimd_list_git of main.c: the paths of a repository's index, then those *)
(* of its untracked files, become a tree of folders and a list of files    *)
(* that know their folder, and a file's path is printed by walking up from *)
(* it.  Each path is placed starting from where the one before it ended    *)
(* (swimd_process_path); a turn of its loop is a step.                     *)
(*                                                                         *)
(* swimd_list_files makes the same of the file system, by going through    *)
(* the directories recursively: a turn of the loop over a directory's      *)
(* entries is a step.                                                      *)
(*                                                                         *)
(* A path is a sequence of segments.  The root folder is number 1, and a   *)
(* folder is numbered when it is made.                                     *)
(***************************************************************************)
EXTENDS Integers, SequencesExt

CONSTANTS
  Universe,   \* the paths there can be, in the order in which libgit2 lists them
  Base,       \* the repository's working directory, an absolute path
  ScanDirs    \* where in the repository Neovim may have been started

\* A path ends with the file's name.
ASSUME PathsAssumption == Universe \in Seq(Seq(STRING) \ {<<>>})

Names == UNION {Range(path) : path \in Range(Universe)}

\* No file and no directory is called "..": libgit2 refuses such a path, and the walk leaves
\* the entry out.
ASSUME NamesAssumption == ".." \notin Names

\* Neovim is started in a directory, which is not one of the files.
ASSUME DirsAssumption ==
  Base \in Seq(STRING) /\ ScanDirs \subseteq Seq(STRING) \ Range(Universe)

\* libgit2 sorts the paths: none comes after one that it is the beginning of.
ASSUME OrderAssumption ==
  \A m, n \in DOMAIN Universe : m < n => ~IsPrefix(Universe[n], Universe[m])

ROOT == 1
NULL == 0

VARIABLES
  phase,            \* which of libgit2's lists is gone through, or "walk"
  pc,
  next,             \* the position in Universe that has been reached
  folders, files,
  cur_folder, cur_path, cur_depth,   \* of the path placed last
  base_folder, base_path,            \* how far the next path is placed, and what is left
  res_depth,
  stack,            \* the directories that are open: path, folder, entries to come
  scan_cancelled,
  listed,           \* history: the paths in the order in which they were placed
  late              \* history: how many of them since the scan was cancelled

cursor == <<cur_folder, cur_path, cur_depth>>
place  == <<base_folder, base_path, res_depth>>
tree   == <<folders, files>>
placed == <<listed, late>>
vars   == <<phase, pc, next, tree, cursor, place, stack, scan_cancelled, placed>>

Folders == DOMAIN folders

-----------------------------------------------------------------------------
(***************************************************************************)
(* Paths and folders.                                                      *)
(***************************************************************************)
\* (A definition whose name ends in X is the one after it with a plausible bug: the run
\* uses it to show that a property would catch that bug.  No action refers to it.)

\* swimd_path_match_depth: how many segments two paths share.  A path that is the
\* beginning of the other is shared whole.
MatchDepthX(a, b) == Len(LongestCommonPrefix({a, b})) + 1    \* counts one too many
MatchDepth(a, b)  == Len(LongestCommonPrefix({a, b}))

GoUpX(folder, up_count) ==  \* one folder too many
  LET turns == IF up_count >= 0 THEN up_count + 1 ELSE 0
      up[n \in 0 .. turns] == IF n = 0 THEN folder ELSE folders[up[n - 1]].parent
  IN up[turns]

GoUp(folder, up_count) ==
  LET turns == IF up_count > 0 THEN up_count ELSE 0
      up[n \in 0 .. turns] == IF n = 0 THEN folder ELSE folders[up[n - 1]].parent
  IN up[turns]

ChildrenX(folder, name) ==  \* looks at the last folder made only
  {f \in {Len(folders)} : folders[f].parent = folder /\ folders[f].name = name}

Children(folder, name) ==
  {f \in Folders : folders[f].parent = folder /\ folders[f].name = name}

\* swimd_print_path: the file's name, the names of the folders above it, turned around.
PrintPath(file) ==
  LET up[f \in Folders] == IF f = ROOT THEN <<>>
                           ELSE <<folders[f].name>> \o up[folders[f].parent]
  IN Reverse(<<file.name>> \o up[file.folder])

\* swimd_print_relative: a path below Base as it is written in the directory scan_path.
PrintRelativeX(path, scan_path) ==  \* goes all the way up
  LET up_count == Len(scan_path) - MatchDepth(Base, scan_path)
  IN [n \in 1 .. up_count |-> ".."] \o path

PrintRelative(path, scan_path) ==
  LET inside   == SubSeq(scan_path, Len(Base) + 1, Len(scan_path))
      shared   == MatchDepth(path, inside)
      up_count == Len(scan_path) - MatchDepth(Base, scan_path) - shared
  IN IF scan_path = Base THEN path
     ELSE [n \in 1 .. up_count |-> ".."] \o SubSeq(path, shared + 1, Len(path))

-----------------------------------------------------------------------------
Init ==
  /\ phase = "open" /\ pc = "enter" /\ next = 1
  /\ folders = <<[parent |-> NULL, name |-> ""]>> /\ files = <<>>
  /\ cur_folder = ROOT /\ cur_path = <<>> /\ cur_depth = 0
  /\ base_folder = ROOT /\ base_path = <<>> /\ res_depth = 0
  /\ stack = <<>>
  /\ scan_cancelled = FALSE
  /\ listed = <<>> /\ late = 0

\* A file is listed.
Lists(path) ==
  /\ listed' = Append(listed, path)
  /\ late' = late + (IF scan_cancelled THEN 1 ELSE 0)

\* git_repository_open_ext finds a repository, or it does not.
Open ==
  /\ phase = "open"
  /\ phase' \in {"index", "done"}
  /\ UNCHANGED <<pc, next, tree, cursor, place, stack, scan_cancelled, placed>>

Leave == phase' = (IF phase = "index" THEN "status" ELSE "done") /\ pc' = "enter"

\* swimd_git_collect_index_paths or swimd_git_collect_status_paths begins at the root,
\* unless the scan is cancelled or libgit2 fails.
CollectX ==  \* starts where the index has ended
  /\ phase \in {"index", "status"} /\ pc = "enter"
  /\ \/ Leave /\ UNCHANGED <<next, cursor>>
     \/ /\ ~scan_cancelled
        /\ pc' = "next" /\ next' = 1
        /\ cur_folder' = cur_folder /\ cur_path' = <<>> /\ cur_depth' = 0
        /\ UNCHANGED phase
  /\ UNCHANGED <<tree, place, stack, scan_cancelled, placed>>

Collect ==
  /\ phase \in {"index", "status"} /\ pc = "enter"
  /\ \/ Leave /\ UNCHANGED <<next, cursor>>
     \/ /\ ~scan_cancelled
        /\ pc' = "next" /\ next' = 1
        /\ cur_folder' = ROOT /\ cur_path' = <<>> /\ cur_depth' = 0
        /\ UNCHANGED phase
  /\ UNCHANGED <<tree, place, stack, scan_cancelled, placed>>

\* The path is not in this list, or not once more, or it is not untracked; scan_cancelled
\* may be looked at.
Skip ==
  /\ pc = "next" /\ next <= Len(Universe)
  /\ next' = next + 1
  /\ (phase = "status" /\ scan_cancelled /\ Leave) \/ UNCHANGED <<phase, pc>>
  /\ UNCHANGED <<tree, cursor, place, stack, scan_cancelled, placed>>

\* What is untracked is not in the index, and is there together with the file before it.
Untracked(path) ==
  /\ \A n \in DOMAIN listed : listed[n] # path
  /\ cur_path = <<>> \/ ~IsPrefix(cur_path, path)

\* swimd_process_path begins at the folder that the path shares with the one before.
\* When it shares all of its segments, its end is skipped and whatever lies behind is read:
\* the program is "overrun".  When it goes on where a file was, the file goes "astray", to
\* the folder of the one before.  What becomes of the tree then is not modelled.
Process ==
  /\ pc = "next" /\ next <= Len(Universe)
  /\ phase = "status" => Untracked(Universe[next])
  /\ LET path        == Universe[next]
         match_depth == MatchDepth(path, cur_path)
         up_count    == cur_depth - match_depth
     IN /\ res_depth' = cur_depth - up_count
        /\ base_folder' = GoUp(cur_folder, up_count)
        /\ base_path' = SubSeq(path, match_depth + 1, Len(path))
        /\ pc' = CASE match_depth = Len(path) -> "overrun"
                   [] match_depth < Len(path) /\ up_count < 0 -> "astray"
                   [] OTHER -> "descend"
  /\ UNCHANGED <<phase, next, tree, cursor, stack, scan_cancelled, placed>>

\* The next segment names a folder: the first child of that name, or else a new one.
Descends == pc = "descend" /\ Len(base_path) > 1

EnterFolder ==
  /\ Descends
  /\ Children(base_folder, Head(base_path)) # {}
  /\ base_folder' = Min(Children(base_folder, Head(base_path)))
  /\ base_path' = Tail(base_path)
  /\ res_depth' = res_depth + 1
  /\ UNCHANGED <<phase, pc, next, tree, cursor, stack, scan_cancelled, placed>>

MakeFolder ==
  /\ Descends
  /\ Children(base_folder, Head(base_path)) = {}
  /\ folders' = Append(folders, [parent |-> base_folder, name |-> Head(base_path)])
  /\ base_folder' = Len(folders')
  /\ base_path' = Tail(base_path)
  /\ res_depth' = res_depth + 1
  /\ UNCHANGED <<phase, pc, next, files, cursor, stack, scan_cancelled, placed>>

\* The last segment is the file's name.  The list goes on unless the scan is cancelled.  A
\* file whose merge is in conflict is in the index more than once.
AppendFile ==
  /\ pc = "descend" /\ Len(base_path) = 1
  /\ files' = Append(files, [folder |-> base_folder, name |-> Head(base_path)])
  /\ cur_folder' = base_folder /\ cur_path' = Universe[next] /\ cur_depth' = res_depth
  /\ Lists(Universe[next])
  /\ next' = next + 1 \/ (phase = "index" /\ next' = next)
  /\ IF scan_cancelled THEN Leave ELSE pc' = "next" /\ UNCHANGED phase
  /\ UNCHANGED <<folders, place, stack, scan_cancelled>>

EndOfList ==
  /\ pc = "next" /\ next > Len(Universe)
  /\ Leave
  /\ UNCHANGED <<next, tree, cursor, place, stack, scan_cancelled, placed>>

\* The other thread cancels the scan.
Cancel ==
  /\ phase # "done" /\ ~scan_cancelled
  /\ scan_cancelled' = TRUE
  /\ UNCHANGED <<phase, pc, next, tree, cursor, place, stack, placed>>

-----------------------------------------------------------------------------
(***************************************************************************)
(* swimd_list_files.  readdir gives the entries of a directory in any      *)
(* order; after each of them scan_cancelled is looked at.                  *)
(***************************************************************************)
git == <<pc, next, cursor, place>>

Entries(path) ==
  {Universe[n][Len(path) + 1] : n \in {m \in DOMAIN Universe : IsStrictPrefix(path, Universe[m])}}
    \ {""}

IsDirectory(path) == \E n \in DOMAIN Universe : IsStrictPrefix(path, Universe[n])

\* opendir opens the directory, or it fails and there are no entries.
OpenDir(path, folder, base) ==
  \E entries \in {Entries(path), {}} :
    stack' = Append(base, [path |-> path, folder |-> folder, entries |-> entries])

\* The stack with the entries that are still to come of its innermost directory.
Rest(entries) ==
  [stack EXCEPT ![Len(stack)].entries = IF scan_cancelled THEN {} ELSE entries]

Walking == phase = "walk" /\ stack # <<>>
Dir     == Last(stack)

WalkStart ==
  /\ phase = "open" /\ phase' = "walk"
  /\ OpenDir(<<>>, ROOT, <<>>)
  /\ UNCHANGED <<git, tree, scan_cancelled, placed>>

\* A directory is gone through at once.
WalkFolder(name) ==
  /\ Walking /\ name \in Dir.entries /\ IsDirectory(Append(Dir.path, name))
  /\ folders' = Append(folders, [parent |-> Dir.folder, name |-> name])
  /\ OpenDir(Append(Dir.path, name), Len(folders'),
             [stack EXCEPT ![Len(stack)].entries = @ \ {name}])
  /\ UNCHANGED <<phase, git, files, scan_cancelled, placed>>

WalkFile(name) ==
  /\ Walking /\ name \in Dir.entries /\ Append(Dir.path, name) \in Range(Universe)
  /\ files' = Append(files, [folder |-> Dir.folder, name |-> name])
  /\ Lists(Append(Dir.path, name))
  /\ stack' = Rest(Dir.entries \ {name})
  /\ UNCHANGED <<phase, git, folders, scan_cancelled>>

\* An entry that is neither a directory nor a regular file, but a link, "." or "..".
WalkSkip ==
  /\ Walking /\ Dir.entries # {}
  /\ \E names \in SUBSET Dir.entries :
       /\ Cardinality(names) <= 1
       /\ \A name \in names : ~IsDirectory(Append(Dir.path, name))
       /\ stack' = Rest(Dir.entries \ names)
  /\ UNCHANGED <<phase, git, tree, scan_cancelled, placed>>

\* The directory is closed, and its parent's loop goes on.
WalkUpX ==  \* without a look at scan_cancelled
  /\ Walking /\ Dir.entries = {}
  /\ stack' = Front(stack)
  /\ phase' = IF stack' = <<>> THEN "done" ELSE phase
  /\ UNCHANGED <<git, tree, scan_cancelled, placed>>

WalkUp ==
  /\ Walking /\ Dir.entries = {}
  /\ stack' = [n \in 1 .. Len(stack) - 1 |->
                 IF n = Len(stack) - 1 /\ scan_cancelled
                 THEN [stack[n] EXCEPT !.entries = {}] ELSE stack[n]]
  /\ phase' = IF stack' = <<>> THEN "done" ELSE phase
  /\ UNCHANGED <<git, tree, scan_cancelled, placed>>

-----------------------------------------------------------------------------
Next ==
  \/ Open \/ Collect \/ Skip \/ Process \/ EnterFolder \/ MakeFolder \/ AppendFile
  \/ EndOfList \/ Cancel
  \/ WalkStart \/ (\E name \in Names : WalkFolder(name) \/ WalkFile(name))
  \/ WalkSkip \/ WalkUp

Spec == Init /\ [][Next]_vars

-----------------------------------------------------------------------------
\* Every variable has its type; the folders are a tree with the root on top.
TypeOK ==
  /\ phase \in {"open", "index", "status", "walk", "done"}
  /\ pc \in {"enter", "next", "descend", "overrun", "astray"}
  /\ next \in 1 .. Len(Universe) + 1
  /\ Head(folders) = [parent |-> NULL, name |-> ""]
  /\ \A f \in Folders \ {ROOT} : folders[f].parent \in 1 .. f - 1 /\ folders[f].name \in Names
  /\ files \in Seq([folder : Folders, name : Names])
  /\ cur_folder \in Folders /\ cur_depth \in Nat
  /\ base_folder \in Folders /\ base_path \in Seq(Names) /\ res_depth \in Nat
  /\ stack \in Seq([path : Seq(Names), folder : Folders, entries : SUBSET Names])
  /\ scan_cancelled \in BOOLEAN /\ late \in Nat

\* A path is never read past its end.  (A file whose merge is in conflict breaks this.)
InBounds == pc # "overrun"

\* The depths carried from path to path fail at a merge conflict only: a path is read past
\* its end when it follows itself in the index, and a file is put into the wrong folder
\* when it follows a file of the name of its directory.
OnlyConflictsStray ==
  /\ pc = "overrun" => phase = "index" /\ listed # <<>> /\ Last(listed) = Universe[next]
  /\ pc = "astray" => /\ phase = "index" /\ listed # <<>>
                      /\ IsStrictPrefix(Last(listed), Universe[next])

\* Printed, the files are the paths that libgit2 or the directories have listed, in that
\* order, although neither list says where a file's folder is in the tree.
RoundTrip ==
  /\ Len(files) = Len(listed)
  /\ \A n \in DOMAIN files : PrintPath(files[n]) = listed[n]

\* The index and the untracked files share their folders: there are no two of one path.
FoldersShared ==
  \A f, g \in Folders : folders[f] = folders[g] => f = g

\* Setup and shutdown freeze Neovim until a scan they have cancelled ends: whichever list
\* it is in, and however deep in the directories, it lists one more file at most.
CancelStops == late <= 1

\* A printed path, followed from the directory Neovim was started in, leads to the file,
\* and goes up no further than it has to: from no directory before is the file further down.
Ups(path) == Cardinality({n \in DOMAIN path : path[n] = ".."})

Above(dir, ups) == SubSeq(dir, 1, Len(dir) - ups)

Follow(dir, path) == Above(dir, Ups(path)) \o SubSeq(path, Ups(path) + 1, Len(path))

RelativeLeadsToFile ==
  \A n \in DOMAIN files, dir \in ScanDirs :
    LET path    == PrintPath(files[n])
        printed == PrintRelative(path, Base \o dir)
    IN /\ Follow(Base \o dir, printed) = Base \o path
       /\ \A k \in 0 .. Ups(printed) - 1 : ~IsPrefix(Above(Base \o dir, k), Base \o path)
=============================================================================
