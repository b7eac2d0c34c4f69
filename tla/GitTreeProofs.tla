--------------------------- MODULE GitTreeProofs ---------------------------
(***************************************************************************)
(* The tree for any repository: the depths fail at merge conflicts only,   *)
(* no folder is made twice, a cancelled scan stops, every file is printed  *)
(* as it was listed, and the path printed relative to where Neovim was     *)
(* started leads to the file.                                              *)
(*                                                                         *)
(* The directory walk does not look for a folder before it makes one: that *)
(* there is none follows from what is still to come of each open directory.*)
(* What folders and cursor stand for is said by a path for each folder.    *)
(***************************************************************************)
EXTENDS GitTree, SequenceTheorems, FiniteSetTheorems, WellFoundedInduction, TLAPS

IsSeq(q) == \E S : q \in Seq(S)

\* A sequence of open directories.
Stacked(q) ==
  /\ IsSeq(q)
  /\ \A n \in DOMAIN q :
       q[n] = [path |-> q[n].path, folder |-> q[n].folder, entries |-> q[n].entries]

\* Where each list can be, and that the tree and the stack are sequences.
PlaceInv ==
  /\ pc # "enter" => phase \in {"index", "status"}
  /\ phase = "open" => stack = <<>> /\ Len(folders) = 1 /\ folders[ROOT].parent = NULL
  /\ IsSeq(folders)
  /\ Stacked(stack)
  /\ late \in Nat

\* Once a file has been listed in spite of the cancel, there is nothing to come of the list
\* or of the innermost directory.
StopInv ==
  /\ late <= 1 /\ (late = 1 => scan_cancelled)
  /\ phase = "open" => late = 0
  /\ late = 1 => pc = "enter"
  /\ late = 1 /\ phase = "walk" /\ stack # <<>> => stack[Len(stack)].entries = {}

\* The open directories have a folder each, whose children are of names gone through.
WalkInv ==
  phase = "walk" =>
    /\ \A f \in Folders : folders[f].parent \in 0 .. Len(folders)
    /\ \A n \in DOMAIN stack : stack[n].folder \in Folders
    /\ \A m, n \in DOMAIN stack : stack[m].folder = stack[n].folder => m = n
    /\ \A n \in DOMAIN stack, f \in Folders :
         folders[f].parent = stack[n].folder => folders[f].name \notin stack[n].entries

IInv == PlaceInv /\ StopInv /\ WalkInv /\ FoldersShared

-----------------------------------------------------------------------------
LEMMA Appended ==
  ASSUME NEW q, NEW x, IsSeq(q)
  PROVE  /\ IsSeq(Append(q, x))
         /\ Len(q) \in Nat /\ DOMAIN q = 1 .. Len(q)
         /\ Len(Append(q, x)) = Len(q) + 1 /\ DOMAIN Append(q, x) = 1 .. Len(q) + 1
         /\ Append(q, x)[Len(q) + 1] = x
         /\ \A n \in 1 .. Len(q) : Append(q, x)[n] = q[n]
<1>1. PICK S : q \in Seq(S)
  BY DEF IsSeq
<1>2. q \in Seq(S \cup {x})
  BY <1>1
<1>3. Append(q, x) \in Seq(S \cup {x})
  BY <1>2
<1> QED
  BY <1>1, <1>3 DEF IsSeq

LEMMA InitIInv == Init => IInv
<1> SUFFICES ASSUME Init PROVE IInv
  OBVIOUS
<1>1. PICK r : r = [parent |-> NULL, name |-> ""]
  OBVIOUS
<1>2. folders = <<r>> /\ r.parent = NULL
  BY <1>1 DEF Init
<1>3. IsSeq(folders) /\ Len(folders) = 1 /\ folders[1] = r /\ Folders = {1}
  <2>1. folders \in Seq({r}) /\ Len(folders) = 1 /\ folders[1] = r /\ DOMAIN folders = {1}
    BY <1>2
  <2> QED
    BY <2>1 DEF IsSeq, Folders
<1>4. stack = <<>> /\ late = 0 /\ phase = "open" /\ pc = "enter"
  BY DEF Init
<1>5. Stacked(stack)
  <2>1. <<>> \in Seq({}) /\ DOMAIN <<>> = {}
    OBVIOUS
  <2> QED
    BY <1>4, <2>1 DEF Stacked, IsSeq
<1> QED
  <2>1. PlaceInv
    BY <1>2, <1>3, <1>4, <1>5 DEF PlaceInv, ROOT
  <2>2. StopInv /\ WalkInv
    BY <1>4 DEF StopInv, WalkInv
  <2> QED
    BY <1>3, <2>1, <2>2 DEF IInv, FoldersShared

\* A folder that its parent has no child of that name of may be made.
LEMMA MadeOnce ==
  ASSUME FoldersShared, IsSeq(folders), NEW folder, NEW name,
         \A f \in Folders : ~(folders[f].parent = folder /\ folders[f].name = name),
         folders' = Append(folders, [parent |-> folder, name |-> name])
  PROVE  FoldersShared'
<1> DEFINE made == [parent |-> folder, name |-> name]
<1>1. made.parent = folder /\ made.name = name
  OBVIOUS
<1> HIDE DEF made
<1>2. folders' = Append(folders, made)
  BY DEF made
<1>3. /\ Len(folders) \in Nat /\ Folders = 1 .. Len(folders)
      /\ Folders' = 1 .. Len(folders) + 1 /\ folders'[Len(folders) + 1] = made
      /\ \A f \in Folders : folders'[f] = folders[f]
  BY <1>2, Appended DEF Folders
<1>4. \A f \in Folders : folders[f] # made
  BY <1>1
<1>5. \A f \in Folders' : f \in Folders \/ f = Len(folders) + 1
  BY <1>3
<1> QED
  BY <1>3, <1>4, <1>5 DEF FoldersShared

\* The lists of libgit2.
LEMMA GitKeeps ==
  ASSUME IInv, Open \/ Collect \/ Skip \/ Process \/ EnterFolder \/ EndOfList \/ Cancel
  PROVE  IInv'
<1>1. folders' = folders /\ stack' = stack /\ late' = late /\ Folders' = Folders
  BY DEF Open, Collect, Skip, Process, EnterFolder, EndOfList, Cancel, tree, placed, Folders
<1>2. PlaceInv'
  BY <1>1 DEF IInv, PlaceInv, Open, Collect, Skip, Process, EnterFolder, EndOfList, Cancel, Leave
<1>3. StopInv'
  BY <1>1 DEF IInv, PlaceInv, StopInv, Open, Collect, Skip, Process, EnterFolder, Descends,
              EndOfList, Cancel, Leave
<1>4. phase' = "walk" => phase = "walk"
  BY DEF Open, Collect, Skip, Process, EnterFolder, EndOfList, Cancel, Leave
<1>5. WalkInv' /\ FoldersShared'
  BY <1>1, <1>4 DEF IInv, WalkInv, FoldersShared
<1> QED
  BY <1>2, <1>3, <1>5 DEF IInv

LEMMA MakeFolderKeeps ==
  ASSUME IInv, MakeFolder
  PROVE  IInv'
<1>1. phase \in {"index", "status"} /\ phase' = phase /\ pc' = pc /\ pc = "descend"
  BY DEF MakeFolder, Descends, IInv, PlaceInv
<1>2. FoldersShared'
  <2>1. \A f \in Folders : ~(folders[f].parent = base_folder
                             /\ folders[f].name = Head(base_path))
    BY DEF MakeFolder, Children
  <2> QED
    BY <2>1, MadeOnce DEF MakeFolder, IInv, PlaceInv
<1>3. IsSeq(folders')
  BY Appended DEF MakeFolder, IInv, PlaceInv
<1> QED
  BY <1>1, <1>2, <1>3 DEF MakeFolder, IInv, PlaceInv, StopInv, WalkInv, placed

LEMMA AppendFileKeeps ==
  ASSUME IInv, AppendFile
  PROVE  IInv'
<1>1. /\ phase \in {"index", "status"} /\ pc = "descend" /\ late = 0
      /\ folders' = folders /\ stack' = stack /\ Folders' = Folders
  BY DEF AppendFile, IInv, PlaceInv, StopInv, Folders
<1>2. /\ scan_cancelled' = scan_cancelled
      /\ scan_cancelled => late' = 1 /\ pc' = "enter" /\ phase' \in {"status", "done"}
      /\ ~scan_cancelled => late' = 0 /\ pc' = "next" /\ phase' = phase
  BY <1>1 DEF AppendFile, Lists, Leave
<1> QED
  BY <1>1, <1>2 DEF IInv, PlaceInv, StopInv, WalkInv, FoldersShared

-----------------------------------------------------------------------------
\* The walk.
LEMMA StackIs ==
  ASSUME IInv
  PROVE  /\ Len(stack) \in Nat /\ DOMAIN stack = 1 .. Len(stack)
         /\ Len(folders) \in Nat /\ Folders = 1 .. Len(folders)
         /\ stack # <<>> => Len(stack) \in DOMAIN stack
  BY DEF IInv, PlaceInv, Stacked, IsSeq, Folders

LEMMA WalkStartKeeps ==
  ASSUME IInv, WalkStart
  PROVE  IInv'
<1>1. PICK entries : stack' = Append(<<>>, [path |-> <<>>, folder |-> ROOT, entries |-> entries])
  BY DEF WalkStart, OpenDir
<1>2. PICK x : x = [path |-> <<>>, folder |-> ROOT, entries |-> entries]
  OBVIOUS
<1>3. stack' = <<x>> /\ stack' \in Seq({x}) /\ DOMAIN stack' = {1} /\ stack'[1] = x
  BY <1>1, <1>2
<1>4. /\ phase = "open" /\ phase' = "walk" /\ late = 0 /\ late' = 0
      /\ folders' = folders /\ pc' = pc /\ pc = "enter"
  BY DEF WalkStart, tree, placed, git, IInv, PlaceInv, StopInv
<1>5. Folders = {ROOT} /\ Folders' = Folders /\ folders[ROOT].parent = NULL
  BY <1>4, StackIs DEF Folders, IInv, PlaceInv, ROOT
<1>6. x.folder = ROOT
  BY <1>2
<1>7. WalkInv'
  BY <1>3, <1>4, <1>5, <1>6, StackIs DEF WalkInv, ROOT, NULL, IInv, PlaceInv
<1>8. Stacked(stack')
  BY <1>2, <1>3 DEF Stacked, IsSeq
<1>9. PlaceInv' /\ StopInv'
  BY <1>4, <1>5, <1>8 DEF PlaceInv, StopInv, IInv
<1>10. FoldersShared'
  BY <1>4, <1>5 DEF FoldersShared
<1> QED
  BY <1>7, <1>10, <1>9 DEF IInv

\* Entries taken from the innermost directory leave the rest of the stack as it is.
TakenFrom(q, r, entries) == r = [q EXCEPT ![Len(q)].entries = entries]

LEMMA Taken ==
  ASSUME NEW q, Stacked(q), q # <<>>, NEW entries, NEW r, TakenFrom(q, r, entries)
  PROVE  /\ Stacked(r) /\ Len(r) = Len(q) /\ DOMAIN r = DOMAIN q /\ r # <<>>
         /\ r[Len(q)].entries = entries
         /\ \A n \in DOMAIN q : r[n].folder = q[n].folder /\ r[n].path = q[n].path
         /\ \A n \in DOMAIN q : n # Len(q) => r[n] = q[n]
<1>1. PICK S : q \in Seq(S)
  BY DEF Stacked, IsSeq
<1>2. Len(q) \in Nat /\ DOMAIN q = 1 .. Len(q) /\ Len(q) \in DOMAIN q
  BY <1>1
<1>3. PICK e : e = [path |-> q[Len(q)].path, folder |-> q[Len(q)].folder, entries |-> entries]
  OBVIOUS
<1>4. r[Len(q)] = e
  <2>1. r[Len(q)] = [q[Len(q)] EXCEPT !.entries = entries]
    BY <1>2 DEF TakenFrom
  <2>2. q[Len(q)] = [path |-> q[Len(q)].path, folder |-> q[Len(q)].folder,
                     entries |-> q[Len(q)].entries]
    BY <1>2 DEF Stacked
  <2> QED
    BY <1>3, <2>1, <2>2
<1>5. \A n \in DOMAIN q : n # Len(q) => r[n] = q[n]
  BY <1>2 DEF TakenFrom
<1>6. r \in Seq(S \cup {e}) /\ DOMAIN r = DOMAIN q
  BY <1>1, <1>2, <1>4, <1>5 DEF TakenFrom
<1>7. Len(r) = Len(q) /\ r # <<>>
  BY <1>2, <1>6
<1>8. e.entries = entries /\ e.folder = q[Len(q)].folder /\ e.path = q[Len(q)].path
      /\ e = [path |-> e.path, folder |-> e.folder, entries |-> e.entries]
  BY <1>3
<1>9. Stacked(r)
  <2>1. \A n \in DOMAIN r : r[n] = [path |-> r[n].path, folder |-> r[n].folder,
                                    entries |-> r[n].entries]
    BY <1>4, <1>5, <1>6, <1>8 DEF Stacked
  <2> QED
    BY <1>6, <2>1 DEF Stacked, IsSeq
<1> QED
  BY <1>4, <1>5, <1>6, <1>7, <1>8, <1>9

LEMMA WalkFolderIs ==
  ASSUME IInv, NEW name \in Names, WalkFolder(name)
  PROVE  /\ Stacked(stack') /\ DOMAIN stack' = DOMAIN stack \cup {Len(stack) + 1}
         /\ stack'[Len(stack) + 1].folder = Len(folders) + 1
         /\ stack'[Len(stack) + 1].path = Append(stack[Len(stack)].path, name)
         /\ stack'[Len(stack) + 1].entries \in {Entries(stack'[Len(stack) + 1].path), {}}
         /\ \A n \in DOMAIN stack : stack'[n].folder = stack[n].folder
                                   /\ stack'[n].path = stack[n].path
         /\ \A n \in DOMAIN stack : n # Len(stack) => stack'[n].entries = stack[n].entries
         /\ stack'[Len(stack)].entries = stack[Len(stack)].entries \ {name}
<1>1. stack # <<>>
  BY DEF WalkFolder, Walking
<1>2. /\ Stacked(stack) /\ Len(stack) \in Nat /\ DOMAIN stack = 1 .. Len(stack)
      /\ Len(stack) \in DOMAIN stack
      /\ Len(folders) \in Nat /\ IsSeq(folders)
  BY <1>1, StackIs DEF IInv, PlaceInv
<1>3. Len(folders') = Len(folders) + 1
  <2>1. \E x : folders' = Append(folders, x)
    BY DEF WalkFolder
  <2> QED
    BY <1>2, <2>1, Appended
<1>4. PICK q : TakenFrom(stack, q, stack[Len(stack)].entries \ {name})
  BY DEF TakenFrom
<1>5. /\ Stacked(q) /\ Len(q) = Len(stack) /\ DOMAIN q = DOMAIN stack
      /\ q[Len(stack)].entries = stack[Len(stack)].entries \ {name}
      /\ \A n \in DOMAIN stack : q[n].folder = stack[n].folder /\ q[n].path = stack[n].path
      /\ \A n \in DOMAIN stack : n # Len(stack) => q[n] = stack[n]
  BY <1>1, <1>2, <1>4, Taken
<1>6. PICK path, entries :
        /\ path = Append(stack[Len(stack)].path, name) /\ entries \in {Entries(path), {}}
        /\ stack' = Append(q, [path |-> path, folder |-> Len(folders) + 1, entries |-> entries])
  <2>1. q = [stack EXCEPT ![Len(stack)].entries = @ \ {name}]
    BY <1>2, <1>4 DEF TakenFrom
  <2> QED
    BY <1>3, <2>1 DEF WalkFolder, OpenDir, Dir, Last
<1>7. PICK e : e = [path |-> path, folder |-> Len(folders) + 1, entries |-> entries]
  OBVIOUS
<1>8. e.folder = Len(folders) + 1 /\ e.path = path /\ e.entries = entries
       /\ e = [path |-> e.path, folder |-> e.folder, entries |-> e.entries]
  BY <1>7
<1>9. /\ IsSeq(stack')
       /\ Len(stack') = Len(stack) + 1 /\ DOMAIN stack' = 1 .. Len(stack) + 1
       /\ stack'[Len(stack) + 1] = e /\ \A n \in 1 .. Len(stack) : stack'[n] = q[n]
  <2>1. IsSeq(q)
    BY <1>5 DEF Stacked
  <2>2. stack' = Append(q, e)
    BY <1>6, <1>7
  <2> QED
    BY <1>5, <2>1, <2>2, Appended
<1>10. Stacked(stack')
  <2>1. \A n \in DOMAIN stack' :
          stack'[n] = [path |-> stack'[n].path, folder |-> stack'[n].folder,
                       entries |-> stack'[n].entries]
    BY <1>2, <1>5, <1>8, <1>9 DEF Stacked
  <2> QED
    BY <1>9, <2>1 DEF Stacked
<1> QED
  <2>1. DOMAIN stack' = DOMAIN stack \cup {Len(stack) + 1}
    BY <1>2, <1>9
  <2> QED
    BY <1>2, <1>5, <1>6, <1>8, <1>9, <1>10, <2>1

LEMMA WalkFolderKeeps ==
  ASSUME IInv, NEW name \in Names, WalkFolder(name)
  PROVE  IInv'
<1>1. /\ phase = "walk" /\ stack # <<>> /\ name \in stack[Len(stack)].entries
      /\ phase' = phase /\ pc' = pc /\ late' = late /\ scan_cancelled' = scan_cancelled
  BY DEF WalkFolder, Walking, Dir, Last, git, placed
<1>2. /\ Stacked(stack) /\ Len(stack) \in Nat /\ DOMAIN stack = 1 .. Len(stack)
      /\ Len(stack) \in DOMAIN stack
      /\ Len(folders) \in Nat /\ Folders = 1 .. Len(folders)
  BY <1>1, StackIs DEF IInv, PlaceInv
<1>3. PICK m : m = [parent |-> stack[Len(stack)].folder, name |-> name]
  OBVIOUS
<1>4. m.parent = stack[Len(stack)].folder /\ m.name = name
  BY <1>3
<1>5. /\ folders' = Append(folders, m)
      /\ IsSeq(folders')
      /\ Len(folders') = Len(folders) + 1 /\ Folders' = 1 .. Len(folders) + 1
      /\ folders'[Len(folders) + 1] = m /\ \A f \in Folders : folders'[f] = folders[f]
  <2>1. folders' = Append(folders, m)
    BY <1>3 DEF WalkFolder, Dir, Last
  <2>2. IsSeq(folders)
    BY DEF IInv, PlaceInv
  <2> QED
    BY <1>2, <2>1, <2>2, Appended DEF Folders
<1>6. /\ Stacked(stack') /\ DOMAIN stack' = DOMAIN stack \cup {Len(stack) + 1}
      /\ stack'[Len(stack) + 1].folder = Len(folders) + 1
      /\ \A n \in DOMAIN stack : stack'[n].folder = stack[n].folder
      /\ \A n \in DOMAIN stack : n # Len(stack) => stack'[n].entries = stack[n].entries
      /\ stack'[Len(stack)].entries = stack[Len(stack)].entries \ {name}
  BY WalkFolderIs
<1>7. late = 0
  BY <1>1 DEF IInv, PlaceInv, StopInv
<1>8. PlaceInv' /\ StopInv'
  BY <1>1, <1>5, <1>6, <1>7 DEF IInv, PlaceInv, StopInv
<1>9. /\ \A f \in Folders : folders[f].parent \in 0 .. Len(folders)
      /\ \A n \in DOMAIN stack : stack[n].folder \in Folders
      /\ \A i, n \in DOMAIN stack : stack[i].folder = stack[n].folder => i = n
      /\ \A n \in DOMAIN stack, f \in Folders :
           folders[f].parent = stack[n].folder => folders[f].name \notin stack[n].entries
  BY <1>1 DEF IInv, WalkInv
<1>10. FoldersShared'
  <2>1. \A f \in Folders : ~(folders[f].parent = stack[Len(stack)].folder
                             /\ folders[f].name = name)
    BY <1>1, <1>2, <1>9
  <2> QED
    BY <1>3, <1>5, <2>1, MadeOnce DEF IInv, PlaceInv
<1>11. \A n \in DOMAIN stack : /\ stack'[n].folder = stack[n].folder
                               /\ stack'[n].folder \in Folders
                               /\ stack'[n].entries \subseteq stack[n].entries
  <2> TAKE n \in DOMAIN stack
  <2>1. stack'[n].folder = stack[n].folder /\ stack[n].folder \in Folders
    BY <1>6, <1>9
  <2>2. stack'[n].entries \subseteq stack[n].entries
    BY <1>6
  <2> QED
    BY <2>1, <2>2
<1>12. WalkInv'
  <2>1. \A f \in Folders' : folders'[f].parent \in 0 .. Len(folders')
    <3>1. m.parent \in 1 .. Len(folders)
      BY <1>2, <1>4, <1>9
    <3> QED
      BY <1>2, <1>5, <1>9, <3>1
  <2>2. \A n \in DOMAIN stack' : n \in DOMAIN stack \/ n = Len(stack) + 1
    BY <1>2, <1>6
  <2>3. /\ Len(folders) + 1 \notin Folders /\ Len(folders) + 1 \in Folders'
        /\ \A f \in Folders : f \in Folders'
    BY <1>2, <1>5
  <2>4. \A n \in DOMAIN stack' : stack'[n].folder \in Folders'
    BY <1>6, <1>11, <2>2, <2>3
  <2>5. \A i, n \in DOMAIN stack' : stack'[i].folder = stack'[n].folder => i = n
    BY <1>6, <1>9, <1>11, <2>2, <2>3
  <2>6. ASSUME NEW n \in DOMAIN stack', NEW f \in Folders',
               folders'[f].parent = stack'[n].folder
        PROVE  folders'[f].name \notin stack'[n].entries
    <3>1. CASE f \in Folders
      <4>1. folders'[f] = folders[f] /\ folders[f].parent # Len(folders) + 1
        BY <1>2, <1>5, <1>9, <3>1
      <4>2. n \in DOMAIN stack
        BY <1>6, <2>2, <2>6, <4>1
      <4> QED
        BY <1>9, <1>11, <2>6, <3>1, <4>1, <4>2
    <3>2. CASE f = Len(folders) + 1
      <4>1. folders'[f] = m /\ stack[Len(stack)].folder \in Folders
        BY <1>2, <1>5, <1>9, <3>2, Zenon
      <4>2. n \in DOMAIN stack
        BY <1>4, <1>6, <2>2, <2>3, <2>6, <4>1
      <4>3. n = Len(stack)
        BY <1>2, <1>4, <1>9, <1>11, <2>6, <4>1, <4>2
      <4>4. stack'[n].entries = stack[Len(stack)].entries \ {name}
        BY <1>2, <1>6, <4>2, <4>3
      <4> QED
        BY <1>4, <4>1, <4>4
    <3> QED
      BY <1>2, <1>5, <3>1, <3>2
  <2> QED
    BY <2>1, <2>4, <2>5, <2>6 DEF WalkInv
<1> QED
  BY <1>8, <1>10, <1>12 DEF IInv

\* A step that takes entries off the stack, or a directory, and makes no folder.
Shrinks ==
  /\ folders' = folders
  /\ DOMAIN stack' \subseteq DOMAIN stack
  /\ \A n \in DOMAIN stack' : /\ stack'[n].folder = stack[n].folder
                              /\ stack'[n].path = stack[n].path
                              /\ stack'[n].entries \subseteq stack[n].entries

LEMMA ShrinkKeeps ==
  ASSUME IInv, phase = "walk", Shrinks
  PROVE  WalkInv' /\ FoldersShared'
<1>1. Folders' = Folders /\ folders' = folders
  BY DEF Shrinks, Folders
<1> QED
  BY <1>1 DEF IInv, WalkInv, Shrinks, FoldersShared

LEMMA RestIs ==
  ASSUME IInv, Walking, Dir.entries # {}, folders' = folders,
         NEW entries \in SUBSET Dir.entries, stack' = Rest(entries)
  PROVE  /\ Shrinks /\ Stacked(stack') /\ late = 0
         /\ scan_cancelled => stack' # <<>> /\ stack'[Len(stack')].entries = {}
<1>1. phase = "walk" /\ stack # <<>> /\ Stacked(stack)
      /\ Len(stack) \in DOMAIN stack
      /\ entries \subseteq stack[Len(stack)].entries /\ stack[Len(stack)].entries # {}
  BY StackIs DEF IInv, PlaceInv, Walking, Dir, Last
<1>2. PICK left : /\ left = (IF scan_cancelled THEN {} ELSE entries)
                  /\ TakenFrom(stack, stack', left)
  BY DEF Rest, TakenFrom
<1>3. left \subseteq stack[Len(stack)].entries
  BY <1>1, <1>2
<1>4. /\ Stacked(stack') /\ Len(stack') = Len(stack) /\ DOMAIN stack' = DOMAIN stack
      /\ stack' # <<>> /\ stack'[Len(stack)].entries = left
      /\ \A n \in DOMAIN stack : stack'[n].folder = stack[n].folder /\ stack'[n].path = stack[n].path
      /\ \A n \in DOMAIN stack : n # Len(stack) => stack'[n] = stack[n]
  BY <1>1, <1>2, Taken
<1>5. late = 0
  BY <1>1 DEF IInv, PlaceInv, StopInv
<1>6. Shrinks
  BY <1>1, <1>3, <1>4 DEF Shrinks
<1> QED
  BY <1>2, <1>4, <1>5, <1>6

LEMMA WalkFileKeeps ==
  ASSUME IInv, NEW name \in Names, WalkFile(name)
  PROVE  IInv'
<1>1. /\ Walking /\ phase = "walk" /\ phase' = phase /\ pc' = pc /\ pc = "enter"
      /\ scan_cancelled' = scan_cancelled /\ folders' = folders
  BY DEF WalkFile, Walking, git, IInv, PlaceInv
<1>2. /\ Shrinks /\ Stacked(stack') /\ late = 0
      /\ scan_cancelled => stack' # <<>> /\ stack'[Len(stack')].entries = {}
  <2>1. /\ Dir.entries # {} /\ Dir.entries \ {name} \in SUBSET Dir.entries
        /\ stack' = Rest(Dir.entries \ {name})
    BY DEF WalkFile
  <2> QED
    BY <1>1, <2>1, RestIs
<1>3. late' \in 0 .. 1 /\ (late' = 1 => scan_cancelled)
  BY <1>2 DEF WalkFile, Lists
<1>4. WalkInv' /\ FoldersShared'
  BY <1>1, <1>2, ShrinkKeeps
<1>5. PlaceInv' /\ StopInv'
  BY <1>1, <1>2, <1>3 DEF IInv, PlaceInv, StopInv
<1> QED
  BY <1>4, <1>5 DEF IInv

LEMMA WalkSkipKeeps ==
  ASSUME IInv, WalkSkip
  PROVE  IInv'
<1>1. /\ Walking /\ phase = "walk" /\ phase' = phase /\ pc' = pc /\ pc = "enter"
      /\ scan_cancelled' = scan_cancelled /\ folders' = folders /\ late' = late
  BY DEF WalkSkip, Walking, git, tree, placed, IInv, PlaceInv
<1>2. Shrinks /\ Stacked(stack') /\ late = 0
  <2>1. PICK names \in SUBSET Dir.entries : stack' = Rest(Dir.entries \ names)
    BY DEF WalkSkip
  <2>2. Dir.entries # {} /\ Dir.entries \ names \in SUBSET Dir.entries
    BY DEF WalkSkip
  <2> QED
    BY <1>1, <2>1, <2>2, RestIs
<1>3. WalkInv' /\ FoldersShared'
  BY <1>1, <1>2, ShrinkKeeps
<1>4. PlaceInv' /\ StopInv'
  BY <1>1, <1>2 DEF IInv, PlaceInv, StopInv
<1> QED
  BY <1>3, <1>4 DEF IInv

LEMMA WalkUpIs ==
  ASSUME IInv, WalkUp
  PROVE  /\ Shrinks /\ Stacked(stack')
         /\ scan_cancelled /\ stack' # <<>> => stack'[Len(stack')].entries = {}
<1>1. stack # <<>> /\ folders' = folders
  BY DEF WalkUp, Walking, tree
<1>2. /\ Stacked(stack) /\ Len(stack) \in Nat /\ Len(stack) # 0 /\ DOMAIN stack = 1 .. Len(stack)
  BY <1>1, StackIs DEF IInv, PlaceInv
<1>3. PICK k : k = Len(stack) - 1
  OBVIOUS
<1>4. k \in Nat
  BY <1>2, <1>3
<1>5. stack' = [n \in 1 .. k |-> IF n = k /\ scan_cancelled
                                 THEN [stack[n] EXCEPT !.entries = {}] ELSE stack[n]]
  BY <1>3 DEF WalkUp
<1>6. ASSUME NEW n \in 1 .. k
      PROVE  /\ stack'[n] = [path |-> stack'[n].path, folder |-> stack'[n].folder,
                             entries |-> stack'[n].entries]
             /\ stack'[n].folder = stack[n].folder /\ stack'[n].path = stack[n].path
             /\ stack'[n].entries \subseteq stack[n].entries
             /\ n = k /\ scan_cancelled => stack'[n].entries = {}
  <2>1. n \in DOMAIN stack
    BY <1>2, <1>3, <1>4
  <2>2. stack[n] = [path |-> stack[n].path, folder |-> stack[n].folder,
                    entries |-> stack[n].entries]
    BY <1>2, <2>1 DEF Stacked
  <2>3. CASE n = k /\ scan_cancelled
    <3>1. stack'[n] = [stack[n] EXCEPT !.entries = {}]
      BY <1>5, <2>3
    <3>2. stack'[n] = [path |-> stack[n].path, folder |-> stack[n].folder, entries |-> {}]
      BY <2>2, <3>1
    <3> QED
      BY <3>2
  <2>4. CASE ~(n = k /\ scan_cancelled)
    <3>1. stack'[n] = stack[n]
      BY <1>5, <2>4
    <3> QED
      BY <2>2, <2>4, <3>1
  <2> QED
    BY <2>3, <2>4
<1>7. /\ DOMAIN stack' = 1 .. k /\ 1 .. k \subseteq DOMAIN stack
      /\ IsSeq(stack') /\ Len(stack') = k
  <2>1. PICK S : S = {stack'[n] : n \in 1 .. k}
    OBVIOUS
  <2>2. stack' \in [1 .. k -> S]
    BY <1>5, <2>1
  <2>3. stack' \in Seq(S) /\ Len(stack') = k
    BY <1>4, <2>2
  <2>4. IsSeq(stack')
    BY <2>3 DEF IsSeq
  <2>5. DOMAIN stack' = 1 .. k
    BY <1>5
  <2>6. 1 .. k \subseteq DOMAIN stack
    BY <1>2, <1>3, <1>4
  <2> QED
    BY <2>3, <2>4, <2>5, <2>6
<1>8. Stacked(stack')
  BY <1>6, <1>7 DEF Stacked
<1>9. Shrinks
  BY <1>1, <1>6, <1>7 DEF Shrinks
<1>10. scan_cancelled /\ stack' # <<>> => stack'[Len(stack')].entries = {}
  <2>1. stack' # <<>> => k \in 1 .. k
    BY <1>4, <1>7
  <2> QED
    BY <1>6, <1>7, <2>1
<1> QED
  BY <1>8, <1>9, <1>10

LEMMA WalkUpKeeps ==
  ASSUME IInv, WalkUp
  PROVE  IInv'
<1>1. /\ phase = "walk" /\ phase' \in {"walk", "done"} /\ pc' = pc /\ pc = "enter"
      /\ scan_cancelled' = scan_cancelled /\ folders' = folders /\ late' = late
  BY DEF WalkUp, Walking, git, tree, placed, IInv, PlaceInv
<1>2. /\ Shrinks /\ Stacked(stack')
      /\ scan_cancelled /\ stack' # <<>> => stack'[Len(stack')].entries = {}
  BY WalkUpIs
<1>3. WalkInv' /\ FoldersShared'
  BY <1>1, <1>2, ShrinkKeeps
<1>4. PlaceInv' /\ StopInv'
  BY <1>1, <1>2 DEF IInv, PlaceInv, StopInv
<1> QED
  BY <1>3, <1>4 DEF IInv

-----------------------------------------------------------------------------
LEMMA StepIInv == IInv /\ [Next]_vars => IInv'
<1> SUFFICES ASSUME IInv, [Next]_vars PROVE IInv'
  OBVIOUS
<1>1. CASE UNCHANGED vars
  BY <1>1 DEF vars, git, tree, placed, IInv, PlaceInv, StopInv, WalkInv, FoldersShared,
              Folders, Stacked, IsSeq
<1>2. CASE Open \/ Collect \/ Skip \/ Process \/ EnterFolder \/ EndOfList \/ Cancel
  BY <1>2, GitKeeps
<1>3. CASE \E name \in Names : WalkFolder(name) \/ WalkFile(name)
  BY <1>3, WalkFolderKeeps, WalkFileKeeps
<1> QED
  BY <1>1, <1>2, <1>3, MakeFolderKeeps, AppendFileKeeps, WalkStartKeeps, WalkSkipKeeps,
     WalkUpKeeps DEF Next

\* The invariant holds of every repository and every directory.
THEOREM Invariance == Spec => []IInv
<1> QED
  BY InitIInv, StepIInv, PTL DEF Spec

\* Setup and shutdown wait for one more file at most, whichever list the cancelled scan is
\* in and however deep in the directories it is.
THEOREM StopsWhenCancelled == Spec => []CancelStops
<1>1. IInv => CancelStops
  BY DEF IInv, StopInv, CancelStops
<1> QED
  BY <1>1, Invariance, PTL

\* The index, the untracked files and the directory walk never make two folders of one name
\* in one folder, although the walk does not look whether there is one.
THEOREM FoldersOnce == Spec => []FoldersShared
<1>1. IInv => FoldersShared
  BY DEF IInv
<1> QED
  BY <1>1, Invariance, PTL

-----------------------------------------------------------------------------
(***************************************************************************)
(* The depths fail at a merge conflict only.                               *)
(***************************************************************************)
\* The path placed last is the one listed last, and not one that comes later.
Behind ==
  /\ \E n \in DOMAIN Universe : cur_path = Universe[n] /\ n <= next
  /\ cur_depth = Len(cur_path) - 1
  /\ phase \in {"index", "status", "done"}
  /\ listed # <<>> /\ Last(listed) = cur_path

\* What is left to place of a path, and the depth of what has been placed, make its length.
CursorInv ==
  /\ next \in Nat \ {0} /\ IsSeq(listed)
  /\ (cur_path = <<>> /\ cur_depth = 0) \/ Behind
  /\ pc = "descend" =>
       /\ next \in DOMAIN Universe /\ IsSeq(base_path) /\ base_path # <<>>
       /\ res_depth \in Nat /\ res_depth + Len(base_path) = Len(Universe[next])
  /\ OnlyConflictsStray

\* Numbers are well-ordered.
LEMMA LeastNumber ==
  ASSUME NEW S, S \subseteq Nat, S # {}
  PROVE  \E x \in S : \A y \in S : x <= y
<1>1. PICK R : R = OpToRel(<, Nat)
  OBVIOUS
<1>2. \A p : p \in R <=> p \in Nat \X Nat /\ p[1] < p[2]
  BY <1>1, Zenon DEF OpToRel
<1>3. IsWellFoundedOn(R, Nat)
  BY <1>1, NatLessThanWellFounded, Zenon
<1>4. PICK x \in S : \A y \in S : <<y, x>> \notin R
  BY <1>3, WFMin, Zenon
<1>5. \A y \in S : ~(y < x)
  BY <1>2, <1>4
<1> QED
  BY <1>4, <1>5

\* Two paths have a longest common prefix.
LEMMA PrefixExists ==
  ASSUME NEW S, NEW a \in Seq(S), NEW b \in Seq(S)
  PROVE  /\ IsPrefix(LongestCommonPrefix({a, b}), a)
         /\ IsPrefix(LongestCommonPrefix({a, b}), b)
         /\ LongestCommonPrefix({a, b}) \in Seq(S)
         /\ \A other \in CommonPrefixes({a, b}) : Len(other) <= Len(LongestCommonPrefix({a, b}))
<1> DEFINE P == CommonPrefixes({a, b})
<1>1. \A p \in P : p \in Seq(S) /\ IsPrefix(p, a) /\ IsPrefix(p, b)
  BY DEF CommonPrefixes, Prefixes
<1>2. <<>> \in P
  <2>1. <<>> \in Prefixes(a)
    <3>1. 0 \in 0 .. Len(a) /\ SubSeq(a, 1, 0) = <<>>
      OBVIOUS
    <3> QED
      BY <3>1 DEF Prefixes
  <2>2. IsPrefix(<<>>, a) /\ IsPrefix(<<>>, b)
    BY DEF IsPrefix
  <2> QED
    BY <2>1, <2>2 DEF CommonPrefixes
<1> HIDE DEF P
<1>3. \A p \in P : Len(p) \in Nat /\ Len(p) <= Len(a)
  BY <1>1 DEF IsPrefix
<1>4. PICK Missing : Missing = {Len(a) - Len(p) : p \in P}
  OBVIOUS
<1>5. Missing \subseteq Nat /\ Missing # {}
  BY <1>2, <1>3, <1>4
<1>6. PICK x \in Missing : \A y \in Missing : x <= y
  BY <1>5, LeastNumber
<1>7. PICK longest \in P : x = Len(a) - Len(longest)
  BY <1>4, <1>6
<1>8. \A other \in P : Len(other) <= Len(longest)
  <2> SUFFICES ASSUME NEW other \in P PROVE Len(other) <= Len(longest)
    OBVIOUS
  <2>1. x <= Len(a) - Len(other)
    BY <1>4, <1>6
  <2> QED
    BY <1>3, <1>7, <2>1
<1>9. /\ LongestCommonPrefix({a, b}) \in P
      /\ \A other \in P : Len(other) <= Len(LongestCommonPrefix({a, b}))
  BY <1>8 DEF LongestCommonPrefix, P
<1> QED
  BY <1>1, <1>9 DEF P

LEMMA Universal ==
  ASSUME NEW n \in DOMAIN Universe
  PROVE  Universe[n] \in Seq(STRING) /\ Universe[n] # <<>> /\ n \in Nat \ {0}
  BY PathsAssumption

\* What two paths share is no longer than either, and as long as one that begins the other.
LEMMA Shared ==
  ASSUME NEW S, NEW a \in Seq(S), NEW b \in Seq(S)
  PROVE  /\ MatchDepth(a, b) \in Nat
         /\ MatchDepth(a, b) <= Len(a) /\ MatchDepth(a, b) <= Len(b)
         /\ MatchDepth(a, b) = Len(a) => IsPrefix(a, b)
         /\ MatchDepth(a, b) = Len(b) => IsPrefix(b, a)
<1>1. PICK p : p = LongestCommonPrefix({a, b})
  OBVIOUS
<1>2. IsPrefix(p, a) /\ IsPrefix(p, b) /\ p \in Seq(S)
  BY <1>1, PrefixExists
<1>3. Len(p) \in Nat /\ Len(p) <= Len(a) /\ Len(p) <= Len(b)
  BY <1>2 DEF IsPrefix
<1>4. Len(p) = Len(a) => IsPrefix(a, b)
  BY <1>2 DEF IsPrefix
<1>5. Len(p) = Len(b) => IsPrefix(b, a)
  BY <1>2 DEF IsPrefix
<1> QED
  BY <1>1, <1>3, <1>4, <1>5 DEF MatchDepth

LEMMA TailIsSeq ==
  ASSUME NEW q, IsSeq(q), Len(q) > 1
  PROVE  IsSeq(Tail(q)) /\ Tail(q) # <<>> /\ Len(Tail(q)) = Len(q) - 1 /\ Len(q) \in Nat
<1>1. PICK S : q \in Seq(S)
  BY DEF IsSeq
<1>2. Tail(q) \in Seq(S) /\ Len(Tail(q)) = Len(q) - 1 /\ Len(q) \in Nat
  BY <1>1
<1>3. PICK r : r = Tail(q)
  OBVIOUS
<1>4. r \in Seq(S) /\ Len(r) # 0
  BY <1>1, <1>2, <1>3
<1>5. r # <<>> /\ IsSeq(r)
  BY <1>4 DEF IsSeq
<1> QED
  BY <1>2, <1>3, <1>5

LEMMA ListedGrows ==
  ASSUME IsSeq(listed), NEW path, listed' = Append(listed, path)
  PROVE  IsSeq(listed') /\ listed' # <<>> /\ Last(listed)' = path
<1>1. /\ IsSeq(listed') /\ Len(listed) \in Nat
      /\ Len(listed') = Len(listed) + 1 /\ listed'[Len(listed) + 1] = path
  BY Appended
<1>2. listed' # <<>>
  <2>1. Len(<<>>) = 0
    OBVIOUS
  <2> QED
    BY <1>1, <2>1
<1> QED
  BY <1>1, <1>2 DEF Last

LEMMA InitCursor == Init => CursorInv
<1> SUFFICES ASSUME Init PROVE CursorInv
  OBVIOUS
<1>1. next = 1 /\ cur_path = <<>> /\ cur_depth = 0 /\ pc = "enter" /\ listed = <<>>
  BY DEF Init
<1>2. <<>> \in Seq({})
  OBVIOUS
<1>3. IsSeq(listed)
  BY <1>1, <1>2 DEF IsSeq
<1> QED
  BY <1>1, <1>3 DEF CursorInv, OnlyConflictsStray

\* A path that follows the one placed last leaves something to place below it, unless the
\* two are in conflict.
LEMMA ProcessIs ==
  ASSUME IInv, CursorInv, Process,
         NEW path, path = Universe[next], NEW k, k = MatchDepth(path, cur_path)
  PROVE  /\ next \in DOMAIN Universe /\ path \in Seq(STRING)
         /\ cur_depth \in Nat /\ k \in Nat /\ k <= Len(path)
         /\ pc' = "descend" => k < Len(path) /\ k <= cur_depth
         /\ OnlyConflictsStray'
<1>1. next \in DOMAIN Universe /\ pc = "next" /\ phase \in {"index", "status"}
  BY PathsAssumption DEF CursorInv, Process, IInv, PlaceInv
<1>2. path \in Seq(STRING) /\ Len(path) \in Nat \ {0}
  BY <1>1, Universal
<1>3. /\ pc' = "overrun" => k = Len(path)
      /\ pc' = "astray" => k < Len(path) /\ cur_depth - k < 0
      /\ pc' = "descend" => k # Len(path) /\ ~(k < Len(path) /\ cur_depth - k < 0)
  BY DEF Process
<1>4. phase' = phase /\ listed' = listed /\ next' = next
  BY DEF Process, placed
<1>5. CASE cur_path = <<>> /\ cur_depth = 0
  <2>1. <<>> \in Seq(STRING) /\ Len(<<>>) = 0
    OBVIOUS
  <2>2. k \in Nat /\ k <= 0
    BY <1>2, <1>5, <2>1, Shared
  <2>3. k = 0
    BY <2>2
  <2>4. pc' # "overrun" /\ pc' # "astray"
    BY <1>2, <1>3, <1>5, <2>3
  <2> QED
    BY <1>1, <1>2, <1>5, <2>3, <2>4 DEF OnlyConflictsStray
<1>6. CASE Behind
  <2>1. PICK n \in DOMAIN Universe : cur_path = Universe[n] /\ n <= next
    BY <1>6 DEF Behind
  <2>2. cur_path \in Seq(STRING) /\ Len(cur_path) \in Nat \ {0} /\ n \in Nat /\ next \in Nat
    BY <1>1, <2>1, Universal
  <2>3. cur_depth = Len(cur_path) - 1 /\ listed # <<>> /\ Last(listed) = cur_path
    BY <1>6 DEF Behind
  <2>4. /\ k \in Nat /\ k <= Len(path) /\ k <= Len(cur_path)
        /\ k = Len(path) => IsPrefix(path, cur_path)
        /\ k = Len(cur_path) => IsPrefix(cur_path, path)
    BY <1>2, <2>2, Shared
  <2>5. cur_depth \in Nat
    BY <2>2, <2>3
  <2>6. IsPrefix(cur_path, path) => phase = "index"
    <3>1. cur_path # <<>>
      BY <2>1, Universal
    <3> QED
      BY <1>1, <3>1 DEF Process, Untracked
  <2>7. k = Len(path) => cur_path = path /\ phase = "index"
    <3> SUFFICES ASSUME k = Len(path) PROVE cur_path = path /\ phase = "index"
      OBVIOUS
    <3>1. n = next
      BY <1>1, <2>1, <2>2, <2>4, OrderAssumption
    <3>2. cur_path = path
      BY <2>1, <3>1
    <3> QED
      BY <2>4, <2>6, <3>2
  <2>8. pc' = "astray" => IsStrictPrefix(cur_path, path) /\ phase = "index"
    <3> SUFFICES ASSUME pc' = "astray"
                 PROVE  IsStrictPrefix(cur_path, path) /\ phase = "index"
      OBVIOUS
    <3>1. k < Len(path) /\ cur_depth - k < 0
      BY <1>3
    <3>2. k = Len(cur_path)
      BY <2>2, <2>3, <2>4, <3>1
    <3>3. IsPrefix(cur_path, path) /\ cur_path # path
      BY <2>4, <3>1, <3>2
    <3> QED
      BY <2>6, <3>3 DEF IsStrictPrefix
  <2>9. OnlyConflictsStray'
    BY <1>3, <1>4, <2>3, <2>7, <2>8 DEF OnlyConflictsStray
  <2>10. pc' = "descend" => k < Len(path) /\ k <= cur_depth
    BY <1>2, <1>3, <2>4, <2>5
  <2> QED
    BY <1>1, <1>2, <2>4, <2>5, <2>9, <2>10
<1> QED
  BY <1>5, <1>6 DEF CursorInv

LEMMA ProcessCursor ==
  ASSUME IInv, CursorInv, Process
  PROVE  CursorInv'
<1>1. PICK path, k : path = Universe[next] /\ k = MatchDepth(path, cur_path)
  OBVIOUS
<1>2. /\ next \in DOMAIN Universe /\ path \in Seq(STRING)
      /\ cur_depth \in Nat /\ k \in Nat /\ k <= Len(path)
      /\ pc' = "descend" => k < Len(path) /\ k <= cur_depth
      /\ OnlyConflictsStray'
  BY <1>1, ProcessIs
<1>3. base_path' = SubSeq(path, k + 1, Len(path)) /\ res_depth' = cur_depth - (cur_depth - k)
  BY <1>1 DEF Process
<1>4. base_path' \in Seq(STRING) /\ Len(base_path') = Len(path) - k /\ res_depth' = k
  BY <1>2, <1>3
<1>5. IsSeq(base_path') /\ (pc' = "descend" => base_path' # <<>>)
  BY <1>2, <1>4 DEF IsSeq
<1>6. res_depth' + Len(base_path') = Len(path)
  BY <1>2, <1>4
<1>7. next' = next /\ UNCHANGED cursor /\ listed' = listed /\ phase' = phase
  BY DEF Process, placed
<1> QED
  BY <1>1, <1>2, <1>4, <1>5, <1>6, <1>7 DEF CursorInv, Behind, cursor

LEMMA AppendFileCursor ==
  ASSUME IInv, CursorInv, AppendFile
  PROVE  CursorInv'
<1>1. /\ pc = "descend" /\ cur_path' = Universe[next] /\ cur_depth' = res_depth
      /\ next' = next + 1 \/ next' = next
      /\ listed' = Append(listed, Universe[next]) /\ Len(base_path) = 1
      /\ pc' \in {"enter", "next"} /\ phase' \in {phase, "status", "done"}
  BY DEF AppendFile, Lists, Leave
<1>2. IsSeq(listed') /\ listed' # <<>> /\ Last(listed)' = cur_path'
  BY <1>1, ListedGrows DEF CursorInv
<1>3. /\ next \in DOMAIN Universe /\ next \in Nat \ {0} /\ next' \in Nat \ {0} /\ next <= next'
      /\ res_depth \in Nat /\ res_depth + 1 = Len(Universe[next])
  BY <1>1, Universal DEF CursorInv
<1>4. cur_depth' = Len(cur_path') - 1
  <2>1. Len(Universe[next]) \in Nat
    BY <1>3, Universal
  <2> QED
    BY <1>1, <1>3, <2>1
<1>5. phase' \in {"index", "status", "done"}
  BY <1>1 DEF IInv, PlaceInv
<1>6. Behind'
  BY <1>1, <1>2, <1>3, <1>4, <1>5 DEF Behind
<1> QED
  BY <1>1, <1>2, <1>3, <1>6 DEF CursorInv, OnlyConflictsStray

LEMMA StepCursor == IInv /\ CursorInv /\ [Next]_vars => CursorInv'
<1> SUFFICES ASSUME IInv, CursorInv, [Next]_vars PROVE CursorInv'
  OBVIOUS
<1>1. CASE UNCHANGED vars
  BY <1>1 DEF vars, git, cursor, place, placed, CursorInv, Behind, OnlyConflictsStray
<1>2. CASE Open \/ Cancel \/ WalkStart \/ WalkSkip \/ WalkUp
  BY <1>2 DEF Open, Cancel, WalkStart, WalkSkip, WalkUp, Walking, git, cursor, place, placed,
              IInv, PlaceInv, CursorInv, Behind, OnlyConflictsStray
<1>3. CASE Collect
  BY <1>3 DEF Collect, Leave, place, cursor, placed, CursorInv, Behind, OnlyConflictsStray
<1>4. CASE Skip \/ EndOfList
  <2>1. /\ next' \in {next, next + 1} /\ UNCHANGED cursor /\ listed' = listed
        /\ pc = "next" /\ pc' \in {"next", "enter"} /\ phase' \in {phase, "status", "done"}
    BY <1>4 DEF Skip, EndOfList, Leave, placed
  <2>2. next \in Nat \ {0} /\ next' \in Nat \ {0} /\ \A n \in Nat : n <= next => n <= next'
    BY <2>1 DEF CursorInv
  <2>3. Behind => Behind'
    BY <2>1, <2>2, Universal DEF Behind, cursor
  <2> QED
    BY <2>1, <2>2, <2>3 DEF CursorInv, OnlyConflictsStray, cursor
<1>5. CASE Process
  BY <1>5, ProcessCursor
<1>6. CASE EnterFolder \/ MakeFolder
  <2>1. /\ base_path' = Tail(base_path) /\ Len(base_path) > 1 /\ pc = "descend" /\ pc' = pc
        /\ next' = next /\ UNCHANGED cursor /\ listed' = listed /\ phase' = phase
        /\ res_depth' = res_depth + 1
    BY <1>6 DEF EnterFolder, MakeFolder, Descends, placed
  <2>2. /\ IsSeq(base_path') /\ base_path' # <<>>
        /\ Len(base_path') = Len(base_path) - 1 /\ Len(base_path) \in Nat
    BY <2>1, TailIsSeq DEF CursorInv
  <2>3. res_depth \in Nat
    BY <2>1 DEF CursorInv
  <2>4. PICK a, b : a = Len(base_path) /\ b = Len(base_path')
    OBVIOUS
  <2>5. res_depth' \in Nat /\ res_depth' + b = res_depth + a
    BY <2>1, <2>2, <2>3, <2>4
  <2> QED
    BY <2>1, <2>2, <2>4, <2>5 DEF CursorInv, Behind, OnlyConflictsStray, cursor
<1>7. CASE AppendFile
  BY <1>7, AppendFileCursor
<1>8. CASE \E name \in Names : WalkFolder(name)
  BY <1>8 DEF WalkFolder, Walking, git, cursor, place, placed, CursorInv, Behind,
              OnlyConflictsStray
<1>9. ASSUME NEW name \in Names, WalkFile(name) PROVE CursorInv'
  <2>1. /\ next' = next /\ UNCHANGED cursor /\ pc' = pc /\ pc = "enter" /\ phase = "walk"
        /\ \E path : listed' = Append(listed, path)
    BY <1>9 DEF WalkFile, Walking, Lists, git, IInv, PlaceInv
  <2>2. IsSeq(listed') /\ cur_path = <<>> /\ cur_depth = 0
    BY <2>1, ListedGrows DEF CursorInv, Behind
  <2> QED
    BY <2>1, <2>2 DEF CursorInv, OnlyConflictsStray, cursor
<1> QED
  BY <1>1, <1>2, <1>3, <1>4, <1>5, <1>6, <1>7, <1>8, <1>9 DEF Next

\* The depth and the folder carried from path to path (main.c:812-819) place every path of
\* every sorted listing, but for one that follows itself, or a file of its directory's name,
\* in the index: those two, which a merge conflict brings, go wrong.
THEOREM StraysAtConflicts == Spec => []OnlyConflictsStray
<1>1. Init => IInv /\ CursorInv
  BY InitIInv, InitCursor
<1>2. IInv /\ CursorInv /\ [Next]_vars => (IInv /\ CursorInv)'
  BY StepIInv, StepCursor
<1>3. CursorInv => OnlyConflictsStray
  BY DEF CursorInv
<1> QED
  BY <1>1, <1>2, <1>3, PTL DEF Spec

-----------------------------------------------------------------------------
(***************************************************************************)
(* Sequences, and recursive functions over numbers.                        *)
(***************************************************************************)
\* Induction over the natural numbers, of a set rather than of a predicate.
LEMMA Counting ==
  ASSUME NEW S, 0 \in S, \A n \in Nat : n \in S => n + 1 \in S
  PROVE  Nat \subseteq S
<1> SUFFICES ASSUME Nat \ S # {} PROVE FALSE
  OBVIOUS
<1>1. PICK x \in Nat \ S : \A y \in Nat \ S : x <= y
  BY LeastNumber
<1>2. x - 1 \in Nat /\ x - 1 \in S
  BY <1>1
<1> QED
  BY <1>1, <1>2

LEMMA SameSeq ==
  ASSUME NEW S, NEW a \in Seq(S), NEW b \in Seq(S), Len(a) = Len(b),
         \A n \in 1 .. Len(a) : a[n] = b[n]
  PROVE  a = b
  BY SeqEqual

\* A segment moves from what is left of a path to what is placed of it.
LEMMA Moved ==
  ASSUME NEW S, NEW a \in Seq(S), NEW b \in Seq(S), b # <<>>
  PROVE  /\ Head(b) \in S /\ Tail(b) \in Seq(S) /\ Append(a, Head(b)) \in Seq(S)
         /\ Append(a, Head(b)) \o Tail(b) = a \o b
<1>1. Head(b) \in S /\ Tail(b) \in Seq(S) /\ Append(a, Head(b)) \in Seq(S)
  BY HeadTailProperties
<1>2. Append(a, Head(b)) = a \o <<Head(b)>>
  BY <1>1, AppendIsConcat
<1>3. b = <<Head(b)>> \o Tail(b)
  <2>1. Len(b) \in Nat \ {0} /\ Head(b) = b[1] /\ <<Head(b)>> \in Seq(S)
    BY <1>1
  <2>2. /\ <<Head(b)>> \o Tail(b) \in Seq(S) /\ Len(<<Head(b)>> \o Tail(b)) = Len(b)
        /\ \A n \in 1 .. Len(b) : (<<Head(b)>> \o Tail(b))[n] = b[n]
    BY <1>1, <2>1, HeadTailProperties
  <2> QED
    BY <2>2, SameSeq
<1>4. <<Head(b)>> \in Seq(S)
  BY <1>1
<1>5. (a \o <<Head(b)>>) \o Tail(b) = a \o (<<Head(b)>> \o Tail(b))
  BY <1>1, <1>4, ConcatAssociative
<1> QED
  BY <1>1, <1>2, <1>3, <1>5

LEMMA ReverseIs ==
  ASSUME NEW S, NEW q \in Seq(S)
  PROVE  /\ Reverse(q) \in Seq(S) /\ Len(Reverse(q)) = Len(q)
         /\ \A n \in 1 .. Len(q) : Reverse(q)[n] = q[Len(q) - n + 1]
<1>1. \A n \in 1 .. Len(q) : Len(q) - n + 1 \in 1 .. Len(q)
  OBVIOUS
<1>2. Reverse(q) \in [1 .. Len(q) -> S]
  BY <1>1 DEF Reverse
<1>3. Reverse(q) \in Seq(S) /\ Len(Reverse(q)) = Len(q)
  BY <1>2
<1> QED
  BY <1>3 DEF Reverse

LEMMA Prepended ==
  ASSUME NEW S, NEW x \in S, NEW t \in Seq(S)
  PROVE  /\ <<x>> \o t \in Seq(S) /\ Len(<<x>> \o t) = Len(t) + 1
         /\ (<<x>> \o t)[1] = x /\ \A n \in 1 .. Len(t) : (<<x>> \o t)[n + 1] = t[n]
  OBVIOUS

LEMMA ReverseEmpty == Reverse(<<>>) = <<>>
  BY DEF Reverse

\* What is printed backwards and turned around comes out in its order.
LEMMA ReverseAppend ==
  ASSUME NEW S, NEW q \in Seq(S), NEW x \in S
  PROVE  <<x>> \o Reverse(q) = Reverse(Append(q, x))
<1>1. PICK a, b, r, t, k : /\ b = Append(q, x) /\ r = Reverse(b) /\ t = Reverse(q)
                           /\ a = <<x>> \o t /\ k = Len(q)
  OBVIOUS
<1>2. k \in Nat
  BY <1>1
<1>3. /\ b \in Seq(S) /\ Len(b) = k + 1 /\ b[k + 1] = x
      /\ \A n \in 1 .. k : b[n] = q[n]
  BY <1>1, AppendProperties
<1>4. r \in Seq(S) /\ Len(r) = k + 1 /\ \A n \in 1 .. k + 1 : r[n] = b[(k + 1) - n + 1]
  <2>1. /\ r \in Seq(S) /\ Len(r) = Len(b)
        /\ \A n \in 1 .. Len(b) : r[n] = b[Len(b) - n + 1]
    BY <1>1, <1>3, ReverseIs
  <2> QED
    BY <1>3, <2>1
<1>5. t \in Seq(S) /\ Len(t) = k /\ \A n \in 1 .. k : t[n] = q[k - n + 1]
  BY <1>1, ReverseIs
<1>6. /\ a \in Seq(S) /\ Len(a) = k + 1 /\ a[1] = x
      /\ \A n \in 1 .. k : a[n + 1] = t[n]
  <2>1. t \in Seq(S) /\ Len(t) = k /\ a = <<x>> \o t
    BY <1>1, <1>5
  <2> QED
    BY <2>1, Prepended
<1>7. ASSUME NEW n \in 1 .. k + 1
      PROVE  a[n] = r[n]
  <2>1. CASE n = 1
    <3>1. (k + 1) - n + 1 = k + 1
      BY <1>2, <2>1
    <3> QED
      BY <1>3, <1>4, <1>6, <2>1, <3>1
  <2>2. CASE n # 1
    <3>1. n - 1 \in 1 .. k /\ k - (n - 1) + 1 \in 1 .. k
      BY <1>2, <2>2
    <3>2. (k + 1) - n + 1 = k - (n - 1) + 1 /\ n = (n - 1) + 1
      BY <1>2
    <3>3. r[n] = q[k - (n - 1) + 1]
      BY <1>3, <1>4, <3>1, <3>2
    <3>4. a[n] = t[n - 1] /\ t[n - 1] = q[k - (n - 1) + 1]
      BY <1>5, <1>6, <3>1, <3>2
    <3> QED
      BY <3>3, <3>4
  <2> QED
    BY <2>1, <2>2
<1>8. a = r
  BY <1>4, <1>6, <1>7, SameSeq
<1> QED
  BY <1>1, <1>8

LEMMA ReverseTwice ==
  ASSUME NEW S, NEW q \in Seq(S)
  PROVE  Reverse(Reverse(q)) = q
<1>1. PICK r, t : r = Reverse(q) /\ t = Reverse(r)
  OBVIOUS
<1>2. r \in Seq(S) /\ Len(r) = Len(q) /\ \A n \in 1 .. Len(q) : r[n] = q[Len(q) - n + 1]
  BY <1>1, ReverseIs
<1>3. t \in Seq(S) /\ Len(t) = Len(q) /\ \A n \in 1 .. Len(q) : t[n] = r[Len(q) - n + 1]
  BY <1>1, <1>2, ReverseIs
<1>4. \A n \in 1 .. Len(q) : t[n] = q[n]
  BY <1>2, <1>3
<1> QED
  BY <1>1, <1>3, <1>4, SameSeq

LEMMA Halves ==
  ASSUME NEW S, NEW q \in Seq(S), NEW k \in 0 .. Len(q)
  PROVE  SubSeq(q, 1, k) \o SubSeq(q, k + 1, Len(q)) = q
<1>1. 1 \in 1 .. Len(q) + 1 /\ k \in 1 - 1 .. Len(q) /\ Len(q) \in k .. Len(q)
  OBVIOUS
<1>2. SubSeq(q, 1, k) \o SubSeq(q, k + 1, Len(q)) = SubSeq(q, 1, Len(q))
  BY <1>1, ConcatAdjacentSubSeq
<1> QED
  BY <1>2, SubSeqFull

\* What two paths share is the beginning of both, and as long as there is.
LEMMA Matched ==
  ASSUME NEW S, NEW a \in Seq(S), NEW b \in Seq(S)
  PROVE  /\ MatchDepth(a, b) \in Nat /\ MatchDepth(a, b) <= Len(a) /\ MatchDepth(a, b) <= Len(b)
         /\ SubSeq(a, 1, MatchDepth(a, b)) = SubSeq(b, 1, MatchDepth(a, b))
         /\ \A k \in 0 .. Len(a) :
              k <= Len(b) /\ SubSeq(a, 1, k) = SubSeq(b, 1, k) => k <= MatchDepth(a, b)
<1>1. PICK p : p = LongestCommonPrefix({a, b})
  OBVIOUS
<1>2. IsPrefix(p, a) /\ IsPrefix(p, b) /\ p \in Seq(S)
  BY <1>1, PrefixExists
<1>3. Len(p) \in Nat /\ MatchDepth(a, b) = Len(p)
  BY <1>1, <1>2 DEF MatchDepth
<1>4. SubSeq(a, 1, Len(p)) = SubSeq(b, 1, Len(p)) /\ Len(p) <= Len(a) /\ Len(p) <= Len(b)
  BY <1>2 DEF IsPrefix
<1>5. ASSUME NEW k \in 0 .. Len(a), k <= Len(b), SubSeq(a, 1, k) = SubSeq(b, 1, k)
      PROVE  k <= Len(p)
  <2>1. PICK r : r = SubSeq(a, 1, k)
    OBVIOUS
  <2>2. r \in Prefixes(a)
    BY <2>1 DEF Prefixes
  <2>3. r \in Seq(S) /\ Len(r) = k /\ SubSeq(r, 1, k) = r
    BY <2>1
  <2>4. IsPrefix(r, a) /\ IsPrefix(r, b)
    BY <1>5, <2>1, <2>3 DEF IsPrefix
  <2>5. r \in CommonPrefixes({a, b})
    BY <2>2, <2>4 DEF CommonPrefixes
  <2> QED
    BY <1>1, <2>3, <2>5, PrefixExists
<1> QED
  BY <1>3, <1>4, <1>5

-----------------------------------------------------------------------------
(***************************************************************************)
(* Where the folders are: p gives every folder the path from the root to   *)
(* it, although neither the tree nor the code keeps it.                    *)
(***************************************************************************)
IsPaths(p) ==
  /\ p \in [Folders -> Seq(Names)]
  /\ folders[ROOT] = [parent |-> NULL, name |-> ""]
  /\ ROOT \in Folders /\ p[ROOT] = <<>>
  /\ \A f \in Folders \ {ROOT} :
       /\ folders[f].parent \in 1 .. f - 1 /\ folders[f].name \in Names
       /\ p[f] = Append(p[folders[f].parent], folders[f].name)

LEMMA Parents ==
  ASSUME IsSeq(folders), NEW p, IsPaths(p), NEW f \in Folders, f # ROOT
  PROVE  /\ folders[f].parent \in Folders /\ folders[f].parent < f /\ f \in Nat
         /\ folders[f].name \in Names
         /\ p[folders[f].parent] \in Seq(Names) /\ p[f] \in Seq(Names)
         /\ p[f] = Append(p[folders[f].parent], folders[f].name)
<1>1. Len(folders) \in Nat /\ Folders = 1 .. Len(folders)
  BY Appended DEF Folders
<1>2. folders[f].parent \in 1 .. f - 1
  BY DEF IsPaths
<1>3. folders[f].parent \in Folders /\ folders[f].parent < f /\ f \in Nat
  BY <1>1, <1>2
<1>4. /\ folders[f].name \in Names
      /\ p[f] = Append(p[folders[f].parent], folders[f].name)
  BY DEF IsPaths
<1>5. p \in [Folders -> Seq(Names)]
  BY DEF IsPaths
<1>6. p[folders[f].parent] \in Seq(Names) /\ p[f] \in Seq(Names)
  BY <1>3, <1>5
<1> QED
  BY <1>3, <1>4, <1>6

\* Going up from a file's folder as swimd_print_path does gives the folder's path, whatever
\* the tree: no parent is younger than its child, so the way up ends at the root.
LEMMA Prints ==
  ASSUME IsSeq(folders), NEW p, IsPaths(p), NEW file \in [folder : Folders, name : Names]
  PROVE  PrintPath(file) = Append(p[file.folder], file.name)
<1> DEFINE Climb(u) == [f \in Folders |-> IF f = ROOT THEN <<>>
                                          ELSE <<folders[f].name>> \o u[folders[f].parent]]
<1>1. \A f \in Folders : p[f] \in Seq(Names)
  BY DEF IsPaths
<1>2. \E u : u = Climb(u)
  <2>1. PICK u : u = [f \in Folders |-> Reverse(p[f])]
    OBVIOUS
  <2>2. ASSUME NEW f \in Folders
        PROVE  u[f] = IF f = ROOT THEN <<>> ELSE <<folders[f].name>> \o u[folders[f].parent]
    <3>1. CASE f = ROOT
      <4>1. u[f] = Reverse(<<>>)
        BY <2>1, <3>1 DEF IsPaths
      <4> QED
        BY <3>1, <4>1, ReverseEmpty
    <3>2. CASE f # ROOT
      <4>1. u[f] = Reverse(Append(p[folders[f].parent], folders[f].name))
        BY <2>1, <3>2, Parents
      <4>2. u[folders[f].parent] = Reverse(p[folders[f].parent])
        BY <2>1, <3>2, Parents
      <4> QED
        BY <3>2, <4>1, <4>2, Parents, ReverseAppend
    <3> QED
      BY <3>1, <3>2
  <2>3. u = Climb(u)
    BY <2>1, <2>2
  <2> QED
    BY <2>3
<1>3. PICK up : up = CHOOSE u : u = Climb(u)
  OBVIOUS
<1>4. up = Climb(up)
  BY <1>2, <1>3
<1>5. PrintPath(file) = Reverse(<<file.name>> \o up[file.folder])
  BY <1>3 DEF PrintPath
<1>6. \A f \in Folders : up[f] = IF f = ROOT THEN <<>>
                                 ELSE <<folders[f].name>> \o up[folders[f].parent]
  BY <1>4
<1> HIDE DEF Climb
<1>7. \A f \in Folders : up[f] = Reverse(p[f])
  <2> SUFFICES ASSUME {f \in Folders : up[f] # Reverse(p[f])} # {} PROVE FALSE
    OBVIOUS
  <2>1. {f \in Folders : up[f] # Reverse(p[f])} \subseteq Nat
    <3>1. Len(folders) \in Nat /\ Folders = 1 .. Len(folders)
      BY Appended DEF Folders
    <3> QED
      BY <3>1
  <2>2. PICK f \in Folders : /\ up[f] # Reverse(p[f])
                             /\ \A g \in Folders : up[g] # Reverse(p[g]) => f <= g
    BY <2>1, LeastNumber
  <2>3. CASE f = ROOT
    <3>1. p[f] = <<>> /\ up[f] = <<>>
      BY <1>6, <2>3 DEF IsPaths
    <3> QED
      BY <2>2, <3>1, ReverseEmpty
  <2>4. CASE f # ROOT
    <3>1. /\ folders[f].parent \in Folders /\ folders[f].parent < f /\ f \in Nat
      BY <2>4, Parents
    <3>2. folders[f].parent \in Nat
      <4>1. Len(folders) \in Nat /\ Folders = 1 .. Len(folders)
        BY Appended DEF Folders
      <4> QED
        BY <3>1, <4>1
    <3>3. up[folders[f].parent] = Reverse(p[folders[f].parent])
      BY <2>2, <3>1, <3>2
    <3>4. up[f] = <<folders[f].name>> \o Reverse(p[folders[f].parent])
      BY <1>6, <2>4, <3>3
    <3>5. up[f] = Reverse(Append(p[folders[f].parent], folders[f].name))
      BY <2>4, <3>4, Parents, ReverseAppend
    <3>6. up[f] = Reverse(p[f])
      BY <2>4, <3>5, Parents
    <3> QED
      BY <2>2, <3>6
  <2> QED
    BY <2>3, <2>4
<1>8. file.folder \in Folders /\ file.name \in Names
  OBVIOUS
<1>9. p[file.folder] \in Seq(Names)
  BY <1>1, <1>8
<1>10. PrintPath(file) = Reverse(Reverse(Append(p[file.folder], file.name)))
  BY <1>5, <1>7, <1>8, <1>9, ReverseAppend
<1>11. Append(p[file.folder], file.name) \in Seq(Names)
  BY <1>8, <1>9
<1> QED
  BY <1>10, <1>11, ReverseTwice

\* swimd_folder_go_up leads to the folder of as many segments less.
LEMMA GoesUp ==
  ASSUME IsSeq(folders), NEW p, IsPaths(p), NEW folder \in Folders,
         NEW k \in Nat, k <= Len(p[folder])
  PROVE  /\ GoUp(folder, k) \in Folders
         /\ p[GoUp(folder, k)] = SubSeq(p[folder], 1, Len(p[folder]) - k)
<1> DEFINE Climbs(u, n) == u = [m \in 0 .. n |-> IF m = 0 THEN folder ELSE folders[u[m - 1]].parent]
<1>1. \A n \in Nat : \E u : Climbs(u, n)
  <2> DEFINE S == {n \in Nat : \E u : Climbs(u, n)}
  <2>1. 0 \in S
    <3>1. PICK u : u = [m \in 0 .. 0 |-> folder]
      OBVIOUS
    <3>2. u = [m \in 0 .. 0 |-> IF m = 0 THEN folder ELSE folders[u[m - 1]].parent]
      BY <3>1
    <3> QED
      BY <3>2
  <2>2. ASSUME NEW n \in Nat, n \in S
        PROVE  n + 1 \in S
    <3>1. PICK u : Climbs(u, n)
      BY <2>2
    <3>2. PICK v : v = [m \in 0 .. n + 1 |-> IF m = n + 1 THEN folders[u[n]].parent ELSE u[m]]
      OBVIOUS
    <3>3. \A m \in 0 .. n + 1 : v[m] = IF m = 0 THEN folder ELSE folders[v[m - 1]].parent
      <4> TAKE m \in 0 .. n + 1
      <4>1. CASE m = n + 1
        <5>1. m - 1 = n /\ v[n] = u[n] /\ v[m] = folders[u[n]].parent
          BY <3>2, <4>1
        <5> QED
          BY <4>1, <5>1
      <4>2. CASE m # n + 1
        <5>1. m \in 0 .. n /\ v[m] = u[m]
          BY <3>2, <4>2
        <5>2. m # 0 => v[m - 1] = u[m - 1]
          BY <3>2, <4>2
        <5>3. u[m] = IF m = 0 THEN folder ELSE folders[u[m - 1]].parent
          BY <3>1, <5>1
        <5> QED
          BY <5>1, <5>2, <5>3
      <4> QED
        BY <4>1, <4>2
    <3>4. Climbs(v, n + 1)
      BY <3>2, <3>3
    <3> QED
      BY <3>4
  <2> HIDE DEF Climbs
  <2>3. Nat \subseteq S
    BY <2>1, <2>2, Counting
  <2> QED
    BY <2>3
<1>2. PICK up : up = CHOOSE u : Climbs(u, k)
  OBVIOUS
<1>3. Climbs(up, k)
  BY <1>1, <1>2
<1>4. \A m \in 0 .. k : up[m] = IF m = 0 THEN folder ELSE folders[up[m - 1]].parent
  BY <1>3
<1>5. GoUp(folder, k) = up[k]
  <2>1. CASE k = 0
    BY <1>2, <2>1 DEF GoUp
  <2>2. CASE k > 0
    BY <1>2, <2>2 DEF GoUp
  <2> QED
    BY <2>1, <2>2
<1> HIDE DEF Climbs
<1>6. PICK way : way = p[folder]
  OBVIOUS
<1>7. way \in Seq(Names) /\ Len(way) \in Nat /\ k <= Len(way)
  <2>1. p \in [Folders -> Seq(Names)]
    BY DEF IsPaths
  <2>2. way \in Seq(Names)
    BY <1>6, <2>1
  <2> QED
    BY <1>6, <2>2
<1> DEFINE T == {m \in Nat : m <= k => /\ up[m] \in Folders
                                       /\ p[up[m]] = SubSeq(way, 1, Len(way) - m)}
<1>8. 0 \in T
  BY <1>4, <1>6, <1>7
<1>9. ASSUME NEW m \in Nat, m \in T
      PROVE  m + 1 \in T
  <2> SUFFICES ASSUME m + 1 <= k
               PROVE  /\ up[m + 1] \in Folders
                      /\ p[up[m + 1]] = SubSeq(way, 1, Len(way) - (m + 1))
    BY <1>9
  <2>1. PICK f : f = up[m]
    OBVIOUS
  <2>2. f \in Folders /\ p[f] = SubSeq(way, 1, Len(way) - m)
    BY <1>9, <2>1
  <2>3. p[f] \in Seq(Names) /\ Len(p[f]) = Len(way) - m /\ Len(p[f]) # 0
    BY <1>7, <2>2
  <2>4. f # ROOT
    <3>1. p[ROOT] = <<>> /\ Len(<<>>) = 0
      BY DEF IsPaths
    <3> QED
      BY <2>3, <3>1
  <2>5. up[m + 1] = folders[f].parent
    BY <1>4, <2>1
  <2>6. PICK g, name : g = p[folders[f].parent] /\ name = folders[f].name
    OBVIOUS
  <2>7. g \in Seq(Names) /\ name \in Names /\ p[f] = Append(g, name)
        /\ folders[f].parent \in Folders
    BY <2>2, <2>4, <2>6, Parents
  <2>8. Len(g) = Len(way) - (m + 1) /\ g = SubSeq(p[f], 1, Len(g))
    BY <2>3, <2>7
  <2>9. SubSeq(SubSeq(way, 1, Len(way) - m), 1, Len(way) - (m + 1))
          = SubSeq(way, 1, Len(way) - (m + 1))
    BY <1>7
  <2> QED
    BY <2>2, <2>5, <2>6, <2>7, <2>8, <2>9
<1> HIDE DEF T
<1>10. Nat \subseteq T
  BY <1>8, <1>9, Counting
<1>11. k \in T
  BY <1>10
<1> QED
  BY <1>5, <1>6, <1>11 DEF T

\* A file's path is that of its folder and its name.
FilesAt(p) ==
  /\ files \in Seq([folder : Folders, name : Names])
  /\ IsSeq(listed) /\ Len(listed) = Len(files)
  /\ \A n \in DOMAIN files :
       /\ listed[n] = Append(p[files[n].folder], files[n].name)
       /\ listed[n] \in Range(Universe)

\* The cursor is in the folder of the path that was placed last, or at the root.
CursorAt(p) ==
  /\ cur_folder \in Folders
  /\ \/ cur_path = <<>> /\ cur_folder = ROOT /\ cur_depth = 0
     \/ /\ \E n \in DOMAIN Universe : cur_path = Universe[n]
        /\ cur_depth = Len(cur_path) - 1
        /\ p[cur_folder] = SubSeq(cur_path, 1, Len(cur_path) - 1)

\* What is placed of the next path, and what is left of it, make the path.
PlaceAt(p) ==
  /\ next \in 1 .. Len(Universe) + 1
  /\ base_folder \in Folders /\ base_path \in Seq(Names) /\ res_depth \in Nat
  /\ pc = "descend" =>
       /\ next \in DOMAIN Universe
       /\ p[base_folder] \o base_path = Universe[next]
       /\ res_depth = Len(p[base_folder])

\* An open directory has the path of its folder, and entries of its own to come.
StackAt(p) ==
  \A n \in DOMAIN stack :
    /\ stack[n].folder \in Folders /\ stack[n].path = p[stack[n].folder]
    /\ stack[n].entries \subseteq Entries(stack[n].path)

Kinds ==
  /\ phase \in {"open", "index", "status", "walk", "done"}
  /\ pc \in {"enter", "next", "descend", "overrun", "astray"}
  /\ scan_cancelled \in BOOLEAN

PathsAre(p) == IsPaths(p) /\ FilesAt(p) /\ CursorAt(p) /\ PlaceAt(p) /\ StackAt(p)

PathInv == Kinds /\ \E p : PathsAre(p)

LEMMA UniverseNames ==
  ASSUME NEW n \in DOMAIN Universe
  PROVE  /\ Universe[n] \in Seq(Names) /\ Universe[n] # <<>> /\ Len(Universe[n]) \in Nat \ {0}
         /\ Universe[n] \in Range(Universe) /\ n \in 1 .. Len(Universe)
<1>1. Universe[n] \in Seq(STRING) /\ Universe[n] # <<>>
  BY Universal
<1>2. Universe[n] \in Range(Universe) /\ n \in 1 .. Len(Universe)
  BY PathsAssumption DEF Range
<1>3. \A k \in DOMAIN Universe[n] : Universe[n][k] \in Names
  BY <1>2 DEF Names, Range
<1>4. PICK path : path = Universe[n]
  OBVIOUS
<1>5. path \in Seq(STRING) /\ path # <<>> /\ \A k \in DOMAIN path : path[k] \in Names
  BY <1>1, <1>3, <1>4
<1>6. path \in Seq(Names) /\ Len(path) \in Nat \ {0}
  BY <1>5
<1> QED
  BY <1>1, <1>2, <1>4, <1>6

\* The folders there are keep their paths.
Keeps(p, q) ==
  /\ Folders \subseteq Folders'
  /\ \A f \in Folders : q[f] = p[f]

LEMMA TreeStays ==
  ASSUME NEW p, IsPaths(p), folders' = folders
  PROVE  IsPaths(p)' /\ Keeps(p, p)
<1>1. Folders' = Folders
  BY DEF Folders
<1> QED
  BY <1>1 DEF IsPaths, Keeps

\* A new folder's path is one segment longer than that of the folder it is in.
LEMMA TreeGrows ==
  ASSUME IsSeq(folders), NEW p, IsPaths(p), NEW folder \in Folders, NEW name \in Names,
         folders' = Append(folders, [parent |-> folder, name |-> name])
  PROVE  \E q : /\ IsPaths(q)' /\ Keeps(p, q)
                /\ Len(folders') \in Folders' /\ q[Len(folders')] = Append(p[folder], name)
<1>1. PICK m : m = [parent |-> folder, name |-> name]
  OBVIOUS
<1>2. folders' = Append(folders, m) /\ m.parent = folder /\ m.name = name
  BY <1>1
<1>3. PICK k : k = Len(folders) + 1
  OBVIOUS
<1>4. /\ k \in Nat \ {0} /\ Folders = 1 .. k - 1 /\ Folders' = 1 .. k /\ folders'[k] = m
      /\ Len(folders') = k /\ \A f \in Folders : folders'[f] = folders[f]
  BY <1>2, <1>3, Appended DEF Folders
<1>5. PICK q : q = [f \in Folders' |-> IF f = k THEN Append(p[folder], name) ELSE p[f]]
  OBVIOUS
<1>6. p \in [Folders -> Seq(Names)] /\ ROOT \in Folders /\ p[ROOT] = <<>>
      /\ folders[ROOT] = [parent |-> NULL, name |-> ""]
  BY DEF IsPaths
<1>7. \A f \in Folders : f # k /\ f \in Folders' /\ q[f] = p[f]
  BY <1>4, <1>5
<1>8. /\ k \in Folders' /\ q[k] = Append(p[folder], name)
      /\ \A f \in Folders' : f \in Folders \/ f = k
  <2>1. k \in Folders'
    BY <1>4
  <2>2. \A f \in Folders' : f \in Folders \/ f = k
    BY <1>4
  <2> QED
    BY <1>5, <2>1, <2>2
<1>9. q \in [Folders' -> Seq(Names)]
  <2>1. Append(p[folder], name) \in Seq(Names)
    <3>1. p[folder] \in Seq(Names)
      BY <1>6
    <3> QED
      BY <3>1
  <2> QED
    BY <1>5, <1>6, <1>8, <2>1
<1>10. ASSUME NEW f \in Folders' \ {ROOT}
       PROVE  /\ folders'[f].parent \in 1 .. f - 1 /\ folders'[f].name \in Names
              /\ q[f] = Append(q[folders'[f].parent], folders'[f].name)
  <2>1. CASE f \in Folders
    <3>1. folders'[f] = folders[f] /\ q[f] = p[f]
      BY <1>4, <1>7, <2>1
    <3>2. /\ folders[f].parent \in 1 .. f - 1 /\ folders[f].name \in Names
          /\ p[f] = Append(p[folders[f].parent], folders[f].name)
      BY <2>1 DEF IsPaths
    <3>3. folders[f].parent \in Folders
      BY <2>1, Parents
    <3> QED
      BY <1>7, <3>1, <3>2, <3>3
  <2>2. CASE f = k
    <3>1. folders'[f] = m /\ folder \in 1 .. f - 1 /\ q[folder] = p[folder]
      BY <1>4, <1>7, <2>2
    <3> QED
      BY <1>2, <1>8, <2>2, <3>1
  <2> QED
    BY <1>8, <2>1, <2>2
<1>11. IsPaths(q)'
  <2>1. folders'[ROOT] = [parent |-> NULL, name |-> ""] /\ ROOT \in Folders' /\ q[ROOT] = <<>>
    BY <1>4, <1>6, <1>7
  <2> QED
    BY <1>9, <1>10, <2>1 DEF IsPaths
<1>12. Keeps(p, q)
  BY <1>7 DEF Keeps
<1> QED
  BY <1>4, <1>8, <1>11, <1>12

LEMMA FilesStay ==
  ASSUME NEW p, NEW q, FilesAt(p), Keeps(p, q), files' = files, listed' = listed
  PROVE  FilesAt(q)'
<1>1. files \in Seq([folder : Folders, name : Names])
  BY DEF FilesAt
<1>2. [folder : Folders, name : Names] \subseteq [folder : Folders', name : Names]
  BY DEF Keeps
<1>3. files \in Seq([folder : Folders', name : Names])
  BY <1>1, <1>2, SeqMonotonic
<1>4. \A n \in DOMAIN files : files[n].folder \in Folders
  <2> TAKE n \in DOMAIN files
  <2>1. PICK S : S = [folder : Folders, name : Names]
    OBVIOUS
  <2>2. files \in Seq(S)
    BY <1>1, <2>1
  <2>3. files[n] \in S
    BY <2>2
  <2> QED
    BY <2>1, <2>3
<1> QED
  BY <1>3, <1>4 DEF FilesAt, Keeps

LEMMA CursorStays ==
  ASSUME NEW p, NEW q, CursorAt(p), Keeps(p, q), UNCHANGED cursor
  PROVE  CursorAt(q)'
  BY DEF CursorAt, Keeps, cursor

LEMMA PlaceStays ==
  ASSUME NEW p, NEW q, PlaceAt(p), Keeps(p, q), UNCHANGED place,
         next' \in 1 .. Len(Universe) + 1, pc' = "descend" => pc' = pc /\ next' = next
  PROVE  PlaceAt(q)'
  BY DEF PlaceAt, Keeps, place

LEMMA StackStays ==
  ASSUME NEW p, NEW q, StackAt(p), Keeps(p, q), stack' = stack
  PROVE  StackAt(q)'
  BY DEF StackAt, Keeps

LEMMA StackShrinks ==
  ASSUME NEW p, StackAt(p), Shrinks
  PROVE  StackAt(p)'
<1>1. Folders' = Folders
  BY DEF Shrinks, Folders
<1> QED
  BY <1>1 DEF StackAt, Shrinks

LEMMA InitPaths == Init => PathInv
<1> SUFFICES ASSUME Init PROVE PathInv
  OBVIOUS
<1>1. PICK r : r = [parent |-> NULL, name |-> ""]
  OBVIOUS
<1>2. folders = <<r>> /\ Folders = {ROOT} /\ folders[ROOT] = r
  <2>1. folders = <<r>>
    BY <1>1 DEF Init
  <2>2. DOMAIN folders = {1} /\ folders[1] = r
    BY <2>1
  <2> QED
    BY <2>1, <2>2 DEF Folders, ROOT
<1>3. PICK p : p = [f \in {ROOT} |-> <<>>]
  OBVIOUS
<1>4. IsPaths(p)
  <2>1. <<>> \in Seq(Names)
    OBVIOUS
  <2>2. p \in [Folders -> Seq(Names)] /\ p[ROOT] = <<>> /\ Folders \ {ROOT} = {}
    BY <1>2, <1>3, <2>1
  <2> QED
    BY <1>1, <1>2, <2>2 DEF IsPaths
<1>5. FilesAt(p)
  <2>1. files = <<>> /\ listed = <<>>
    BY DEF Init
  <2>2. /\ <<>> \in Seq([folder : Folders, name : Names]) /\ IsSeq(<<>>)
        /\ DOMAIN <<>> = {}
    <3>1. <<>> \in Seq({})
      OBVIOUS
    <3> QED
      BY <3>1 DEF IsSeq
  <2> QED
    BY <2>1, <2>2 DEF FilesAt
<1>6. CursorAt(p)
  BY <1>2 DEF Init, CursorAt
<1>7. PlaceAt(p)
  <2>1. next = 1 /\ base_path = <<>> /\ base_folder = ROOT /\ res_depth = 0 /\ pc = "enter"
    BY DEF Init
  <2>2. 1 \in 1 .. Len(Universe) + 1 /\ <<>> \in Seq(Names) /\ ROOT \in Folders
    BY <1>2, PathsAssumption
  <2> QED
    BY <2>1, <2>2 DEF PlaceAt
<1>8. StackAt(p)
  <2>1. stack = <<>>
    BY DEF Init
  <2>2. DOMAIN <<>> = {}
    OBVIOUS
  <2> QED
    BY <2>1, <2>2 DEF StackAt
<1>9. Kinds
  BY DEF Init, Kinds
<1> QED
  BY <1>4, <1>5, <1>6, <1>7, <1>8, <1>9 DEF PathInv, PathsAre

LEMMA StepKinds == Kinds /\ [Next]_vars => Kinds'
  BY DEF Kinds, vars, Next, Open, Collect, Leave, Skip, Process, EnterFolder, Descends, MakeFolder,
         AppendFile, EndOfList, Cancel, WalkStart, WalkFolder, WalkFile, WalkSkip, WalkUp, Walking, git

\* The steps that go through the lists and place nothing.
LEMMA ListPaths ==
  ASSUME NEW p, PathsAre(p), Open \/ Collect \/ Skip \/ EndOfList \/ Cancel
  PROVE  PathsAre(p)'
<1>1. /\ folders' = folders /\ files' = files /\ listed' = listed /\ stack' = stack
      /\ UNCHANGED place
  BY DEF Open, Collect, Skip, EndOfList, Cancel, tree, placed
<1>2. IsPaths(p)' /\ Keeps(p, p)
  BY <1>1, TreeStays DEF PathsAre
<1>3. FilesAt(p)' /\ StackAt(p)'
  BY <1>1, <1>2, FilesStay, StackStays DEF PathsAre
<1>4. CursorAt(p)'
  <2>1. CASE UNCHANGED cursor
    BY <1>2, <2>1, CursorStays DEF PathsAre
  <2>2. CASE cur_folder' = ROOT /\ cur_path' = <<>> /\ cur_depth' = 0
    BY <1>2, <2>2 DEF CursorAt, IsPaths
  <2> QED
    BY <2>1, <2>2 DEF Open, Collect, Skip, EndOfList, Cancel, cursor
<1>5. next' \in 1 .. Len(Universe) + 1 /\ (pc' = "descend" => pc' = pc /\ next' = next)
  <2>1. Len(Universe) \in Nat /\ next \in 1 .. Len(Universe) + 1
    BY PathsAssumption DEF PathsAre, PlaceAt
  <2> QED
    BY <2>1 DEF Open, Collect, Leave, Skip, EndOfList, Cancel
<1>6. PlaceAt(p)'
  BY <1>1, <1>2, <1>5, PlaceStays DEF PathsAre
<1> QED
  BY <1>2, <1>3, <1>4, <1>6 DEF PathsAre

\* A negative count goes up nowhere.
LEMMA StaysPut ==
  ASSUME IsSeq(folders), NEW p, IsPaths(p), NEW folder \in Folders, NEW k \in Int, k < 0
  PROVE  GoUp(folder, k) = folder
<1>1. GoUp(folder, k) = GoUp(folder, 0)
  <2>1. ~(k > 0) /\ ~(0 > 0)
    OBVIOUS
  <2> QED
    BY <2>1 DEF GoUp
<1>2. \E u : u = [m \in 0 .. 0 |-> IF m = 0 THEN folder ELSE folders[u[m - 1]].parent]
  <2>1. PICK u : u = [m \in 0 .. 0 |-> folder]
    OBVIOUS
  <2>2. u = [m \in 0 .. 0 |-> IF m = 0 THEN folder ELSE folders[u[m - 1]].parent]
    BY <2>1
  <2> QED
    BY <2>2
<1>3. PICK up : up = CHOOSE u : u = [m \in 0 .. 0 |-> IF m = 0 THEN folder
                                                      ELSE folders[u[m - 1]].parent]
  OBVIOUS
<1>4. up[0] = folder
  BY <1>2, <1>3
<1>5. GoUp(folder, 0) = up[0]
  BY <1>3 DEF GoUp
<1> QED
  BY <1>1, <1>4, <1>5

\* What a path shares with the one before it is the path of the folder it goes up to.
LEMMA GoesBack ==
  ASSUME IsSeq(folders), NEW p, IsPaths(p), CursorAt(p), NEW path \in Seq(Names),
         NEW k \in Nat, k = MatchDepth(path, cur_path), k <= Len(path),
         NEW up_count \in Nat, up_count = cur_depth - k, cur_depth \in Nat
  PROVE  /\ GoUp(cur_folder, up_count) \in Folders
         /\ p[GoUp(cur_folder, up_count)] = SubSeq(path, 1, k)
<1>1. /\ cur_folder \in Folders /\ up_count <= Len(p[cur_folder])
      /\ Len(p[cur_folder]) - up_count = k
      /\ SubSeq(p[cur_folder], 1, k) = SubSeq(path, 1, k)
  <2>1. CASE cur_path = <<>> /\ cur_folder = ROOT /\ cur_depth = 0
    <3>1. <<>> \in Seq(Names) /\ Len(<<>>) = 0 /\ SubSeq(<<>>, 1, 0) = <<>>
      OBVIOUS
    <3>2. k = 0 /\ up_count = 0
      BY <2>1
    <3>3. p[cur_folder] = <<>> /\ cur_folder \in Folders
      <4>1. p[ROOT] = <<>> /\ ROOT \in Folders
        BY DEF IsPaths
      <4> QED
        BY <2>1, <4>1
    <3>4. SubSeq(path, 1, 0) = <<>>
      OBVIOUS
    <3> QED
      BY <3>1, <3>2, <3>3, <3>4
  <2>2. CASE /\ \E n \in DOMAIN Universe : cur_path = Universe[n]
             /\ cur_depth = Len(cur_path) - 1 /\ cur_folder \in Folders
             /\ p[cur_folder] = SubSeq(cur_path, 1, Len(cur_path) - 1)
    <3>1. cur_path \in Seq(Names) /\ Len(cur_path) \in Nat
      BY <2>2, UniverseNames
    <3>2. {cur_path, path} = {path, cur_path}
      OBVIOUS
    <3>3. k = MatchDepth(cur_path, path)
      BY <3>2 DEF MatchDepth
    <3>4. k <= Len(cur_path) - 1
      BY <2>2, <3>1
    <3>5. SubSeq(cur_path, 1, k) = SubSeq(path, 1, k)
      BY <3>1, <3>3, Matched
    <3>6. /\ Len(p[cur_folder]) = Len(cur_path) - 1
          /\ SubSeq(SubSeq(cur_path, 1, Len(cur_path) - 1), 1, k) = SubSeq(cur_path, 1, k)
      BY <2>2, <3>1, <3>4
    <3> QED
      BY <2>2, <3>1, <3>4, <3>5, <3>6
  <2> QED
    BY <2>1, <2>2 DEF CursorAt
<1>2. /\ GoUp(cur_folder, up_count) \in Folders
      /\ p[GoUp(cur_folder, up_count)] = SubSeq(p[cur_folder], 1, Len(p[cur_folder]) - up_count)
  <2>1. PICK f : f = cur_folder
    OBVIOUS
  <2>2. f \in Folders /\ up_count <= Len(p[f])
    BY <1>1, <2>1
  <2>3. GoUp(f, up_count) \in Folders /\ p[GoUp(f, up_count)] = SubSeq(p[f], 1, Len(p[f]) - up_count)
    BY <2>2, GoesUp
  <2> QED
    BY <2>1, <2>3
<1> QED
  BY <1>1, <1>2

\* swimd_process_path starts where the path leaves the one before it.
LEMMA ProcessPaths ==
  ASSUME IInv, CursorInv, NEW p, PathsAre(p), Process
  PROVE  PathsAre(p)'
<1>1. /\ folders' = folders /\ files' = files /\ listed' = listed /\ stack' = stack
      /\ UNCHANGED cursor /\ next' = next
  BY DEF Process, tree, placed
<1>2. IsPaths(p) /\ IsPaths(p)' /\ Keeps(p, p) /\ IsSeq(folders) /\ Folders' = Folders
  BY <1>1, TreeStays DEF PathsAre, IInv, PlaceInv, Folders
<1>3. FilesAt(p)' /\ StackAt(p)' /\ CursorAt(p)'
  BY <1>1, <1>2, FilesStay, StackStays, CursorStays DEF PathsAre
<1>4. PICK path, k, up_count :
        path = Universe[next] /\ k = MatchDepth(path, cur_path) /\ up_count = cur_depth - k
  OBVIOUS
<1>5. /\ res_depth' = cur_depth - up_count /\ base_folder' = GoUp(cur_folder, up_count)
      /\ base_path' = SubSeq(path, k + 1, Len(path))
  BY <1>4 DEF Process
<1>6. /\ next \in DOMAIN Universe /\ cur_depth \in Nat /\ k \in Nat /\ k <= Len(path)
      /\ pc' = "descend" => k < Len(path) /\ k <= cur_depth
  BY <1>4, ProcessIs
<1>7. path \in Seq(Names) /\ Len(path) \in Nat /\ next' \in 1 .. Len(Universe) + 1
  BY <1>1, <1>4, <1>6, UniverseNames DEF PathsAre, PlaceAt
<1>8. base_path' \in Seq(Names) /\ res_depth' = k /\ up_count \in Int
  <2>1. up_count \in Int /\ res_depth' = k
    BY <1>4, <1>5, <1>6
  <2>2. base_path' \in Seq(Names)
    BY <1>5, <1>6, <1>7
  <2> QED
    BY <2>1, <2>2
<1>9. PlaceAt(p)'
  <2>1. CASE up_count < 0
    <3>1. cur_folder \in Folders
      BY DEF PathsAre, CursorAt
    <3>2. base_folder' = cur_folder
      BY <1>2, <1>5, <1>8, <2>1, <3>1, StaysPut
    <3>3. pc' # "descend"
      BY <1>4, <1>6, <2>1
    <3> QED
      BY <1>2, <1>6, <1>7, <1>8, <3>1, <3>2, <3>3 DEF PlaceAt
  <2>2. CASE up_count \in Nat
    <3>1. base_folder' \in Folders /\ p[base_folder'] = SubSeq(path, 1, k)
      <4>1. /\ IsSeq(folders) /\ IsPaths(p) /\ CursorAt(p) /\ path \in Seq(Names)
            /\ k \in Nat /\ k = MatchDepth(path, cur_path) /\ k <= Len(path)
            /\ up_count \in Nat /\ up_count = cur_depth - k /\ cur_depth \in Nat
        BY <1>2, <1>4, <1>6, <1>7, <2>2 DEF PathsAre
      <4>2. /\ GoUp(cur_folder, up_count) \in Folders
            /\ p[GoUp(cur_folder, up_count)] = SubSeq(path, 1, k)
        BY <4>1, GoesBack
      <4> QED
        BY <1>5, <4>2
    <3>2. /\ SubSeq(path, 1, k) \o SubSeq(path, k + 1, Len(path)) = path
          /\ Len(SubSeq(path, 1, k)) = k
      <4>1. k \in 0 .. Len(path)
        BY <1>6, <1>7
      <4>2. Len(SubSeq(path, 1, k)) = k
        BY <1>6, <1>7
      <4> QED
        BY <1>7, <4>1, <4>2, Halves
    <3> QED
      BY <1>1, <1>2, <1>4, <1>5, <1>6, <1>7, <1>8, <3>1, <3>2 DEF PlaceAt
  <2> QED
    BY <1>8, <2>1, <2>2
<1> QED
  BY <1>2, <1>3, <1>9 DEF PathsAre

\* A segment that names a folder is moved from what is left of the path to what is placed.
LEMMA DescendPaths ==
  ASSUME NEW p, PathsAre(p), Descends, NEW q, IsPaths(q)', Keeps(p, q),
         base_folder' \in Folders', q[base_folder'] = Append(p[base_folder], Head(base_path)),
         base_path' = Tail(base_path), res_depth' = res_depth + 1,
         UNCHANGED <<pc, next, files, cursor, stack, listed>>
  PROVE  PathsAre(q)'
<1>1. FilesAt(q)' /\ StackAt(q)' /\ CursorAt(q)'
  BY FilesStay, StackStays, CursorStays DEF PathsAre
<1>2. PICK a, b : a = p[base_folder] /\ b = base_path
  OBVIOUS
<1>3. /\ pc = "descend" /\ next \in DOMAIN Universe /\ next \in 1 .. Len(Universe) + 1
      /\ a \o b = Universe[next] /\ res_depth = Len(a)
  BY <1>2 DEF Descends, PathsAre, PlaceAt
<1>4. a \in Seq(Names) /\ b \in Seq(Names) /\ Len(b) > 1
  <2>1. p \in [Folders -> Seq(Names)] /\ base_folder \in Folders
    BY DEF PathsAre, IsPaths, PlaceAt
  <2> QED
    BY <1>2, <2>1 DEF PathsAre, PlaceAt, Descends
<1>5. /\ Head(b) \in Names /\ Tail(b) \in Seq(Names) /\ Append(a, Head(b)) \in Seq(Names)
      /\ Append(a, Head(b)) \o Tail(b) = a \o b
  <2>1. b # <<>>
    BY <1>4
  <2> QED
    BY <1>4, <2>1, Moved
<1>6. Len(Append(a, Head(b))) = Len(a) + 1 /\ Len(a) + 1 \in Nat
  BY <1>4, <1>5
<1>7. PlaceAt(q)'
  BY <1>2, <1>3, <1>5, <1>6 DEF PlaceAt
<1> QED
  BY <1>1, <1>7 DEF PathsAre

LEMMA EnterFolderPaths ==
  ASSUME IInv, NEW p, PathsAre(p), EnterFolder
  PROVE  PathsAre(p)'
<1>1. /\ folders' = folders /\ UNCHANGED <<pc, next, files, cursor, stack, listed>>
      /\ Descends /\ base_path' = Tail(base_path) /\ res_depth' = res_depth + 1
  BY DEF EnterFolder, tree, placed
<1>2. IsPaths(p) /\ IsPaths(p)' /\ Keeps(p, p) /\ IsSeq(folders) /\ Folders' = Folders
  BY <1>1, TreeStays DEF PathsAre, IInv, PlaceInv, Folders
<1>3. PICK children : children = Children(base_folder, Head(base_path))
  OBVIOUS
<1>4. children \subseteq Folders /\ children # {} /\ base_folder' = Min(children)
      /\ \A f \in children : folders[f].parent = base_folder /\ folders[f].name = Head(base_path)
  BY <1>3 DEF EnterFolder, Children
<1>5. Folders \subseteq Nat
  <2>1. Len(folders) \in Nat /\ Folders = 1 .. Len(folders)
    BY <1>2, Appended DEF Folders
  <2> QED
    BY <2>1
<1>6. base_folder' \in children
  <2>1. children \subseteq Nat
    BY <1>4, <1>5
  <2>2. \E x \in children : \A y \in children : x <= y
    BY <1>4, <2>1, LeastNumber
  <2>3. Min(children) \in children
    BY <2>2 DEF Min
  <2> QED
    BY <1>4, <2>3
<1>7. base_folder' # ROOT
  <2>1. folders[ROOT].parent = NULL
    <3>1. PICK r : r = [parent |-> NULL, name |-> ""]
      OBVIOUS
    <3>2. folders[ROOT] = r /\ r.parent = NULL
      BY <1>2, <3>1 DEF IsPaths
    <3> QED
      BY <3>2
  <2>2. base_folder \in Folders
    BY DEF PathsAre, PlaceAt
  <2>3. NULL \notin Folders
    BY <1>2, Appended DEF Folders, NULL
  <2> QED
    BY <1>4, <1>6, <2>1, <2>2, <2>3
<1>8. base_folder' \in Folders /\ p[base_folder'] = Append(p[base_folder], Head(base_path))
  BY <1>2, <1>4, <1>6, <1>7, Parents
<1> QED
  BY <1>1, <1>2, <1>8, DescendPaths

LEMMA MakeFolderPaths ==
  ASSUME IInv, NEW p, PathsAre(p), MakeFolder
  PROVE  \E q : PathsAre(q)'
<1>1. /\ UNCHANGED <<pc, next, files, cursor, stack, listed>>
      /\ Descends /\ base_path' = Tail(base_path) /\ res_depth' = res_depth + 1
      /\ folders' = Append(folders, [parent |-> base_folder, name |-> Head(base_path)])
      /\ base_folder' = Len(folders')
  BY DEF MakeFolder, placed
<1>2. IsPaths(p) /\ IsSeq(folders) /\ base_folder \in Folders
  BY DEF PathsAre, PlaceAt, IInv, PlaceInv
<1>3. Head(base_path) \in Names
  <2>1. base_path \in Seq(Names) /\ Len(base_path) > 1
    BY <1>1 DEF PathsAre, PlaceAt, Descends
  <2> QED
    BY <2>1
<1>4. PICK q : /\ IsPaths(q)' /\ Keeps(p, q)
               /\ Len(folders') \in Folders'
               /\ q[Len(folders')] = Append(p[base_folder], Head(base_path))
  BY <1>1, <1>2, <1>3, TreeGrows
<1>5. PathsAre(q)'
  BY <1>1, <1>4, DescendPaths
<1> QED
  BY <1>5

\* A file is made of a listed path, in the folder of that path.
LEMMA FilesGrow ==
  ASSUME NEW p, IsPaths(p), FilesAt(p), folders' = folders,
         NEW folder \in Folders, NEW name \in Names, NEW path \in Range(Universe),
         path = Append(p[folder], name), listed' = Append(listed, path),
         files' = Append(files, [folder |-> folder, name |-> name])
  PROVE  FilesAt(p)'
<1>1. PICK S, x : S = [folder : Folders, name : Names] /\ x = [folder |-> folder, name |-> name]
  OBVIOUS
<1>2. x \in S /\ x.folder = folder /\ x.name = name
  BY <1>1
<1>3. files \in Seq(S) /\ files' = Append(files, x) /\ Folders' = Folders
  BY <1>1 DEF FilesAt, Folders
<1>4. /\ files' \in Seq(S) /\ Len(files) \in Nat /\ DOMAIN files = 1 .. Len(files)
      /\ Len(files') = Len(files) + 1 /\ DOMAIN files' = 1 .. Len(files) + 1
      /\ files'[Len(files) + 1] = x /\ \A n \in 1 .. Len(files) : files'[n] = files[n]
  BY <1>2, <1>3
<1>5. /\ IsSeq(listed') /\ Len(listed') = Len(files) + 1 /\ listed'[Len(files) + 1] = path
      /\ \A n \in 1 .. Len(files) : listed'[n] = listed[n]
  <2>1. IsSeq(listed) /\ Len(listed) = Len(files)
    BY DEF FilesAt
  <2> QED
    BY <2>1, Appended
<1>6. ASSUME NEW n \in DOMAIN files'
      PROVE  /\ listed'[n] = Append(p[files'[n].folder], files'[n].name)
             /\ listed'[n] \in Range(Universe)
  <2>1. CASE n \in 1 .. Len(files)
    <3>1. files'[n] = files[n] /\ listed'[n] = listed[n] /\ n \in DOMAIN files
      BY <1>4, <1>5, <2>1
    <3> QED
      BY <3>1 DEF FilesAt
  <2>2. CASE n = Len(files) + 1
    BY <1>2, <1>4, <1>5, <2>2
  <2>3. n \in 1 .. Len(files) \/ n = Len(files) + 1
    BY <1>4
  <2> QED
    BY <2>1, <2>2, <2>3
<1> QED
  BY <1>1, <1>3, <1>4, <1>5, <1>6 DEF FilesAt

LEMMA AppendFilePaths ==
  ASSUME NEW p, PathsAre(p), AppendFile
  PROVE  PathsAre(p)'
<1>1. PICK path, a, b : path = Universe[next] /\ a = p[base_folder] /\ b = base_path
  OBVIOUS
<1>2. /\ folders' = folders /\ stack' = stack /\ UNCHANGED place /\ next' \in {next, next + 1}
      /\ cur_folder' = base_folder /\ cur_path' = path /\ cur_depth' = res_depth
      /\ listed' = Append(listed, path) /\ pc' # "descend"
      /\ files' = Append(files, [folder |-> base_folder, name |-> Head(b)])
      /\ pc = "descend" /\ Len(b) = 1
  BY <1>1 DEF AppendFile, Lists, Leave
<1>3. IsPaths(p) /\ IsPaths(p)' /\ Keeps(p, p) /\ Folders' = Folders
  BY <1>2, TreeStays DEF PathsAre, Folders
<1>4. /\ next \in DOMAIN Universe /\ a \o b = path /\ res_depth = Len(a)
      /\ base_folder \in Folders /\ b \in Seq(Names)
  BY <1>1, <1>2 DEF PathsAre, PlaceAt
<1>5. path \in Seq(Names) /\ path \in Range(Universe) /\ next \in 1 .. Len(Universe)
  BY <1>1, <1>4, UniverseNames
<1>6. a \in Seq(Names)
  BY <1>1, <1>3, <1>4 DEF IsPaths
<1>7. /\ Head(b) \in Names /\ Append(a, Head(b)) = path
      /\ Len(path) - 1 = Len(a) /\ SubSeq(path, 1, Len(path) - 1) = a
  <2>1. Head(b) \in Names /\ b = <<Head(b)>>
    <3>1. Head(b) = b[1] /\ b[1] \in Names
      <4>1. b \in Seq(Names) /\ Len(b) = 1
        BY <1>2, <1>4
      <4>2. b \in [1 .. 1 -> Names]
        BY <4>1
      <4> QED
        BY <4>1, <4>2
    <3>2. <<b[1]>> \in Seq(Names) /\ Len(<<b[1]>>) = 1 /\ <<b[1]>>[1] = b[1]
      BY <3>1
    <3>3. b = <<b[1]>>
      BY <1>2, <1>4, <3>2, SameSeq
    <3> QED
      BY <3>1, <3>3
  <2>2. Append(a, Head(b)) = path
    BY <1>4, <1>6, <2>1, AppendIsConcat
  <2> QED
    BY <1>6, <2>1, <2>2
<1>8. FilesAt(p)'
  BY <1>1, <1>2, <1>3, <1>4, <1>5, <1>7, FilesGrow DEF PathsAre
<1>9. CursorAt(p)'
  BY <1>1, <1>2, <1>3, <1>4, <1>7 DEF CursorAt
<1>10. PlaceAt(p)'
  <2>1. next' \in 1 .. Len(Universe) + 1
    BY <1>2, <1>5, PathsAssumption
  <2> QED
    BY <1>2, <1>3, <2>1, PlaceStays DEF PathsAre
<1>11. StackAt(p)'
  BY <1>2, <1>3, StackStays DEF PathsAre
<1> QED
  BY <1>3, <1>8, <1>9, <1>10, <1>11 DEF PathsAre

-----------------------------------------------------------------------------
\* The walk.
LEMMA WalkStartPaths ==
  ASSUME NEW p, PathsAre(p), WalkStart
  PROVE  PathsAre(p)'
<1>1. /\ folders' = folders /\ files' = files /\ listed' = listed /\ UNCHANGED <<cursor, place>>
      /\ pc' = pc /\ next' = next
  BY DEF WalkStart, git, tree, placed
<1>2. IsPaths(p) /\ IsPaths(p)' /\ Keeps(p, p) /\ Folders' = Folders
  BY <1>1, TreeStays DEF PathsAre, Folders
<1>3. FilesAt(p)' /\ CursorAt(p)'
  BY <1>1, <1>2, FilesStay, CursorStays DEF PathsAre
<1>4. PlaceAt(p)'
  <2>1. next' \in 1 .. Len(Universe) + 1
    BY <1>1 DEF PathsAre, PlaceAt
  <2> QED
    BY <1>1, <1>2, <2>1, PlaceStays DEF PathsAre
<1>5. StackAt(p)'
  <2>1. PICK entries \in {Entries(<<>>), {}} :
          stack' = Append(<<>>, [path |-> <<>>, folder |-> ROOT, entries |-> entries])
    BY DEF WalkStart, OpenDir
  <2>2. PICK d : d = [path |-> <<>>, folder |-> ROOT, entries |-> entries]
    OBVIOUS
  <2>3. stack' = <<d>> /\ DOMAIN stack' = {1} /\ stack'[1] = d
    BY <2>1, <2>2
  <2>4. d.path = <<>> /\ d.folder = ROOT /\ d.entries = entries
    BY <2>2
  <2>5. ROOT \in Folders /\ p[ROOT] = <<>> /\ entries \subseteq Entries(<<>>)
    BY <1>2, <2>1 DEF IsPaths
  <2> QED
    BY <1>2, <2>3, <2>4, <2>5 DEF StackAt
<1> QED
  BY <1>2, <1>3, <1>4, <1>5 DEF PathsAre

LEMMA WalkFolderPaths ==
  ASSUME IInv, NEW p, PathsAre(p), NEW name \in Names, WalkFolder(name)
  PROVE  \E q : PathsAre(q)'
<1>1. /\ files' = files /\ listed' = listed /\ UNCHANGED <<cursor, place>>
      /\ pc' = pc /\ next' = next /\ stack # <<>>
  BY DEF WalkFolder, Walking, git, placed
<1>2. PICK top, folder : top = Len(stack) /\ folder = stack[top].folder
  OBVIOUS
<1>3. /\ IsPaths(p) /\ IsSeq(folders) /\ top \in DOMAIN stack /\ top \in Nat
      /\ DOMAIN stack = 1 .. top /\ Len(folders') = Len(folders) + 1
  <2>1. IsSeq(folders) /\ \E x : folders' = Append(folders, x)
    BY DEF WalkFolder, IInv, PlaceInv
  <2> QED
    BY <1>1, <1>2, <2>1, StackIs, Appended DEF PathsAre
<1>4. /\ DOMAIN stack' = DOMAIN stack \cup {top + 1}
      /\ stack'[top + 1].folder = Len(folders')
      /\ stack'[top + 1].path = Append(stack[top].path, name)
      /\ stack'[top + 1].entries \in {Entries(stack'[top + 1].path), {}}
      /\ \A n \in DOMAIN stack : stack'[n].folder = stack[n].folder
                                /\ stack'[n].path = stack[n].path
      /\ \A n \in DOMAIN stack : stack'[n].entries \subseteq stack[n].entries
  <2>1. /\ \A n \in DOMAIN stack : n # top => stack'[n].entries = stack[n].entries
        /\ stack'[top].entries = stack[top].entries \ {name}
    BY <1>2, WalkFolderIs
  <2>2. \A n \in DOMAIN stack : stack'[n].entries \subseteq stack[n].entries
    BY <2>1
  <2> QED
    BY <1>2, <1>3, <2>2, WalkFolderIs
<1>5. folder \in Folders /\ stack[top].path = p[folder]
  BY <1>2, <1>3 DEF PathsAre, StackAt
<1>6. folders' = Append(folders, [parent |-> folder, name |-> name])
  BY <1>2 DEF WalkFolder, Dir, Last
<1>7. PICK q : /\ IsPaths(q)' /\ Keeps(p, q)
               /\ Len(folders') \in Folders' /\ q[Len(folders')] = Append(p[folder], name)
  BY <1>3, <1>5, <1>6, TreeGrows
<1>8. FilesAt(q)' /\ CursorAt(q)'
  BY <1>1, <1>7, FilesStay, CursorStays DEF PathsAre
<1>9. PlaceAt(q)'
  <2>1. next' \in 1 .. Len(Universe) + 1
    BY <1>1 DEF PathsAre, PlaceAt
  <2> QED
    BY <1>1, <1>7, <2>1, PlaceStays DEF PathsAre
<1>10. ASSUME NEW n \in DOMAIN stack'
       PROVE  /\ stack'[n].folder \in Folders' /\ stack'[n].path = q[stack'[n].folder]
              /\ stack'[n].entries \subseteq Entries(stack'[n].path)
  <2>1. CASE n \in DOMAIN stack
    <3>1. /\ stack[n].folder \in Folders /\ stack[n].path = p[stack[n].folder]
          /\ stack[n].entries \subseteq Entries(stack[n].path)
      BY <2>1 DEF PathsAre, StackAt
    <3>2. stack[n].folder \in Folders' /\ q[stack[n].folder] = p[stack[n].folder]
      BY <1>7, <3>1 DEF Keeps
    <3> QED
      BY <1>4, <2>1, <3>1, <3>2
  <2>2. CASE n = top + 1
    BY <1>4, <1>5, <1>7, <2>2
  <2> QED
    BY <1>4, <2>1, <2>2
<1>11. StackAt(q)'
  BY <1>10 DEF StackAt
<1> QED
  BY <1>7, <1>8, <1>9, <1>11 DEF PathsAre

LEMMA StrictlyLonger ==
  ASSUME NEW S, NEW path \in Seq(S), NEW whole \in Seq(S), IsStrictPrefix(path, whole)
  PROVE  Len(path) < Len(whole) /\ \A k \in 1 .. Len(path) : path[k] = whole[k]
<1>1. /\ Len(path) <= Len(whole) /\ path # whole
      /\ SubSeq(path, 1, Len(path)) = SubSeq(whole, 1, Len(path))
  BY DEF IsStrictPrefix, IsPrefix
<1>2. \A k \in 1 .. Len(path) : path[k] = whole[k]
  <2> TAKE k \in 1 .. Len(path)
  <2>1. SubSeq(path, 1, Len(path))[k] = path[k] /\ SubSeq(whole, 1, Len(path))[k] = whole[k]
    BY <1>1
  <2> QED
    BY <1>1, <2>1
<1>3. Len(path) # Len(whole)
  BY <1>1, <1>2, SameSeq
<1> QED
  BY <1>1, <1>2, <1>3

LEMMA WalkFilePaths ==
  ASSUME IInv, NEW p, PathsAre(p), NEW name \in Names, WalkFile(name)
  PROVE  PathsAre(p)'
<1>1. /\ folders' = folders /\ UNCHANGED <<cursor, place>> /\ Walking
      /\ pc' = pc /\ next' = next /\ stack # <<>> /\ name \in Dir.entries
      /\ Append(Dir.path, name) \in Range(Universe)
      /\ listed' = Append(listed, Append(Dir.path, name))
      /\ files' = Append(files, [folder |-> Dir.folder, name |-> name])
      /\ stack' = Rest(Dir.entries \ {name})
  BY DEF WalkFile, Lists, Walking, git
<1>2. IsPaths(p) /\ IsPaths(p)' /\ Keeps(p, p) /\ Folders' = Folders
  BY <1>1, TreeStays DEF PathsAre, Folders
<1>3. Dir.folder \in Folders /\ Dir.path = p[Dir.folder] /\ Dir.entries \subseteq Entries(Dir.path)
  BY <1>1, StackIs DEF PathsAre, StackAt, Dir, Last
<1>4. FilesAt(p)'
  BY <1>1, <1>2, <1>3, FilesGrow DEF PathsAre
<1>5. StackAt(p)'
  <2>1. Dir.entries # {} /\ Dir.entries \ {name} \in SUBSET Dir.entries
    BY <1>1
  <2>2. Shrinks
    BY <1>1, <2>1, RestIs
  <2> QED
    BY <2>2, StackShrinks DEF PathsAre
<1>6. CursorAt(p)'
  BY <1>1, <1>2, CursorStays DEF PathsAre
<1>7. PlaceAt(p)'
  <2>1. next' \in 1 .. Len(Universe) + 1
    BY <1>1 DEF PathsAre, PlaceAt
  <2> QED
    BY <1>1, <1>2, <2>1, PlaceStays DEF PathsAre
<1> QED
  BY <1>2, <1>4, <1>5, <1>6, <1>7 DEF PathsAre

LEMMA WalkOnPaths ==
  ASSUME IInv, NEW p, PathsAre(p), WalkSkip \/ WalkUp
  PROVE  PathsAre(p)'
<1>1. /\ folders' = folders /\ files' = files /\ listed' = listed /\ UNCHANGED <<cursor, place>>
      /\ pc' = pc /\ next' = next
  BY DEF WalkSkip, WalkUp, git, tree, placed
<1>2. IsPaths(p) /\ IsPaths(p)' /\ Keeps(p, p)
  BY <1>1, TreeStays DEF PathsAre
<1>3. FilesAt(p)' /\ CursorAt(p)'
  BY <1>1, <1>2, FilesStay, CursorStays DEF PathsAre
<1>4. PlaceAt(p)'
  <2>1. next' \in 1 .. Len(Universe) + 1
    BY <1>1 DEF PathsAre, PlaceAt
  <2> QED
    BY <1>1, <1>2, <2>1, PlaceStays DEF PathsAre
<1>5. Shrinks
  <2>1. CASE WalkSkip
    <3>1. PICK names \in SUBSET Dir.entries : stack' = Rest(Dir.entries \ names)
      BY <2>1 DEF WalkSkip
    <3>2. Walking /\ Dir.entries # {} /\ Dir.entries \ names \in SUBSET Dir.entries
      BY <2>1 DEF WalkSkip
    <3> QED
      BY <1>1, <3>1, <3>2, RestIs
  <2> QED
    BY <2>1, WalkUpIs
<1>6. StackAt(p)'
  BY <1>5, StackShrinks DEF PathsAre
<1> QED
  BY <1>2, <1>3, <1>4, <1>6 DEF PathsAre

LEMMA EntriesAreNames ==
  ASSUME NEW path \in Seq(Names)
  PROVE  Entries(path) \subseteq Names
<1> SUFFICES ASSUME NEW name \in Entries(path) PROVE name \in Names
  OBVIOUS
<1>1. PICK n \in DOMAIN Universe : IsStrictPrefix(path, Universe[n])
                                   /\ name = Universe[n][Len(path) + 1]
  BY DEF Entries
<1>2. PICK whole : whole = Universe[n]
  OBVIOUS
<1>3. whole \in Seq(Names) /\ IsStrictPrefix(path, whole)
  BY <1>1, <1>2, UniverseNames
<1>4. Len(path) < Len(whole)
  BY <1>3, StrictlyLonger
<1> QED
  BY <1>1, <1>2, <1>3, <1>4

LEMMA FileIs ==
  ASSUME NEW p, FilesAt(p), NEW n \in DOMAIN files
  PROVE  files[n] \in [folder : Folders, name : Names]
<1>1. PICK S : S = [folder : Folders, name : Names]
  OBVIOUS
<1>2. files \in Seq(S)
  BY <1>1 DEF FilesAt
<1>3. files[n] \in S
  BY <1>2
<1> QED
  BY <1>1, <1>3

-----------------------------------------------------------------------------
LEMMA StepPaths == IInv /\ CursorInv /\ PathInv /\ [Next]_vars => PathInv'
<1> SUFFICES ASSUME IInv, CursorInv, PathInv, [Next]_vars PROVE PathInv'
  OBVIOUS
<1>1. Kinds'
  BY StepKinds DEF PathInv
<1>2. PICK p : PathsAre(p)
  BY DEF PathInv
<1>3. \E q : PathsAre(q)'
  <2>1. CASE UNCHANGED vars
    <3>1. Folders' = Folders
      BY <2>1 DEF vars, tree, Folders
    <3>2. PathsAre(p)'
      BY <1>2, <2>1, <3>1 DEF vars, tree, cursor, place, placed, PathsAre, IsPaths, FilesAt,
                              CursorAt, PlaceAt, StackAt
    <3> QED
      BY <3>2
  <2>2. CASE Open \/ Collect \/ Skip \/ EndOfList \/ Cancel
    BY <1>2, <2>2, ListPaths
  <2>3. CASE Process \/ EnterFolder \/ MakeFolder \/ AppendFile
    BY <1>2, <2>3, ProcessPaths, EnterFolderPaths, MakeFolderPaths, AppendFilePaths
  <2>4. CASE \E name \in Names : WalkFolder(name) \/ WalkFile(name)
    BY <1>2, <2>4, WalkFolderPaths, WalkFilePaths
  <2>5. CASE WalkStart \/ WalkSkip \/ WalkUp
    BY <1>2, <2>5, WalkStartPaths, WalkOnPaths
  <2> QED
    BY <2>1, <2>2, <2>3, <2>4, <2>5 DEF Next
<1> QED
  BY <1>1, <1>3 DEF PathInv

\* Every folder has a path, and the files, the place of the next path and the open
\* directories agree on it.
THEOREM PathsInvariance == Spec => [](IInv /\ PathInv)
<1>1. Init => IInv /\ CursorInv /\ PathInv
  BY InitIInv, InitCursor, InitPaths
<1>2. IInv /\ CursorInv /\ PathInv /\ [Next]_vars => (IInv /\ CursorInv /\ PathInv)'
  BY StepIInv, StepCursor, StepPaths
<1> QED
  BY <1>1, <1>2, PTL DEF Spec

\* Every variable has its type, for any repository: above all, no folder's parent is
\* younger than the folder, so swimd_print_path's way up ends.
THEOREM TypeCorrect == Spec => []TypeOK
<1>1. ASSUME IInv, PathInv
      PROVE  TypeOK
  <2>1. PICK p : PathsAre(p)
    BY <1>1 DEF PathInv
  <2>2. Head(folders) = [parent |-> NULL, name |-> ""]
    <3>1. folders[1] = [parent |-> NULL, name |-> ""]
      BY <2>1 DEF PathsAre, IsPaths, ROOT
    <3>2. PICK S : folders \in Seq(S)
      BY <1>1 DEF IInv, PlaceInv, IsSeq
    <3>3. Head(folders) = folders[1]
      <4>1. 1 \in DOMAIN folders
        BY <2>1 DEF PathsAre, IsPaths, ROOT, Folders
      <4> QED
        BY <3>2, <4>1
    <3> QED
      BY <3>1, <3>3
  <2>3. \A f \in Folders \ {ROOT} : folders[f].parent \in 1 .. f - 1 /\ folders[f].name \in Names
    BY <2>1 DEF PathsAre, IsPaths
  <2>4. stack \in Seq([path : Seq(Names), folder : Folders, entries : SUBSET Names])
    <3>1. PICK D : D = [path : Seq(Names), folder : Folders, entries : SUBSET Names]
      OBVIOUS
    <3>2. \A n \in DOMAIN stack : stack[n] \in D
      <4> TAKE n \in DOMAIN stack
      <4>1. stack[n] = [path |-> stack[n].path, folder |-> stack[n].folder,
                        entries |-> stack[n].entries]
        BY <1>1 DEF IInv, PlaceInv, Stacked
      <4>2. /\ stack[n].folder \in Folders /\ stack[n].path = p[stack[n].folder]
            /\ stack[n].entries \subseteq Entries(stack[n].path)
        BY <2>1 DEF PathsAre, StackAt
      <4>3. stack[n].path \in Seq(Names)
        BY <2>1, <4>2 DEF PathsAre, IsPaths
      <4>4. Entries(stack[n].path) \subseteq Names
        BY <4>3, EntriesAreNames
      <4> QED
        BY <3>1, <4>1, <4>2, <4>3, <4>4
    <3>3. PICK S : stack \in Seq(S)
      BY <1>1 DEF IInv, PlaceInv, Stacked, IsSeq
    <3>4. stack \in Seq(D)
      BY <3>2, <3>3
    <3> QED
      BY <3>1, <3>4
  <2>5. cur_depth \in Nat
    <3>1. CASE cur_depth = 0
      BY <3>1
    <3>2. CASE \E n \in DOMAIN Universe : cur_path = Universe[n] /\ cur_depth = Len(cur_path) - 1
      BY <3>2, UniverseNames
    <3> QED
      BY <2>1, <3>1, <3>2 DEF PathsAre, CursorAt
  <2>6. late \in Nat
    BY <1>1 DEF IInv, PlaceInv
  <2>7. files \in Seq([folder : Folders, name : Names])
    BY <2>1 DEF PathsAre, FilesAt
  <2>8. /\ cur_folder \in Folders /\ base_folder \in Folders /\ base_path \in Seq(Names)
        /\ res_depth \in Nat /\ next \in 1 .. Len(Universe) + 1
    BY <2>1 DEF PathsAre, CursorAt, PlaceAt
  <2> QED
    BY <1>1, <2>2, <2>3, <2>4, <2>5, <2>6, <2>7, <2>8 DEF TypeOK, PathInv, Kinds
<1> QED
  BY <1>1, PathsInvariance, PTL

LEMMA RoundTripOf ==
  ASSUME IInv, NEW p, PathsAre(p), NEW n \in DOMAIN files
  PROVE  PrintPath(files[n]) = listed[n]
<1>1. files[n] \in [folder : Folders, name : Names]
  BY FileIs DEF PathsAre
<1>2. PrintPath(files[n]) = Append(p[files[n].folder], files[n].name)
  BY <1>1, Prints DEF PathsAre, IInv, PlaceInv
<1> QED
  BY <1>2 DEF PathsAre, FilesAt

\* swimd_print_path gives back the path that was listed, for any repository: by libgit2's
\* index and status lists in whatever order, or by the directories.
THEOREM RoundTrips == Spec => []RoundTrip
<1>1. ASSUME IInv, PathInv
      PROVE  RoundTrip
  <2>1. PICK p : PathsAre(p)
    BY <1>1 DEF PathInv
  <2>2. Len(files) = Len(listed)
    BY <2>1 DEF PathsAre, FilesAt
  <2> QED
    BY <1>1, <2>1, <2>2, RoundTripOf DEF RoundTrip
<1> QED
  BY <1>1, PathsInvariance, PTL

-----------------------------------------------------------------------------
(***************************************************************************)
(* A printed path leads to the file.                                       *)
(***************************************************************************)
LEMMA Joined ==
  ASSUME NEW S, NEW a \in Seq(S), NEW b \in Seq(S)
  PROVE  /\ a \o b \in Seq(S) /\ Len(a \o b) = Len(a) + Len(b)
         /\ \A n \in 1 .. Len(a) : (a \o b)[n] = a[n]
         /\ \A n \in 1 .. Len(b) : (a \o b)[Len(a) + n] = b[n]
  OBVIOUS

LEMMA CutBack ==
  ASSUME NEW S, NEW a \in Seq(S), NEW b \in Seq(S)
  PROVE  SubSeq(a \o b, Len(a) + 1, Len(a) + Len(b)) = b
<1>1. PICK whole, back :
        whole = a \o b /\ back = SubSeq(whole, Len(a) + 1, Len(a) + Len(b))
  OBVIOUS
<1>2. /\ whole \in Seq(S) /\ Len(whole) = Len(a) + Len(b)
      /\ \A n \in 1 .. Len(b) : whole[Len(a) + n] = b[n]
  BY <1>1, Joined
<1>3. /\ back \in Seq(S) /\ Len(back) = Len(b)
      /\ \A n \in 1 .. Len(b) : back[n] = whole[Len(a) + n]
  BY <1>1, <1>2
<1>4. back = b
  BY <1>2, <1>3, SameSeq
<1> QED
  BY <1>1, <1>4

LEMMA CutFront ==
  ASSUME NEW S, NEW a \in Seq(S), NEW b \in Seq(S)
  PROVE  \A k, length : k \in 0 .. Len(b) /\ length = Len(a) + k
           => SubSeq(a \o b, 1, length) = a \o SubSeq(b, 1, k)
<1> SUFFICES ASSUME NEW k \in 0 .. Len(b), NEW length, length = Len(a) + k
             PROVE  SubSeq(a \o b, 1, length) = a \o SubSeq(b, 1, k)
  OBVIOUS
<1>1. PICK whole, front, part, both :
        /\ whole = a \o b /\ front = SubSeq(whole, 1, length)
        /\ part = SubSeq(b, 1, k) /\ both = a \o part
  OBVIOUS
<1>2. /\ whole \in Seq(S) /\ Len(whole) = Len(a) + Len(b)
      /\ \A n \in 1 .. Len(a) : whole[n] = a[n]
      /\ \A n \in 1 .. Len(b) : whole[Len(a) + n] = b[n]
  BY <1>1, Joined
<1>3. part \in Seq(S) /\ Len(part) = k /\ \A n \in 1 .. k : part[n] = b[n]
  BY <1>1
<1>4. /\ both \in Seq(S) /\ Len(both) = length
      /\ \A n \in 1 .. Len(a) : both[n] = a[n]
      /\ \A n \in 1 .. k : both[Len(a) + n] = part[n]
  BY <1>1, <1>3, Joined
<1>5. /\ front \in Seq(S) /\ Len(front) = length
      /\ \A n \in 1 .. length : front[n] = whole[n]
  BY <1>1, <1>2
<1>6. ASSUME NEW n \in 1 .. length
      PROVE  front[n] = both[n]
  <2>1. CASE n <= Len(a)
    BY <1>2, <1>4, <1>5, <2>1
  <2>2. CASE n > Len(a)
    <3>1. PICK m : m = n - Len(a)
      OBVIOUS
    <3>2. m \in 1 .. k /\ m \in 1 .. Len(b) /\ n = Len(a) + m
      BY <2>2, <3>1
    <3> QED
      BY <1>2, <1>3, <1>4, <1>5, <3>2
  <2> QED
    BY <2>1, <2>2
<1>7. front = both
  BY <1>4, <1>5, <1>6, SameSeq
<1> QED
  BY <1>1, <1>7

\* Above the directory Neovim was started in, a path is as many ".." as it takes to get out
\* of what the two do not share, and then what is left of the path.
LEMMA RelativeIs ==
  ASSUME NEW S, NEW path \in Seq(S), NEW dir \in Seq(S), Base \in Seq(S),
         NEW k, k = MatchDepth(path, dir)
  PROVE  /\ k \in 0 .. Len(dir) /\ k <= Len(path)
         /\ PrintRelative(path, Base \o dir)
              = [n \in 1 .. Len(dir) - k |-> ".."] \o SubSeq(path, k + 1, Len(path))
<1>1. k \in Nat /\ k <= Len(dir) /\ k <= Len(path)
  BY Matched
<1>2. PICK scan_path : scan_path = Base \o dir
  OBVIOUS
<1>3. /\ scan_path \in Seq(S) /\ Len(scan_path) = Len(Base) + Len(dir)
      /\ \A n \in 1 .. Len(Base) : scan_path[n] = Base[n]
  BY <1>2, Joined
<1>4. SubSeq(scan_path, Len(Base) + 1, Len(scan_path)) = dir
  BY <1>2, <1>3, CutBack
<1>5. MatchDepth(Base, scan_path) = Len(Base)
  <2>1. SubSeq(Base, 1, Len(Base)) = SubSeq(scan_path, 1, Len(Base))
    <3>1. PICK a, b : a = SubSeq(Base, 1, Len(Base)) /\ b = SubSeq(scan_path, 1, Len(Base))
      OBVIOUS
    <3>2. a \in Seq(S) /\ Len(a) = Len(Base) /\ \A n \in 1 .. Len(Base) : a[n] = Base[n]
      BY <3>1
    <3>3. b \in Seq(S) /\ Len(b) = Len(Base) /\ \A n \in 1 .. Len(Base) : b[n] = scan_path[n]
      BY <1>3, <3>1
    <3> QED
      BY <1>3, <3>1, <3>2, <3>3, SameSeq
  <2>2. Len(Base) \in 0 .. Len(Base) /\ Len(Base) <= Len(scan_path)
    BY <1>3
  <2>3. Len(Base) <= MatchDepth(Base, scan_path)
    BY <1>3, <2>1, <2>2, Matched
  <2>4. MatchDepth(Base, scan_path) \in Nat /\ MatchDepth(Base, scan_path) <= Len(Base)
    BY <1>3, Matched
  <2> QED
    BY <2>3, <2>4
<1>6. ASSUME scan_path = Base
      PROVE  PrintRelative(path, Base \o dir)
               = [n \in 1 .. Len(dir) - k |-> ".."] \o SubSeq(path, k + 1, Len(path))
  <2>1. PrintRelative(path, scan_path) = path
    BY <1>6 DEF PrintRelative
  <2>2. Len(dir) = 0 /\ k = 0
    BY <1>1, <1>3, <1>6
  <2>3. SubSeq(path, k + 1, Len(path)) = path
    BY <2>2, SubSeqFull
  <2>4. [n \in 1 .. Len(dir) - k |-> ".."] = <<>>
    BY <2>2
  <2>5. <<>> \o path = path
    BY ConcatEmptySeq
  <2> QED
    BY <1>2, <2>1, <2>3, <2>4, <2>5
<1>7. ASSUME scan_path # Base
      PROVE  PrintRelative(path, Base \o dir)
               = [n \in 1 .. Len(dir) - k |-> ".."] \o SubSeq(path, k + 1, Len(path))
  <2>1. Len(scan_path) - Len(Base) - k = Len(dir) - k
    BY <1>1, <1>3
  <2>2. PrintRelative(path, scan_path)
          = [n \in 1 .. Len(scan_path) - Len(Base) - k |-> ".."] \o SubSeq(path, k + 1, Len(path))
    BY <1>4, <1>5, <1>7 DEF PrintRelative
  <2> QED
    BY <1>2, <2>1, <2>2, Zenon
<1>8. k \in 0 .. Len(dir) /\ k <= Len(path)
  BY <1>1
<1> QED
  BY <1>6, <1>7, <1>8, Zenon

LEMMA LeadsToFile ==
  ASSUME NEW path \in Range(Universe), NEW dir \in ScanDirs,
         NEW printed, printed = PrintRelative(path, Base \o dir)
  PROVE  /\ Follow(Base \o dir, printed) = Base \o path
         /\ \A h \in 0 .. Ups(printed) - 1 : ~IsPrefix(Above(Base \o dir, h), Base \o path)
<1>1. PICK S : S = STRING \cup {".."}
  OBVIOUS
<1>2. /\ Base \in Seq(S) /\ dir \in Seq(S) /\ dir # path /\ ".." \in S
      /\ path \in Seq(S) /\ \A n \in 1 .. Len(path) : path[n] # ".."
  <2>1. PICK n \in DOMAIN Universe : path = Universe[n]
    BY DEF Range
  <2>2. path \in Seq(STRING) /\ path \in Seq(Names)
    BY <2>1, Universal, UniverseNames
  <2>3. \A m \in 1 .. Len(path) : path[m] # ".."
    BY <2>2, NamesAssumption
  <2>4. Seq(STRING) \subseteq Seq(S)
    BY <1>1, SeqMonotonic
  <2> QED
    BY <1>1, <2>2, <2>3, <2>4, DirsAssumption
<1>3. Base \in Seq(S) /\ dir \in Seq(S) /\ path \in Seq(S)
  BY <1>2
<1>4. PICK k, up, dots, left : /\ k = MatchDepth(path, dir) /\ up = Len(dir) - k
                               /\ dots = [n \in 1 .. up |-> ".."]
                               /\ left = SubSeq(path, k + 1, Len(path))
  OBVIOUS
<1>5. k \in 0 .. Len(dir) /\ k <= Len(path) /\ up \in Nat /\ printed = dots \o left
  <2>1. /\ k \in 0 .. Len(dir) /\ k <= Len(path)
        /\ PrintRelative(path, Base \o dir)
             = [n \in 1 .. Len(dir) - k |-> ".."] \o SubSeq(path, k + 1, Len(path))
    BY <1>3, <1>4, RelativeIs
  <2>2. up \in Nat
    BY <1>3, <1>4, <2>1
  <2> QED
    BY <1>4, <2>1, <2>2
<1>6. dots \in Seq(S) /\ Len(dots) = up /\ \A n \in 1 .. up : dots[n] = ".."
  <2>1. up \in Nat
    BY <1>5
  <2>2. dots \in [1 .. up -> S]
    BY <1>2, <1>4
  <2>3. dots \in Seq(S) /\ Len(dots) = up
    BY <2>1, <2>2
  <2> QED
    BY <1>4, <2>3
<1>7. /\ left \in Seq(S) /\ Len(left) = Len(path) - k
      /\ \A n \in 1 .. Len(left) : left[n] # ".."
  <2>1. left = SubSeq(path, k + 1, Len(path)) /\ k \in Nat /\ k <= Len(path)
    BY <1>3, <1>4, <1>5
  <2>2. left \in Seq(S) /\ Len(left) = Len(path) - k
    BY <1>3, <2>1
  <2>3. \A n \in 1 .. Len(left) : left[n] = path[k + n] /\ k + n \in 1 .. Len(path)
    BY <1>3, <2>1, <2>2
  <2> QED
    BY <1>2, <2>2, <2>3
<1>8. /\ printed \in Seq(S) /\ Len(printed) = up + Len(left)
      /\ \A n \in 1 .. up : printed[n] = ".."
      /\ \A n \in 1 .. Len(left) : printed[up + n] = left[n]
  <2>1. dots \in Seq(S) /\ left \in Seq(S)
    BY <1>6, <1>7
  <2>2. /\ printed \in Seq(S) /\ Len(printed) = Len(dots) + Len(left)
        /\ \A n \in 1 .. Len(dots) : printed[n] = dots[n]
        /\ \A n \in 1 .. Len(left) : printed[Len(dots) + n] = left[n]
    BY <1>5, <2>1, Joined
  <2> QED
    BY <1>6, <2>2
<1>9. Ups(printed) = up
  <2>1. DOMAIN printed = 1 .. up + Len(left) /\ Len(left) \in Nat
    BY <1>7, <1>8
  <2>2. ASSUME NEW n \in 1 .. up + Len(left)
        PROVE  printed[n] = ".." <=> n \in 1 .. up
    <3>1. CASE n <= up
      BY <1>5, <1>8, <3>1
    <3>2. CASE n > up
      <4>1. PICK m : m = n - up
        OBVIOUS
      <4>2. m \in 1 .. Len(left) /\ n = up + m /\ n \notin 1 .. up
        BY <1>5, <2>1, <3>2, <4>1
      <4>3. printed[n] = left[m] /\ left[m] # ".."
        BY <1>7, <1>8, <4>2
      <4> QED
        BY <4>2, <4>3
    <3>3. n <= up \/ n > up
      BY <1>5
    <3> QED
      BY <3>1, <3>2, <3>3
  <2>3. {n \in DOMAIN printed : printed[n] = ".."} = 1 .. up
    BY <1>5, <2>1, <2>2
  <2>4. Cardinality(1 .. up) = up
    <3>1. up \in Nat
      BY <1>5
    <3> QED
      BY <3>1, FS_Interval
  <2> QED
    BY <2>3, <2>4 DEF Ups
<1>10. SubSeq(printed, up + 1, Len(printed)) = left
  <2>1. dots \in Seq(S) /\ left \in Seq(S)
    BY <1>6, <1>7
  <2>2. SubSeq(dots \o left, Len(dots) + 1, Len(dots) + Len(left)) = left
    BY <2>1, CutBack
  <2>3. Len(dots) = up /\ Len(printed) = up + Len(left) /\ printed = dots \o left
    BY <1>5, <1>6, <1>8
  <2> QED
    BY <2>2, <2>3
<1>11. SubSeq(Base \o dir, 1, Len(Base \o dir) - up) = Base \o SubSeq(path, 1, k)
  <2>1. Len(Base \o dir) - up = Len(Base) + k
    <3>1. Len(Base \o dir) = Len(Base) + Len(dir)
      BY <1>3, Joined
    <3> QED
      BY <1>3, <1>4, <1>5, <3>1
  <2>2. SubSeq(dir, 1, k) = SubSeq(path, 1, k)
    BY <1>3, <1>4, Matched
  <2>3. SubSeq(Base \o dir, 1, Len(Base) + k) = Base \o SubSeq(dir, 1, k)
    <3>1. PICK n : n = Len(Base) + k
      OBVIOUS
    <3>2. k \in 0 .. Len(dir)
      BY <1>5
    <3>3. \A m, length : m \in 0 .. Len(dir) /\ length = Len(Base) + m
            => SubSeq(Base \o dir, 1, length) = Base \o SubSeq(dir, 1, m)
      BY <1>3, CutFront, Zenon
    <3>4. SubSeq(Base \o dir, 1, n) = Base \o SubSeq(dir, 1, k)
      BY <3>1, <3>2, <3>3
    <3> QED
      BY <3>1, <3>4
  <2> QED
    BY <2>1, <2>2, <2>3
<1>12. Follow(Base \o dir, printed) = Base \o path
  <2>1. Follow(Base \o dir, printed) = (Base \o SubSeq(path, 1, k)) \o left
    BY <1>9, <1>10, <1>11 DEF Follow, Above
  <2>2. k \in 0 .. Len(path) /\ left \in Seq(S)
    BY <1>3, <1>5, <1>7
  <2>3. (Base \o SubSeq(path, 1, k)) \o left = Base \o (SubSeq(path, 1, k) \o left)
    <3>1. PICK part : part = SubSeq(path, 1, k)
      OBVIOUS
    <3>2. part \in Seq(S)
      BY <1>3, <2>2, <3>1
    <3>3. (Base \o part) \o left = Base \o (part \o left)
      <4>1. Base \in Seq(S) /\ left \in Seq(S)
        BY <1>3, <2>2
      <4> QED
        BY <3>2, <4>1, ConcatAssociative
    <3> QED
      BY <3>1, <3>3
  <2>4. SubSeq(path, 1, k) \o SubSeq(path, k + 1, Len(path)) = path
    BY <1>3, <2>2, Halves
  <2> QED
    BY <1>4, <2>1, <2>3, <2>4
<1>13. ASSUME NEW h \in 0 .. up - 1, IsPrefix(Above(Base \o dir, h), Base \o path)
       PROVE  FALSE
  <2>1. PICK m : m = Len(dir) - h
    OBVIOUS
  <2>2. m \in 0 .. Len(dir) /\ k < m
    <3>1. Len(dir) \in Nat /\ k \in Nat /\ up \in Nat
      BY <1>3, <1>5
    <3>2. up = Len(dir) - k
      BY <1>4
    <3>3. h \in Nat /\ h <= up - 1
      BY <1>13, <3>1
    <3> QED
      BY <2>1, <3>1, <3>2, <3>3
  <2>3. PICK part, above, whole :
          part = SubSeq(dir, 1, m) /\ above = Base \o part /\ whole = Base \o path
    OBVIOUS
  <2>4. part \in Seq(S) /\ Len(part) = m
    BY <1>3, <2>2, <2>3
  <2>5. Above(Base \o dir, h) = above
    <3>1. PICK length : length = Len(Base) + m
      OBVIOUS
    <3>2. Len(Base \o dir) - h = length
      <4>1. Len(Base \o dir) = Len(Base) + Len(dir)
        BY <1>3, Joined
      <4> QED
        BY <1>3, <2>1, <3>1, <4>1
    <3>3. \A o, l : o \in 0 .. Len(dir) /\ l = Len(Base) + o
            => SubSeq(Base \o dir, 1, l) = Base \o SubSeq(dir, 1, o)
      BY <1>3, CutFront, Zenon
    <3>4. SubSeq(Base \o dir, 1, length) = Base \o SubSeq(dir, 1, m)
      BY <2>2, <3>1, <3>3
    <3> QED
      BY <2>3, <3>2, <3>4 DEF Above
  <2>6. /\ above \in Seq(S) /\ Len(above) = Len(Base) + m
        /\ \A n \in 1 .. m : above[Len(Base) + n] = part[n]
    BY <1>3, <2>3, <2>4, Joined
  <2>7. /\ whole \in Seq(S) /\ Len(whole) = Len(Base) + Len(path)
        /\ \A n \in 1 .. Len(path) : whole[Len(Base) + n] = path[n]
    BY <1>3, <2>3, Joined
  <2>8. Len(above) <= Len(whole) /\ SubSeq(above, 1, Len(above)) = SubSeq(whole, 1, Len(above))
    BY <1>13, <2>3, <2>5 DEF IsPrefix
  <2>9. m <= Len(path)
    BY <1>3, <2>2, <2>6, <2>7, <2>8
  <2>10. \A n \in 1 .. Len(above) : above[n] = whole[n]
    <3>1. PICK x, y : x = SubSeq(above, 1, Len(above)) /\ y = SubSeq(whole, 1, Len(above))
      OBVIOUS
    <3>2. \A n \in 1 .. Len(above) : x[n] = above[n]
      BY <2>6, <3>1
    <3>3. \A n \in 1 .. Len(above) : y[n] = whole[n]
      BY <2>6, <2>7, <2>8, <3>1
    <3> QED
      BY <2>8, <3>1, <3>2, <3>3
  <2>11. \A n \in 1 .. m : part[n] = path[n]
    <3> TAKE n \in 1 .. m
    <3>1. PICK o : o = Len(Base) + n
      OBVIOUS
    <3>2. o \in 1 .. Len(above) /\ n \in 1 .. Len(path)
      BY <1>3, <2>2, <2>6, <2>9, <3>1
    <3>3. above[o] = part[n] /\ whole[o] = path[n]
      BY <2>6, <2>7, <3>1, <3>2
    <3> QED
      BY <2>10, <3>2, <3>3
  <2>12. SubSeq(path, 1, m) = SubSeq(dir, 1, m)
    <3>1. PICK x : x = SubSeq(path, 1, m)
      OBVIOUS
    <3>2. x \in Seq(S) /\ Len(x) = m /\ \A n \in 1 .. m : x[n] = path[n]
      BY <1>3, <2>2, <2>9, <3>1
    <3>3. x = part
      BY <2>4, <2>11, <3>2, SameSeq
    <3> QED
      BY <2>3, <3>1, <3>3
  <2>13. \A o \in 0 .. Len(path) :
           o <= Len(dir) /\ SubSeq(path, 1, o) = SubSeq(dir, 1, o) => o <= MatchDepth(path, dir)
    BY <1>3, Matched
  <2>14. m \in 0 .. Len(path) /\ m <= Len(dir)
    BY <1>3, <2>2, <2>9
  <2>15. m <= k
    BY <1>4, <2>12, <2>13, <2>14
  <2> QED
    BY <1>3, <1>5, <2>2, <2>15
<1> QED
  BY <1>9, <1>12, <1>13

\* swimd_print_relative's path, followed from the directory Neovim was started in, leads to
\* the file, for any working directory and any directory below it, and goes up no further
\* than the two share.
THEOREM RelativeLeads == Spec => []RelativeLeadsToFile
<1>1. ASSUME IInv, PathInv
      PROVE  RelativeLeadsToFile
  <2>1. PICK p : PathsAre(p)
    BY <1>1 DEF PathInv
  <2>2. ASSUME NEW n \in DOMAIN files, NEW dir \in ScanDirs, NEW path, NEW printed,
               path = PrintPath(files[n]), printed = PrintRelative(path, Base \o dir)
        PROVE  /\ Follow(Base \o dir, printed) = Base \o path
               /\ \A h \in 0 .. Ups(printed) - 1 :
                    ~IsPrefix(Above(Base \o dir, h), Base \o path)
    <3>1. path \in Range(Universe)
      BY <1>1, <2>1, <2>2, RoundTripOf DEF PathsAre, FilesAt
    <3> QED
      BY <2>2, <3>1, LeadsToFile
  <2> QED
    BY <2>2 DEF RelativeLeadsToFile
<1> QED
  BY <1>1, PathsInvariance, PTL
=============================================================================
