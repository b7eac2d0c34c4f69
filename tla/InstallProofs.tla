--------------------------- MODULE InstallProofs ---------------------------
(***************************************************************************)
(* The installation for any number of Neovims, versions, kills and builds: *)
(* unless a copy has failed or two have got in each other's way, a version *)
(* file that matches vouches for the libraries, and until the plugin is    *)
(* updated those that a Neovim has loaded stay whole.                      *)
(*                                                                         *)
(* The version is copied last, so whoever is killed before has not got to  *)
(* it, and the version file that is left is that of another version.       *)
(* While a Neovim is up that has loaded the plugin's version, the version  *)
(* file is that version's, so that nobody installs over its libraries.     *)
(***************************************************************************)
EXTENDS Install, TLAPS

\* Where the loop over the files is, and that no version comes from the future.
Known ==
  /\ \A e \in Editors : pc[e] \notin {"open", "write"} => at[e] = 1
  /\ \A f \in Files : build[f] <= plugin
  /\ \A e \in Editors : since[e] <= plugin

\* Who changes the build directory is alone with it.
OneAtATime ==
  /\ \A e, o \in Editors : Installing(e) /\ e # o => ~Installing(o) /\ pc[o] # "load"
  /\ builder # "idle" => \A e \in Editors : ~Installing(e) /\ pc[e] # "load"

\* How far an installation or a build has come.
Progress ==
  /\ \A e \in Editors : Installing(e) => build["version"] # plugin
  /\ \A e \in Editors : pc[e] \in {"open", "write"} =>
       \A k \in 1 .. Len(Release) : k < at[e] => build[Release[k]] = plugin
  /\ builder # "idle" =>
       \A k \in 1 .. Len(BuildOrder) : k < made => build[BuildOrder[k]] = plugin

\* A Neovim that found the plugin's version, or installed it, and that has not been left.
Current(e) == pc[e] \in {"load", "up"} /\ since[e] = plugin

\* Nobody installs while there is one.
Settled ==
  builder = "idle" => \A e \in Editors : Current(e) => build["version"] = plugin

\* Of its libraries only the one may be in pieces that a build is copying.
Loads ==
  \A e \in Editors : pc[e] = "up" /\ since[e] = plugin =>
    /\ loaded[e]["swimd"] = plugin
    /\ \/ loaded[e]["libgit2"] = plugin
       \/ builder = "write" /\ made = 2 /\ "libgit2" \in mapped[e]

IInv ==
  /\ TypeOK /\ Known
  /\ ~spoilt => OneAtATime /\ Progress /\ VersionVouches /\ Settled /\ Loads

LEMMA ReleaseIs ==
  /\ Len(Release) = 3
  /\ Release[1] = "libgit2" /\ Release[2] = "swimd" /\ Release[3] = "version"
  BY DEF Release

LEMMA BuildOrderIs ==
  /\ Len(BuildOrder) = 3
  /\ BuildOrder[1] = "version" /\ BuildOrder[2] = "libgit2" /\ BuildOrder[3] = "swimd"
  BY DEF BuildOrder

LEMMA LibrariesAre == Libraries = {"libgit2", "swimd"} /\ Files = {"libgit2", "swimd", "version"}
  BY DEF Libraries, Files

LEMMA InitIInv == Init => IInv
<1> SUFFICES ASSUME Init PROVE IInv
  OBVIOUS
<1>0. faults \in 0 .. MaxFaults /\ plugin \in Versions
  BY BoundsAssumption DEF Init, Versions
<1>a. /\ build \in [Files -> Versions \cup {Absent, Partial}]
      /\ loaded \in [Editors -> [Libraries -> Versions \cup {Absent, Partial}]]
      /\ mapped \in [Editors -> SUBSET Libraries]
  BY DEF Init, Nothing
<1>b. /\ pc \in [Editors -> {"down", "check", "clean", "open", "write", "load", "up"}]
      /\ at \in [Editors -> 1 .. Len(Release)] /\ since \in [Editors -> Versions]
      /\ made \in 1 .. Len(BuildOrder)
  BY <1>0, ReleaseIs, BuildOrderIs DEF Init
<1>1. TypeOK
  BY <1>0, <1>a, <1>b DEF Init, TypeOK
<1>2. Known
  BY DEF Init, Known, Absent
<1>3. OneAtATime /\ Settled /\ Loads
  BY DEF Init, OneAtATime, Settled, Current, Loads, Installing
<1>4. build["version"] # plugin
  BY DEF Init, Files, Absent
<1> QED
  BY <1>1, <1>2, <1>3, <1>4 DEF Init, IInv, Progress, VersionVouches, Installing

\* A write, or none, keeps the types.
LEMMA WritesTypes ==
  ASSUME TypeOK, NEW f \in Files, NEW v \in Versions \cup {Absent, Partial}, Writes(f, v)
  PROVE  /\ build' \in [Files -> Versions \cup {Absent, Partial}]
         /\ loaded' \in [Editors -> [Libraries -> Versions \cup {Absent, Partial}]]
  BY DEF TypeOK, Writes

LEMMA UnmappedTypes ==
  ASSUME TypeOK, NEW names
  PROVE  Unmapped(names) \in [Editors -> SUBSET Libraries]
  BY DEF TypeOK, Unmapped

LEMMA StartKeeps ==
  ASSUME IInv, NEW e \in Editors, Start(e)
  PROVE  IInv'
<1> USE ReleaseIs, BuildOrderIs, LibrariesAre DEF IInv, Start, Goes, libs, make
<1>1. TypeOK'
  BY DEF TypeOK
<1>2. Known'
  BY DEF TypeOK, Known
<1>3. ~spoilt' => OneAtATime'
  BY DEF TypeOK, OneAtATime, Installing
<1>4. ~spoilt' => Progress'
  BY DEF TypeOK, Progress, Installing
<1>5. ~spoilt' => VersionVouches'
  BY DEF VersionVouches
<1>6. ~spoilt' => Settled'
  BY DEF TypeOK, Settled, Current
<1>7. ~spoilt' => Loads'
  BY DEF TypeOK, Loads
<1> QED
  BY <1>1, <1>2, <1>3, <1>4, <1>5, <1>6, <1>7

LEMMA CheckKeeps ==
  ASSUME IInv, NEW e \in Editors, Check(e)
  PROVE  IInv'
<1> USE ReleaseIs, BuildOrderIs, LibrariesAre DEF IInv, Check, Goes, Alone, libs, make
<1>1. TypeOK'
  BY DEF TypeOK
<1>2. Known'
  BY DEF TypeOK, Known, Versions
<1>3. ~spoilt' => OneAtATime'
  BY DEF TypeOK, OneAtATime, Progress, Installing
<1>4. ~spoilt' => Progress'
  BY DEF TypeOK, Progress, Installing
<1>5. ~spoilt' => VersionVouches'
  BY DEF VersionVouches
<1>6. ~spoilt' => Settled'
  BY DEF TypeOK, Settled, Current
<1>7. ~spoilt' => Loads'
  BY DEF TypeOK, Loads
<1> QED
  BY <1>1, <1>2, <1>3, <1>4, <1>5, <1>6, <1>7

LEMMA CleanKeeps ==
  ASSUME IInv, NEW e \in Editors, NEW names \in SUBSET Files, Clean(e, names)
  PROVE  IInv'
<1> USE ReleaseIs, BuildOrderIs, LibrariesAre DEF IInv, Clean, Goes, make
<1>1. TypeOK'
  BY UnmappedTypes DEF TypeOK
<1>2. Known'
  BY DEF TypeOK, Known, Versions, Absent
<1>3. ~spoilt' => OneAtATime'
  BY DEF TypeOK, OneAtATime, Installing
<1>4. ~spoilt' => Progress'
  BY DEF TypeOK, OneAtATime, Progress, Installing, Known, Absent, Versions
<1>5. ~spoilt' => VersionVouches'
  BY DEF TypeOK, VersionVouches, Progress, Installing, Absent, Versions
<1>6. ~spoilt' => Settled'
  BY DEF TypeOK, Settled, Current, OneAtATime, Progress, Installing
<1>7. ~spoilt' => Loads'
  BY DEF TypeOK, Loads, Settled, Current, OneAtATime, Progress, Installing
<1> QED
  BY <1>1, <1>2, <1>3, <1>4, <1>5, <1>6, <1>7

LEMMA OpenFileKeeps ==
  ASSUME IInv, NEW e \in Editors, OpenFile(e)
  PROVE  IInv'
<1> USE ReleaseIs, BuildOrderIs, LibrariesAre DEF IInv, OpenFile, Goes, make
<1>0. Release[at[e]] \in Files
  BY DEF TypeOK
<1>1. TypeOK'
  BY WritesTypes, <1>0 DEF TypeOK
<1>2. Known'
  BY DEF TypeOK, Known, Versions, Partial, Writes
<1>3. ~spoilt' => OneAtATime'
  BY DEF TypeOK, OneAtATime, Installing
<1>4. ~spoilt' => Progress'
  BY DEF TypeOK, OneAtATime, Progress, Installing, Partial, Versions, Writes
<1>5. ~spoilt' => VersionVouches'
  BY DEF TypeOK, VersionVouches, Progress, Installing, Writes
<1>6. ~spoilt' => Settled'
  BY DEF TypeOK, Settled, Current, OneAtATime, Progress, Installing
<1>7. ~spoilt' => Loads'
  BY DEF TypeOK, Loads, Settled, Current, OneAtATime, Progress, Installing
<1> QED
  BY <1>1, <1>2, <1>3, <1>4, <1>5, <1>6, <1>7

LEMMA WriteFileKeeps ==
  ASSUME IInv, NEW e \in Editors, WriteFile(e)
  PROVE  IInv'
<1> USE ReleaseIs, BuildOrderIs, LibrariesAre DEF IInv, WriteFile, NextFile, make
<1>0. Release[at[e]] \in Files
  BY DEF TypeOK
<1>1. TypeOK'
  <2>1. /\ build' \in [Files -> Versions \cup {Absent, Partial}]
        /\ loaded' \in [Editors -> [Libraries -> Versions \cup {Absent, Partial}]]
    <3>1. plugin \in Versions
      BY DEF TypeOK
    <3> QED
      BY <1>0, <3>1, WritesTypes
  <2>2. /\ pc' \in [Editors -> {"down", "check", "clean", "open", "write", "load", "up"}]
        /\ at' \in [Editors -> 1 .. Len(Release)]
    BY DEF TypeOK
  <2> QED
    BY <2>1, <2>2 DEF TypeOK
<1>2. Known'
  BY DEF TypeOK, Known, Versions, Writes
<1>3. ~spoilt' => OneAtATime'
  BY DEF TypeOK, OneAtATime, Installing
<1>4. ~spoilt' => Progress'
  <2> SUFFICES ASSUME ~spoilt PROVE Progress'
    OBVIOUS
  <2>1. builder = "idle" /\ \A o \in Editors \ {e} : ~Installing(o)
    BY DEF OneAtATime, Installing
  <2>2. \A o \in Editors \ {e} : pc'[o] = pc[o]
    BY DEF TypeOK
  <2>3. CASE at[e] < Len(Release)
    <3>1. pc'[e] = "open" /\ at'[e] = at[e] + 1
      BY <2>3 DEF TypeOK
    <3>2. at[e] \in 1 .. 2 /\ build["version"] # plugin
      BY <2>3 DEF TypeOK, Progress, Installing
    <3>3. build'["version"] # plugin
      BY <3>2 DEF TypeOK, Writes
    <3>4. \A k \in 1 .. Len(Release) : k < at'[e] => build'[Release[k]] = plugin
      BY <3>1, <3>2 DEF TypeOK, Progress, Writes
    <3> QED
      BY <2>1, <2>2, <3>1, <3>3, <3>4 DEF Progress, Installing
  <2>4. CASE ~(at[e] < Len(Release))
    <3>1. pc'[e] = "load"
      BY <2>4 DEF TypeOK
    <3> QED
      BY <2>1, <2>2, <3>1 DEF Progress, Installing
  <2> QED
    BY <2>3, <2>4
<1>5. ~spoilt' => VersionVouches'
  BY DEF TypeOK, VersionVouches, Progress, Writes
<1>6. ~spoilt' => Settled'
  BY DEF TypeOK, Settled, Current, OneAtATime, Progress, Installing, Writes
<1>7. ~spoilt' => Loads'
  BY DEF TypeOK, Loads, Settled, Current, OneAtATime, Progress, Installing
<1> QED
  BY <1>1, <1>2, <1>3, <1>4, <1>5, <1>6, <1>7

LEMMA CopyFailsKeeps ==
  ASSUME IInv, NEW e \in Editors, CopyFails(e)
  PROVE  IInv'
<1> USE ReleaseIs, BuildOrderIs, LibrariesAre DEF IInv, CopyFails, NextFile, Fault, libs, make
<1>1. TypeOK'
  <2>1. faults' \in 0 .. MaxFaults
    BY BoundsAssumption DEF TypeOK
  <2>2. at' \in [Editors -> 1 .. Len(Release)]
    BY DEF TypeOK
  <2> QED
    BY <2>1, <2>2 DEF TypeOK
<1>2. Known'
  BY DEF TypeOK, Known
<1> QED
  BY <1>1, <1>2

LEMMA LoadLibsKeeps ==
  ASSUME IInv, NEW e \in Editors, LoadLibs(e)
  PROVE  IInv'
<1> USE ReleaseIs, BuildOrderIs, LibrariesAre DEF IInv, LoadLibs, Goes, make
<1>1. TypeOK'
  BY DEF TypeOK
<1>2. Known'
  BY DEF Known
<1>3. ~spoilt' => OneAtATime'
  BY DEF TypeOK, OneAtATime, Installing
<1>4. ~spoilt' => Progress'
  BY DEF TypeOK, Progress, Installing
<1>5. ~spoilt' => VersionVouches'
  BY DEF VersionVouches
<1>6. ~spoilt' => Settled'
  BY DEF TypeOK, Settled, Current
<1>7. ~spoilt' => Loads'
  BY DEF TypeOK, Loads, Settled, Current, VersionVouches, OneAtATime
<1> QED
  BY <1>1, <1>2, <1>3, <1>4, <1>5, <1>6, <1>7

LEMMA ExitKeeps ==
  ASSUME IInv, NEW e \in Editors, Exit(e)
  PROVE  IInv'
<1> USE ReleaseIs, BuildOrderIs, LibrariesAre DEF IInv, Exit, Goes, make, Nothing
<1>1. TypeOK'
  BY DEF TypeOK, Absent
<1>2. Known'
  BY DEF TypeOK, Known
<1>3. ~spoilt' => OneAtATime'
  BY DEF TypeOK, OneAtATime, Installing
<1>4. ~spoilt' => Progress'
  BY DEF TypeOK, Progress, Installing
<1>5. ~spoilt' => VersionVouches'
  BY DEF VersionVouches
<1>6. ~spoilt' => Settled'
  BY DEF TypeOK, Settled, Current
<1>7. ~spoilt' => Loads'
  BY DEF TypeOK, Loads
<1> QED
  BY <1>1, <1>2, <1>3, <1>4, <1>5, <1>6, <1>7

LEMMA KillKeeps ==
  ASSUME IInv, NEW e \in Editors, Kill(e)
  PROVE  IInv'
<1> USE ReleaseIs, BuildOrderIs, LibrariesAre DEF IInv, Kill, Fault, Starting, libs, make
<1>1. TypeOK'
  BY BoundsAssumption DEF TypeOK
<1>2. Known'
  BY DEF TypeOK, Known
<1>3. ~spoilt' => OneAtATime'
  BY DEF TypeOK, OneAtATime, Installing
<1>4. ~spoilt' => Progress'
  BY DEF TypeOK, Progress, Installing
<1>5. ~spoilt' => VersionVouches'
  BY DEF VersionVouches
<1>6. ~spoilt' => Settled'
  BY DEF TypeOK, Settled, Current
<1>7. ~spoilt' => Loads'
  BY DEF TypeOK, Loads
<1> QED
  BY <1>1, <1>2, <1>3, <1>4, <1>5, <1>6, <1>7

LEMMA UpdateKeeps ==
  ASSUME IInv, Update
  PROVE  IInv'
<1> USE ReleaseIs, BuildOrderIs, LibrariesAre DEF IInv, Update, libs, nvims, make
<1>1. TypeOK'
  BY BoundsAssumption DEF TypeOK, Versions
<1>2. Known'
  BY DEF TypeOK, Known, Versions, Absent, Partial
<1>3. ~spoilt' => OneAtATime'
  BY DEF OneAtATime, Installing
<1>4. ~spoilt' => Progress'
  BY DEF TypeOK, Progress, Known, Versions, Installing
<1>5. ~spoilt' => VersionVouches'
  BY DEF TypeOK, VersionVouches, Known, Versions
<1>6. ~spoilt' => Settled'
  BY DEF TypeOK, Settled, Current, Known, Versions
<1>7. ~spoilt' => Loads'
  BY DEF TypeOK, Loads, Known, Versions
<1> QED
  BY <1>1, <1>2, <1>3, <1>4, <1>5, <1>6, <1>7

LEMMA BuildStartKeeps ==
  ASSUME IInv, BuildStart
  PROVE  IInv'
<1> USE ReleaseIs, BuildOrderIs, LibrariesAre DEF IInv, BuildStart, Fault, libs, nvims
<1>1. TypeOK'
  BY BoundsAssumption DEF TypeOK
<1>2. Known'
  BY DEF Known
<1>3. ~spoilt' => OneAtATime'
  BY DEF OneAtATime, Installing
<1>4. ~spoilt' => Progress'
  <2> SUFFICES ASSUME ~spoilt' PROVE Progress'
    OBVIOUS
  <2>1. \A e \in Editors : ~Installing(e)
    OBVIOUS
  <2>2. \A k \in 1 .. Len(BuildOrder) : ~(k < made')
    OBVIOUS
  <2> QED
    BY <2>1, <2>2 DEF Progress, Installing
<1>5. ~spoilt' => VersionVouches'
  BY DEF VersionVouches
<1>6. ~spoilt' => Settled'
  BY DEF Settled
<1>7. ~spoilt' => Loads'
  BY DEF Loads
<1> QED
  BY <1>1, <1>2, <1>3, <1>4, <1>5, <1>6, <1>7

LEMMA BuildOpenKeeps ==
  ASSUME IInv, BuildOpen
  PROVE  IInv'
<1> USE ReleaseIs, BuildOrderIs, LibrariesAre DEF IInv, BuildOpen, nvims
<1>1. TypeOK'
  <2>1. CASE BuildOrder[made] = "swimd"
    BY <2>1, UnmappedTypes DEF TypeOK
  <2>2. CASE BuildOrder[made] # "swimd"
    <3>1. BuildOrder[made] \in Files
      BY DEF TypeOK
    <3> QED
      BY <2>2, <3>1, WritesTypes DEF TypeOK
  <2> QED
    BY <2>1, <2>2
<1>2. Known'
  BY DEF TypeOK, Known, Versions, Partial, Writes
<1>3. ~spoilt' => OneAtATime'
  BY DEF OneAtATime, Installing
<1>4. ~spoilt' => Progress'
  BY DEF TypeOK, OneAtATime, Progress, Installing, Writes
<1>5. ~spoilt' => VersionVouches'
  BY DEF VersionVouches
<1>6. ~spoilt' => Settled'
  BY DEF Settled
<1>7. ~spoilt' => Loads'
  <2> SUFFICES ASSUME ~spoilt', NEW e \in Editors, pc[e] = "up", since[e] = plugin
               PROVE  /\ loaded'[e]["swimd"] = plugin
                      /\ \/ loaded'[e]["libgit2"] = plugin
                         \/ made = 2 /\ "libgit2" \in mapped'[e]
    BY DEF Loads
  <2>1. loaded[e]["swimd"] = plugin /\ loaded[e]["libgit2"] = plugin
    BY DEF Loads
  <2>2. CASE made = 3
    BY <2>1, <2>2
  <2>3. CASE made = 2
    BY <2>1, <2>3 DEF TypeOK, Writes
  <2>4. CASE made = 1
    BY <2>1, <2>4 DEF TypeOK, Writes
  <2> QED
    BY <2>2, <2>3, <2>4 DEF TypeOK
<1> QED
  BY <1>1, <1>2, <1>3, <1>4, <1>5, <1>6, <1>7

LEMMA BuildWriteKeeps ==
  ASSUME IInv, BuildWrite
  PROVE  IInv'
<1> USE ReleaseIs, BuildOrderIs, LibrariesAre DEF IInv, BuildWrite, nvims
<1>1. TypeOK'
  <2>1. BuildOrder[made] \in Files
    BY DEF TypeOK
  <2> QED
    BY <2>1, WritesTypes DEF TypeOK
<1>2. Known'
  BY DEF TypeOK, Known, Versions, Writes
<1>3. ~spoilt' => OneAtATime'
  BY DEF OneAtATime, Installing
<1>4. ~spoilt' => Progress'
  BY DEF TypeOK, OneAtATime, Progress, Installing, Writes
<1>5. ~spoilt' => VersionVouches'
  BY DEF TypeOK, VersionVouches, Progress, Writes
<1>6. ~spoilt' => Settled'
  BY DEF TypeOK, Settled, Progress, Writes
<1>7. ~spoilt' => Loads'
  <2> SUFFICES ASSUME ~spoilt', NEW e \in Editors, pc[e] = "up", since[e] = plugin
               PROVE  loaded'[e]["swimd"] = plugin /\ loaded'[e]["libgit2"] = plugin
    BY DEF Loads
  <2>1. loaded[e]["swimd"] = plugin
        /\ (loaded[e]["libgit2"] = plugin \/ (made = 2 /\ "libgit2" \in mapped[e]))
    BY DEF Loads
  <2> QED
    BY <2>1 DEF TypeOK, Writes
<1> QED
  BY <1>1, <1>2, <1>3, <1>4, <1>5, <1>6, <1>7

LEMMA BuildFailsKeeps ==
  ASSUME IInv, BuildFails
  PROVE  IInv'
<1> USE ReleaseIs, BuildOrderIs DEF IInv, BuildFails, libs, nvims
<1>1. TypeOK'
  BY DEF TypeOK
<1>2. Known'
  BY DEF Known
<1> QED
  BY <1>1, <1>2

\* Every step keeps the invariant.
LEMMA StepIInv == IInv /\ [Next]_vars => IInv'
<1> SUFFICES ASSUME IInv, [Next]_vars PROVE IInv'
  OBVIOUS
<1>1. CASE UNCHANGED vars
  BY <1>1 DEF vars, libs, nvims, make, IInv, TypeOK, Known, OneAtATime, Progress,
              VersionVouches, Settled, Current, Loads, Installing
<1>2. ASSUME NEW e \in Editors, Step(e) PROVE IInv'
  BY <1>2, CheckKeeps, CleanKeeps, OpenFileKeeps, WriteFileKeeps, LoadLibsKeeps DEF Step
<1>3. ASSUME NEW e \in Editors, Start(e) \/ CopyFails(e) \/ Exit(e) \/ Kill(e) PROVE IInv'
  BY <1>3, StartKeeps, CopyFailsKeeps, ExitKeeps, KillKeeps
<1>4. CASE Update \/ BuildStart \/ BuildOpen \/ BuildWrite \/ BuildFails
  BY <1>4, UpdateKeeps, BuildStartKeeps, BuildOpenKeeps, BuildWriteKeeps, BuildFailsKeeps
<1> QED
  BY <1>1, <1>2, <1>3, <1>4 DEF Next

-----------------------------------------------------------------------------
\* Whoever installs or builds is alone, or the state is spoilt.
THEOREM Invariance == Spec => []IInv
  BY InitIInv, StepIInv, PTL DEF Spec, SafetySpec

\* The copying stays within the release's files.
THEOREM TypeCorrect == Spec => []TypeOK
<1>1. IInv => TypeOK
  BY DEF IInv
<1> QED
  BY Invariance, <1>1, PTL

\* A version file that matches has whole libraries beside it (init.lua:28, 195).
THEOREM VersionIsTrue == Spec => []VersionVouches
<1>1. IInv => VersionVouches
  BY DEF IInv, VersionVouches
<1> QED
  BY Invariance, <1>1, PTL

\* Until the plugin is updated, what a Neovim has loaded is whole, though it is mapped and
\* others start, install and build (init.lua:28, 56, 210).
THEOREM StaysLoaded == Spec => []LoadedWhole
<1>1. IInv => LoadedWhole
  BY LibrariesAre DEF IInv, Loads, LoadedWhole
<1> QED
  BY Invariance, <1>1, PTL
=============================================================================
