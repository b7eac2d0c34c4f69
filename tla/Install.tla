------------------------------ MODULE Install ------------------------------
(***************************************************************************)
(* How the libraries get into the plugin's build directory: init.lua       *)
(* copies them from the release, when Neovim starts and the version file   *)
(* of the build directory is not that of the plugin; nob.c, the build      *)
(* script, compiles them there.  Neovim may be killed between any two      *)
(* steps, several of them may run, and the plugin may be updated.          *)
(*                                                                         *)
(* A copy truncates its destination when it opens it and has written it    *)
(* when it closes it.  What goes wrong with a copy is reported to nobody.  *)
(*                                                                         *)
(* A library that is loaded is mapped, not copied: a Neovim that is up     *)
(* sees what is written to the file, until the file is removed or replaced *)
(* in the build directory and so becomes its own.                          *)
(***************************************************************************)
EXTENDS Integers, Sequences

CONSTANTS
  Editors,     \* Neovims
  MaxVersion,  \* bound: versions of the plugin
  MaxFaults    \* bound: copies that fail, Neovims that are killed, builds

ASSUME BoundsAssumption == MaxVersion \in Nat \ {0} /\ MaxFaults \in Nat

\* readdir sorts its names; .gitkeep, which is copied too, matters to nobody.
ReleaseX == <<"version", "libgit2", "swimd">>   \* the version first
Release  == <<"libgit2", "swimd", "version">>
Files    == {"libgit2", "swimd", "version"}

Libraries == Files \ {"version"}

\* The order in which the build script makes the files.
BuildOrder == <<"version", "libgit2", "swimd">>

\* What a file holds: a version, or what no version file may say.
Absent  == 0
Partial == -1

Nothing == [f \in Libraries |-> Absent]

VARIABLES
  plugin,  \* the version that is checked out, with its release
  build,   \* the build directory
  pc, at,  \* of each Neovim, and the file of Release that it has come to
  builder, \* the build script's next step
  made,    \* and the file of BuildOrder that it has come to
  loaded,  \* what each Neovim has in its libraries
  mapped,  \* those of them that are still the files in the build directory
  since,   \* history: the plugin's version when each Neovim looked at it
  faults,
  spoilt   \* history: a copy has failed, a build has stopped, or two of them wrote, or one
           \* wrote what another was loading, at once

libs  == <<loaded, mapped>>
nvims == <<pc, at, since>>
make  == <<builder, made>>
vars  == <<plugin, build, libs, nvims, make, faults, spoilt>>

Init ==
  /\ plugin = 1 /\ build = [f \in Files |-> Absent]
  /\ pc = [e \in Editors |-> "down"] /\ at = [e \in Editors |-> 1]
  /\ loaded = [e \in Editors |-> Nothing] /\ mapped = [e \in Editors |-> {}]
  /\ since = [e \in Editors |-> 1]
  /\ builder = "idle" /\ made = 1
  /\ faults = 0 /\ spoilt = FALSE

Goes(e, from, to) == pc[e] = from /\ pc' = [pc EXCEPT ![e] = to]
Fault             == faults < MaxFaults /\ faults' = faults + 1

\* The file that is there is written to, under the Neovims that have it mapped.
Writes(f, v) ==
  /\ build' = [build EXCEPT ![f] = v]
  /\ loaded' = [e \in Editors |->
                  [l \in Libraries |-> IF l = f /\ l \in mapped[e] THEN v ELSE loaded[e][l]]]

\* What is removed stays with the Neovims that have it mapped.
Unmapped(names) == [e \in Editors |-> mapped[e] \ names]

Starting(e)   == pc[e] \notin {"down", "up"}
Installing(e) == pc[e] \in {"clean", "open", "write"}

\* Nobody but e reads the build directory just now, or writes to it.  (A Neovim that is up
\* does neither; what becomes of the libraries it has mapped is in loaded.)
Alone(e) == builder = "idle" /\ \A o \in Editors \ {e} : ~Installing(o) /\ pc[o] # "load"

(* (A definition whose name ends in X is the one after it with a plausible bug: the runs
   use it to show that a property would catch that bug.  No action refers to it.) *)

-----------------------------------------------------------------------------
\* M.setup begins with M.setup_libs, and that with the comparison of versions.
Start(e) ==
  /\ Goes(e, "down", "check")
  /\ UNCHANGED <<plugin, build, libs, at, since, make, faults, spoilt>>

CheckX(e) ==  \* any version will do
  /\ Goes(e, "check", IF build["version"] # Absent THEN "load" ELSE "clean")
  /\ since' = [since EXCEPT ![e] = plugin]
  /\ spoilt' = (spoilt \/ builder # "idle" \/ (pc'[e] = "clean" /\ ~Alone(e)))
  /\ UNCHANGED <<plugin, build, libs, at, make, faults>>

CheckAlwaysX(e) ==  \* installs at every start
  /\ Goes(e, "check", "clean")
  /\ since' = [since EXCEPT ![e] = plugin]
  /\ spoilt' = (spoilt \/ ~Alone(e))
  /\ UNCHANGED <<plugin, build, libs, at, make, faults>>

Check(e) ==
  /\ Goes(e, "check", IF build["version"] = plugin THEN "load" ELSE "clean")
  /\ since' = [since EXCEPT ![e] = plugin]
  /\ spoilt' = (spoilt \/ builder # "idle" \/ (pc'[e] = "clean" /\ ~Alone(e)))
  /\ UNCHANGED <<plugin, build, libs, at, make, faults>>

\* clean_dir removes from the build directory the names that it finds in the current one:
\* any, or none.
Clean(e, names) ==
  /\ Goes(e, "clean", "open")
  /\ build' = [f \in Files |-> IF f \in names THEN Absent ELSE build[f]]
  /\ mapped' = Unmapped(names)
  /\ UNCHANGED <<plugin, loaded, at, since, make, faults, spoilt>>

\* copy_file
OpenFile(e) ==
  /\ Goes(e, "open", "write")
  /\ Writes(Release[at[e]], Partial)
  /\ UNCHANGED <<plugin, mapped, at, since, make, faults, spoilt>>

\* The next file, or the end of copy_folder_content.
NextFileX(e) ==  \* one file too many
  IF at[e] <= Len(Release)
  THEN pc' = [pc EXCEPT ![e] = "open"] /\ at' = [at EXCEPT ![e] = @ + 1]
  ELSE pc' = [pc EXCEPT ![e] = "load"] /\ at' = [at EXCEPT ![e] = 1]

NextFile(e) ==
  IF at[e] < Len(Release)
  THEN pc' = [pc EXCEPT ![e] = "open"] /\ at' = [at EXCEPT ![e] = @ + 1]
  ELSE pc' = [pc EXCEPT ![e] = "load"] /\ at' = [at EXCEPT ![e] = 1]

WriteFile(e) ==
  /\ pc[e] = "write"
  /\ Writes(Release[at[e]], plugin)
  /\ NextFile(e)
  /\ UNCHANGED <<plugin, mapped, since, make, faults, spoilt>>

\* The source or the destination cannot be opened, or cannot be written: the loop goes on.
CopyFails(e) ==
  /\ pc[e] \in {"open", "write"}
  /\ Fault
  /\ NextFile(e)
  /\ spoilt' = TRUE
  /\ UNCHANGED <<plugin, build, libs, since, make>>

\* M.load_libs, and what require("swimd") finds on the path it has set.
LoadLibs(e) ==
  /\ Goes(e, "load", "up")
  /\ loaded' = [loaded EXCEPT ![e] = [f \in Libraries |-> build[f]]]
  /\ mapped' = [mapped EXCEPT ![e] = {f \in Libraries : build[f] # Absent}]
  /\ UNCHANGED <<plugin, build, at, since, make, faults, spoilt>>

Exit(e) ==
  /\ Goes(e, "up", "down")
  /\ loaded' = [loaded EXCEPT ![e] = Nothing]
  /\ mapped' = [mapped EXCEPT ![e] = {}]
  /\ UNCHANGED <<plugin, build, at, since, make, faults, spoilt>>

Kill(e) ==
  /\ Starting(e)
  /\ Fault
  /\ pc' = [pc EXCEPT ![e] = "down"] /\ at' = [at EXCEPT ![e] = 1]
  /\ UNCHANGED <<plugin, build, libs, since, make, spoilt>>

-----------------------------------------------------------------------------
\* The plugin manager checks out a later version.
Update ==
  /\ plugin < MaxVersion
  /\ plugin' = plugin + 1
  /\ spoilt' = (spoilt \/ builder # "idle" \/ \E e \in Editors : Installing(e))
  /\ UNCHANGED <<build, libs, nvims, make, faults>>

\* nob.c copies the version file first, then libgit2, then compiles swimd.
BuildStart ==
  /\ builder = "idle" /\ builder' = "open" /\ made' = 1
  /\ Fault
  /\ spoilt' = (spoilt \/ \E e \in Editors : Installing(e) \/ pc[e] = "load")
  /\ UNCHANGED <<plugin, build, libs, nvims>>

\* nob_copy_file truncates what is there; the linker replaces it.
BuildOpen ==
  /\ builder = "open" /\ builder' = "write"
  /\ IF BuildOrder[made] = "swimd"
     THEN /\ build' = [build EXCEPT !["swimd"] = Partial]
          /\ mapped' = Unmapped({"swimd"})
          /\ UNCHANGED loaded
     ELSE Writes(BuildOrder[made], Partial) /\ UNCHANGED mapped
  /\ UNCHANGED <<plugin, nvims, made, faults, spoilt>>

BuildWrite ==
  /\ builder = "write"
  /\ Writes(BuildOrder[made], plugin)
  /\ IF made < Len(BuildOrder) THEN builder' = "open" /\ made' = made + 1
                               ELSE builder' = "idle" /\ made' = 1
  /\ UNCHANGED <<plugin, mapped, nvims, faults, spoilt>>

\* A copy or the compiler fails, or the script is killed.
BuildFails ==
  /\ builder # "idle" /\ builder' = "idle" /\ made' = 1
  /\ spoilt' = TRUE
  /\ UNCHANGED <<plugin, build, libs, nvims, faults>>

Step(e) ==
  \/ Check(e) \/ (\E names \in SUBSET Files : Clean(e, names))
  \/ OpenFile(e) \/ WriteFile(e) \/ LoadLibs(e)

Next ==
  \/ \E e \in Editors : Start(e) \/ Step(e) \/ CopyFails(e) \/ Exit(e) \/ Kill(e)
  \/ Update \/ BuildStart \/ BuildOpen \/ BuildWrite \/ BuildFails

\* Neovims get on with what they do, and are left and started again some time.
Fairness ==
  /\ \A e \in Editors : WF_vars(Step(e)) /\ WF_vars(Start(e)) /\ WF_vars(Exit(e))
  /\ WF_vars(BuildOpen \/ BuildWrite)

SafetySpec == Init /\ [][Next]_vars
Spec       == SafetySpec /\ Fairness

-----------------------------------------------------------------------------
Versions == 1 .. MaxVersion

TypeOK ==
  /\ plugin \in Versions
  /\ build \in [Files -> Versions \cup {Absent, Partial}]
  /\ pc \in [Editors -> {"down", "check", "clean", "open", "write", "load", "up"}]
  /\ at \in [Editors -> 1 .. Len(Release)]
  /\ builder \in {"idle", "open", "write"} /\ made \in 1 .. Len(BuildOrder)
  /\ loaded \in [Editors -> [Libraries -> Versions \cup {Absent, Partial}]]
  /\ mapped \in [Editors -> SUBSET Libraries]
  /\ since \in [Editors -> Versions]
  /\ faults \in 0 .. MaxFaults /\ spoilt \in BOOLEAN

\* The version file vouches for the libraries, wherever Neovim was killed: whoever finds
\* the plugin's version there need not install.
VersionVouches ==
  ~spoilt /\ builder = "idle" /\ build["version"] = plugin =>
    \A f \in Libraries : build[f] = plugin

\* As long as the plugin is not updated, the libraries of every Neovim that is up are whole
\* and of the plugin's version, although they are mapped and others start, install, are
\* killed, and build.  (After an update the next Neovim to start writes over them.)
LoadedWhole ==
  ~spoilt /\ builder = "idle" => \A e \in Editors : pc[e] = "up" /\ since[e] = plugin =>
    \A f \in Libraries : loaded[e][f] = plugin

\* A new version gets installed some time, though installs are killed, unless a copy fails.
GetsInstalled == plugin = MaxVersion ~> build["version"] = MaxVersion \/ spoilt
=============================================================================
