# swimd in TLA+

swimd is a fuzzy file finder for Neovim: a C library (`src/main.c`) keeps an index of the
workspace that a background thread builds, and two Lua modules (`src/lua/swimd-lua`) load
it, ask it and draw a picker. This directory holds TLA+ modules translated from that code,
TLC configurations that check them, and TLAPS proofs about them.

## 1. The system

| Part | Code | State | Operations |
|---|---|---|---|
| Scanner (two: git, files) | main.c 294-348, 1442-1577, 1652-1731, 1842-1859 | path, index (files, folders, files_vec, scores, base_path), two counters, four flags, three events, one mutex | setup, refresh, is_refreshing, process_input, shutdown; the scanning loop |
| Events, mutex, thread | 75-241 | mutex, condition, flag | set, reset, wait |
| Git listing | 717-1024 | folder tree, file list, cursor | index list, status list, process_path |
| File listing | 551-715 | folder tree, file list, the directories that are open | directory recursion |
| Printing paths | 732-780, 1733-1800 | - | print_path, print_relative |
| Scoring | 1044-1285, 1579-1650 | matrix d_vec, gap tables, lanes | simd_scores |
| Best matches | 1287-1440 | bounded min-heap | insert, cut_head, sort |
| Lua API | 1861-2060 | `swimd_initialized` | the scanner's operations for both scanners, one after the other |
| Plugin | init.lua | refresh timer, build directory with its version file | setup, refresh, install |
| Picker | picker.lua | input, selection, window, timer | open, update, keys, close |
| Build script | nob.c | the build directory | version, libgit2, swimd |
| Logging, scenarios | 423-505, 1801-1841, 2062-2141 | - | - |

**How they interact.** Neovim's only thread makes all Lua calls, so calls never overlap.
Each scanner has one thread of its own. Setup and refresh set `scan_begin` and block until
the thread sets `scan_started`; setup and shutdown cancel a running scan and block on
`scan_finished`; searches and the swap of a new index exclude each other with
`scan_state_swap`; everything else (the flags, the counters, the freeing of an index by
setup) is shared without a lock and relies on the order of the steps. Events and the mutex
are built from pthreads. On the Lua side everything runs on the main thread; timers only queue
callbacks there (`vim.schedule`), so a callback may run after its timer was stopped. Several
Neovims share one build directory, which each of them installs into when the version file
there is not the plugin's.

**What is hard.** The interleavings of the two threads around the three events; flags read
and cleared one at a time; a scan that is cancelled half way and still swaps in what it
has; a thread restarted without its flags being reset; condition variables with spurious
wakeups and a signal sent after the unlock; a tree built incrementally with a depth that is
carried from path to path, or by a recursion that a cancel must leave at every level; heap
boundaries; 16-bit sums in a matrix that is never cleared; callbacks that come late, and a
picker whose state outlives it; an installation that is killed half way.

**What makes each part correct.**
Scanner: nothing is used after it is freed; a search sees a whole listing of the current
workspace; "done" means fresh; counts are exact; calls return; scans end.
Events: no lost wakeup, calls atomic. Listings: printing a file gives the path listed.
A cancelled listing stops. Best matches: the best are kept and shown in order. Scoring: each
file gets the worth of its best alignment, within its bounds, independent of earlier
batches. Lua API and plugin: "refresh completed" is said when both scanners have finished,
and then it is true. Picker: `<CR>` opens what is highlighted, "Scanning" does not stay.
Installation: the version file vouches for the libraries beside it.
The list of hazards, each at its line, is in `PROJECT.json`.

## 2. Modules

| Module | What it is |
|---|---|
| `Scanner` | one scanner and the two threads that share it |
| `IndexService` | what a scanner promises, without threads (abstract) |
| `ScannerProperties` | invariants, liveness, the refinement mapping to `IndexService` |
| `MCScanner` + 4 cfg | instances for TLC |
| `ScannerProofs` | inductive invariant, theorems, refinement |
| `Events` + cfg | both kinds of event from mutex and condition variable |
| `Event` | an atomic event (abstract), the way `Scanner` uses it |
| `EventsProofs` | theorems and refinement |
| `GitTree`, `MCGitTree` + 2 cfg | listing a repository or the directories, the folder tree, printing paths |
| `GitTreeProofs` | the depths fail at merge conflicts only, a cancelled scan stops, no folder is made twice, a file prints as the path listed, a relative path leads to it |
| `Scoring` | the matrix, the lanes, the bounds and the percentages |
| `MCScoring` + cfg | the gap tables of the code, an instance for TLC |
| `ScoringProofs` | scores are the best alignment's, within their bounds, and no sum wraps; an exact match is ahead of all names that are shorter than 30 characters |
| `TopScores` + cfg, `TopScoresProofs` | the heap of the best matches and the final sort |
| `Workspace` + cfg, `WorkspaceProofs` | two scanners behind the Lua API, the refresh command and its timer; each scanner implements `IndexService` |
| `Picker` + cfg, `PickerProofs` | picker.lua |
| `Install` + cfg, `InstallProofs` | installing and building the libraries |

A definition whose name ends in `X` is a mutated form of the definition without the `X`: a
plausible bug that shows which property would catch it. No action refers to one.
(`SHRT_MAX` is C's own name.)

**How they compose.** `Scanner` uses events as `Event` has them, and `Events` implements
`Event`. `Scanner` implements `IndexService`, for one scanner and step by step; `Workspace`
has two scanners of that granularity, and what the API makes of both is again an
`IndexService` for each. `Picker` knows of the scanners what `IndexService` says: a first
scan ends, an answer may change. `Scoring` hands percentages to `TopScores`, for which they
are arbitrary; `Picker` knows the matches by their rank there, and takes from `Scoring`'s
`Percent` that nothing is found for an empty needle.

### Scanner

`ui` and `wpc` say where the Lua thread and the scanning thread are. Every access to a
flag, event, mutex or to the published index is a step of its own; what the other thread
cannot see is folded into a neighbouring step. Actions are named for what the code does:
`CancelScan`, `AwaitFinished`, `ClearCancel` are main.c 1687-1689 and 1657-1659,
`SetupFree`/`SetupPublish`/`Begin`/`AwaitStarted` are 1691-1706, `RefreshCall` to
`RefreshMark` 1722-1727, `StopTerminate`/`StopJoin` 1661-1677, `Input...` 1847-1858,
`Query...` 1710-1718; `WaitBegin` to `SetFinished` are the loop 1525-1542 with
`swimd_scanner_init` and `swimd_scanner_refresh` in it.

* The objects that make up an index are allocated, published and freed together, so
  `index` is one record: state (null, live, freed), workspace, file-system version, number
  of files, and whether its scan ran to the end. `job` is the listing under construction.
* `ScannerFree` faults unless the index is live (the code leaves the freed pointers where
  they are); searching faults likewise, and so does listing a freed path.
* A cancelled scan swaps its partial listing in like a whole one; `ScanEnd` also covers
  the git phases that are skipped when `scan_cancelled` is seen between them.
* `edits` is the version of the file system; it is how freshness is stated. A listing has
  the version at which its scan started: it may contain later changes, and is sure to
  contain the earlier ones.
* Calls other than init, setup and shutdown are made when there is a workspace: init.lua
  calls setup_workspace right after init (5-14).
* `CallsApart` is the one timing assumption; see the finding below.
* Modelled as atomic: events and the mutex (justified by `Events`), one 32-bit counter or
  flag access. The history variables are `wanted`, `leaked`, `edits` and `fault`.

### Events

`auto_reset` says which of the two kinds of event it is; `Init` leaves it open. One thread of
`Setters` or `Waiters` per caller. `pthread_cond_wait` releases the mutex and sleeps in one
step (`Sleep`), may wake up spuriously (`SpuriousWakeup`) and must get the mutex back
(`Relock`) before the loop tests the flag again. An auto-reset event unlocks, then signals
one sleeper; a manual-reset event broadcasts, then unlocks.

### GitTree

Paths are sequences of segments. `Process` is the beginning of `swimd_process_path`: how
much of the path is shared with the one before, how far up to go, what is left;
`EnterFolder`, `MakeFolder` and `AppendFile` are the turns of its loop. `GoUp` climbs from the
cursor a counted number of folders, as the code's loop does. Each entry of `Universe` is
indexed, untracked or absent, and libgit2 may find no repository or fail at the start of either
list. `PrintPath` and `PrintRelative` are what the printing functions
compute on segments.

The `Walk...` actions are `swimd_list_files_linux`: the recursion is `stack`, whose top is the
innermost open directory with the entries still to come, in any order; `opendir` may fail,
and an entry may be of a kind that is left out. `scan_cancelled` is looked at after each file
and when a recursive call returns (`Rest`, `WalkUp`). In one behaviour the tree is made by
libgit2's lists or by the walk; both fill the same structures.

libgit2 sorts what it lists (`OrderAssumption`). In a merge conflict the index lists a path once
per stage, which `AppendFile` allows by staying where it is, and it may have a file and a
directory of one name. The depths that are carried from path to path do not allow for either:

* A path that shares all of its segments with the one before it makes
  `swimd_path_skip_folder_count` (791-800) run past its end: `pc` is "overrun". The run
  `git_conflict` shows it (`InBounds`).
* After a file `a`, the path `a/b` shares a segment that is not a folder; `up_count` is negative,
  the cursor stays where it is, and `b` is put beside `a`: `pc` is "astray".

Nothing is modelled of what follows. `OnlyConflictsStray` is what the code does achieve: without
such a conflict neither happens, whatever is indexed, untracked or missing. That the untracked
files have no such pair is a guard (`Untracked`), since they are all there at once.

Two assumptions are about names: nothing is called `..` (`NamesAssumption`; libgit2
refuses such paths, and the walk leaves the entry out), and the directory Neovim was
started in is not one of the files (`DirsAssumption`).

`RelativeLeadsToFile` reads a printed path the way a shell does (`Follow`): its leading `..` go
up, the rest goes down. It also says that no fewer `..` would have done.

### Scoring

`d` is `d_vec` with a number for each lane. `Init` writes its border as `swimd_d_vec_init`
does; nothing else is ever initialised, so a search finds in it what earlier batches and
searches have left. `FillCell` is a turn of the inner loop for all lanes at once, with the
two rewards added as the code's masks add them; `NextRow`, `Collect` and `Rank` are the ends
of the loops. Sums wrap at 16 bits (`Add`). Letters are codes, 0 pads a shorter name, and a
batch's columns go as far as its longest name. The contents of malloc'ed scores are a value
unlike any score (`Unwritten`).

`Percent` is `swimd_top_scores` up to the threshold; since C's doubles may round a whole
quotient to just below it, it is the set of what may come out. Dividing by zero (nothing
typed) is modelled as x64 has it. `StringsAssumption` says that strings fit the matrix,
which nothing in the code checks (see 6).

The repository's README calls the algorithm Smith-Waterman's, which looks for the best local
alignment and has no score below zero. The code charges the border of the matrix and everything
left over of either string, and reads the score where both end: a global alignment
(Needleman-Wunsch). The percentages and the bounds of `swimd_score_minmax` rely on that, and it
is what is modelled.

`Best` is the reference, independent of the recurrence: the maximum of `Worth` over all
`Alignments`. An alignment pairs characters of the needle with characters of the name, in
the order of both; its worth is a sum over the needle's characters (`NeedleWorth`: a pair's
rewards, or the cost of being left over at that position) and one over the name's
(`NameWorth`: the cost of those left over). `MCScoring` has the gap tables as the code builds
them from `GAP_PENALTY`; TLC evaluates there (`RealTables`) that the program's own tables,
300 long, meet the assumptions of `Scoring` that the proofs use.

### TopScores

One turn of a loop is a step: `InsertFirst`/`InsertLow`/`InsertCut`/`InsertLast` are the
four ways through `swimd_scores_heap_insert`, `SiftDown` is the loop of `cut_head`,
`SiftUp` that of `insert`. `Rank` stands for qsort with ties in any order followed by the
reversal in `swimd_process_input`. Scores are arbitrary.

### Workspace

`call` and `at` say which call the main thread is in and which scanner its loop has come to:
each scanner's part of a call is a step, and the scans go on between these. Of a scan two
steps are left: `Publish`, the swap of the new listing, and `Finish`, when
`scan_in_progress` is cleared. `view` and `asked` are versions of the file system, as in
`Scanner`. A timer that fires queues a callback (`TimerFires`), which runs some time
later (`Callback`), if need be after `StopRefreshTimer`. Commands are `setup` (called again
with another directory, too) and `refresh`.

### Picker

A key, a command or a callback is a step; `Update` is `M.update` with all it calls: the
answer, `update_display_window`, `draw_lines`, highlighting, starting or stopping the timer.
Matches are numbers, the lines drawn are the numbers shown. `input`, `selected` and the
window's position live in the module table, so `Open` begins with those of the last picker;
it clears the prompt but searches for the last input. Two failures are modelled: drawing
when the buffer is gone, and highlighting a line that is not there, each of which ends
`update` where it happens (`HighlightFails`).

### Install

`build` says what each file of the build directory holds: a version, nothing, or a part. Each
Neovim goes through `Check`, `Clean`, then `OpenFile`/`WriteFile` per file, then `LoadLibs`;
it may be killed at any step, a copy may fail without anybody noticing (`CopyFails`), and the
plugin may be updated. `readdir` sorts, so the version file comes last. `nob.c` writes the
version file first, and may stop after it. `clean_dir` lists the current directory instead
of the build directory (185-193), so it removes any files of the build directory that happen
to have the names of files there: `Clean` removes an arbitrary subset.

A loaded library is a mapped file. `copy_file` truncates it in place (210), so `Writes` changes
`loaded` for every Neovim that still has the file mapped; what is removed by `Clean`, or
replaced by the linker, stays with those that had it (`Unmapped`). `since` is the plugin's
version that a Neovim has seen when it started.

`spoilt` is a history variable: a copy has failed, a build has stopped, or two processes wrote,
or one wrote what another was about to load, at once, none of which the code handles. The
properties say nothing of such histories. What they do show is that kills are harmless, and
that, until the plugin is updated, no Neovim writes over the libraries of one that is up (a build
does, with the same, and while it is at it nothing is said). After an update the next Neovim to
start does write over them, which is why `LoadedWhole` is about
the Neovims of the current version.

## 3. Runs

| Run | Checks | Instance | Result |
|---|---|---|---|
| `scanner_safety` | 8 invariants | 2 workspaces, 2 files a scan, 2 edits, `CallsApart` | hold, 113 000 states |
| `scanner_live` | `CallsReturn`, `ScansEnd`, `ImplementsService` | 2 workspaces, 1 file, 1 edit | hold |
| `scanner_cleanup` | `CleanupSafe` without `CallsApart` | 2 workspaces, 1 file | **violated** |
| `scanner_firstscan` | `ShowsFirstScan` | 2 workspaces, 1 file | **violated** |
| `events` | `TypeOK`, `NoLostWakeup`, `ImplementsEvent` | both kinds, 2 setters, 3 waiters | hold, 7 200 states |
| `git_tree` | `TypeOK`, `OnlyConflictsStray`, `RoundTrip`, `FoldersShared`, `CancelStops`, `RelativeLeadsToFile` | 7 paths, 4 working directories | hold, 44 000 states |
| `git_conflict` | `InBounds` | the same | **violated** |
| `scoring` | `TypeOK`, `ScoreIsBest`, `WithinBounds`, `ExactOnTop` | 3 indexes, 6 needles, 2 lanes | hold, 39 000 states |
| `top_scores` | `TypeOK`, `BestKept`, `RankedBest` | 5 results, 7 files, 3 scores | hold, 784 000 states |
| `workspace` | `TypeOK`, `CompletedMeansCurrent`, `RefreshReported`, `ImplementServices` | 2 workspaces, 2 setups, 2 refreshes, 1 edit | hold, 40 000 states |
| `picker` | `TypeOK`, `EnterOpensHighlighted`, `ScanningIsPolled`, `ScanShown`, `TimerStops` | 2 pickers, up to 4 matches, windows of 2 and 3 lines | hold, 171 000 states |
| `install` | `TypeOK`, `VersionVouches`, `LoadedWhole`, `GetsInstalled` | 2 Neovims, 2 versions, 2 faults | hold, 500 000 states |

**Bounds.** Two workspaces are enough to tell "the current" from "another" one, and setups
repeat without bound in `Scanner`. Two files let a cancel come before, between and after
them; two edits let one fall before and one during or after a scan. `MaxLeaks` bounds the
only unbounded growth the code has (see below): no refresh is asked for after so many lost
indexes. Seven files and five results fill a heap of three levels and may replace its root twice. Two
setters and three waiters let a wakeup meet a waiter that has overtaken it. The seven paths
share and do not share folders to a depth of three, have a file and a directory of one name,
and include the untracked nested repository that libgit2 lists as `dir/`; each may be in the
index more than once. Three names in two lanes make a full and a partial
batch; a shorter needle or list after a longer one leaves the larger matrix behind; the
names have the same letters in either case, a character with no case, and nothing at all.
Two refreshes let one be dropped by a busy scanner, and two queued callbacks let one outlive
its timer, in `workspace` and `picker`. Four matches in a window of two or three let the
window move both ways and matches get fewer than its position. Two Neovims and two faults
let one be killed, and another, or itself, come back to what it has left.

**Symmetry** is used in the scanner's safety runs only, on workspace paths, which are only
compared. **Deadlock** is checked except where the system stops: after the last file
(`top_scores`), the last list (`git_tree`, `git_conflict`), the last command (`workspace`, whose commands
are bounded) and after a fault (the two violation runs of `Scanner`).

**Fairness.** `Scanner`: weak for each thread, because the operating system schedules both
(nothing obliges Lua to start a call, nor anybody to edit files), and strong for the
scanning thread's taking of the mutex, which the picker takes and releases again and again.
The last is an assumption: pthreads do not promise that a waiter is served, and without it a
search after every other could starve the swap.
`Events`: the same, weak for every step of a thread in a call and strong for taking the
mutex; spurious wakeups are never relied on. `Workspace` and `Picker`: weak for the steps of a
call, for the timer's firing (uv timers repeat) and for the queue of callbacks, which the
main thread works off when it is idle; weak for the end of a scan, which is what `Scanner`
shows (`ScansEnd`); none for the user. `Install`: weak for a Neovim's next step, for its being
left and started again, and for the build script's next step; none for updates, kills and
failures, which are bounded.

### What does not hold

1. *Cleanup during the start of a scan* (`scanner_cleanup`). The thread sets `scan_started`
   (1530) before it resets `scan_finished` (1532). A second `setup_workspace` in that window
   does not wait, frees an index that is not built (or is in use) and the path that the scan
   is about to read, against the comment at 1705. Shutdown in the window is safe, since it
   joins the thread, but its cancel may be lost and it then waits for the whole scan.
   `CallsApart` excludes that window for setup; all other results are under it. It is
   realistic (init.lua calls setup once; between two calls Lua executes and the thread has
   one more statement to go), but nothing in the code enforces it.
2. *A refresh taken for a first scan* (`scanner_firstscan`). The thread clears
   `scan_in_progress` (1539) before `scan_is_refreshing` (1540). A refresh accepted between
   them sets both and loses the second: it runs as `swimd_scanner_init`, which does not free
   the old index (a leak), adds to `scan_files_count` instead of starting from zero, and is
   reported as the first scan, against the comment at 1712. `CountExact` is therefore
   stated for histories without such a leak; memory safety and freshness hold anyway.
3. *A merge conflict* (`git_conflict`). The index lists a file in conflict once per stage
   (911-922). The second copy shares all of its segments with the first, and
   `swimd_path_skip_folder_count`, which has no test for the end of the string, reads on behind
   it (828). The same depth misplaces `a/b` after a file `a` (see GitTree above).

Besides, the properties of `Install` say "unless spoilt", and those of `Picker` hold although
a failing highlight skips the timer; see the hazards in `PROJECT.json` for what is left.

## 4. Proofs

All theorems hold for every value of the constants that meets the named assumptions;
those about `Scanner` assume `CallsApart`. Each proof module has an inductive invariant
`IInv`, a lemma per action (or per part of the invariant, in `ScannerProofs`) and the
theorems at its end. `ScoringProofs` and `GitTreeProofs` have a second one on top of it,
`BestInv` and `PathInv`, for what the numbers and the tree mean. Every safety invariant that a
passing run checks is stated by a theorem.

`ScannerProofs`. The invariants checked by `scanner_safety` are not inductive: whether a
setup frees a live index depends on where the scanning thread is, which depends on which
events are set, which depends on the flags and on where the Lua thread is. `IInv` says all
of that: `ThreadInv` (the handshake: which pairs of places are possible and which events are
set then), `FlagInv` (each flag as a function of the places), `LockInv`, `IndexInv` (there
is a live index except while a first scan is pending or running), `JobInv`, `WholeInv` (a
listing that was cut short exists only until the setup or shutdown that cut it frees it),
`FreshInv` (order of versions), `CountInv`, `ReadInv` (what a call has read is still true
when it acts on it). One lemma per part shows that every action preserves it.
Theorems: `TypeCorrect`, `MemoryIsSafe`, `CleanupIsSafe`, `AnswersAreCurrent`,
`DoneIsFresh`, `CountIsExact`, `NoSignalIsLost`, `RestartIsClean`, and `RefinesService`: every
behaviour is one of `IndexService`'s safety part. The mapping lets a setup or shutdown leave
the workspace when it begins, and a refresh replace the listing when it frees the old one,
since the mutex hides the moment in between.

`EventsProofs`. `TypeOK` (with the ownership of the mutex) and `NoLostWakeup` are inductive
together, for any sets of setters and waiters; `RefinesEvent` maps every step to a step of
`Event` or to none.

`ScoringProofs`. The matrix is never cleared, so the invariant speaks only of the border
(`BorderInv`) and of the cells that the current batch has filled (`FillInv`): each lies between
`Lo` and `Hi`, what `swimd_score_minmax` would compute for the lengths that end there. That a
cell's bounds follow from those of its three neighbours needs that gap costs fall with the
position (`GapAssumption`), which is what makes the bounds true at all; that no sum leaves
16 bits follows from the bounds (`NeverWraps`: of the sums as integers, since `Add` wraps them).
`ScoresWithinBounds` is the assertion at main.c:1407.

`BestInv` says that every cell filled so far holds the best worth of the two beginnings that
meet there (`BestCells`), and every score collected the best of its file (`BestScores`). "Best"
is stated as a value which some alignment attains and none exceeds (`IsBest`), from which the
maximum follows. The step is `BestStep`. In an alignment of two beginnings the last characters
are a pair, or one of them is left over (`LastPair`); so it is an alignment of shorter
beginnings with one pair or gap more, whose worths differ by exactly the terms that the
code adds (`WorthsAre`, `LastPaired`, `NeedleLeft`, `NameLeft`). The border is the alignment
without pairs (`BestBorder`). The matrix computes in 16 bits and the reference in integers,
so each step needs `NoWrap`, that is, the bounds of `IInv`. Cells beyond a name's end hold
something else, about which `BestCells` says nothing: the file's score is read at the name's
own last column. `ScoresAreBest` follows; that scores do not depend on earlier batches is
part of it.

A sum is a recursive function, of which the prover knows nothing, not even that it exists;
that it does, and adds its numbers up (`Totals`, `AddsUp`), is shown by a least-number argument
(`LeastNumber`, `Counting`: a set that has 0 and with a number the next is all of Nat; it takes
the set, not a predicate, and so can be cited). `ExactFirst`: the alignment of a name with itself
attains the maximum of `swimd_score_minmax` (`Identity`), and no alignment with another name of
its length does, since each character can earn the strict reward only by a pair with its like
(`PrefixesEarn`, `OnlyItself`); a score below the maximum makes less than 100 (`QuotientBelow`).
A name of another length loses at least one percent, as long as neither string has 30 characters
(`QuotientAbove`, `PercentIs`); from there on main.c:1411 may truncate the loss to 0.

`TopScoresProofs`. During a sift one place is out of order, towards its children or towards
its parent, and the two are in order with each other (`HeapInv`). What was turned away is no
better than anything held (`AwayInv`): the code compares with the root only, so the proof
needs that the root of a heap is its least item. By induction it would follow at once; here
it is proved by the least counterexample (`LeastNumber`, from the library's theorem that
numbers are well-founded): the least slot better than the root has a parent that is no
better than itself, so that the parent is a smaller one. `KeepsBest`, `RanksBest`, `StaysHeap`,
`TypeCorrect` follow.

`GitTreeProofs`. The walk makes a folder without looking for one. That there is none follows
from `WalkInv`: the open directories have distinct folders, and a child of one of them has a
name that is not to come any more. A folder just made has a number that is nobody's parent.
`StopInv` says that after a late file nothing is to come of the list or the innermost
directory, from which `StopsWhenCancelled` follows for any depth. `StraysAtConflicts` has an
invariant of its own (`CursorInv`): what the path in hand shares with the one placed last is less
than all of its segments (`Behind`: the list is sorted) unless it is that path again, and no
deeper than the cursor unless it goes on below it. That the longest
common prefix exists at all, it being defined by CHOOSE, is a least-number argument again.

`PathInv` gives each folder the path from the root (`IsPaths`: the parent's path and one
name more). With it every file's folder and name make up a path that was listed (`FilesAt`),
the cursor's path and depth are those of the file placed last (`CursorAt`), the path in hand
is split into what the folder has and what is left (`PlaceAt`), and the open directories' paths
are each the beginning of the next (`StackAt`). That climbing n folders takes n names off the
path (`GoesUp`), and that printing a file puts them all back (`Prints`), are inductions with
`Counting`. `RoundTrips` and `TypeCorrect` follow; `RelativeLeads` takes from `RoundTrips` that
what is printed is a listed path, and from the maximality of the shared beginning both that
the path leads there and that it goes up no further than it must.

`WorkspaceProofs`. What a query has found idle stays idle, because Lua calls do not overlap
(`QueryInv`), and a scanner that is idle and has a workspace has what it was asked for
(`Valid`). `RefinesServices`: each step of the two scanners behind the loops is a step of
`IndexService` for one of them and a stutter for the other.

`PickerProofs`. All that an open picker does to its list is an `Update`; one lemma says what
an `Update` leaves behind whatever it finds (the window holds the selection, the selection's
line is drawn and highlighted, or the highlight failed), and every action is an instance.

`InstallProofs`. `Progress` says which files are of the plugin's version at each step of an
installation or a build; that the version file is not, until the end, makes a kill
harmless. `Settled` says that while a Neovim of the plugin's version is up the version file is
that version's, so that none that starts installs over the libraries it has mapped: from this
`StaysLoaded`. A build may, for a while (`Loads`). `OneAtATime` is what "not spoilt" means.

**Only model-checked**: liveness (`CallsReturn`, `ScansEnd`, `ScanShown`, `TimerStops`,
`RefreshReported`, `GetsInstalled`) and the fairness parts of the refinements (`ImplementsService`,
`ImplementsEvent`, `ImplementServices`): the
prover handles neither fairness nor ENABLED. Nor could an induction theorem with a predicate
as parameter be cited, which is why the inductions above are over sets.

## 5. Plan

1. Done: `Scanner`, `IndexService`; `Events`; `TopScores`; `GitTree` with both listings;
   `Scoring`; `Workspace`; `Picker`; `Install`; a proof module for each; a theorem for every
   safety invariant of a run and for the safety part of every refinement.
2. Left: statements beyond the runs' invariants, such as that a listing not cancelled has
   every file exactly once; the Windows walk beside the Linux one, should they come to
   differ; a rollback of the plugin in `Install`, should the code come to handle one; what a tree
   looks like after a merge conflict; lengths in characters, once the code has checks to model.

## 6. Not modelled

* libgit2 and its headers (`src/libgit2`), which are a third party's and most of the source
  tree's lines; what the listing calls of it is an action's choice. nob.h, the build
  library, likewise, and the compilers' command lines in nob.c.
* The Windows build: events map to kernel objects, `swimd_list_files_win32` has the same loop
  over another API.
* What the tree becomes after a path that is read past its end or put astray (a merge
  conflict).
* Logging, which no other part reads, and `main` with its manual scenarios.
* Memory exhaustion, and lengths in characters: buffers and tables of 300 that nothing checks
  (paths at main.c:638, names and the needle at 1213). What lies behind them cannot be
  said.
* Symbolic links between the working directory and the repository, and bare repositories
  (main.c:1007).
* A picker opened over an open one: what becomes of its windows is decided by Neovim.
* A plugin that is rolled back: versions only grow in `Install`.

Reads of a flag or counter while the other thread writes it are data races in C; the flags
are volatile and one word wide, and the builds produced read an old or a new value, as the
model does.
