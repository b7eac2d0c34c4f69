------------------------------ MODULE Scanner ------------------------------
(***************************************************************************)
(* One SwimdScanner of main.c: the index of a workspace that a background  *)
(* thread builds (swimd_scanning_loop_impl) and that Neovim's Lua thread   *)
(* replaces, refreshes, queries and shuts down.                            *)
(*                                                                         *)
(* The two threads meet in three events, one mutex and four volatile       *)
(* flags.  Every access to one of them is a step of its own; statements    *)
(* that touch nothing the other thread can see are folded into the step    *)
(* before them.  The mutex and the events are atomic here.                 *)
(*                                                                         *)
(* Data is abstracted: a workspace path is a member of Paths; a listing    *)
(* (files, folders, files_vec, scores and base_path, which are allocated,  *)
(* published and freed together) is one record that says which path and    *)
(* which version of the file system it shows, how many files it holds,     *)
(* and whether the scan that built it ran to its end.                      *)
(***************************************************************************)
EXTENDS Integers

CONSTANTS
  Paths,       \* the workspace paths setup_workspace is called with
  NULL,        \* C's null pointer
  DANGLING,    \* a pointer to a string that has been freed
  MaxFiles,    \* bound: the files one scan lists
  MaxEdits,    \* bound: the changes made to the file system
  MaxLeaks,    \* bound: no refresh is requested after so many lost indexes
  CallsApart   \* timing assumption, see CancelScan

ASSUME PathsAssumption  == NULL \notin Paths /\ DANGLING \notin Paths /\ NULL # DANGLING
ASSUME BoundsAssumption == MaxFiles \in Nat /\ MaxEdits \in Nat /\ MaxLeaks \in Nat
ASSUME TimingAssumption == CallsApart \in BOOLEAN

VARIABLES
  ui,                        \* where the Lua thread is
  wpc,                       \* where the scanning thread is
  scan_begin, scan_started,  \* auto-reset events
  scan_finished,             \* manual-reset event
  scan_state_swap,           \* the mutex: who holds it
  scan_terminate, scan_cancelled, scan_in_progress, scan_is_refreshing,
  scan_path,                 \* the workspace path, or NULL
  index,                     \* the published listing
  scan_files_count, scan_files_refresh_count,
  job,                       \* the scanning thread's locals: the listing it builds
  seen,                      \* the Lua thread's copy of scan_in_progress
  items,                     \* the Lua thread's copy of scan_files_count
  edits,                     \* the file system's version
  wanted,                    \* history: the version when the last request was taken
  leaked,                    \* history: listings overwritten without being freed
  fault                      \* a freed or never allocated object has been used

events == <<scan_begin, scan_started, scan_finished>>
sync   == <<events, scan_state_swap>>
flags  == <<scan_terminate, scan_cancelled, scan_in_progress, scan_is_refreshing>>
heap   == <<scan_path, index, job, fault>>
counts == <<scan_files_count, scan_files_refresh_count>>
ghosts == <<edits, wanted, leaked>>
locals == <<seen, items>>
data   == <<heap, counts, locals, ghosts>>
vars   == <<ui, wpc, sync, flags, data>>

UiPcs ==
  {"down", "idle", "await_started",
   "setup_wait", "setup_clear", "setup_free", "setup_publish", "setup_begin",
   "refresh_claim", "refresh_mark", "refresh_begin",
   "input_lock", "input_count", "input_progress", "input_refreshing", "input_use",
   "input_unlock", "query_refreshing", "query_scan_count", "query_refresh_count",
   "stop_wait", "stop_clear", "stop_terminate", "stop_begin", "stop_join"}

WorkerPcs ==
  {"none", "wait_begin", "set_started", "reset_finished", "dispatch", "scan",
   "lock_swap", "swap_free", "swap_assign", "unlock_swap",
   "clear_progress", "clear_refreshing", "set_finished", "exited"}

NullIndex  == [st |-> "null",  path |-> NULL, ver |-> 0, len |-> 0, whole |-> TRUE]
FreedIndex == [NullIndex EXCEPT !.st = "freed"]
NoJob      == [root |-> NULL, refreshing |-> FALSE, ver |-> 0, len |-> 0, whole |-> TRUE]

(***************************************************************************)
(* The synchronisation primitives, as their callers see them.              *)
(***************************************************************************)
\* (A definition whose name ends in X is the one after it with a plausible bug: the runs
\* use it to show that a property would catch that bug.  No action refers to it.)
AreWaitX(ev)  == ev /\ ev' = ev                    \* does not consume the signal
MreWaitX(ev)  == ev \in BOOLEAN                    \* does not wait

AreSet(ev)   == ev' = TRUE
AreWait(ev)  == ev /\ ev' = FALSE
MreSet(ev)   == ev' = TRUE
MreReset(ev) == ev' = FALSE
MreWait(ev)  == ev

CritLockX(t)  == scan_state_swap' = t              \* does not exclude
CritLock(t)   == scan_state_swap = "free" /\ scan_state_swap' = t
CritUnlock(t) == scan_state_swap = t /\ scan_state_swap' = "free"

\* What the program does once it has used freed memory is not modelled.
UiGoes(from, to)     == ~fault /\ ui = from /\ ui' = to
WorkerGoes(from, to) == ~fault /\ wpc = from /\ wpc' = to

(***************************************************************************)
(* Freeing.  swimd_scanner_free leaves the freed pointers where they are,  *)
(* so freeing an index that is not live is a fault.                        *)
(***************************************************************************)
ScannerFree ==
  /\ fault' = (index.st # "live")
  /\ index' = FreedIndex

\* The "if (scan_path != NULL)" block of setup and stop.  A scan under way holds
\* the string it was started with.
WorkspaceFreeX ==  \* the index is not freed
  /\ scan_path' = NULL
  /\ job' = IF job.root = NULL THEN job ELSE [job EXCEPT !.root = DANGLING]
  /\ UNCHANGED <<index, fault>>

WorkspaceFree ==
  IF scan_path = NULL
  THEN UNCHANGED <<scan_path, index, job, fault>>
  ELSE /\ ScannerFree
       /\ scan_path' = NULL
       /\ job' = IF job.root = NULL THEN job ELSE [job EXCEPT !.root = DANGLING]

-----------------------------------------------------------------------------
(***************************************************************************)
(* The Lua thread.  Lua calls are synchronous: "idle" is between calls.    *)
(* init.lua follows init with setup_workspace at once, so nothing else is  *)
(* asked of a scanner that has no path.                                    *)
(***************************************************************************)
HasWorkspace == scan_path # NULL

\* swimd_lua_init: the events are created, scan_finished signaled, and the thread starts.
GlobInit ==
  /\ UiGoes("down", "idle")
  /\ wpc' = "wait_begin"
  /\ scan_begin' = FALSE /\ scan_started' = FALSE /\ scan_finished' = TRUE
  /\ scan_state_swap' = "free"
  /\ UNCHANGED <<flags, data>>

\* swimd_scan_setup_path and swimd_scan_thread_stop begin alike: cancel, wait for the
\* scan to finish, take the cancel back.  With CallsApart a setup does not start while
\* the scanning thread is between signaling scan_started and resetting scan_finished.
CancelScan ==
  /\ \/ UiGoes("idle", "setup_wait") /\ (CallsApart => wpc # "reset_finished")
     \/ UiGoes("idle", "stop_wait")
  /\ scan_cancelled' = TRUE
  /\ UNCHANGED <<wpc, sync, scan_terminate, scan_in_progress, scan_is_refreshing, data>>

AwaitFinished ==
  /\ UiGoes("setup_wait", "setup_clear") \/ UiGoes("stop_wait", "stop_clear")
  /\ MreWait(scan_finished)
  /\ UNCHANGED <<wpc, sync, flags, data>>

ClearCancelX ==  \* scan_cancelled stays set
  /\ UiGoes("setup_clear", "setup_free") \/ UiGoes("stop_clear", "stop_terminate")
  /\ UNCHANGED <<wpc, sync, flags, data>>

ClearCancel ==
  /\ UiGoes("setup_clear", "setup_free") \/ UiGoes("stop_clear", "stop_terminate")
  /\ scan_cancelled' = FALSE
  /\ UNCHANGED <<wpc, sync, scan_terminate, scan_in_progress, scan_is_refreshing, data>>

SetupFree ==
  /\ UiGoes("setup_free", "setup_publish")
  /\ WorkspaceFree
  /\ UNCHANGED <<wpc, sync, flags, counts, locals, ghosts>>

SetupPublish(p) ==
  /\ UiGoes("setup_publish", "setup_begin")
  /\ scan_path' = p
  /\ scan_in_progress' = TRUE
  /\ scan_files_count' = 0 /\ scan_files_refresh_count' = 0
  /\ wanted' = edits
  /\ UNCHANGED <<wpc, sync, scan_terminate, scan_cancelled, scan_is_refreshing, index,
                 job, fault, locals, edits, leaked>>

\* swimd_scan_refresh_path: a refresh asked for during a scan is dropped.
RefreshCall ==
  /\ HasWorkspace
  /\ leaked < MaxLeaks
  /\ UiGoes("idle", IF scan_in_progress THEN "idle" ELSE "refresh_claim")
  /\ UNCHANGED <<wpc, sync, flags, data>>

RefreshClaimX ==  \* scan_in_progress is not set
  /\ UiGoes("refresh_claim", "refresh_mark")
  /\ wanted' = edits
  /\ UNCHANGED <<wpc, sync, flags, heap, counts, locals, edits, leaked>>

RefreshClaim ==
  /\ UiGoes("refresh_claim", "refresh_mark")
  /\ scan_in_progress' = TRUE
  /\ wanted' = edits
  /\ UNCHANGED <<wpc, sync, scan_terminate, scan_cancelled, scan_is_refreshing, heap,
                 counts, locals, edits, leaked>>

RefreshMark ==
  /\ UiGoes("refresh_mark", "refresh_begin")
  /\ scan_is_refreshing' = TRUE
  /\ scan_files_refresh_count' = 0
  /\ UNCHANGED <<wpc, sync, scan_terminate, scan_cancelled, scan_in_progress, heap,
                 scan_files_count, locals, ghosts>>

\* Setup and refresh wake the scanning thread and wait for it to answer, stop wakes it
\* and joins it.
Begin ==
  /\ \/ UiGoes("setup_begin", "await_started")
     \/ UiGoes("refresh_begin", "await_started")
     \/ UiGoes("stop_begin", "stop_join")
  /\ AreSet(scan_begin)
  /\ UNCHANGED <<wpc, scan_started, scan_finished, scan_state_swap, flags, data>>

AwaitStartedX ==  \* setup and refresh do not wait for the scan to start
  /\ UiGoes("await_started", "idle")
  /\ UNCHANGED <<wpc, sync, flags, data>>

AwaitStarted ==
  /\ UiGoes("await_started", "idle")
  /\ AreWait(scan_started)
  /\ UNCHANGED <<wpc, scan_begin, scan_finished, scan_state_swap, flags, data>>

StopTerminate ==
  /\ UiGoes("stop_terminate", "stop_begin")
  /\ scan_terminate' = TRUE
  /\ UNCHANGED <<wpc, sync, scan_cancelled, scan_in_progress, scan_is_refreshing, data>>

StopJoinX ==  \* scan_terminate stays set
  /\ UiGoes("stop_join", "down")
  /\ WorkerGoes("exited", "none")
  /\ WorkspaceFree
  /\ UNCHANGED <<sync, flags, counts, locals, ghosts>>

\* The thread is joined; what follows is the Lua thread's alone.
StopJoin ==
  /\ UiGoes("stop_join", "down")
  /\ WorkerGoes("exited", "none")
  /\ scan_terminate' = FALSE
  /\ WorkspaceFree
  /\ UNCHANGED <<sync, scan_cancelled, scan_in_progress, scan_is_refreshing, counts, locals,
                 ghosts>>

\* swimd_scan_process_input: under the mutex it reads the count and two flags, one after
\* the other, and unless the flags say that the first scan is under way it searches the
\* index.
InputCall ==
  /\ HasWorkspace
  /\ UiGoes("idle", "input_lock")
  /\ UNCHANGED <<wpc, sync, flags, data>>

InputLock ==
  /\ UiGoes("input_lock", "input_count")
  /\ CritLock("ui")
  /\ UNCHANGED <<wpc, events, flags, data>>

InputCount ==
  /\ UiGoes("input_count", "input_progress")
  /\ items' = scan_files_count
  /\ UNCHANGED <<wpc, sync, flags, heap, counts, seen, ghosts>>

InputReadProgress ==
  /\ UiGoes("input_progress", IF scan_in_progress THEN "input_refreshing" ELSE "input_use")
  /\ UNCHANGED <<wpc, sync, flags, data>>

InputReadRefreshing ==
  /\ UiGoes("input_refreshing", IF scan_is_refreshing THEN "input_use" ELSE "input_unlock")
  /\ UNCHANGED <<wpc, sync, flags, data>>

InputUse ==
  /\ UiGoes("input_use", "input_unlock")
  /\ fault' = (index.st # "live")
  /\ UNCHANGED <<wpc, sync, flags, scan_path, index, job, counts, locals, ghosts>>

InputUnlock ==
  /\ UiGoes("input_unlock", "idle")
  /\ CritUnlock("ui")
  /\ items' = 0
  /\ UNCHANGED <<wpc, events, flags, heap, counts, seen, ghosts>>

\* swimd_scan_is_refreshing: the answer is scan_in_progress; which count goes with it
\* depends on scan_is_refreshing, read later.
QueryProgress ==
  /\ HasWorkspace
  /\ UiGoes("idle", "query_refreshing")
  /\ seen' = scan_in_progress
  /\ UNCHANGED <<wpc, sync, flags, heap, counts, items, ghosts>>

QueryRefreshing ==
  /\ UiGoes("query_refreshing",
            IF scan_is_refreshing THEN "query_refresh_count" ELSE "query_scan_count")
  /\ UNCHANGED <<wpc, sync, flags, data>>

ReadCount ==
  IF ui = "query_refresh_count" THEN scan_files_refresh_count ELSE scan_files_count

QueryCount ==
  /\ UiGoes("query_scan_count", "idle") \/ UiGoes("query_refresh_count", "idle")
  /\ seen' = FALSE
  /\ UNCHANGED <<wpc, sync, flags, heap, counts, items, ghosts>>

-----------------------------------------------------------------------------
(***************************************************************************)
(* The scanning thread.                                                    *)
(***************************************************************************)
WaitBegin ==
  /\ WorkerGoes("wait_begin", IF scan_terminate THEN "exited" ELSE "set_started")
  /\ AreWait(scan_begin)
  /\ UNCHANGED <<ui, scan_started, scan_finished, scan_state_swap, flags, data>>

SetStartedX ==  \* scan_started is not signaled
  /\ WorkerGoes("set_started", "reset_finished")
  /\ UNCHANGED <<ui, sync, flags, data>>

SetStarted ==
  /\ WorkerGoes("set_started", "reset_finished")
  /\ AreSet(scan_started)
  /\ UNCHANGED <<ui, scan_begin, scan_finished, scan_state_swap, flags, data>>

ResetFinished ==
  /\ WorkerGoes("reset_finished", "dispatch")
  /\ MreReset(scan_finished)
  /\ UNCHANGED <<ui, scan_begin, scan_started, scan_state_swap, flags, data>>

\* swimd_scanner_init or swimd_scanner_refresh is entered.
Dispatch ==
  /\ WorkerGoes("dispatch", "scan")
  /\ job' = [root |-> scan_path, refreshing |-> scan_is_refreshing, ver |-> edits,
             len |-> 0, whole |-> TRUE]
  /\ UNCHANGED <<ui, sync, flags, scan_path, index, fault, counts, locals, ghosts>>

\* The listing function appends an entry, counts it and looks at scan_cancelled.
ScanEntry ==
  /\ WorkerGoes("scan", IF scan_cancelled THEN "lock_swap" ELSE "scan")
  /\ job.len < MaxFiles
  /\ job' = [job EXCEPT !.len = @ + 1, !.whole = ~scan_cancelled]
  /\ IF job.refreshing
     THEN /\ scan_files_refresh_count' = scan_files_refresh_count + 1
          /\ UNCHANGED scan_files_count
     ELSE /\ scan_files_count' = scan_files_count + 1
          /\ UNCHANGED scan_files_refresh_count
  /\ fault' = (job.root \notin Paths)
  /\ UNCHANGED <<ui, sync, flags, scan_path, index, locals, ghosts>>

\* There is nothing more to list, or a phase of the listing is skipped by a cancel.
ScanEnd ==
  /\ WorkerGoes("scan", "lock_swap")
  /\ \E w \in {TRUE, ~scan_cancelled} : job' = [job EXCEPT !.whole = w]
  /\ fault' = (job.root \notin Paths)
  /\ UNCHANGED <<ui, sync, flags, scan_path, index, counts, locals, ghosts>>

LockSwap ==
  /\ WorkerGoes("lock_swap", IF job.refreshing THEN "swap_free" ELSE "swap_assign")
  /\ CritLock("worker")
  /\ UNCHANGED <<ui, events, flags, data>>

\* Only swimd_scanner_refresh frees what it replaces.
SwapFree ==
  /\ WorkerGoes("swap_free", "swap_assign")
  /\ ScannerFree
  /\ UNCHANGED <<ui, sync, flags, scan_path, job, counts, locals, ghosts>>

SwapAssignX ==  \* scan_files_count keeps the count of the listing replaced
  /\ WorkerGoes("swap_assign", "unlock_swap")
  /\ index' = [st |-> "live", path |-> job.root, ver |-> job.ver, len |-> job.len,
               whole |-> job.whole]
  /\ leaked' = IF index.st = "live" THEN leaked + 1 ELSE leaked
  /\ job' = NoJob
  /\ UNCHANGED <<ui, sync, flags, scan_path, fault, counts, locals, edits, wanted>>

SwapAssign ==
  /\ WorkerGoes("swap_assign", "unlock_swap")
  /\ index' = [st |-> "live", path |-> job.root, ver |-> job.ver, len |-> job.len,
               whole |-> job.whole]
  /\ leaked' = IF index.st = "live" THEN leaked + 1 ELSE leaked
  /\ scan_files_count' = IF job.refreshing THEN scan_files_refresh_count
                                           ELSE scan_files_count
  /\ job' = NoJob
  /\ UNCHANGED <<ui, sync, flags, scan_path, fault, scan_files_refresh_count, locals, edits,
                 wanted>>

UnlockSwap ==
  /\ WorkerGoes("unlock_swap", "clear_progress")
  /\ CritUnlock("worker")
  /\ UNCHANGED <<ui, events, flags, data>>

ClearProgressX ==  \* scan_in_progress stays set
  /\ WorkerGoes("clear_progress", "clear_refreshing")
  /\ UNCHANGED <<ui, sync, flags, data>>

ClearProgress ==
  /\ WorkerGoes("clear_progress", "clear_refreshing")
  /\ scan_in_progress' = FALSE
  /\ UNCHANGED <<ui, sync, scan_terminate, scan_cancelled, scan_is_refreshing, data>>

ClearRefreshing ==
  /\ WorkerGoes("clear_refreshing", "set_finished")
  /\ scan_is_refreshing' = FALSE
  /\ UNCHANGED <<ui, sync, scan_terminate, scan_cancelled, scan_in_progress, data>>

SetFinished ==
  /\ WorkerGoes("set_finished", "wait_begin")
  /\ MreSet(scan_finished)
  /\ UNCHANGED <<ui, scan_begin, scan_started, scan_state_swap, flags, data>>

-----------------------------------------------------------------------------
\* Somebody else writes to the workspace's directory.
Edit ==
  /\ ~fault /\ edits < MaxEdits
  /\ edits' = edits + 1
  /\ UNCHANGED <<ui, wpc, sync, flags, heap, counts, locals, wanted, leaked>>

Init ==
  /\ ui = "down" /\ wpc = "none"
  /\ scan_begin = FALSE /\ scan_started = FALSE /\ scan_finished = FALSE
  /\ scan_state_swap = "free"
  /\ scan_terminate = FALSE /\ scan_cancelled = FALSE
  /\ scan_in_progress = FALSE /\ scan_is_refreshing = FALSE
  /\ scan_path = NULL /\ index = NullIndex /\ job = NoJob /\ fault = FALSE
  /\ scan_files_count = 0 /\ scan_files_refresh_count = 0
  /\ seen = FALSE /\ items = 0
  /\ edits = 0 /\ wanted = 0 /\ leaked = 0

\* The calls Lua may start, and the steps that carry a call to its return.
Call == GlobInit \/ CancelScan \/ RefreshCall \/ InputCall \/ QueryProgress

CallStep ==
  \/ AwaitFinished \/ ClearCancel \/ SetupFree \/ \E p \in Paths : SetupPublish(p)
  \/ RefreshClaim \/ RefreshMark \/ Begin \/ AwaitStarted
  \/ StopTerminate \/ StopJoin
  \/ InputLock \/ InputCount \/ InputReadProgress \/ InputReadRefreshing \/ InputUse
  \/ InputUnlock \/ QueryRefreshing \/ QueryCount

WorkerStep ==
  \/ WaitBegin \/ SetStarted \/ ResetFinished \/ Dispatch \/ ScanEntry \/ ScanEnd
  \/ LockSwap \/ SwapFree \/ SwapAssign \/ UnlockSwap
  \/ ClearProgress \/ ClearRefreshing \/ SetFinished

Next == Call \/ CallStep \/ WorkerStep \/ Edit

\* Both threads are scheduled, and the mutex, if it keeps being released, is obtained.
Fairness ==
  /\ WF_vars(CallStep)
  /\ WF_vars(WorkerStep)
  /\ SF_vars(LockSwap)

SafetySpec == Init /\ [][Next]_vars
Spec       == SafetySpec /\ Fairness
=============================================================================
