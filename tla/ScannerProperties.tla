------------------------- MODULE ScannerProperties -------------------------
(***************************************************************************)
(* What is expected of Scanner, and the mapping under which it implements  *)
(* IndexService.                                                           *)
(***************************************************************************)
EXTENDS Scanner

Pointers == Paths \cup {NULL, DANGLING}

IndexType ==
  [st : {"null", "live", "freed"}, path : Paths \cup {NULL}, ver : Nat, len : Nat,
   whole : BOOLEAN]

JobType ==
  [root : Pointers, refreshing : BOOLEAN, ver : Nat, len : Nat, whole : BOOLEAN]

\* Every variable has its type.  In particular a published index never carries the
\* pointer to a freed path.
TypeOK ==
  /\ ui \in UiPcs /\ wpc \in WorkerPcs
  /\ scan_begin \in BOOLEAN /\ scan_started \in BOOLEAN /\ scan_finished \in BOOLEAN
  /\ scan_state_swap \in {"free", "ui", "worker"}
  /\ scan_terminate \in BOOLEAN /\ scan_cancelled \in BOOLEAN
  /\ scan_in_progress \in BOOLEAN /\ scan_is_refreshing \in BOOLEAN
  /\ scan_path \in Paths \cup {NULL}
  /\ index \in IndexType
  /\ job \in JobType
  /\ scan_files_count \in Nat /\ scan_files_refresh_count \in Nat
  /\ seen \in BOOLEAN /\ items \in Nat /\ fault \in BOOLEAN
  /\ edits \in Nat /\ wanted \in Nat /\ leaked \in Nat

-----------------------------------------------------------------------------
(***************************************************************************)
(* Safety                                                                  *)
(***************************************************************************)

\* No thread frees twice, searches a freed or never built index, or lists a freed path,
\* although swimd_scanner_free leaves its pointers dangling and setup frees without the
\* mutex.
MemorySafe == ~fault

\* When setup or shutdown frees a workspace, its index has been built and no scan holds
\* its path: what waiting for scan_started and scan_finished is for (main.c:1705).
Cleaning    == ui = "setup_free" \/ (ui = "stop_join" /\ wpc = "exited")
CleanupSafe == Cleaning /\ HasWorkspace => index.st = "live" /\ job.root = NULL

\* A search runs on the whole listing of the current workspace: never on one that a
\* cancel cut short, and never on the previous workspace's.
AnswersCurrent ==
  ui = "input_use" => index.st = "live" /\ index.whole /\ index.path = scan_path

\* Between calls, scan_in_progress = FALSE says that a listing of the current workspace
\* is in place and that it was begun after the last setup or accepted refresh.
DoneMeansFresh ==
  ui = "idle" /\ HasWorkspace /\ ~scan_in_progress
    => index.st = "live" /\ index.path = scan_path /\ wanted <= index.ver

\* If is_refreshing answers "no", the count that goes with the answer is the number of
\* files listed, whichever counter it is read from; and the count returned with a
\* search's results is that of the listing searched (as long as no index was lost).
CountExact ==
  leaked = 0 =>
    /\ ui \in {"query_scan_count", "query_refresh_count"} /\ ~seen => ReadCount = index.len
    /\ ui = "input_use" => items = index.len

\* No event is set while it is still set: auto-reset events do not count, so a second
\* request (or answer) would be swallowed by the first.
NoLostSignal ==
  /\ ui \in {"setup_begin", "refresh_begin", "stop_begin"} => ~scan_begin
  /\ wpc = "set_started" => ~scan_started

\* Shutdown leaves nothing for the next init to trip over: init starts the thread but
\* resets none of the flags, and the index is gone.
CleanRestart ==
  ui = "down" => /\ wpc = "none"
                 /\ index.st # "live"
                 /\ scan_state_swap = "free"
                 /\ ~scan_terminate /\ ~scan_cancelled
                 /\ ~scan_in_progress /\ ~scan_is_refreshing

\* While a scan is in progress, is_refreshing shows the first scan's count only if the
\* first scan has not completed (main.c:1712).
FirstScanPending == index.st # "live" \/ wpc \in {"unlock_swap", "clear_progress"}
ShowsFirstScan ==
  ui = "query_refreshing" /\ scan_in_progress /\ ~scan_is_refreshing => FirstScanPending

-----------------------------------------------------------------------------
(***************************************************************************)
(* Liveness                                                                *)
(***************************************************************************)

\* Every call returns to Lua: setup waiting for a cancelled scan, setup and refresh
\* waiting for scan_started, process_input waiting for the mutex, shutdown joining.
CallsReturn == ui \notin {"idle", "down"} ~> ui \in {"idle", "down"}

\* Every scan that is in progress ends, even if the picker keeps polling.
ScansEnd == scan_in_progress ~> ~scan_in_progress

-----------------------------------------------------------------------------
(***************************************************************************)
(* Refinement.  A setup or shutdown leaves the workspace as it begins.  A  *)
(* refresh replaces the listing as it frees the old one: the mutex hides   *)
(* the moment in which there is none.                                      *)
(***************************************************************************)
Leaving ==
  ui \in {"setup_wait", "setup_clear", "setup_free", "setup_publish",
          "stop_wait", "stop_clear", "stop_terminate", "stop_begin", "stop_join"}

Shown(path, l) == [path |-> path, ver |-> l.ver, whole |-> l.whole]

wsBar == IF Leaving THEN NULL ELSE scan_path

viewBar ==
  IF wsBar = NULL THEN NULL
  ELSE IF wpc = "swap_assign" /\ job.refreshing THEN Shown(job.root, job)
  ELSE IF index.st = "live" THEN Shown(index.path, index)
  ELSE NULL

Service == INSTANCE IndexService
             WITH None <- NULL, ws <- wsBar, view <- viewBar, clock <- edits, asked <- wanted

\* The scanner does what IndexService promises, answering every request included.
ImplementsService == Service!Spec
=============================================================================
