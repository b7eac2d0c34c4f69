--------------------------- MODULE ScannerProofs ---------------------------
(***************************************************************************)
(* Proofs about Scanner, for every value of its constants.                 *)
(*                                                                         *)
(* Everything follows from one inductive invariant, IInv: where each       *)
(* thread may be while the other is somewhere (ThreadInv), who holds the   *)
(* mutex (LockInv), whether there is an index (IndexInv), what the         *)
(* scanning thread holds (JobInv), how old listings are (FreshInv), what   *)
(* the counters count (CountInv) and what a call has read (ReadInv).       *)
(***************************************************************************)
EXTENDS ScannerProperties, TLAPS

-----------------------------------------------------------------------------
(***************************************************************************)
(* The inductive invariant.                                                *)
(***************************************************************************)

\* The Lua thread has claimed the next scan and the scanning thread has not seen it.
Pending ==
  \/ ui \in {"setup_begin", "refresh_mark", "refresh_begin"}
  \/ ui = "await_started" /\ scan_begin

Cancelling == {"setup_wait", "setup_clear", "stop_wait", "stop_clear"}

\* The scanning thread before its scan, while it holds a job, and until it says it is done.
Starting == {"set_started", "reset_finished", "dispatch"}
Working  == {"scan", "lock_swap", "swap_free", "swap_assign"}
Busy     == Starting \cup Working \cup {"unlock_swap", "clear_progress"}

Resting == {"wait_begin", "set_finished", "clear_refreshing"}

\* Where one thread may be while the other is somewhere, and which events are set then.
\* A setup that waits finds the scanning thread outside the window between the two events.
ThreadInv ==
  /\ wpc = "none" <=> ui = "down"
  /\ wpc = "exited" => ui = "stop_join" /\ ~scan_begin
  /\ ui = "stop_join" => scan_begin \/ wpc = "exited"
  /\ scan_begin => ui \in {"await_started", "stop_join"}
  /\ scan_started => ui = "await_started" /\ ~scan_begin /\ wpc # "set_started"
  /\ wpc = "set_started" => ui = "await_started" /\ ~scan_begin
  /\ ui = "await_started" => scan_begin \/ scan_started \/ wpc = "set_started"
  /\ ui # "down" =>
       (scan_finished <=> wpc \in {"wait_begin", "set_started", "reset_finished", "exited"})
  /\ ui = "setup_wait" => wpc # "reset_finished"
  /\ ui \in {"setup_clear", "setup_free", "setup_publish", "setup_begin"}
       => wpc = "wait_begin"
  /\ Pending \/ ui = "refresh_claim" => wpc \in Resting

\* Each flag says where the threads are.
FlagInv ==
  /\ scan_terminate <=> ui \in {"stop_begin", "stop_join"}
  /\ scan_cancelled <=> ui \in Cancelling
  /\ scan_in_progress <=> Pending \/ wpc \in Busy
  /\ scan_is_refreshing =>
       \/ ui = "refresh_begin"
       \/ ui = "await_started" /\ scan_begin
       \/ wpc \in Busy \cup {"clear_refreshing"}

\* The mutex is held by the thread that is between taking and releasing it.
LockInv ==
  /\ scan_state_swap = "ui" <=>
       ui \in {"input_count", "input_progress", "input_refreshing", "input_use",
               "input_unlock"}
  /\ scan_state_swap = "worker" <=> wpc \in {"swap_free", "swap_assign", "unlock_swap"}

IndexLive == index.st = "live"

\* There is an index unless the first scan of a workspace is pending or under way, and it
\* is of the current workspace.
IndexInv ==
  /\ ui = "down" => scan_path = NULL
  /\ scan_path = NULL =>
       /\ ~IndexLive
       /\ wpc \in {"none", "wait_begin", "exited"}
       /\ ui \in {"down", "idle"} \cup Cancelling \cup
                 {"setup_free", "setup_publish", "stop_terminate", "stop_begin", "stop_join"}
  /\ ui = "setup_publish" => scan_path = NULL
  /\ HasWorkspace /\ ~IndexLive =>
       Pending \/ wpc \in Starting \cup Working
  /\ ui \in {"refresh_claim", "refresh_mark", "input_use"} => IndexLive
  /\ scan_is_refreshing /\ wpc # "swap_assign" => IndexLive
  /\ IndexLive => index.path = scan_path

\* What the scanning thread is working on is the current workspace; a refresh has an index
\* to replace until it frees it.
JobInv ==
  /\ wpc \in Working => job.root = scan_path
  /\ wpc \notin Working => job = NoJob
  /\ job.refreshing /\ wpc # "swap_assign" => IndexLive
  /\ wpc = "swap_free" => job.refreshing

Kept == {"setup_free", "stop_terminate", "stop_begin", "stop_join"}

\* A listing cut short exists only while setup or shutdown is waiting to free it.
WholeInv ==
  (IndexLive /\ ~index.whole) \/ ~job.whole => ui \in Cancelling \cup Kept

\* Requests, scans and listings follow one another in time.
FreshInv ==
  /\ wanted <= edits
  /\ wpc \in Working => wanted <= job.ver /\ job.ver <= edits
  /\ IndexLive => index.ver <= edits
  /\ IndexLive /\ wpc \in Working => index.ver <= job.ver
  /\ IndexLive /\ ~Pending /\ wpc \notin Starting \cup Working => wanted <= index.ver

Marked    == ui = "refresh_begin" \/ (ui = "await_started" /\ scan_begin)
FirstScan == wpc \in Working /\ ~job.refreshing

\* What the two counters count, as long as no index has been lost.
CountInv ==
  /\ leaked = 0 =>
       /\ FirstScan /\ ~IndexLive => scan_files_count = job.len
       /\ HasWorkspace /\ ~IndexLive /\ wpc \notin Working => scan_files_count = 0
       /\ IndexLive /\ ~FirstScan => scan_files_count = index.len
  /\ wpc \in Working => (job.refreshing <=> scan_is_refreshing)
  /\ wpc \in Working /\ job.refreshing => scan_files_refresh_count = job.len
  /\ scan_is_refreshing /\ (Marked \/ wpc \in Starting) => scan_files_refresh_count = 0
  /\ scan_is_refreshing /\ ~Pending /\ wpc \in {"unlock_swap", "clear_progress",
                                              "clear_refreshing"}
       => scan_files_refresh_count = index.len

\* What a call has read of the flags and counters still holds when it uses it.
ReadInv ==
  /\ ui \in {"query_refreshing", "query_scan_count", "query_refresh_count"} /\ ~seen
       => ~scan_in_progress
  /\ ui = "query_refresh_count" /\ ~seen => scan_files_refresh_count = index.len
  /\ ui \in {"input_progress", "input_refreshing", "input_use"}
       => items = scan_files_count \/ FirstScan
  /\ ui = "input_use" => (~scan_in_progress \/ scan_is_refreshing)

IInv ==
  /\ TypeOK /\ ~fault
  /\ ThreadInv /\ FlagInv /\ LockInv /\ IndexInv /\ JobInv /\ WholeInv /\ FreshInv
  /\ CountInv /\ ReadInv

-----------------------------------------------------------------------------
(***************************************************************************)
(* Every step preserves it.  Steps that cannot disturb the part at hand    *)
(* share a case.                                                           *)
(***************************************************************************)

\* The handshake: who waits for whom while a request travels to the scanning thread.
LEMMA ThreadStep ==
  ASSUME CallsApart, IInv, [Next]_vars
  PROVE  ThreadInv'
<1> USE DEF IInv, ThreadInv, FlagInv, Pending, Busy, Starting, Working, Resting, events,
            sync, flags, heap, counts, locals, ghosts, data
<1>1. CASE GlobInit
  BY <1>1 DEF GlobInit, UiGoes
<1>2. CASE CancelScan \/ AwaitFinished \/ ClearCancel
  BY <1>2 DEF CancelScan, UiGoes, AwaitFinished, MreWait, ClearCancel
<1>3. CASE SetupFree \/ (\E p \in Paths : SetupPublish(p))
  BY <1>3 DEF SetupFree, UiGoes, WorkspaceFree, ScannerFree, SetupPublish
<1>4. CASE RefreshCall
  BY <1>4 DEF RefreshCall, UiGoes, HasWorkspace, TypeOK, WorkerPcs
<1>5. CASE RefreshClaim \/ RefreshMark
  BY <1>5 DEF RefreshClaim, UiGoes, RefreshMark
<1>6. CASE Begin
  BY <1>6 DEF Begin, AreSet, UiGoes
<1>7. CASE AwaitStarted
  BY <1>7 DEF AwaitStarted, AreWait, UiGoes
<1>8. CASE StopTerminate \/ StopJoin
  BY <1>8 DEF StopTerminate, UiGoes, StopJoin, WorkerGoes, WorkspaceFree, ScannerFree
<1>9. CASE InputCall \/ InputLock \/ InputCount \/ InputReadProgress \/
          InputReadRefreshing \/ InputUse \/ InputUnlock \/ QueryProgress \/
          QueryRefreshing \/ QueryCount
  BY <1>9 DEF InputCall, UiGoes, HasWorkspace, InputLock, CritLock, InputCount,
     InputReadProgress, InputReadRefreshing, InputUse, InputUnlock, CritUnlock,
     QueryProgress, QueryRefreshing, QueryCount
<1>10. CASE WaitBegin
  BY <1>10 DEF WaitBegin, AreWait, WorkerGoes
<1>11. CASE SetStarted \/ ResetFinished
  BY <1>11 DEF SetStarted, AreSet, WorkerGoes, ResetFinished, MreReset
<1>12. CASE Dispatch \/ ScanEntry \/ ScanEnd
  BY <1>12 DEF Dispatch, WorkerGoes, ScanEntry, ScanEnd
<1>13. CASE LockSwap \/ SwapFree \/ SwapAssign \/ UnlockSwap
  BY <1>13 DEF LockSwap, CritLock, WorkerGoes, SwapFree, ScannerFree, SwapAssign,
     UnlockSwap, CritUnlock
<1>14. CASE ClearProgress \/ ClearRefreshing \/ SetFinished
  BY <1>14 DEF ClearProgress, WorkerGoes, ClearRefreshing, SetFinished, MreSet
<1>15. CASE Edit
  BY <1>15 DEF Edit
<1>16. CASE UNCHANGED vars
  BY <1>16 DEF vars
<1> QED BY <1>1, <1>2, <1>3, <1>4, <1>5, <1>6, <1>7, <1>8, <1>9, <1>10, <1>11, <1>12,
           <1>13, <1>14, <1>15, <1>16 DEF Next, Call, CallStep, WorkerStep

\* The flags follow the threads.
LEMMA FlagStep ==
  ASSUME CallsApart, IInv, [Next]_vars
  PROVE  FlagInv'
<1> USE DEF IInv, ThreadInv, FlagInv, Pending, Busy, Starting, Working, Resting,
            Cancelling, events, sync, flags, heap, counts, locals, ghosts, data
<1>1. CASE GlobInit
  BY <1>1 DEF GlobInit, UiGoes
<1>2. CASE CancelScan \/ AwaitFinished \/ ClearCancel
  BY <1>2 DEF CancelScan, UiGoes, AwaitFinished, MreWait, ClearCancel
<1>3. CASE SetupFree \/ (\E p \in Paths : SetupPublish(p))
  BY <1>3 DEF SetupFree, UiGoes, WorkspaceFree, ScannerFree, SetupPublish
<1>4. CASE RefreshCall \/ RefreshClaim \/ RefreshMark
  BY <1>4 DEF RefreshCall, UiGoes, HasWorkspace, RefreshClaim, RefreshMark
<1>5. CASE Begin
  BY <1>5 DEF Begin, AreSet, UiGoes
<1>6. CASE AwaitStarted
  BY <1>6 DEF AwaitStarted, AreWait, UiGoes
<1>7. CASE StopTerminate \/ StopJoin
  BY <1>7 DEF StopTerminate, UiGoes, StopJoin, WorkerGoes, WorkspaceFree, ScannerFree
<1>8. CASE InputCall \/ InputLock \/ InputCount \/ InputReadProgress \/
          InputReadRefreshing \/ InputUse \/ InputUnlock \/ QueryProgress \/
          QueryRefreshing \/ QueryCount
  BY <1>8 DEF InputCall, UiGoes, HasWorkspace, InputLock, CritLock, InputCount,
     InputReadProgress, InputReadRefreshing, InputUse, InputUnlock, CritUnlock,
     QueryProgress, QueryRefreshing, QueryCount
<1>9. CASE WaitBegin
  BY <1>9 DEF WaitBegin, AreWait, WorkerGoes
<1>10. CASE SetStarted \/ ResetFinished
  BY <1>10 DEF SetStarted, AreSet, WorkerGoes, ResetFinished, MreReset
<1>11. CASE Dispatch \/ ScanEntry \/ ScanEnd
  BY <1>11 DEF Dispatch, WorkerGoes, ScanEntry, ScanEnd
<1>12. CASE LockSwap \/ SwapFree \/ SwapAssign \/ UnlockSwap
  BY <1>12 DEF LockSwap, CritLock, WorkerGoes, SwapFree, ScannerFree, SwapAssign,
     UnlockSwap, CritUnlock
<1>13. CASE ClearProgress \/ ClearRefreshing
  BY <1>13 DEF ClearProgress, WorkerGoes, ClearRefreshing
<1>14. CASE SetFinished
  BY <1>14 DEF SetFinished, MreSet, WorkerGoes
<1>15. CASE Edit
  BY <1>15 DEF Edit
<1>16. CASE UNCHANGED vars
  BY <1>16 DEF vars
<1> QED BY <1>1, <1>2, <1>3, <1>4, <1>5, <1>6, <1>7, <1>8, <1>9, <1>10, <1>11, <1>12,
           <1>13, <1>14, <1>15, <1>16 DEF Next, Call, CallStep, WorkerStep

\* The mutex is held by the thread that is inside.
LEMMA LockStep ==
  ASSUME CallsApart, IInv, [Next]_vars
  PROVE  LockInv'
<1> USE DEF IInv, LockInv, events, sync, flags, heap, counts, locals, ghosts, data
<1>1. CASE GlobInit \/ CancelScan \/ AwaitFinished \/ ClearCancel \/ SetupFree \/
          (\E p \in Paths : SetupPublish(p))
  BY <1>1 DEF GlobInit, UiGoes, CancelScan, AwaitFinished, MreWait, ClearCancel,
     SetupFree, WorkspaceFree, ScannerFree, SetupPublish
<1>2. CASE RefreshCall \/ RefreshClaim \/ RefreshMark \/ Begin \/ AwaitStarted
  BY <1>2 DEF RefreshCall, UiGoes, HasWorkspace, RefreshClaim, RefreshMark, Begin,
     AreSet, AwaitStarted, AreWait
<1>3. CASE StopTerminate \/ StopJoin \/ InputCall \/ QueryProgress \/ QueryRefreshing \/
          QueryCount
  BY <1>3 DEF StopTerminate, UiGoes, StopJoin, WorkerGoes, WorkspaceFree, ScannerFree,
     InputCall, HasWorkspace, QueryProgress, QueryRefreshing, QueryCount
<1>4. CASE InputLock \/ InputUnlock
  BY <1>4 DEF InputLock, CritLock, UiGoes, InputUnlock, CritUnlock
<1>5. CASE InputCount \/ InputReadProgress \/ InputReadRefreshing \/ InputUse
  BY <1>5 DEF InputCount, UiGoes, InputReadProgress, InputReadRefreshing, InputUse
<1>6. CASE WaitBegin \/ SetStarted \/ ResetFinished \/ Dispatch \/ ScanEntry \/ ScanEnd
  BY <1>6 DEF WaitBegin, AreWait, WorkerGoes, SetStarted, AreSet, ResetFinished,
     MreReset, Dispatch, ScanEntry, ScanEnd
<1>7. CASE LockSwap \/ UnlockSwap
  BY <1>7 DEF LockSwap, CritLock, WorkerGoes, UnlockSwap, CritUnlock
<1>8. CASE SwapFree \/ SwapAssign
  BY <1>8 DEF SwapFree, WorkerGoes, ScannerFree, SwapAssign
<1>9. CASE ClearProgress \/ ClearRefreshing \/ SetFinished \/ Edit
  BY <1>9 DEF ClearProgress, WorkerGoes, ClearRefreshing, SetFinished, MreSet, Edit
<1>10. CASE UNCHANGED vars
  BY <1>10 DEF vars
<1> QED BY <1>1, <1>2, <1>3, <1>4, <1>5, <1>6, <1>7, <1>8, <1>9, <1>10 DEF Next, Call,
           CallStep, WorkerStep

\* Freeing a workspace while the scanning thread rests, or after it has left, frees a
\* live index once and takes no path away from a scan.
LEMMA WorkspaceFreed ==
  ASSUME IInv, ui \in {"setup_free", "stop_join"}, wpc \in {"wait_begin", "exited"},
         ui = "stop_join" => wpc = "exited", WorkspaceFree
  PROVE  /\ scan_path' = NULL /\ job' = job /\ ~fault'
         /\ index' \in {index, FreedIndex} /\ index'.st # "live"
         /\ fault' \in BOOLEAN
<1>1. job = NoJob
  BY DEF IInv, JobInv, Working
<1>2. HasWorkspace => IndexLive
  BY DEF IInv, IndexInv, Pending, Starting, Working
<1>3. CASE scan_path = NULL
  BY <1>3 DEF WorkspaceFree, IInv, TypeOK, IndexInv, IndexLive
<1>4. CASE HasWorkspace
  <2>1. ScannerFree /\ scan_path' = NULL
    BY <1>4 DEF WorkspaceFree, HasWorkspace
  <2>2. job' = job
    BY <1>1, <1>4 DEF WorkspaceFree, HasWorkspace, NoJob
  <2>3. fault' \in BOOLEAN
    BY <2>1 DEF ScannerFree
  <2> QED
    BY <1>2, <1>4, <2>1, <2>2, <2>3 DEF ScannerFree, FreedIndex, NullIndex, IndexLive
<1> QED
  BY <1>3, <1>4 DEF HasWorkspace

\* There is an index unless the first scan of a workspace is still to deliver it.
LEMMA IndexStep ==
  ASSUME CallsApart, IInv, [Next]_vars
  PROVE  IndexInv'
<1> USE DEF IInv, TypeOK, IndexType, ThreadInv, FlagInv, LockInv, IndexInv, JobInv,
            IndexLive, HasWorkspace, FreedIndex, Pending, Busy, Starting, Working,
            Resting, Cancelling, events, sync, flags, heap, counts, locals, ghosts, data
<1>1. CASE GlobInit
  BY <1>1 DEF GlobInit, UiGoes
<1>2. CASE CancelScan \/ AwaitFinished \/ ClearCancel
  BY <1>2 DEF CancelScan, UiGoes, AwaitFinished, MreWait, ClearCancel
<1>3. CASE SetupFree
  BY <1>3, WorkspaceFreed DEF SetupFree, UiGoes
<1>4. CASE \E p \in Paths : SetupPublish(p)
  BY <1>4, PathsAssumption DEF SetupPublish, UiGoes
<1>5. CASE RefreshCall
  BY <1>5 DEF RefreshCall, UiGoes, HasWorkspace
<1>6. CASE RefreshClaim \/ RefreshMark
  BY <1>6 DEF RefreshClaim, UiGoes, RefreshMark
<1>7. CASE Begin
  BY <1>7 DEF Begin, AreSet, UiGoes
<1>8. CASE AwaitStarted
  BY <1>8 DEF AwaitStarted, AreWait, UiGoes
<1>9. CASE StopTerminate
  BY <1>9 DEF StopTerminate, UiGoes
<1>10. CASE StopJoin
  BY <1>10, WorkspaceFreed DEF StopJoin, UiGoes, WorkerGoes
<1>11. CASE InputCall \/ InputLock \/ InputCount
  BY <1>11 DEF InputCall, UiGoes, HasWorkspace, InputLock, CritLock, InputCount
<1>12. CASE InputReadProgress
  BY <1>12 DEF InputReadProgress, UiGoes
<1>13. CASE InputReadRefreshing
  BY <1>13 DEF InputReadRefreshing, UiGoes
<1>14. CASE InputUse \/ InputUnlock \/ QueryProgress \/ QueryRefreshing \/ QueryCount
  BY <1>14 DEF InputUse, UiGoes, InputUnlock, CritUnlock, QueryProgress, HasWorkspace,
     QueryRefreshing, QueryCount
<1>15. CASE WaitBegin
  BY <1>15 DEF WaitBegin, AreWait, WorkerGoes
<1>16. CASE SetStarted \/ ResetFinished \/ Dispatch
  BY <1>16 DEF SetStarted, AreSet, WorkerGoes, ResetFinished, MreReset, Dispatch
<1>17. CASE ScanEntry \/ ScanEnd
  BY <1>17 DEF ScanEntry, WorkerGoes, ScanEnd
<1>18. CASE LockSwap
  BY <1>18 DEF LockSwap, CritLock, WorkerGoes
<1>19. CASE SwapFree
  BY <1>19 DEF SwapFree, WorkerGoes, ScannerFree
<1>20. CASE SwapAssign
  BY <1>20 DEF SwapAssign, WorkerGoes
<1>21. CASE UnlockSwap
  BY <1>21 DEF UnlockSwap, CritUnlock, WorkerGoes
<1>22. CASE ClearProgress
  BY <1>22 DEF ClearProgress, WorkerGoes
<1>23. CASE ClearRefreshing
  BY <1>23 DEF ClearRefreshing, WorkerGoes
<1>24. CASE SetFinished
  BY <1>24 DEF SetFinished, MreSet, WorkerGoes
<1>25. CASE Edit
  BY <1>25 DEF Edit
<1>26. CASE UNCHANGED vars
  BY <1>26 DEF vars
<1> QED BY <1>1, <1>2, <1>3, <1>4, <1>5, <1>6, <1>7, <1>8, <1>9, <1>10, <1>11, <1>12,
           <1>13, <1>14, <1>15, <1>16, <1>17, <1>18, <1>19, <1>20, <1>21, <1>22, <1>23,
           <1>24, <1>25, <1>26 DEF Next, Call, CallStep, WorkerStep

\* A scan holds the path of the current workspace, and a refresh has an index to replace.
LEMMA JobStep ==
  ASSUME CallsApart, IInv, [Next]_vars
  PROVE  JobInv'
<1> USE DEF IInv, TypeOK, JobType, IndexType, ThreadInv, FlagInv, IndexInv, JobInv,
            IndexLive, HasWorkspace, NoJob, FreedIndex, Pending, Busy, Starting,
            Working, Resting, Cancelling, Kept, events, sync, flags, heap, counts,
            locals, ghosts, data
<1>1. CASE GlobInit
  BY <1>1 DEF GlobInit, UiGoes
<1>2. CASE CancelScan \/ AwaitFinished \/ ClearCancel
  BY <1>2 DEF CancelScan, UiGoes, AwaitFinished, MreWait, ClearCancel
<1>3. CASE SetupFree
  BY <1>3, WorkspaceFreed DEF SetupFree, UiGoes
<1>4. CASE \E p \in Paths : SetupPublish(p)
  BY <1>4 DEF SetupPublish, UiGoes
<1>5. CASE RefreshCall \/ RefreshClaim \/ RefreshMark
  BY <1>5 DEF RefreshCall, UiGoes, HasWorkspace, RefreshClaim, RefreshMark
<1>6. CASE Begin
  BY <1>6 DEF Begin, AreSet, UiGoes
<1>7. CASE AwaitStarted
  BY <1>7 DEF AwaitStarted, AreWait, UiGoes
<1>8. CASE StopTerminate
  BY <1>8 DEF StopTerminate, UiGoes
<1>9. CASE StopJoin
  BY <1>9, WorkspaceFreed DEF StopJoin, UiGoes, WorkerGoes
<1>10. CASE InputCall \/ InputLock \/ InputCount \/ InputReadProgress \/
          InputReadRefreshing \/ InputUse \/ InputUnlock \/ QueryProgress \/
          QueryRefreshing \/ QueryCount
  BY <1>10 DEF InputCall, UiGoes, HasWorkspace, InputLock, CritLock, InputCount,
     InputReadProgress, InputReadRefreshing, InputUse, InputUnlock, CritUnlock,
     QueryProgress, QueryRefreshing, QueryCount
<1>11. CASE WaitBegin
  BY <1>11 DEF WaitBegin, AreWait, WorkerGoes
<1>12. CASE SetStarted \/ ResetFinished
  BY <1>12 DEF SetStarted, AreSet, WorkerGoes, ResetFinished, MreReset
<1>13. CASE Dispatch
  BY <1>13 DEF Dispatch, WorkerGoes
<1>14. CASE ScanEntry
  BY <1>14 DEF ScanEntry, WorkerGoes
<1>15. CASE ScanEnd
  BY <1>15 DEF ScanEnd, WorkerGoes
<1>16. CASE LockSwap
  BY <1>16 DEF LockSwap, CritLock, WorkerGoes
<1>17. CASE SwapFree
  BY <1>17 DEF SwapFree, WorkerGoes, ScannerFree
<1>18. CASE SwapAssign
  BY <1>18 DEF SwapAssign, WorkerGoes
<1>19. CASE UnlockSwap
  BY <1>19 DEF UnlockSwap, CritUnlock, WorkerGoes
<1>20. CASE ClearProgress
  BY <1>20 DEF ClearProgress, WorkerGoes
<1>21. CASE ClearRefreshing
  BY <1>21 DEF ClearRefreshing, WorkerGoes
<1>22. CASE SetFinished
  BY <1>22 DEF SetFinished, MreSet, WorkerGoes
<1>23. CASE Edit
  BY <1>23 DEF Edit
<1>24. CASE UNCHANGED vars
  BY <1>24 DEF vars
<1> QED BY <1>1, <1>2, <1>3, <1>4, <1>5, <1>6, <1>7, <1>8, <1>9, <1>10, <1>11, <1>12,
           <1>13, <1>14, <1>15, <1>16, <1>17, <1>18, <1>19, <1>20, <1>21, <1>22, <1>23,
           <1>24 DEF Next, Call, CallStep, WorkerStep

\* A listing cut short is only ever built for a workspace that is being left.
LEMMA WholeStep ==
  ASSUME CallsApart, IInv, [Next]_vars
  PROVE  WholeInv'
<1> USE DEF IInv, TypeOK, JobType, IndexType, ThreadInv, FlagInv, IndexInv, JobInv,
            IndexLive, HasWorkspace, NoJob, FreedIndex, Pending, Busy, Starting,
            Working, Resting, Cancelling, Kept, WholeInv, events, sync, flags, heap,
            counts, locals, ghosts, data
<1>1. CASE GlobInit
  BY <1>1 DEF GlobInit, UiGoes
<1>2. CASE CancelScan \/ AwaitFinished \/ ClearCancel
  BY <1>2 DEF CancelScan, UiGoes, AwaitFinished, MreWait, ClearCancel
<1>3. CASE SetupFree
  BY <1>3, WorkspaceFreed DEF SetupFree, UiGoes
<1>4. CASE \E p \in Paths : SetupPublish(p)
  BY <1>4 DEF SetupPublish, UiGoes
<1>5. CASE RefreshCall \/ RefreshClaim \/ RefreshMark
  BY <1>5 DEF RefreshCall, UiGoes, HasWorkspace, RefreshClaim, RefreshMark
<1>6. CASE Begin
  BY <1>6 DEF Begin, AreSet, UiGoes
<1>7. CASE AwaitStarted
  BY <1>7 DEF AwaitStarted, AreWait, UiGoes
<1>8. CASE StopTerminate
  BY <1>8 DEF StopTerminate, UiGoes
<1>9. CASE StopJoin
  BY <1>9, WorkspaceFreed DEF StopJoin, UiGoes, WorkerGoes
<1>10. CASE InputCall \/ InputLock \/ InputCount \/ InputReadProgress \/
          InputReadRefreshing \/ InputUse \/ InputUnlock \/ QueryProgress \/
          QueryRefreshing \/ QueryCount
  BY <1>10 DEF InputCall, UiGoes, HasWorkspace, InputLock, CritLock, InputCount,
     InputReadProgress, InputReadRefreshing, InputUse, InputUnlock, CritUnlock,
     QueryProgress, QueryRefreshing, QueryCount
<1>11. CASE WaitBegin
  BY <1>11 DEF WaitBegin, AreWait, WorkerGoes
<1>12. CASE SetStarted \/ ResetFinished
  BY <1>12 DEF SetStarted, AreSet, WorkerGoes, ResetFinished, MreReset
<1>13. CASE Dispatch
  BY <1>13 DEF Dispatch, WorkerGoes
<1>14. CASE ScanEntry
  BY <1>14 DEF ScanEntry, WorkerGoes
<1>15. CASE ScanEnd
  BY <1>15 DEF ScanEnd, WorkerGoes
<1>16. CASE LockSwap
  BY <1>16 DEF LockSwap, CritLock, WorkerGoes
<1>17. CASE SwapFree
  BY <1>17 DEF SwapFree, WorkerGoes, ScannerFree
<1>18. CASE SwapAssign
  BY <1>18 DEF SwapAssign, WorkerGoes
<1>19. CASE UnlockSwap
  BY <1>19 DEF UnlockSwap, CritUnlock, WorkerGoes
<1>20. CASE ClearProgress
  BY <1>20 DEF ClearProgress, WorkerGoes
<1>21. CASE ClearRefreshing
  BY <1>21 DEF ClearRefreshing, WorkerGoes
<1>22. CASE SetFinished
  BY <1>22 DEF SetFinished, MreSet, WorkerGoes
<1>23. CASE Edit
  BY <1>23 DEF Edit
<1>24. CASE UNCHANGED vars
  BY <1>24 DEF vars
<1> QED BY <1>1, <1>2, <1>3, <1>4, <1>5, <1>6, <1>7, <1>8, <1>9, <1>10, <1>11, <1>12,
           <1>13, <1>14, <1>15, <1>16, <1>17, <1>18, <1>19, <1>20, <1>21, <1>22, <1>23,
           <1>24 DEF Next, Call, CallStep, WorkerStep

\* A listing is as new as the request it answers.
LEMMA FreshStep ==
  ASSUME CallsApart, IInv, [Next]_vars
  PROVE  FreshInv'
<1> USE DEF IInv, TypeOK, JobType, IndexType, ThreadInv, FlagInv, IndexInv, JobInv,
            IndexLive, HasWorkspace, NoJob, FreedIndex, Pending, Busy, Starting,
            Working, Resting, Cancelling, Kept, FreshInv, events, sync, flags, heap,
            counts, locals, ghosts, data
<1>1. CASE GlobInit
  BY <1>1 DEF GlobInit, UiGoes
<1>2. CASE CancelScan \/ AwaitFinished \/ ClearCancel
  BY <1>2 DEF CancelScan, UiGoes, AwaitFinished, MreWait, ClearCancel
<1>3. CASE SetupFree
  BY <1>3, WorkspaceFreed DEF SetupFree, UiGoes
<1>4. CASE \E p \in Paths : SetupPublish(p)
  BY <1>4 DEF SetupPublish, UiGoes
<1>5. CASE RefreshCall \/ RefreshClaim \/ RefreshMark
  BY <1>5 DEF RefreshCall, UiGoes, HasWorkspace, RefreshClaim, RefreshMark
<1>6. CASE Begin
  BY <1>6 DEF Begin, AreSet, UiGoes
<1>7. CASE AwaitStarted
  BY <1>7 DEF AwaitStarted, AreWait, UiGoes
<1>8. CASE StopTerminate
  BY <1>8 DEF StopTerminate, UiGoes
<1>9. CASE StopJoin
  BY <1>9, WorkspaceFreed DEF StopJoin, UiGoes, WorkerGoes
<1>10. CASE InputCall \/ InputLock \/ InputCount \/ InputReadProgress \/
          InputReadRefreshing \/ InputUse \/ InputUnlock \/ QueryProgress \/
          QueryRefreshing \/ QueryCount
  BY <1>10 DEF InputCall, UiGoes, HasWorkspace, InputLock, CritLock, InputCount,
     InputReadProgress, InputReadRefreshing, InputUse, InputUnlock, CritUnlock,
     QueryProgress, QueryRefreshing, QueryCount
<1>11. CASE WaitBegin
  BY <1>11 DEF WaitBegin, AreWait, WorkerGoes
<1>12. CASE SetStarted \/ ResetFinished
  BY <1>12 DEF SetStarted, AreSet, WorkerGoes, ResetFinished, MreReset
<1>13. CASE Dispatch
  BY <1>13 DEF Dispatch, WorkerGoes
<1>14. CASE ScanEntry
  BY <1>14 DEF ScanEntry, WorkerGoes
<1>15. CASE ScanEnd
  BY <1>15 DEF ScanEnd, WorkerGoes
<1>16. CASE LockSwap
  BY <1>16 DEF LockSwap, CritLock, WorkerGoes
<1>17. CASE SwapFree
  BY <1>17 DEF SwapFree, WorkerGoes, ScannerFree
<1>18. CASE SwapAssign
  BY <1>18 DEF SwapAssign, WorkerGoes
<1>19. CASE UnlockSwap
  BY <1>19 DEF UnlockSwap, CritUnlock, WorkerGoes
<1>20. CASE ClearProgress
  BY <1>20 DEF ClearProgress, WorkerGoes
<1>21. CASE ClearRefreshing
  BY <1>21 DEF ClearRefreshing, WorkerGoes
<1>22. CASE SetFinished
  BY <1>22 DEF SetFinished, MreSet, WorkerGoes
<1>23. CASE Edit
  BY <1>23 DEF Edit
<1>24. CASE UNCHANGED vars
  BY <1>24 DEF vars
<1> QED BY <1>1, <1>2, <1>3, <1>4, <1>5, <1>6, <1>7, <1>8, <1>9, <1>10, <1>11, <1>12,
           <1>13, <1>14, <1>15, <1>16, <1>17, <1>18, <1>19, <1>20, <1>21, <1>22, <1>23,
           <1>24 DEF Next, Call, CallStep, WorkerStep

\* A freed index has the type of an index.
LEMMA FreedIndexType == FreedIndex \in IndexType
BY DEF FreedIndex, NullIndex, IndexType

\* Listing one more entry keeps the type of the job.
LEMMA JobGrows ==
  ASSUME job \in JobType, NEW n \in Nat, NEW w \in BOOLEAN
  PROVE  [job EXCEPT !.len = n, !.whole = w] \in JobType
BY DEF JobType

\* Types; that a published index has no dangling path is JobInv's.
LEMMA TypeStep ==
  ASSUME CallsApart, IInv, [Next]_vars
  PROVE  TypeOK'
<1> USE DEF TypeOK, UiPcs, WorkerPcs, CritLock, CritUnlock, HasWorkspace, events, sync,
            flags, heap, counts, locals, ghosts, data
<1>a. TypeOK
  BY DEF IInv
<1>1. CASE GlobInit
  BY <1>a, <1>1 DEF GlobInit, UiGoes
<1>2. CASE CancelScan
  BY <1>a, <1>2 DEF CancelScan, UiGoes
<1>3. CASE AwaitFinished
  BY <1>a, <1>3 DEF AwaitFinished, MreWait, UiGoes
<1>4. CASE ClearCancel
  <2>1. scan_cancelled' \in BOOLEAN
    BY <1>a, <1>4 DEF ClearCancel
  <2> QED
    BY <1>a, <1>4, <2>1 DEF ClearCancel, UiGoes
<1>5. CASE SetupFree
  <2>1. wpc = "wait_begin"
    BY <1>a, <1>5 DEF SetupFree, UiGoes, IInv, ThreadInv
  <2>2. /\ scan_path' = NULL /\ job' = job /\ fault' \in BOOLEAN
        /\ index' \in {index, FreedIndex}
    BY <1>a, <1>5, <2>1, WorkspaceFreed DEF SetupFree, UiGoes
  <2>3. index' \in IndexType
    BY <1>a, FreedIndexType, <2>2
  <2> QED
    BY <1>a, <1>5, <2>2, <2>3 DEF SetupFree, UiGoes
<1>6. CASE \E p \in Paths : SetupPublish(p)
  BY <1>a, <1>6 DEF SetupPublish, UiGoes
<1>7. CASE RefreshCall
  BY <1>a, <1>7 DEF RefreshCall, UiGoes, HasWorkspace
<1>8. CASE RefreshClaim
  BY <1>a, <1>8 DEF RefreshClaim, UiGoes
<1>9. CASE RefreshMark
  BY <1>a, <1>9 DEF RefreshMark, UiGoes
<1>10. CASE Begin
  BY <1>a, <1>10 DEF Begin, AreSet, UiGoes
<1>11. CASE AwaitStarted
  <2>1. scan_started' \in BOOLEAN
    BY <1>a, <1>11 DEF AwaitStarted, AreWait
  <2> QED
    BY <1>a, <1>11, <2>1 DEF AwaitStarted, AreWait, UiGoes
<1>12. CASE StopTerminate
  BY <1>a, <1>12 DEF StopTerminate, UiGoes
<1>13. CASE StopJoin
  <2>1. /\ scan_path' = NULL /\ job' = job /\ fault' \in BOOLEAN
        /\ index' \in {index, FreedIndex}
    BY <1>a, <1>13, WorkspaceFreed DEF StopJoin, UiGoes, WorkerGoes
  <2>2. index' \in IndexType
    BY <1>a, FreedIndexType, <2>1
  <2>3. scan_terminate' \in BOOLEAN
    BY <1>a, <1>13 DEF StopJoin
  <2> QED
    BY <1>a, <1>13, <2>1, <2>2, <2>3 DEF StopJoin, UiGoes, WorkerGoes
<1>14. CASE InputCall \/ InputLock \/ InputCount
  BY <1>a, <1>14 DEF InputCall, UiGoes, HasWorkspace, InputLock, CritLock, InputCount
<1>15. CASE InputReadProgress \/ InputReadRefreshing
  BY <1>a, <1>15 DEF InputReadProgress, UiGoes, InputReadRefreshing
<1>16. CASE InputUse
  <2>1. fault' \in BOOLEAN
    BY <1>a, <1>16 DEF InputUse
  <2> QED
    BY <1>a, <1>16, <2>1 DEF InputUse, UiGoes
<1>17. CASE InputUnlock
  BY <1>a, <1>17 DEF InputUnlock, CritUnlock, UiGoes
<1>18. CASE QueryProgress \/ QueryRefreshing
  BY <1>a, <1>18 DEF QueryProgress, UiGoes, HasWorkspace, QueryRefreshing
<1>19. CASE QueryCount
  <2>1. seen' \in BOOLEAN
    BY <1>a, <1>19 DEF QueryCount
  <2> QED
    BY <1>a, <1>19, <2>1 DEF QueryCount, UiGoes
<1>20. CASE WaitBegin
  <2>1. scan_begin' \in BOOLEAN
    BY <1>a, <1>20 DEF WaitBegin, AreWait
  <2> QED
    BY <1>a, <1>20, <2>1 DEF WaitBegin, AreWait, WorkerGoes
<1>21. CASE SetStarted
  BY <1>a, <1>21 DEF SetStarted, AreSet, WorkerGoes
<1>22. CASE ResetFinished
  <2>1. scan_finished' \in BOOLEAN
    BY <1>a, <1>22 DEF ResetFinished, MreReset
  <2> QED
    BY <1>a, <1>22, <2>1 DEF ResetFinished, MreReset, WorkerGoes
<1>23. CASE Dispatch
  BY <1>a, <1>23 DEF Dispatch, WorkerGoes, JobType, Pointers
<1>24. CASE ScanEntry
  <2>1. fault' \in BOOLEAN
    BY <1>a, <1>24 DEF ScanEntry
  <2>2. job' \in JobType
    <3>1. job.len + 1 \in Nat /\ (~scan_cancelled) \in BOOLEAN
      BY <1>a DEF JobType
    <3>2. job' = [job EXCEPT !.len = job.len + 1, !.whole = ~scan_cancelled]
      BY <1>a, <1>24 DEF ScanEntry
    <3> QED
      BY <1>a, <3>1, <3>2, JobGrows
  <2>3. scan_files_count' \in Nat /\ scan_files_refresh_count' \in Nat
    BY <1>a, <1>24 DEF ScanEntry
  <2> QED
    BY <1>a, <1>24, <2>1, <2>2, <2>3 DEF ScanEntry, WorkerGoes
<1>25. CASE ScanEnd
  <2>1. fault' \in BOOLEAN /\ job' \in JobType
    BY <1>a, <1>25 DEF ScanEnd, WorkerGoes, JobType
  <2> QED
    BY <1>a, <1>25, <2>1 DEF ScanEnd, WorkerGoes
<1>26. CASE LockSwap
  BY <1>a, <1>26 DEF LockSwap, CritLock, WorkerGoes
<1>27. CASE SwapFree
  <2>1. fault' \in BOOLEAN /\ index' \in IndexType
    BY <1>a, <1>27 DEF SwapFree, ScannerFree, IndexType, FreedIndex, NullIndex
  <2> QED
    BY <1>a, <1>27, <2>1 DEF SwapFree, WorkerGoes
<1>28. CASE SwapAssign
  <2>1. job.root = scan_path
    BY <1>a, <1>28 DEF SwapAssign, WorkerGoes, IInv, JobInv, Working
  <2>2. index' \in IndexType /\ job' \in JobType
    BY <1>a, <1>28, <2>1 DEF SwapAssign, IndexType, JobType, NoJob, Pointers
  <2> QED
    BY <1>a, <1>28, <2>2 DEF SwapAssign, WorkerGoes
<1>29. CASE UnlockSwap
  BY <1>a, <1>29 DEF UnlockSwap, CritUnlock, WorkerGoes
<1>30. CASE ClearProgress
  <2>1. scan_in_progress' \in BOOLEAN
    BY <1>a, <1>30 DEF ClearProgress
  <2> QED
    BY <1>a, <1>30, <2>1 DEF ClearProgress, WorkerGoes
<1>31. CASE ClearRefreshing
  <2>1. scan_is_refreshing' \in BOOLEAN
    BY <1>a, <1>31 DEF ClearRefreshing
  <2> QED
    BY <1>a, <1>31, <2>1 DEF ClearRefreshing, WorkerGoes
<1>32. CASE SetFinished
  BY <1>a, <1>32 DEF SetFinished, MreSet, WorkerGoes
<1>33. CASE Edit
  BY <1>a, <1>33 DEF Edit
<1>34. CASE UNCHANGED vars
  BY <1>a, <1>34 DEF vars
<1> QED BY <1>1, <1>2, <1>3, <1>4, <1>5, <1>6, <1>7, <1>8, <1>9, <1>10, <1>11, <1>12,
           <1>13, <1>14, <1>15, <1>16, <1>17, <1>18, <1>19, <1>20, <1>21, <1>22, <1>23,
           <1>24, <1>25, <1>26, <1>27, <1>28, <1>29, <1>30, <1>31, <1>32, <1>33,
           <1>34 DEF Next, Call, CallStep, WorkerStep

\* No step uses what is freed.
LEMMA FaultStep ==
  ASSUME CallsApart, IInv, [Next]_vars
  PROVE  (~fault)'
<1> USE DEF IInv, TypeOK, IndexType, ThreadInv, IndexInv, JobInv, IndexLive,
            HasWorkspace, Pending, Starting, Working, events, sync, flags, heap, counts,
            locals, ghosts, data
<1>1. CASE GlobInit \/ CancelScan \/ AwaitFinished \/ ClearCancel
  BY <1>1 DEF GlobInit, UiGoes, CancelScan, AwaitFinished, MreWait, ClearCancel
<1>2. CASE SetupFree
  BY <1>2, WorkspaceFreed DEF SetupFree, UiGoes
<1>3. CASE \E p \in Paths : SetupPublish(p)
  BY <1>3 DEF SetupPublish, UiGoes
<1>4. CASE RefreshCall \/ RefreshClaim \/ RefreshMark \/ Begin \/ AwaitStarted
  BY <1>4 DEF RefreshCall, UiGoes, HasWorkspace, RefreshClaim, RefreshMark, Begin,
     AreSet, AwaitStarted, AreWait
<1>5. CASE StopTerminate
  BY <1>5 DEF StopTerminate, UiGoes
<1>6. CASE StopJoin
  BY <1>6, WorkspaceFreed DEF StopJoin, UiGoes, WorkerGoes
<1>7. CASE InputCall \/ InputLock \/ InputCount \/ InputReadProgress \/
          InputReadRefreshing
  BY <1>7 DEF InputCall, UiGoes, HasWorkspace, InputLock, CritLock, InputCount,
     InputReadProgress, InputReadRefreshing
<1>8. CASE InputUse
  BY <1>8 DEF InputUse, UiGoes
<1>9. CASE InputUnlock \/ QueryProgress \/ QueryRefreshing \/ QueryCount
  BY <1>9 DEF InputUnlock, CritUnlock, UiGoes, QueryProgress, HasWorkspace,
     QueryRefreshing, QueryCount
<1>10. CASE WaitBegin \/ SetStarted \/ ResetFinished \/ Dispatch
  BY <1>10 DEF WaitBegin, AreWait, WorkerGoes, SetStarted, AreSet, ResetFinished,
     MreReset, Dispatch
<1>11. CASE ScanEntry \/ ScanEnd
  BY <1>11 DEF ScanEntry, WorkerGoes, ScanEnd
<1>12. CASE SwapFree
  BY <1>12 DEF SwapFree, WorkerGoes, ScannerFree
<1>13. CASE LockSwap \/ SwapAssign \/ UnlockSwap \/ ClearProgress \/ ClearRefreshing \/
          SetFinished
  BY <1>13 DEF LockSwap, CritLock, WorkerGoes, SwapAssign, UnlockSwap, CritUnlock,
     ClearProgress, ClearRefreshing, SetFinished, MreSet
<1>14. CASE Edit
  BY <1>14 DEF Edit
<1>15. CASE UNCHANGED vars
  BY <1>15 DEF vars
<1> QED BY <1>1, <1>2, <1>3, <1>4, <1>5, <1>6, <1>7, <1>8, <1>9, <1>10, <1>11, <1>12,
           <1>13, <1>14, <1>15 DEF Next, Call, CallStep, WorkerStep

\* The counters count the listing that is shown and the one that is being built.
LEMMA CountStep ==
  ASSUME CallsApart, IInv, [Next]_vars
  PROVE  CountInv'
<1> USE DEF IInv, TypeOK, JobType, IndexType, ThreadInv, FlagInv, IndexInv, JobInv,
            CountInv, Marked, FirstScan, IndexLive, HasWorkspace, NoJob, FreedIndex,
            Pending, Busy, Starting, Working, Resting, events, sync, flags, heap,
            counts, locals, ghosts, data
<1>1. CASE GlobInit
  BY <1>1 DEF GlobInit, UiGoes
<1>2. CASE CancelScan \/ AwaitFinished \/ ClearCancel
  BY <1>2 DEF CancelScan, UiGoes, AwaitFinished, MreWait, ClearCancel
<1>3. CASE SetupFree
  BY <1>3, WorkspaceFreed DEF SetupFree, UiGoes
<1>4. CASE \E p \in Paths : SetupPublish(p)
  BY <1>4 DEF SetupPublish, UiGoes
<1>5. CASE RefreshCall
  BY <1>5 DEF RefreshCall, UiGoes, HasWorkspace
<1>6. CASE RefreshClaim
  BY <1>6 DEF RefreshClaim, UiGoes
<1>7. CASE RefreshMark
  BY <1>7 DEF RefreshMark, UiGoes
<1>8. CASE Begin
  BY <1>8 DEF Begin, AreSet, UiGoes
<1>9. CASE AwaitStarted
  BY <1>9 DEF AwaitStarted, AreWait, UiGoes
<1>10. CASE StopTerminate
  BY <1>10 DEF StopTerminate, UiGoes
<1>11. CASE StopJoin
  BY <1>11, WorkspaceFreed DEF StopJoin, UiGoes, WorkerGoes
<1>12. CASE InputCall \/ InputLock \/ InputCount \/ InputReadProgress \/
          InputReadRefreshing \/ InputUse \/ InputUnlock \/ QueryProgress \/
          QueryRefreshing \/ QueryCount
  BY <1>12 DEF InputCall, UiGoes, HasWorkspace, InputLock, CritLock, InputCount,
     InputReadProgress, InputReadRefreshing, InputUse, InputUnlock, CritUnlock,
     QueryProgress, QueryRefreshing, QueryCount
<1>13. CASE WaitBegin
  BY <1>13 DEF WaitBegin, AreWait, WorkerGoes
<1>14. CASE SetStarted \/ ResetFinished
  BY <1>14 DEF SetStarted, AreSet, WorkerGoes, ResetFinished, MreReset
<1>15. CASE Dispatch
  BY <1>15 DEF Dispatch, WorkerGoes
<1>16. CASE ScanEntry
  BY <1>16 DEF ScanEntry, WorkerGoes
<1>17. CASE ScanEnd
  BY <1>17 DEF ScanEnd, WorkerGoes
<1>18. CASE LockSwap
  BY <1>18 DEF LockSwap, CritLock, WorkerGoes
<1>19. CASE SwapFree
  BY <1>19 DEF SwapFree, WorkerGoes, ScannerFree
<1>20. CASE SwapAssign
  BY <1>20 DEF SwapAssign, WorkerGoes
<1>21. CASE UnlockSwap
  BY <1>21 DEF UnlockSwap, CritUnlock, WorkerGoes
<1>22. CASE ClearProgress
  BY <1>22 DEF ClearProgress, WorkerGoes
<1>23. CASE ClearRefreshing
  BY <1>23 DEF ClearRefreshing, WorkerGoes
<1>24. CASE SetFinished
  BY <1>24 DEF SetFinished, MreSet, WorkerGoes
<1>25. CASE Edit
  BY <1>25 DEF Edit
<1>26. CASE UNCHANGED vars
  BY <1>26 DEF vars
<1> QED BY <1>1, <1>2, <1>3, <1>4, <1>5, <1>6, <1>7, <1>8, <1>9, <1>10, <1>11, <1>12,
           <1>13, <1>14, <1>15, <1>16, <1>17, <1>18, <1>19, <1>20, <1>21, <1>22, <1>23,
           <1>24, <1>25, <1>26 DEF Next, Call, CallStep, WorkerStep

\* What a call has read stays true until it returns.
LEMMA ReadStep ==
  ASSUME CallsApart, IInv, [Next]_vars
  PROVE  ReadInv'
<1> USE DEF IInv, TypeOK, ThreadInv, FlagInv, LockInv, IndexInv, JobInv, CountInv,
            ReadInv, FirstScan, IndexLive, HasWorkspace, NoJob, Pending, Busy, Starting,
            Working, Resting, events, sync, flags, heap, counts, locals, ghosts, data
<1>1. CASE GlobInit
  BY <1>1 DEF GlobInit, UiGoes
<1>2. CASE CancelScan \/ AwaitFinished \/ ClearCancel
  BY <1>2 DEF CancelScan, UiGoes, AwaitFinished, MreWait, ClearCancel
<1>3. CASE SetupFree
  BY <1>3, WorkspaceFreed DEF SetupFree, UiGoes
<1>4. CASE \E p \in Paths : SetupPublish(p)
  BY <1>4 DEF SetupPublish, UiGoes
<1>5. CASE RefreshCall
  BY <1>5 DEF RefreshCall, UiGoes, HasWorkspace
<1>6. CASE RefreshClaim \/ RefreshMark
  BY <1>6 DEF RefreshClaim, UiGoes, RefreshMark
<1>7. CASE Begin \/ AwaitStarted
  BY <1>7 DEF Begin, AreSet, UiGoes, AwaitStarted, AreWait
<1>8. CASE StopTerminate
  BY <1>8 DEF StopTerminate, UiGoes
<1>9. CASE StopJoin
  BY <1>9, WorkspaceFreed DEF StopJoin, UiGoes, WorkerGoes
<1>10. CASE InputCall \/ InputLock
  BY <1>10 DEF InputCall, UiGoes, HasWorkspace, InputLock, CritLock
<1>11. CASE InputCount
  BY <1>11 DEF InputCount, UiGoes
<1>12. CASE InputReadProgress
  BY <1>12 DEF InputReadProgress, UiGoes
<1>13. CASE InputReadRefreshing
  BY <1>13 DEF InputReadRefreshing, UiGoes
<1>14. CASE InputUse \/ InputUnlock
  BY <1>14 DEF InputUse, UiGoes, InputUnlock, CritUnlock
<1>15. CASE QueryProgress
  BY <1>15 DEF QueryProgress, UiGoes, HasWorkspace
<1>16. CASE QueryRefreshing
  BY <1>16 DEF QueryRefreshing, UiGoes
<1>17. CASE QueryCount
  BY <1>17 DEF QueryCount, UiGoes
<1>18. CASE WaitBegin
  BY <1>18 DEF WaitBegin, AreWait, WorkerGoes
<1>19. CASE SetStarted \/ ResetFinished
  BY <1>19 DEF SetStarted, AreSet, WorkerGoes, ResetFinished, MreReset
<1>20. CASE Dispatch
  BY <1>20 DEF Dispatch, WorkerGoes
<1>21. CASE ScanEntry
  BY <1>21 DEF ScanEntry, WorkerGoes
<1>22. CASE ScanEnd
  BY <1>22 DEF ScanEnd, WorkerGoes
<1>23. CASE LockSwap
  BY <1>23 DEF LockSwap, CritLock, WorkerGoes
<1>24. CASE SwapFree
  BY <1>24 DEF SwapFree, WorkerGoes, ScannerFree
<1>25. CASE SwapAssign
  BY <1>25 DEF SwapAssign, WorkerGoes
<1>26. CASE UnlockSwap
  BY <1>26 DEF UnlockSwap, CritUnlock, WorkerGoes
<1>27. CASE ClearProgress
  BY <1>27 DEF ClearProgress, WorkerGoes
<1>28. CASE ClearRefreshing
  BY <1>28 DEF ClearRefreshing, WorkerGoes
<1>29. CASE SetFinished
  BY <1>29 DEF SetFinished, MreSet, WorkerGoes
<1>30. CASE Edit
  BY <1>30 DEF Edit
<1>31. CASE UNCHANGED vars
  BY <1>31 DEF vars
<1> QED BY <1>1, <1>2, <1>3, <1>4, <1>5, <1>6, <1>7, <1>8, <1>9, <1>10, <1>11, <1>12,
           <1>13, <1>14, <1>15, <1>16, <1>17, <1>18, <1>19, <1>20, <1>21, <1>22, <1>23,
           <1>24, <1>25, <1>26, <1>27, <1>28, <1>29, <1>30, <1>31 DEF Next, Call,
           CallStep, WorkerStep

-----------------------------------------------------------------------------
(***************************************************************************)
(* The theorems.                                                           *)
(***************************************************************************)

\* Before the first init nothing has been set, allocated or started.
LEMMA InitIInv == Init => IInv
<1> SUFFICES ASSUME Init PROVE IInv
  OBVIOUS
<1> USE DEF Init
<1>1. index \in IndexType /\ job \in JobType
  BY DEF IndexType, JobType, Pointers, NullIndex, NoJob
<1>2. TypeOK
  BY <1>1 DEF TypeOK, UiPcs, WorkerPcs
<1>3. ThreadInv /\ FlagInv /\ LockInv
  BY DEF ThreadInv, FlagInv, LockInv, Pending, Cancelling, Starting, Working, Busy, Resting
<1>4. IndexInv /\ JobInv /\ WholeInv /\ FreshInv /\ CountInv /\ ReadInv
  BY DEF IndexInv, JobInv, WholeInv, FreshInv, CountInv, ReadInv, Marked, FirstScan, IndexLive, HasWorkspace, NullIndex, NoJob,
         Pending, Cancelling, Starting, Working, Busy, Kept
<1> QED
  BY <1>2, <1>3, <1>4 DEF IInv

\* The invariant holds in every reachable state, provided that no setup is called in the
\* window between scan_started and the reset of scan_finished.
THEOREM Invariance == ASSUME CallsApart PROVE SafetySpec => []IInv
<1>1. Init => IInv
  BY InitIInv
<1>2. IInv /\ [Next]_vars => IInv'
  BY ThreadStep, FlagStep, LockStep, IndexStep, JobStep, WholeStep, FreshStep, TypeStep,
     FaultStep, CountStep, ReadStep DEF IInv
<1> QED
  BY <1>1, <1>2, PTL DEF SafetySpec

\* Every variable keeps its type.
THEOREM TypeCorrect == ASSUME CallsApart PROVE SafetySpec => []TypeOK
BY Invariance, PTL DEF IInv

\* Nothing freed is used or freed again.
THEOREM MemoryIsSafe == ASSUME CallsApart PROVE SafetySpec => []MemorySafe
<1>1. IInv => MemorySafe
  BY DEF IInv, MemorySafe
<1> QED
  BY <1>1, Invariance, PTL

\* Setup and shutdown free an index that has been built and that no scan is using.
THEOREM CleanupIsSafe == ASSUME CallsApart PROVE SafetySpec => []CleanupSafe
<1>1. IInv => CleanupSafe
  BY DEF IInv, CleanupSafe, Cleaning, HasWorkspace, ThreadInv, IndexInv, JobInv, IndexLive,
         NoJob, Pending, Starting, Working
<1> QED
  BY <1>1, Invariance, PTL

\* A search runs on the whole listing of the current workspace.
THEOREM AnswersAreCurrent == ASSUME CallsApart PROVE SafetySpec => []AnswersCurrent
<1>1. IInv => AnswersCurrent
  BY DEF IInv, AnswersCurrent, IndexInv, WholeInv, IndexLive, Cancelling, Kept
<1> QED
  BY <1>1, Invariance, PTL

\* Once scan_in_progress is seen FALSE, the listing is as new as the last request.
THEOREM DoneIsFresh == ASSUME CallsApart PROVE SafetySpec => []DoneMeansFresh
<1>1. IInv => DoneMeansFresh
  BY DEF IInv, DoneMeansFresh, FlagInv, IndexInv, FreshInv, IndexLive, HasWorkspace,
         Pending, Busy, Starting, Working
<1> QED
  BY <1>1, Invariance, PTL

\* Counts shown as final are those of the listing.
THEOREM CountIsExact == ASSUME CallsApart PROVE SafetySpec => []CountExact
<1>1. IInv => CountExact
  BY DEF IInv, CountExact, ReadCount, TypeOK, FlagInv, IndexInv, JobInv, CountInv, ReadInv,
         FirstScan, IndexLive, HasWorkspace, Cancelling, Pending, Busy, Starting, Working
<1> QED
  BY <1>1, Invariance, PTL

\* No auto-reset event is set twice before it is taken.
THEOREM NoSignalIsLost == ASSUME CallsApart PROVE SafetySpec => []NoLostSignal
<1>1. IInv => NoLostSignal
  BY DEF IInv, NoLostSignal, ThreadInv
<1> QED
  BY <1>1, Invariance, PTL

\* Shutdown leaves the state that init expects.
THEOREM RestartIsClean == ASSUME CallsApart PROVE SafetySpec => []CleanRestart
<1>1. IInv => CleanRestart
  BY DEF IInv, CleanRestart, TypeOK, ThreadInv, FlagInv, LockInv, IndexInv, IndexLive,
         Pending, Cancelling, Busy, Starting, Working
<1> QED
  BY <1>1, Invariance, PTL
-----------------------------------------------------------------------------
(***************************************************************************)
(* The safety half of the refinement: under the mapping of                 *)
(* ScannerProperties every step is a step of IndexService or changes       *)
(* nothing there.                                                          *)
(***************************************************************************)

\* A scanner that has not been initialised is a service without a workspace.
LEMMA ServiceInit == Init => Service!Init
BY DEF Init, Service!Init, wsBar, viewBar, Leaving

\* What a scan delivers to a workspace that is not being left may be published.
LEMMA Delivered ==
  ASSUME IInv, wpc \in {"swap_free", "swap_assign"}, ~Leaving
  PROVE  /\ scan_path # NULL /\ wsBar = scan_path
         /\ Shown(job.root, job) = Service!Listing(scan_path, job.ver)
         /\ job.ver \in wanted .. edits
         /\ IndexLive => index.ver <= job.ver /\ index.ver \in Nat
<1>1. scan_path # NULL /\ job.root = scan_path
  BY DEF IInv, IndexInv, JobInv, Working
<1>2. job.whole
  BY DEF IInv, WholeInv, Leaving, Cancelling, Kept
<1>3. job.whole = TRUE
  BY <1>2 DEF IInv, TypeOK, JobType
<1>4. job.ver \in wanted .. edits
  BY DEF IInv, TypeOK, JobType, FreshInv, Working
<1>5. IndexLive => index.ver <= job.ver /\ index.ver \in Nat
  BY DEF IInv, TypeOK, IndexType, FreshInv, Working
<1> QED
  BY <1>1, <1>3, <1>4, <1>5 DEF wsBar, Shown, Service!Listing

\* Every step is a step of IndexService or changes nothing that it knows.
LEMMA ServiceStep ==
  ASSUME CallsApart, IInv, [Next]_vars
  PROVE  [Service!Next]_(Service!vars)
<1> USE DEF wsBar, viewBar, Leaving, Service!vars, events, sync, flags, heap, counts, locals,
            ghosts, data
<1>1. CASE CancelScan
  <2>1. CASE scan_path = NULL
    BY <1>1, <2>1 DEF CancelScan, UiGoes
  <2>2. CASE scan_path # NULL
    <3>1. Service!Leave
      BY <1>1, <2>2 DEF CancelScan, UiGoes, Service!Leave
    <3> QED
      BY <3>1 DEF Service!Next
  <2> QED
    BY <2>1, <2>2
<1>2. CASE AwaitFinished \/ ClearCancel \/ SetupFree \/ StopTerminate
  BY <1>2 DEF AwaitFinished, ClearCancel, SetupFree, StopTerminate, UiGoes
<1>3. ASSUME NEW p \in Paths, SetupPublish(p)
      PROVE  [Service!Next]_(Service!vars)
  <2>1. wpc = "wait_begin" /\ ~IndexLive
    BY <1>3 DEF SetupPublish, UiGoes, IInv, ThreadInv, IndexInv
  <2>2. Service!Enter(p)
    BY <1>3, <2>1, PathsAssumption DEF SetupPublish, UiGoes, Service!Enter, IndexLive
  <2> QED
    BY <2>2 DEF Service!Next
<1>4. CASE RefreshClaim
  <2>1. scan_path # NULL
    BY <1>4 DEF RefreshClaim, UiGoes, IInv, IndexInv, Cancelling
  <2>2. Service!Request
    BY <1>4, <2>1 DEF RefreshClaim, UiGoes, Service!Request
  <2> QED
    BY <2>2 DEF Service!Next
<1>5. CASE StopJoin
  <2>1. scan_path' = NULL
    BY <1>5, WorkspaceFreed DEF StopJoin, UiGoes, WorkerGoes
  <2> QED
    BY <1>5, <2>1 DEF StopJoin, UiGoes
<1>6. CASE GlobInit \/ RefreshCall \/ RefreshMark \/ AwaitStarted
  BY <1>6 DEF GlobInit, RefreshCall, RefreshMark, AwaitStarted, UiGoes, IInv, ThreadInv
<1>7. CASE Begin
  BY <1>7 DEF Begin, UiGoes
<1>8. CASE InputCall \/ InputLock \/ InputCount \/ InputReadProgress \/ InputReadRefreshing
  BY <1>8 DEF InputCall, InputLock, InputCount, InputReadProgress, InputReadRefreshing, UiGoes
<1>9. CASE InputUse \/ InputUnlock \/ QueryProgress \/ QueryRefreshing \/ QueryCount
  BY <1>9 DEF InputUse, InputUnlock, QueryProgress, QueryRefreshing, QueryCount, UiGoes
<1>10. CASE WaitBegin \/ SetStarted \/ ResetFinished \/ Dispatch \/ ScanEntry \/ ScanEnd
  BY <1>10 DEF WaitBegin, SetStarted, ResetFinished, Dispatch, ScanEntry, ScanEnd, WorkerGoes
<1>11. CASE LockSwap
  BY <1>11 DEF LockSwap, WorkerGoes
<1>12. CASE SwapFree
  <2>1. CASE Leaving
    BY <1>12, <2>1 DEF SwapFree, WorkerGoes
  <2>2. CASE ~Leaving
    <3>1. wpc = "swap_free" /\ job.refreshing /\ IndexLive
      BY <1>12 DEF SwapFree, WorkerGoes, IInv, JobInv
    <3>2. /\ viewBar = Shown(index.path, index)
          /\ viewBar' = Shown(job.root, job)
          /\ wsBar' = wsBar /\ edits' = edits /\ wanted' = wanted
      BY <1>12, <2>2, <3>1, Delivered DEF SwapFree, WorkerGoes, IndexLive, Shown
    <3>3. Service!Publish(job.ver)
      <4> HIDE DEF wsBar, viewBar, Leaving
      <4> QED
        BY <2>2, <3>1, <3>2, Delivered DEF Service!Publish, Shown
    <3> QED
      BY <2>2, <3>1, <3>3, Delivered DEF Service!Next
  <2> QED
    BY <2>1, <2>2
<1>13. CASE SwapAssign
  <2>1. CASE Leaving
    BY <1>13, <2>1 DEF SwapAssign, WorkerGoes
  <2>2. CASE ~Leaving
    <3>1. wpc = "swap_assign" /\ wpc' = "unlock_swap"
      BY <1>13 DEF SwapAssign, WorkerGoes
    <3>2. /\ viewBar' = Shown(job.root, job)
          /\ wsBar' = wsBar /\ edits' = edits /\ wanted' = wanted
      BY <1>13, <2>2, <3>1, Delivered DEF SwapAssign, Shown
    <3>3. CASE job.refreshing
      <4>1. viewBar = Shown(job.root, job)
        BY <2>2, <3>1, <3>3, Delivered
      <4> QED
        BY <3>2, <4>1
    <3>4. CASE ~job.refreshing
      <4>1. viewBar = IF IndexLive THEN Shown(index.path, index) ELSE NULL
        BY <2>2, <3>1, <3>4, Delivered DEF IndexLive
      <4>2. Service!Publish(job.ver)
        <5> HIDE DEF wsBar, viewBar, Leaving
        <5> QED
          BY <2>2, <3>1, <3>2, <4>1, Delivered DEF Service!Publish, Shown
      <4> QED
        BY <2>2, <3>1, <4>2, Delivered DEF Service!Next
    <3> QED
      BY <3>3, <3>4
  <2> QED
    BY <2>1, <2>2
<1>14. CASE UnlockSwap \/ ClearProgress \/ ClearRefreshing \/ SetFinished
  BY <1>14 DEF UnlockSwap, ClearProgress, ClearRefreshing, SetFinished, WorkerGoes
<1>15. CASE Edit
  <2>1. Service!Tick
    BY <1>15 DEF Edit, Service!Tick
  <2> QED
    BY <2>1 DEF Service!Next
<1>16. CASE UNCHANGED vars
  BY <1>16 DEF vars
<1> QED
  BY <1>1, <1>2, <1>3, <1>4, <1>5, <1>6, <1>7, <1>8, <1>9, <1>10, <1>11, <1>12, <1>13,
     <1>14, <1>15, <1>16 DEF Next, Call, CallStep, WorkerStep

\* The scanner is an index service: its searches see whole listings of the right
\* workspace, never an older one than before and never one older than the last request.
THEOREM RefinesService == ASSUME CallsApart PROVE SafetySpec => Service!SafetySpec
<1>1. Init => Service!Init
  BY ServiceInit
<1>2. IInv /\ [Next]_vars => [Service!Next]_(Service!vars)
  BY ServiceStep
<1> QED
  BY <1>1, <1>2, Invariance, PTL DEF SafetySpec, Service!SafetySpec
=============================================================================
