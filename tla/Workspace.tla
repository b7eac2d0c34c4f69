----------------------------- MODULE Workspace -----------------------------
(***************************************************************************)
(* The two scanners behind the Lua API of main.c, and the refresh command  *)
(* of init.lua with the timer that reports when both have finished.        *)
(*                                                                         *)
(* A call of the API asks one scanner after the other, each scanner's part *)
(* being a step; the scans go on in between.  Of a scan the step that      *)
(* publishes its listing and the one after which it is no longer in        *)
(* progress are told apart (Scanner has all of its steps).  Lua runs on    *)
(* Neovim's main thread: commands and callbacks start between calls, and a *)
(* timer's callback is only queued when the timer fires (vim.schedule), so *)
(* it may run when the timer has been stopped.                             *)
(***************************************************************************)
EXTENDS Integers

CONSTANTS
  Paths, None,
  MaxEdits, MaxSetups, MaxRefreshes,  \* bounds: changes of the file system, commands
  MaxQueued                           \* bound: callbacks that wait for the main thread

SCANNER_GIT   == 0
SCANNER_FILES == 1
SCANNER_COUNT == 2
Scanners      == 0 .. SCANNER_COUNT - 1

ASSUME PathsAssumption  == None \notin Paths \cup Nat
ASSUME BoundsAssumption == {MaxEdits, MaxSetups, MaxRefreshes, MaxQueued} \subseteq Nat

VARIABLES
  call,  \* what the main thread is doing: nothing, or a part of a command or callback
  at,    \* the scanner that the call's loop has come to
  workspace,  \* setup's argument
  res,   \* what is_refreshing has gathered
  scan_path, view, scan, asked,  \* of each scanner; view is its listing's version
  disk,  \* the version of the file system
  timer, \* M.timer: none, running, or a handle left over from a timer that was closed
  queued,
  said,  \* the last message of the refresh command
  setups, refreshes

scanners == <<scan_path, view, scan, asked>>
timing   == <<timer, queued, said>>
bounds   == <<setups, refreshes>>
loop     == <<call, at, workspace, res>>
vars     == <<loop, scanners, disk, timing, bounds>>

Init ==
  /\ call = "idle" /\ at = 0 /\ workspace = None /\ res = FALSE
  /\ scan_path = [s \in Scanners |-> None] /\ view = [s \in Scanners |-> None]
  /\ scan = [s \in Scanners |-> "idle"] /\ asked = [s \in Scanners |-> 0]
  /\ disk = 0
  /\ timer = "none" /\ queued = 0 /\ said = "nothing"
  /\ setups = 0 /\ refreshes = 0

scan_in_progress(s) == scan[s] # "idle"

\* The main thread starts a call, whose loop begins with the first scanner.
Starts(c) == call = "idle" /\ call' = c /\ at' = 0

\* The loop of call c goes on to the next scanner, or what follows the loop begins.
Loops(c, then) ==
  /\ call = c
  /\ IF at + 1 < SCANNER_COUNT THEN at' = at + 1 /\ UNCHANGED call
                               ELSE at' = 0 /\ call' = then

(* (A definition whose name ends in X is the one after it with a plausible bug: the runs
   use it to show that a property would catch that bug.  No action refers to it.) *)

-----------------------------------------------------------------------------
\* swimd_lua_setup_workspace: each scanner is cancelled and freed, then begins its first
\* scan of the new path.
Setup(p) ==
  /\ setups < MaxSetups
  /\ Starts("free")
  /\ workspace' = p
  /\ setups' = setups + 1
  /\ UNCHANGED <<res, scanners, disk, timing, refreshes>>

SetupFree ==
  /\ call = "free" /\ call' = "begin"
  /\ scan_path' = [scan_path EXCEPT ![at] = None]
  /\ view' = [view EXCEPT ![at] = None]
  /\ scan' = [scan EXCEPT ![at] = "idle"]
  /\ UNCHANGED <<at, workspace, res, asked, disk, timing, bounds>>

SetupBegin ==
  /\ call = "begin"
  /\ IF at + 1 < SCANNER_COUNT THEN at' = at + 1 /\ call' = "free"
                               ELSE at' = 0 /\ call' = "idle"
  /\ scan_path' = [scan_path EXCEPT ![at] = workspace]
  /\ scan' = [scan EXCEPT ![at] = "listing"]
  /\ asked' = [asked EXCEPT ![at] = disk]
  /\ UNCHANGED <<workspace, res, view, disk, timing, bounds>>

\* M.refresh: swimd_lua_refresh_workspace, then the message and the timer.  A scanner that
\* is scanning drops the request.
Refresh ==
  /\ refreshes < MaxRefreshes /\ setups > 0
  /\ Starts("refresh")
  /\ refreshes' = refreshes + 1
  /\ UNCHANGED <<workspace, res, scanners, disk, timing, setups>>

RefreshScannerX ==  \* the listing goes before its successor is there
  /\ Loops("refresh", "refreshing")
  /\ IF scan_in_progress(at) THEN UNCHANGED <<scan, asked, view>>
     ELSE /\ scan' = [scan EXCEPT ![at] = "listing"]
          /\ asked' = [asked EXCEPT ![at] = disk]
          /\ view' = [view EXCEPT ![at] = None]
  /\ UNCHANGED <<workspace, res, scan_path, disk, timing, bounds>>

RefreshScanner ==
  /\ Loops("refresh", "refreshing")
  /\ IF scan_in_progress(at) THEN UNCHANGED <<scan, asked>>
     ELSE /\ scan' = [scan EXCEPT ![at] = "listing"]
          /\ asked' = [asked EXCEPT ![at] = disk]
  /\ UNCHANGED <<workspace, res, scan_path, view, disk, timing, bounds>>

\* The message, and M.start_refresh_timer.
StartRefreshTimer ==
  /\ call = "refreshing" /\ call' = "idle"
  /\ said' = "refreshing"
  /\ timer' = IF timer = "none" THEN "running" ELSE timer
  /\ UNCHANGED <<at, workspace, res, scanners, disk, queued, bounds>>

-----------------------------------------------------------------------------
\* The timer fires while the main thread waits for something to do.
TimerFires ==
  /\ call = "idle" /\ timer = "running" /\ queued < MaxQueued
  /\ queued' = queued + 1
  /\ UNCHANGED <<loop, scanners, disk, timer, said, bounds>>

\* A callback is run: swimd_lua_is_refreshing gathers whether any scanner is scanning.
Callback ==
  /\ Starts("query") /\ queued > 0
  /\ queued' = queued - 1
  /\ res' = FALSE
  /\ UNCHANGED <<workspace, scanners, disk, timer, said, bounds>>

QueryScannerX ==  \* the last scanner's answer is the answer
  /\ Loops("query", "report")
  /\ res' = scan_in_progress(at)
  /\ UNCHANGED <<workspace, scanners, disk, timing, bounds>>

QueryScanner ==
  /\ Loops("query", "report")
  /\ res' = (res \/ scan_in_progress(at))
  /\ UNCHANGED <<workspace, scanners, disk, timing, bounds>>

\* M.stop_refresh_timer
StopRefreshTimerX == timer' = IF timer = "none" THEN "none" ELSE "closed"  \* M.timer is kept
StopRefreshTimer  == timer' = "none"

\* The callback's message; the refresh is complete when no scanner is scanning.
Report ==
  /\ call = "report" /\ call' = "idle"
  /\ IF res THEN said' = "refreshing" /\ UNCHANGED timer
            ELSE said' = "completed" /\ StopRefreshTimer
  /\ UNCHANGED <<at, workspace, res, scanners, disk, queued, bounds>>

-----------------------------------------------------------------------------
\* A scanner's thread publishes what it found, as of some version since it was asked.
\* (IndexService has the scanner's part of this, and Scanner shows that it is so.)
Publish(s) ==
  /\ scan[s] = "listing"
  /\ scan' = [scan EXCEPT ![s] = "published"]
  /\ \E v \in asked[s] .. disk : view' = [view EXCEPT ![s] = v]
  /\ UNCHANGED <<loop, scan_path, asked, disk, timing, bounds>>

\* scan_in_progress is cleared.
Finish(s) ==
  /\ scan[s] = "published"
  /\ scan' = [scan EXCEPT ![s] = "idle"]
  /\ UNCHANGED <<loop, scan_path, view, asked, disk, timing, bounds>>

Edit ==
  /\ disk < MaxEdits
  /\ disk' = disk + 1
  /\ UNCHANGED <<loop, scanners, timing, bounds>>

-----------------------------------------------------------------------------
Command  == (\E p \in Paths : Setup(p)) \/ Refresh
CallStep ==
  \/ SetupFree \/ SetupBegin
  \/ RefreshScanner \/ StartRefreshTimer \/ QueryScanner \/ Report

Next ==
  \/ Command \/ CallStep \/ TimerFires \/ Callback
  \/ \E s \in Scanners : Publish(s) \/ Finish(s)
  \/ Edit

\* Calls go on to their end, timers fire, the queue is worked off, and scans end.  The
\* user, whose commands are bounded, stops some time.
Fairness ==
  /\ WF_vars(CallStep) /\ WF_vars(TimerFires) /\ WF_vars(Callback)
  /\ \A s \in Scanners : WF_vars(Publish(s)) /\ WF_vars(Finish(s))

SafetySpec == Init /\ [][Next]_vars
Spec       == SafetySpec /\ Fairness

-----------------------------------------------------------------------------
TypeOK ==
  /\ call \in {"idle", "free", "begin", "refresh", "refreshing", "query", "report"}
  /\ at \in Scanners /\ workspace \in Paths \cup {None} /\ res \in BOOLEAN
  /\ scan_path \in [Scanners -> Paths \cup {None}]
  /\ view \in [Scanners -> Nat \cup {None}]
  /\ scan \in [Scanners -> {"idle", "listing", "published"}]
  /\ asked \in [Scanners -> Nat] /\ disk \in Nat
  /\ timer \in {"none", "running"} /\ queued \in 0 .. MaxQueued
  /\ said \in {"nothing", "refreshing", "completed"}
  /\ setups \in 0 .. MaxSetups /\ refreshes \in 0 .. MaxRefreshes

\* "refresh completed" is said only when both scanners, though asked one after the other
\* while they go on scanning, are idle at once, with the listings of one workspace, each
\* no older than the last request its scanner accepted.
CompletedMeansCurrent ==
  call = "report" /\ ~res =>
    \A s \in Scanners :
      /\ scan[s] = "idle" /\ scan_path[s] = workspace
      /\ view[s] # None /\ view[s] >= asked[s]

\* A refresh is reported complete some time, whatever was dropped and whichever callbacks
\* run late, and its timer is gone then.
RefreshReported ==
  said = "refreshing" /\ timer # "none" ~> said = "completed" /\ timer = "none"

\* What the picker asks for its matches: each scanner, behind the API that drives both,
\* does what IndexService promises.
Listed(s) == IF view[s] = None THEN None
             ELSE [path |-> scan_path[s], ver |-> view[s], whole |-> TRUE]

Git == INSTANCE IndexService WITH
  ws <- scan_path[SCANNER_GIT], view <- Listed(SCANNER_GIT),
  clock <- disk, asked <- asked[SCANNER_GIT]

Files == INSTANCE IndexService WITH
  ws <- scan_path[SCANNER_FILES], view <- Listed(SCANNER_FILES),
  clock <- disk, asked <- asked[SCANNER_FILES]

ImplementServices == Git!Spec /\ Files!Spec
=============================================================================
