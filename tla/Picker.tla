------------------------------- MODULE Picker -------------------------------
(***************************************************************************)
(* The picker of picker.lua: the prompt, the list of matches with its      *)
(* selection and its part that fits the window, and the timer that redraws *)
(* while the first scan runs.  All of it runs on Neovim's main thread, so  *)
(* a key, a command or a callback is a step; the scans go on meanwhile.    *)
(*                                                                         *)
(* Matches are known by their rank.  The module's table outlives the       *)
(* picker: input, selection and window position are those of the last one. *)
(***************************************************************************)
EXTENDS Integers, Sequences

CONSTANTS
  Titles,       \* the pickers: of git files, of all files
  Inputs,       \* what may be typed, besides nothing
  Sizes,        \* how many lines the list's window may have
  MaxMatches,   \* bound: 100 in init.lua
  MaxScans,     \* bound: scans begun or refreshed after the first one
  MaxQueued     \* bound: callbacks that wait for the main thread

ASSUME BoundsAssumption ==
  /\ \A size \in Sizes : size \in Nat /\ size > 0
  /\ MaxMatches \in Nat /\ MaxScans \in Nat /\ MaxQueued \in Nat

Nothing == "nothing"   \* an empty prompt

VARIABLES
  scanning,  \* of each picker's scanner: the first scan of the workspace is under way
  found,     \* how many matches its index has for an input
  scans,
  open,      \* M.input_win is valid
  title,     \* the picker that M.data_callback is for
  input, matches, selected,
  display_window_ind, display_window_size, display_selected,
  lines,     \* the list as it is drawn: ranks of matches, or none and what shown says
  shown,
  highlight, \* the line that is highlighted, or 0
  opened,    \* the match that was opened, or 0
  timer, queued

index  == <<scanning, found, scans>>
state  == <<title, input, matches, selected>>
window == <<display_window_ind, display_window_size, display_selected>>
screen == <<lines, shown, highlight>>
timing == <<timer, queued>>
vars   == <<index, open, state, window, screen, opened, timing>>

Init ==
  /\ scanning = [t \in Titles |-> TRUE] /\ found = [t \in Titles |-> [x \in Inputs |-> 0]]
  /\ scans = 0
  /\ open = FALSE /\ title \in Titles
  /\ input = Nothing /\ matches = 0 /\ selected = 1
  /\ display_window_ind = 1 /\ display_window_size \in Sizes /\ display_selected = 1
  /\ lines = <<>> /\ shown = "blank" /\ highlight = 0 /\ opened = 0
  /\ timer = "none" /\ queued = 0

(* (A definition whose name ends in X is the one after it with a plausible bug: the runs
   use it to show that a property would catch that bug.  No action refers to it.) *)

-----------------------------------------------------------------------------
\* process_input: nothing is found while the first scan runs, or for an empty prompt
\* (Scoring's ExactOnTop).
Answer(t, x) == IF scanning[t] \/ x = Nothing THEN 0 ELSE found[t][x]

\* A window that begins at match ind is moved as far as it must be to hold the selection.
WindowIndX(ind, size, sel) ==  \* scrolls down only
  IF sel > ind + size - 1 THEN sel - size + 1 ELSE ind

WindowInd(ind, size, sel) ==
  IF sel > ind + size - 1 THEN sel - size + 1 ELSE IF sel < ind THEN sel ELSE ind

\* The line of a window in which match sel is.
Line(ind, sel) == sel - ind + 1

UpdateDisplayWindow ==
  IF selected' = 0 THEN UNCHANGED <<display_window_ind, display_selected>>
  ELSE /\ display_window_ind' = WindowInd(display_window_ind, display_window_size', selected')
       /\ display_selected' = Line(display_window_ind', selected')

\* The matches that a window shows of n.
Rows(ind, size, n) ==
  LET last == IF ind + size - 1 <= n THEN ind + size - 1 ELSE n
  IN [k \in 1 .. (IF last < ind THEN 0 ELSE last - ind + 1) |-> ind + k - 1]

\* M.draw_lines and what M.update gives it.
DrawLines ==
  /\ lines' = Rows(display_window_ind', display_window_size', matches')
  /\ shown' = IF matches' # 0 THEN "matches"
              ELSE IF scanning[title'] THEN "Scanning" ELSE "NoMatches"

\* A buffer has one line at least, and nvim_buf_set_extmark fails if the line to
\* highlight is not there.
HighlightFails ==
  selected' > 0 /\ display_selected' > 1 /\ display_selected' > Len(lines')

StartRefreshTimer == timer' = IF timer = "none" THEN "running" ELSE timer

StopRefreshTimerX == timer' = IF timer = "none" THEN "none" ELSE "closed"  \* M.timer is kept
StopRefreshTimer  == timer' = "none"

\* M.update(reset_selection), the selection having been set to sel.  What fails, drawing
\* into a buffer that is gone or highlighting, ends it there.
Update(reset_selection, sel) ==
  /\ matches' = Answer(title', input')
  /\ selected' = IF matches' = 0 THEN 0 ELSE IF reset_selection THEN 1 ELSE sel
  /\ UpdateDisplayWindow
  /\ IF ~open' THEN UNCHANGED <<screen, timer>>
     ELSE /\ DrawLines
          /\ IF HighlightFails THEN highlight' = 0 /\ UNCHANGED timer
             ELSE /\ highlight' = IF selected' > 0 THEN display_selected' ELSE 0
                  /\ IF scanning[title'] THEN StartRefreshTimer ELSE StopRefreshTimer

-----------------------------------------------------------------------------
\* M.open, with an empty prompt: but what is searched for is still the last input.
Open(t, size) ==
  /\ ~open /\ open' = TRUE
  /\ title' = t /\ display_window_size' = size
  /\ opened' = 0
  /\ UNCHANGED input
  /\ Update(FALSE, selected)
  /\ UNCHANGED <<index, queued>>

\* TextChangedI
TextChanged(x) ==
  /\ open
  /\ input' = x
  /\ UNCHANGED <<open, title, display_window_size>>
  /\ Update(TRUE, selected)
  /\ UNCHANGED <<index, opened, queued>>

\* <C-n> and <C-p>
SelectTo(sel) ==
  /\ open
  /\ UNCHANGED <<open, title, input, display_window_size>>
  /\ Update(FALSE, sel)
  /\ UNCHANGED <<index, opened, queued>>

SelectNext == SelectTo(IF selected < matches THEN selected + 1 ELSE 1)
SelectPrev == SelectTo(IF selected > 1 THEN selected - 1 ELSE matches)

\* M.close_all: <Esc>, or the prompt is left.
CloseAll ==
  /\ open /\ open' = FALSE
  /\ lines' = <<>> /\ shown' = "blank" /\ highlight' = 0
  /\ UNCHANGED <<index, state, window, opened, timing>>

\* <CR> opens the match that is selected, if there is one.
Enter ==
  /\ open /\ open' = FALSE
  /\ lines' = <<>> /\ shown' = "blank" /\ highlight' = 0
  /\ opened' = IF selected \in 1 .. matches THEN selected ELSE 0
  /\ UNCHANGED <<index, state, window, timing>>

TimerFires ==
  /\ timer = "running" /\ queued < MaxQueued
  /\ queued' = queued + 1
  /\ UNCHANGED <<index, open, state, window, screen, opened, timer>>

CallbackX ==  \* does not look whether the picker is closed
  /\ queued > 0 /\ queued' = queued - 1
  /\ UNCHANGED <<index, open, title, input, display_window_size, opened>>
  /\ Update(TRUE, selected)

\* A callback of the timer, which by now may be closed, or another one.
Callback ==
  /\ queued > 0 /\ queued' = queued - 1
  /\ UNCHANGED <<index, open, title, input, display_window_size, opened>>
  /\ IF open THEN Update(TRUE, selected)
     ELSE /\ StopRefreshTimer
          /\ UNCHANGED <<matches, selected, display_window_ind, display_selected, screen>>

-----------------------------------------------------------------------------
\* The scanners, as IndexService has them: a scan of t ends, a refresh ends with another
\* listing, or a new workspace is set up.
Finds(t) == \E f \in [Inputs -> 0 .. MaxMatches] : found' = [found EXCEPT ![t] = f]

ScanEnds(t) ==
  /\ scanning[t] /\ scanning' = [scanning EXCEPT ![t] = FALSE]
  /\ Finds(t)
  /\ UNCHANGED <<scans, open, state, window, screen, opened, timing>>

Refreshed(t) ==
  /\ scans < MaxScans /\ scans' = scans + 1
  /\ ~scanning[t] /\ UNCHANGED scanning
  /\ Finds(t)
  /\ UNCHANGED <<open, state, window, screen, opened, timing>>

SetUp(t) ==
  /\ scans < MaxScans /\ scans' = scans + 1
  /\ ~scanning[t] /\ scanning' = [scanning EXCEPT ![t] = TRUE]
  /\ found' = [found EXCEPT ![t] = [x \in Inputs |-> 0]]
  /\ UNCHANGED <<open, state, window, screen, opened, timing>>

User ==
  \/ \E t \in Titles, size \in Sizes : Open(t, size)
  \/ \E x \in Inputs \cup {Nothing} : TextChanged(x)
  \/ SelectNext \/ SelectPrev \/ CloseAll \/ Enter

Next ==
  \/ User \/ TimerFires \/ Callback
  \/ \E t \in Titles : ScanEnds(t) \/ Refreshed(t) \/ SetUp(t)

\* The main thread works off its queue while the timer fires, and a first scan ends.
Fairness ==
  /\ WF_vars(TimerFires) /\ WF_vars(Callback)
  /\ \A t \in Titles : WF_vars(ScanEnds(t))

SafetySpec == Init /\ [][Next]_vars
Spec       == SafetySpec /\ Fairness

-----------------------------------------------------------------------------
TypeOK ==
  /\ scanning \in [Titles -> BOOLEAN] /\ found \in [Titles -> [Inputs -> 0 .. MaxMatches]]
  /\ scans \in 0 .. MaxScans
  /\ open \in BOOLEAN /\ title \in Titles /\ input \in Inputs \cup {Nothing}
  /\ matches \in 0 .. MaxMatches /\ selected \in Nat
  /\ display_window_ind \in Nat /\ display_window_ind > 0
  /\ display_window_size \in Sizes
  /\ display_selected \in Nat /\ display_selected > 0
  /\ lines \in Seq(1 .. MaxMatches) /\ highlight \in Nat
  /\ shown \in {"blank", "matches", "Scanning", "NoMatches"}
  /\ opened \in 0 .. MaxMatches
  /\ timer \in {"none", "running"} /\ queued \in 0 .. MaxQueued

\* <CR> opens the match whose line is highlighted, though matches, selection and window
\* are kept from one picker to the next and change apart.
EnterOpensHighlighted ==
  open /\ selected \in 1 .. matches =>
    highlight \in DOMAIN lines /\ lines[highlight] = selected

\* As long as the list says "Scanning" the timer is there to say what comes of it.
ScanningIsPolled == open /\ shown = "Scanning" => timer = "running"

\* A picker that says "Scanning" shows what was found, or that there is nothing, some
\* time, unless it is closed.
ScanShown == open /\ shown = "Scanning" ~> shown # "Scanning"

\* The timer does not run for ever: not beyond the scan, though a failing redraw skips
\* the stop, and not in a closed picker.
TimerStops == timer # "none" ~> timer = "none"
=============================================================================
