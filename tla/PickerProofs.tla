---------------------------- MODULE PickerProofs ----------------------------
(***************************************************************************)
(* The picker for any number of matches, any window and any inputs: what   *)
(* is highlighted is what <CR> opens, and "Scanning" is always polled.     *)
(*                                                                         *)
(* Every step of an open picker that touches its list is an Update, so     *)
(* both follow from what one Update leaves behind, whatever it finds.      *)
(***************************************************************************)
EXTENDS Picker, TLAPS

IInv == TypeOK /\ EnterOpensHighlighted /\ ScanningIsPolled

\* What an Update is given: the picker's state otherwise, the scanners as they are.
Given ==
  /\ open' \in BOOLEAN /\ title' \in Titles /\ input' \in Inputs \cup {Nothing}
  /\ display_window_size' \in Sizes
  /\ UNCHANGED index

\* The window is moved to the selection: it holds it, in a line of its own.
LEMMA WindowHoldsSelection ==
  ASSUME NEW ind \in Nat, ind > 0, NEW size \in Nat, size > 0, NEW sel \in Nat, sel > 0,
         NEW ind2, ind2 = WindowInd(ind, size, sel)
  PROVE  /\ ind2 \in Nat /\ ind2 > 0 /\ ind2 <= sel /\ sel <= ind2 + size - 1
         /\ Line(ind2, sel) \in Nat /\ Line(ind2, sel) > 0
  BY DEF WindowInd, Line

\* What is drawn are matches, and a match that the window holds is drawn in its line.
LEMMA RowsShown ==
  ASSUME NEW ind \in Nat, ind > 0, NEW size \in Nat, size > 0,
         NEW n \in Nat, NEW M \in Nat, n <= M
  PROVE  /\ Rows(ind, size, n) \in Seq(1 .. M)
         /\ \A sel \in 1 .. n : ind <= sel /\ sel <= ind + size - 1 =>
              /\ Line(ind, sel) \in DOMAIN Rows(ind, size, n)
              /\ Rows(ind, size, n)[Line(ind, sel)] = sel
              /\ Line(ind, sel) <= Len(Rows(ind, size, n))
<1> DEFINE last == IF ind + size - 1 <= n THEN ind + size - 1 ELSE n
           rows == IF last < ind THEN 0 ELSE last - ind + 1
<1>1. last \in Int /\ last <= n /\ rows \in Nat
  OBVIOUS
<1>2. Rows(ind, size, n) = [k \in 1 .. rows |-> ind + k - 1]
  BY DEF Rows
<1>3. \A k \in 1 .. rows : ind + k - 1 \in 1 .. M
  BY <1>1
<1>4. \A sel \in 1 .. n : ind <= sel /\ sel <= ind + size - 1 =>
        Line(ind, sel) \in 1 .. rows /\ ind + Line(ind, sel) - 1 = sel
  BY <1>1 DEF Line
<1> HIDE DEF rows
<1>5. /\ Rows(ind, size, n) \in Seq(1 .. M) /\ Len(Rows(ind, size, n)) = rows
      /\ DOMAIN Rows(ind, size, n) = 1 .. rows
  BY <1>1, <1>2, <1>3
<1>6. \A k \in 1 .. rows : Rows(ind, size, n)[k] = ind + k - 1
  BY <1>2
<1> QED
  BY <1>1, <1>4, <1>5, <1>6

\* How Update leaves window and list, in numbers: a window that begins at match ind moves
\* to ind2, the selection to sel in the given line, and of n matches the rows are drawn.
Moved(ind, size, sel, n, ind2, line, rows) ==
  /\ ind \in Nat /\ ind > 0 /\ size \in Nat /\ size > 0
  /\ sel \in Nat /\ n \in 0 .. MaxMatches
  /\ rows = Rows(ind2, size, n)
  /\ sel = 0 => ind2 = ind /\ line \in Nat /\ line > 0
  /\ sel # 0 => ind2 = WindowInd(ind, size, sel) /\ line = Line(ind2, sel)

\* Both together: a selected match is drawn, in the line that is highlighted.
LEMMA SelectionShown ==
  ASSUME NEW ind, NEW size, NEW sel, NEW n, NEW ind2, NEW line, NEW rows,
         Moved(ind, size, sel, n, ind2, line, rows)
  PROVE  /\ ind2 \in Nat /\ ind2 > 0 /\ line \in Nat /\ line > 0
         /\ rows \in Seq(1 .. MaxMatches)
         /\ sel \in 1 .. n => line \in DOMAIN rows /\ rows[line] = sel /\ ~(line > Len(rows))
<1>0. /\ ind \in Nat /\ ind > 0 /\ size \in Nat /\ size > 0 /\ sel \in Nat
      /\ rows = Rows(ind2, size, n)
  BY DEF Moved
<1>1. n \in Nat /\ n <= MaxMatches /\ MaxMatches \in Nat
  BY BoundsAssumption DEF Moved
<1>2. CASE sel = 0
  <2>1. ind2 = ind /\ line \in Nat /\ line > 0
    BY <1>2 DEF Moved
  <2>2. rows \in Seq(1 .. MaxMatches)
    BY <1>0, <1>1, <2>1, RowsShown
  <2> QED
    BY <1>0, <1>1, <1>2, <2>1, <2>2
<1>3. CASE sel # 0
  <2>1. ind2 = WindowInd(ind, size, sel) /\ line = Line(ind2, sel) /\ sel > 0
    BY <1>0, <1>3 DEF Moved
  <2>2. /\ ind2 \in Nat /\ ind2 > 0 /\ ind2 <= sel /\ sel <= ind2 + size - 1
        /\ line \in Nat /\ line > 0
    BY <1>0, <2>1, WindowHoldsSelection
  <2>3. /\ rows \in Seq(1 .. MaxMatches)
        /\ sel \in 1 .. n => line \in DOMAIN rows /\ rows[line] = sel /\ line <= Len(rows)
    <3>1. /\ Rows(ind2, size, n) \in Seq(1 .. MaxMatches)
          /\ \A m \in 1 .. n : ind2 <= m /\ m <= ind2 + size - 1 =>
               /\ Line(ind2, m) \in DOMAIN Rows(ind2, size, n)
               /\ Rows(ind2, size, n)[Line(ind2, m)] = m
               /\ Line(ind2, m) <= Len(Rows(ind2, size, n))
      BY <1>0, <1>1, <2>2, RowsShown
    <3> QED
      BY <1>0, <2>1, <2>2, <3>1
  <2>4. sel \in 1 .. n => ~(line > Len(rows))
    <3>1. Len(rows) \in Nat
      BY <2>3
    <3> QED
      BY <2>2, <2>3, <3>1
  <2> QED
    BY <1>3, <2>2, <2>3, <2>4
<1> QED
  BY <1>2, <1>3

\* An Update of any picker, given a selection that is a number, leaves the window around
\* the selection, the selection highlighted, and the timer running if it says "Scanning".
LEMMA UpdateLeaves ==
  ASSUME NEW reset \in BOOLEAN, NEW sel \in Nat,
         IInv, Given, Update(reset, sel)
  PROVE  /\ matches' \in 0 .. MaxMatches /\ selected' \in Nat
         /\ display_window_ind' \in Nat /\ display_window_ind' > 0
         /\ display_selected' \in Nat /\ display_selected' > 0
         /\ timer' \in {"none", "running"}
         /\ lines' \in Seq(1 .. MaxMatches) /\ highlight' \in Nat
         /\ shown' \in {"blank", "matches", "Scanning", "NoMatches"}
         /\ EnterOpensHighlighted' /\ ScanningIsPolled'
<1>1. PICK n, sel2, ind2, line, size, rows :
        /\ n = matches' /\ sel2 = selected' /\ ind2 = display_window_ind'
        /\ line = display_selected' /\ size = display_window_size'
        /\ rows = Rows(display_window_ind', display_window_size', matches')
  OBVIOUS
<1>2. n \in 0 .. MaxMatches
  <2>1. n = Answer(title', input')
    BY <1>1 DEF Update
  <2>2. scanning' = scanning /\ found' = found
    BY DEF Given, index
  <2> QED
    BY <2>1, <2>2, BoundsAssumption DEF Answer, IInv, TypeOK, Given
<1>3. sel2 \in Nat /\ (n = 0 => sel2 = 0)
  BY <1>1 DEF Update
<1>4. size \in Nat /\ size > 0
  BY <1>1, BoundsAssumption DEF Given
<1>5. /\ display_window_ind \in Nat /\ display_window_ind > 0
      /\ display_selected \in Nat /\ display_selected > 0
  BY DEF IInv, TypeOK
<1>6. /\ sel2 = 0 => ind2 = display_window_ind /\ line = display_selected
      /\ sel2 # 0 => /\ ind2 = WindowInd(display_window_ind, size, sel2)
                     /\ line = Line(ind2, sel2)
  BY <1>1 DEF Update, UpdateDisplayWindow
<1>7. rows = Rows(ind2, size, n)
  BY <1>1
<1>8. /\ ind2 \in Nat /\ ind2 > 0 /\ line \in Nat /\ line > 0
      /\ rows \in Seq(1 .. MaxMatches)
      /\ sel2 \in 1 .. n => line \in DOMAIN rows /\ rows[line] = sel2 /\ ~(line > Len(rows))
  <2>1. Moved(display_window_ind, size, sel2, n, ind2, line, rows)
    BY <1>2, <1>3, <1>4, <1>5, <1>6, <1>7 DEF Moved
  <2> QED
    BY <2>1, SelectionShown
<1>9. CASE ~open'
  <2>1. UNCHANGED <<screen, timer>>
    BY <1>9 DEF Update
  <2> QED
    BY <1>1, <1>2, <1>3, <1>8, <1>9, <2>1
       DEF IInv, TypeOK, screen, EnterOpensHighlighted, ScanningIsPolled
<1>10. CASE open'
  <2>1. /\ lines' = rows
        /\ shown' = IF n # 0 THEN "matches"
                    ELSE IF scanning[title'] THEN "Scanning" ELSE "NoMatches"
    BY <1>1, <1>10 DEF Update, DrawLines
  <2>2. HighlightFails <=> sel2 > 0 /\ line > 1 /\ line > Len(rows)
    BY <1>1, <2>1 DEF HighlightFails
  <2>3. sel2 \in 1 .. n => ~HighlightFails
    BY <1>8, <2>2
  <2>4. n = 0 => ~HighlightFails
    BY <1>3, <2>2
  <2>5. IF HighlightFails THEN highlight' = 0 /\ UNCHANGED timer
        ELSE /\ highlight' = IF sel2 > 0 THEN line ELSE 0
             /\ IF scanning[title'] THEN StartRefreshTimer ELSE StopRefreshTimer
    BY <1>1, <1>10 DEF Update
  <2>6. highlight' \in Nat /\ (sel2 \in 1 .. n => highlight' = line)
    BY <1>2, <1>3, <1>8, <2>3, <2>5
  <2>7. timer' \in {"none", "running"} /\ (shown' = "Scanning" => timer' = "running")
    BY <2>1, <2>4, <2>5 DEF IInv, TypeOK, StartRefreshTimer, StopRefreshTimer
  <2>8. EnterOpensHighlighted'
    BY <1>1, <1>8, <2>1, <2>6 DEF EnterOpensHighlighted
  <2>9. ScanningIsPolled'
    BY <2>7 DEF ScanningIsPolled
  <2> QED
    BY <1>1, <1>2, <1>3, <1>8, <2>1, <2>6, <2>7, <2>8, <2>9
<1> QED
  BY <1>9, <1>10 DEF Given

LEMMA InitIInv == Init => IInv
<1> SUFFICES ASSUME Init PROVE IInv
  OBVIOUS
<1>1. lines \in Seq(1 .. MaxMatches) /\ lines = <<>>
  BY DEF Init
<1>2. found \in [Titles -> [Inputs -> 0 .. MaxMatches]] /\ opened \in 0 .. MaxMatches
  BY BoundsAssumption DEF Init
<1>3. scans \in 0 .. MaxScans /\ queued \in 0 .. MaxQueued /\ matches \in 0 .. MaxMatches
  BY BoundsAssumption DEF Init
<1>4. scanning \in [Titles -> BOOLEAN] /\ open \in BOOLEAN
  BY DEF Init
<1>5. /\ selected \in Nat /\ highlight \in Nat
      /\ display_window_ind \in Nat /\ display_window_ind > 0
      /\ display_selected \in Nat /\ display_selected > 0
  BY DEF Init
<1>6. TypeOK
  BY <1>1, <1>2, <1>3, <1>4, <1>5 DEF Init, TypeOK
<1> QED
  BY <1>6 DEF Init, IInv, EnterOpensHighlighted, ScanningIsPolled

\* An Update in any picker keeps the invariant, if the rest of the step is as it must be.
LEMMA UpdateKeeps ==
  ASSUME NEW reset \in BOOLEAN, NEW sel \in Nat,
         IInv, Given, Update(reset, sel),
         opened' \in 0 .. MaxMatches, queued' \in 0 .. MaxQueued
  PROVE  IInv'
<1>1. TypeOK
  BY DEF IInv
<1>2. /\ matches' \in 0 .. MaxMatches /\ selected' \in Nat
      /\ display_window_ind' \in Nat /\ display_window_ind' > 0
         /\ display_selected' \in Nat /\ display_selected' > 0
      /\ timer' \in {"none", "running"}
      /\ lines' \in Seq(1 .. MaxMatches) /\ highlight' \in Nat
      /\ shown' \in {"blank", "matches", "Scanning", "NoMatches"}
      /\ EnterOpensHighlighted' /\ ScanningIsPolled'
  BY <1>1, UpdateLeaves
<1>3. TypeOK'
  BY <1>1, <1>2 DEF TypeOK, Given, index
<1> QED
  BY <1>2, <1>3 DEF IInv

\* Every step keeps the invariant: it updates an open picker, or leaves its list alone.
LEMMA StepIInv == IInv /\ [Next]_vars => IInv'
<1> SUFFICES ASSUME IInv, [Next]_vars PROVE IInv'
  OBVIOUS
<1>0. TypeOK /\ MaxMatches \in Nat /\ MaxQueued \in Nat
  BY BoundsAssumption DEF IInv
<1>1. CASE UNCHANGED vars
  BY <1>1 DEF vars, IInv, TypeOK, EnterOpensHighlighted, ScanningIsPolled,
              index, state, window, screen, timing
<1>2. ASSUME NEW t \in Titles, NEW size \in Sizes, Open(t, size) PROVE IInv'
  <2>1. Given /\ opened' \in 0 .. MaxMatches /\ queued' \in 0 .. MaxQueued
    BY <1>0, <1>2 DEF Open, Given, TypeOK
  <2>2. Update(FALSE, selected) /\ selected \in Nat
    BY <1>0, <1>2 DEF Open, TypeOK
  <2> QED
    BY <2>1, <2>2, UpdateKeeps
<1>3. ASSUME NEW x \in Inputs \cup {Nothing}, TextChanged(x) PROVE IInv'
  <2>1. Given /\ opened' \in 0 .. MaxMatches /\ queued' \in 0 .. MaxQueued
    BY <1>0, <1>3 DEF TextChanged, Given, TypeOK
  <2>2. Update(TRUE, selected) /\ selected \in Nat
    BY <1>0, <1>3 DEF TextChanged, TypeOK
  <2> QED
    BY <2>1, <2>2, UpdateKeeps
<1>4. ASSUME NEW sel \in Nat, SelectTo(sel) PROVE IInv'
  <2>1. Given /\ opened' \in 0 .. MaxMatches /\ queued' \in 0 .. MaxQueued
    BY <1>0, <1>4 DEF SelectTo, Given, TypeOK
  <2>2. Update(FALSE, sel)
    BY <1>4 DEF SelectTo
  <2> QED
    BY <2>1, <2>2, UpdateKeeps
<1>5. CASE SelectNext
  <2>1. (IF selected < matches THEN selected + 1 ELSE 1) \in Nat
    BY <1>0 DEF TypeOK
  <2> QED
    BY <1>4, <1>5, <2>1 DEF SelectNext
<1>6. CASE SelectPrev
  <2>1. (IF selected > 1 THEN selected - 1 ELSE matches) \in Nat
    BY <1>0 DEF TypeOK
  <2> QED
    BY <1>4, <1>6, <2>1 DEF SelectPrev
<1>7. CASE CloseAll
  <2>1. lines' \in Seq(1 .. MaxMatches)
    BY <1>7 DEF CloseAll
  <2> QED
    BY <1>7, <2>1 DEF CloseAll, IInv, TypeOK, EnterOpensHighlighted, ScanningIsPolled,
                      index, state, window, timing
<1>8. CASE Enter
  <2>1. opened' \in 0 .. MaxMatches
    BY <1>0, <1>8 DEF Enter, TypeOK
  <2>2. lines' \in Seq(1 .. MaxMatches)
    BY <1>8 DEF Enter
  <2> QED
    BY <1>8, <2>1, <2>2 DEF Enter, IInv, TypeOK, EnterOpensHighlighted, ScanningIsPolled,
                      index, state, window, timing
<1>9. CASE TimerFires
  <2>1. queued' \in 0 .. MaxQueued
    BY <1>0, <1>9 DEF TimerFires, TypeOK
  <2> QED
    BY <1>9, <2>1 DEF TimerFires, IInv, TypeOK, EnterOpensHighlighted, ScanningIsPolled,
                      index, state, window, screen
<1>10. CASE Callback
  <2>1. queued' \in 0 .. MaxQueued
    BY <1>0, <1>10 DEF Callback, TypeOK
  <2>2. CASE open
    <3>1. Given /\ opened' \in 0 .. MaxMatches /\ selected \in Nat /\ Update(TRUE, selected)
      BY <1>0, <1>10, <2>2 DEF Callback, Given, TypeOK
    <3> QED
      BY <2>1, <3>1, UpdateKeeps
  <2>3. CASE ~open
    BY <1>10, <2>1, <2>3 DEF Callback, StopRefreshTimer, IInv, TypeOK, EnterOpensHighlighted,
                             ScanningIsPolled, index, screen
  <2> QED
    BY <2>2, <2>3
<1>11. ASSUME NEW t \in Titles, ScanEnds(t) PROVE IInv'
  BY <1>11 DEF ScanEnds, Finds, IInv, TypeOK, EnterOpensHighlighted, ScanningIsPolled,
               state, window, screen, timing
<1>12. ASSUME NEW t \in Titles, Refreshed(t) PROVE IInv'
  <2>1. scans' \in 0 .. MaxScans
    BY <1>12, BoundsAssumption DEF Refreshed, IInv, TypeOK
  <2> QED
    BY <1>12, <2>1 DEF Refreshed, Finds, IInv, TypeOK, EnterOpensHighlighted, ScanningIsPolled,
                       state, window, screen, timing
<1>13. ASSUME NEW t \in Titles, SetUp(t) PROVE IInv'
  <2>1. scans' \in 0 .. MaxScans
    BY <1>13, BoundsAssumption DEF SetUp, IInv, TypeOK
  <2> QED
    BY <1>0, <1>13, <2>1 DEF SetUp, IInv, TypeOK, EnterOpensHighlighted, ScanningIsPolled,
                             state, window, screen, timing
<1> QED
  BY <1>1, <1>2, <1>3, <1>5, <1>6, <1>7, <1>8, <1>9, <1>10, <1>11, <1>12, <1>13
     DEF Next, User

-----------------------------------------------------------------------------
\* An Update finds what the one before it has left.
THEOREM Invariance == Spec => []IInv
  BY InitIInv, StepIInv, PTL DEF Spec, SafetySpec

\* Every variable of the picker keeps its type: no window is empty of lines or starts before
\* the first match.
THEOREM TypeCorrect == Spec => []TypeOK
<1>1. IInv => TypeOK
  BY DEF IInv
<1> QED
  BY Invariance, <1>1, PTL

\* <CR> opens the match that is highlighted (picker.lua:216 and 153).
THEOREM EnterOpensTheHighlighted == Spec => []EnterOpensHighlighted
<1>1. IInv => EnterOpensHighlighted
  BY DEF IInv
<1> QED
  BY Invariance, <1>1, PTL

\* While the list says "Scanning" the timer runs (picker.lua:161).
THEOREM ScanningPolled == Spec => []ScanningIsPolled
<1>1. IInv => ScanningIsPolled
  BY DEF IInv
<1> QED
  BY Invariance, <1>1, PTL
=============================================================================
