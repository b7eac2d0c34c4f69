----------------------------- MODULE MCScoring -----------------------------
(***************************************************************************)
(* The tables of main.c, and a small instance of Scoring: names of up to   *)
(* three characters, two lanes, tables in which the three costs come one   *)
(* after the other.                                                        *)
(***************************************************************************)
EXTENDS Scoring, SequencesExt

\* swimd_gap_distr_fun_custom: each row's cost as often as the row says, the last row's
\* (it says -1) for the rest.
GapDistrFun(rows, n) ==
  LET Times(row) == [k \in 1 .. IF row[2] = -1 THEN n ELSE row[2] |-> row[1]]
      costs      == FlattenSeq([r \in DOMAIN rows |-> Times(rows[r])])
  IN [k \in 0 .. n - 1 |-> costs[k + 1]]

\* swimd_gap_distr_sum
GapDistrSum(fun, n) ==
  LET sum[k \in 0 .. n - 1] == IF k = 0 THEN 0 ELSE sum[k - 1] + fun[k - 1] IN sum

GAP_PENALTY == << <<-12, 1>>, <<-11, 4>>, <<-10, -1>> >>
SMALL_PENALTY == << <<-12, 1>>, <<-11, 1>>, <<-10, -1>> >>

MCWidth == 4
MCGap   == GapDistrFun(SMALL_PENALTY, MCWidth)
MCSum   == GapDistrSum(MCGap, MCWidth)

\* The tables of the program itself are as Scoring assumes.
ASSUME RealTables ==
  LET fun == GapDistrFun(GAP_PENALTY, 300)
      sum == GapDistrSum(fun, 300)
  IN /\ \A k, m \in 0 .. 299 : fun[k] \in -50 .. 0 /\ (k <= m => fun[k] <= fun[m])
     /\ \A k \in 0 .. 299 : sum[k] \in -15000 .. 0

a == 97
A == 65
b == 98
u == 95

MCListings ==
  { << <<a>>, <<b, a, a>>, <<a, b>> >>, << <<a, u, b>>, << >>, <<a, A>> >>,
    << <<A, b, a>>, <<u>> >> }

MCNeedles == { <<>>, <<a>>, <<u, b>>, <<b, A>>, <<A, b, a>>, <<a, u, b>> }
=============================================================================
