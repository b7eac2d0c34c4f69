--------------------------- MODULE ScoringProofs ---------------------------
(***************************************************************************)
(* The scores are those of the best alignments, stay within the bounds     *)
(* that main.c asserts and within 16 bits, and put an exact match before   *)
(* every other name of less than 30 characters, for every number of lanes, *)
(* every table of gap costs that falls, every list of files and everything *)
(* typed, whatever earlier searches have left in the matrix.               *)
(***************************************************************************)
EXTENDS Scoring, WellFoundedInduction, TLAPS

\* The bounds of a cell, as swimd_score_minmax computes them for the cell where a needle
\* of r and a name of c characters end.
Lo(r, c) == SUB_PENALTY * Lesser(r, c) + Sum[Larger(r, c)] - Sum[Lesser(r, c)]
Hi(r, c) == MATCH_STRICT_REWARD * Lesser(r, c) + Sum[Larger(r, c)] - Sum[Lesser(r, c)]
Within(v, r, c) == v \in Int /\ Lo(r, c) <= v /\ v <= Hi(r, c)

\* The border is what swimd_d_vec_init has made it.
BorderInv ==
  \A k \in Edge, l \in LaneNo : d[k][0][l] = Sum[k] /\ d[0][k][l] = Sum[k]

\* What this batch has filled is within bounds.
FillInv ==
  pc = "fill" =>
    \A r, c \in Edge \ {0}, l \in LaneNo :
      Reaches(c) /\ (r < i \/ (r = i /\ c < j)) => Within(d[r][c][l], r, c)

\* The files of earlier batches have their scores.
ScoreInv ==
  /\ pc \in {"fill", "rank"} =>
       \A f \in DOMAIN files :
         f <= first => Within(scores[f], Len(needle), Len(files[f]))
  /\ pc = "rank" => first >= Len(files)

RowInv == pc = "fill" => i <= Len(needle) + 1

IInv == TypeOK /\ RowInv /\ BorderInv /\ FillInv /\ ScoreInv

-----------------------------------------------------------------------------
\* The tables at the indices that occur.
LEMMA Tables ==
  /\ \A k \in Edge : Gap[k] \in Int /\ -50 <= Gap[k] /\ Gap[k] <= 0
  /\ \A k \in Edge : Sum[k] \in Int /\ -15000 <= Sum[k] /\ Sum[k] <= 0
  /\ \A k \in 1 .. Width - 1 : k - 1 \in Edge /\ Sum[k] = Sum[k - 1] + Gap[k - 1]
  /\ \A k, m \in Edge : k <= m => Gap[k] <= Gap[m]
  /\ Sum[0] = 0 /\ 0 \in Edge
<1>1. \A k \in Edge : Gap[k] \in -50 .. 0
  BY GapAssumption
<1>2. \A k \in 1 .. Width - 1 : k \in Edge \ {0} /\ k - 1 \in Edge
  BY SizesAssumption DEF Edge
<1>3. \A k \in Edge : Gap[k] \in Int /\ -50 <= Gap[k] /\ Gap[k] <= 0
  BY <1>1
<1>4. \A k \in Edge : Sum[k] \in Int /\ -15000 <= Sum[k] /\ Sum[k] <= 0
  BY SumAssumption
<1>5. \A k \in 1 .. Width - 1 : k - 1 \in Edge /\ Sum[k] = Sum[k - 1] + Gap[k - 1]
  BY <1>2, SumAssumption
<1>6. Sum[0] = 0 /\ 0 \in Edge
  BY SumAssumption, SizesAssumption DEF Edge
<1> QED
  BY <1>3, <1>4, <1>5, <1>6, GapAssumption

\* The bounds fit 16 bits with room for one more summand.
LEMMA BoundsFit ==
  ASSUME NEW r \in Edge, NEW c \in Edge
  PROVE  /\ Lo(r, c) \in Int /\ Hi(r, c) \in Int
         /\ -18000 <= Lo(r, c) /\ Lo(r, c) <= Hi(r, c) /\ Hi(r, c) <= 18000
<1>1. /\ Sum[r] \in Int /\ -15000 <= Sum[r] /\ Sum[r] <= 0
      /\ Sum[c] \in Int /\ -15000 <= Sum[c] /\ Sum[c] <= 0
  BY Tables
<1>2. r \in 0 .. 299 /\ c \in 0 .. 299
  BY SizesAssumption DEF Edge
<1> QED
  BY <1>1, <1>2 DEF Lo, Hi, Lesser, Larger, SUB_PENALTY, MATCH_STRICT_REWARD

LEMMA IsShort ==
  ASSUME NEW x \in Int, -18000 <= x, x <= 18000
  PROVE  x \in Short
<1>1. SHRT_MIN \in Int /\ SHRT_MAX \in Int /\ SHRT_MIN <= x /\ x <= SHRT_MAX
  BY DEF SHRT_MIN, SHRT_MAX
<1> QED
  BY <1>1 DEF Short

\* Characters that are no terminator match strictly, or but for the case, or not at all.
LEMMA MatchRange ==
  ASSUME NEW x \in Int \ {0}, NEW y \in Int
  PROVE  Match(x, y) \in -9 .. 9
<1>1. AzInverseCase(x) # x /\ AzInverseCase(x) \in Int
  BY DEF AzInverseCase
<1> QED
  BY <1>1 DEF Match, SUB_PENALTY, MATCH_STRICT_REWARD, MATCH_CASE_INSENSITIVE_REWARD

\* The border is within bounds.
LEMMA BorderWithin ==
  ASSUME NEW k \in Edge
  PROVE  Within(Sum[k], k, 0) /\ Within(Sum[k], 0, k)
<1>1. Sum[k] \in Int /\ Sum[0] = 0 /\ k \in Int /\ 0 <= k
  BY Tables, SizesAssumption DEF Edge
<1> QED
  BY <1>1 DEF Within, Lo, Hi, Lesser, Larger, SUB_PENALTY, MATCH_STRICT_REWARD

\* No addition of the recurrence leaves 16 bits.
LEMMA NoWrap ==
  ASSUME NEW r \in Edge, NEW c \in Edge, NEW v, Within(v, r, c),
         NEW x \in Int, -50 <= x, x <= 9
  PROVE  v + x \in Int /\ Add(v, x) = v + x
<1>1. v \in Int /\ -18000 <= v /\ v <= 18000
  BY BoundsFit DEF Within
<1> QED
  BY <1>1 DEF Add, SHRT_MIN, SHRT_MAX

\* The step of the recurrence.  Below, the way along the longer string attains the lower
\* bound; above, a gap costs least where it comes last, and that is where the bound has it.
LEMMA CellWithin ==
  ASSUME NEW r \in 1 .. Width - 1, NEW c \in 1 .. Width - 1, NEW m \in -9 .. 9,
         NEW diag, NEW up, NEW left,
         Within(diag, r - 1, c - 1), Within(up, r - 1, c), Within(left, r, c - 1)
  PROVE  Within(Larger(Larger(Add(diag, m), Add(up, Gap[r - 1])), Add(left, Gap[c - 1])), r, c)
<1> DEFINE o1 == diag + m
           o2 == up + Gap[r - 1]
           o3 == left + Gap[c - 1]
<1>e. /\ r \in Edge /\ c \in Edge /\ r - 1 \in Edge /\ c - 1 \in Edge
      /\ r \in Int /\ c \in Int /\ 1 <= r /\ 1 <= c
  BY SizesAssumption DEF Edge
<1>g. /\ Gap[r - 1] \in Int /\ -50 <= Gap[r - 1] /\ Gap[r - 1] <= 0
      /\ Gap[c - 1] \in Int /\ -50 <= Gap[c - 1] /\ Gap[c - 1] <= 0
      /\ r <= c => Gap[r - 1] <= Gap[c - 1]
      /\ c <= r => Gap[c - 1] <= Gap[r - 1]
  BY <1>e, Tables
<1>s. /\ Sum[r] \in Int /\ Sum[c] \in Int /\ Sum[r - 1] \in Int /\ Sum[c - 1] \in Int
      /\ Sum[r] = Sum[r - 1] + Gap[r - 1] /\ Sum[c] = Sum[c - 1] + Gap[c - 1]
  BY <1>e, Tables
<1>1. o1 \in Int /\ Add(diag, m) = o1
  <2>1. m \in Int /\ -50 <= m /\ m <= 9
    OBVIOUS
  <2> QED
    BY <1>e, <2>1, NoWrap
<1>2. o2 \in Int /\ Add(up, Gap[r - 1]) = o2 /\ o3 \in Int /\ Add(left, Gap[c - 1]) = o3
  <2>1. /\ Gap[r - 1] \in Int /\ -50 <= Gap[r - 1] /\ Gap[r - 1] <= 9
        /\ Gap[c - 1] \in Int /\ -50 <= Gap[c - 1] /\ Gap[c - 1] <= 9
    BY <1>g
  <2> QED
    BY <1>e, <2>1, NoWrap
<1>3. o1 <= Hi(r, c) /\ o2 <= Hi(r, c) /\ o3 <= Hi(r, c)
  <2>1. CASE r < c
    BY <1>e, <1>g, <1>s, <2>1 DEF Within, Hi, Lesser, Larger, MATCH_STRICT_REWARD
  <2>2. CASE r = c
    BY <1>e, <1>g, <1>s, <2>2 DEF Within, Hi, Lesser, Larger, MATCH_STRICT_REWARD
  <2>3. CASE r > c
    BY <1>e, <1>g, <1>s, <2>3 DEF Within, Hi, Lesser, Larger, MATCH_STRICT_REWARD
  <2> QED
    BY <1>e, <2>1, <2>2, <2>3
<1>4. Lo(r, c) <= o1 \/ Lo(r, c) <= o2 \/ Lo(r, c) <= o3
  <2>1. CASE r < c
    BY <1>e, <1>g, <1>s, <2>1 DEF Within, Lo, Lesser, Larger, SUB_PENALTY
  <2>2. CASE r = c
    BY <1>e, <1>g, <1>s, <2>2 DEF Within, Lo, Lesser, Larger, SUB_PENALTY
  <2>3. CASE r > c
    BY <1>e, <1>g, <1>s, <2>3 DEF Within, Lo, Lesser, Larger, SUB_PENALTY
  <2> QED
    BY <1>e, <2>1, <2>2, <2>3
<1>5. Lo(r, c) \in Int /\ Hi(r, c) \in Int
  BY <1>e, BoundsFit
<1> QED
  <2>0. o1 \in Int /\ o2 \in Int /\ o3 \in Int
    BY <1>1, <1>2
  <2> HIDE DEF o1, o2, o3
  <2>1. Larger(Larger(o1, o2), o3) \in {o1, o2, o3} /\ o1 <= Larger(Larger(o1, o2), o3)
        /\ o2 <= Larger(Larger(o1, o2), o3) /\ o3 <= Larger(Larger(o1, o2), o3)
    BY <2>0 DEF Larger
  <2> QED
    BY <2>0, <1>1, <1>2, <1>3, <1>4, <1>5, <2>1 DEF Within

-----------------------------------------------------------------------------
\* What is typed and what is indexed fits the matrix.
LEMMA Shape ==
  ASSUME TypeOK
  PROVE  /\ needle \in Seq(Int \ {0}) /\ Len(needle) \in Edge
         /\ files \in Seq(Seq(Int \ {0}))
         /\ \A f \in DOMAIN files : files[f] \in Seq(Int \ {0}) /\ Len(files[f]) \in Edge
<1>1. needle \in Seq(Int \ {0}) /\ Len(needle) \in Edge
  <2>1. CASE needle \in Needles
    BY <2>1, StringsAssumption, SizesAssumption DEF Edge
  <2>2. CASE needle = <<>>
    BY <2>2, SizesAssumption DEF Edge
  <2> QED
    BY <2>1, <2>2 DEF TypeOK
<1>2. files \in Seq(Seq(Int \ {0})) /\ \A f \in DOMAIN files : Len(files[f]) < Width
  BY StringsAssumption DEF TypeOK
<1>3. \A f \in DOMAIN files : files[f] \in Seq(Int \ {0})
  BY <1>2
<1>4. ASSUME NEW f \in DOMAIN files PROVE Len(files[f]) \in Edge
  <2>1. Len(files[f]) \in Nat /\ Len(files[f]) < Width
    BY <1>2, <1>3
  <2> HIDE DEF Edge
  <2> QED
    BY <2>1, SizesAssumption DEF Edge
<1> QED
  BY <1>1, <1>2, <1>3, <1>4

\* Columns that a batch reaches are columns of the matrix, and it reaches those before.
LEMMA Columns ==
  ASSUME TypeOK, NEW c \in 1 .. Width, Reaches(c)
  PROVE  /\ c \in 1 .. Width - 1
         /\ \A b \in 1 .. c : Reaches(b)
<1>1. PICK l \in LaneNo : File(l) \in DOMAIN files /\ c <= Len(files[File(l)])
  BY DEF Reaches
<1>2. Len(files[File(l)]) \in 0 .. Width - 1
  BY <1>1, Shape DEF Edge
<1> QED
  BY <1>1, <1>2, SizesAssumption DEF Reaches

\* Every cell that a batch may read is within bounds: its border, and what it has filled.
LEMMA Known ==
  ASSUME IInv, pc = "fill", NEW r \in Edge, NEW c \in Edge, NEW l \in LaneNo,
         r < i \/ (r = i /\ c < j), c = 0 \/ Reaches(c)
  PROVE  Within(d[r][c][l], r, c)
<1>1. CASE r = 0 \/ c = 0
  BY <1>1, BorderWithin DEF IInv, BorderInv
<1>2. CASE r # 0 /\ c # 0
  BY <1>2 DEF IInv, FillInv
<1> QED
  BY <1>1, <1>2

LEMMA LetterInt ==
  ASSUME TypeOK, NEW l \in LaneNo, NEW c \in 1 .. Width
  PROVE  Letter(l, c) \in Int
<1>1. CASE File(l) \in DOMAIN files /\ c <= Len(files[File(l)])
  <2>1. files[File(l)] \in Seq(Int \ {0})
    BY <1>1, Shape
  <2>2. c \in 1 .. Len(files[File(l)])
    BY <1>1, <2>1, SizesAssumption
  <2>3. files[File(l)][c] \in Int
    BY <2>1, <2>2
  <2> QED
    BY <1>1, <2>3 DEF Letter
<1>2. CASE ~(File(l) \in DOMAIN files /\ c <= Len(files[File(l)]))
  BY <1>2 DEF Letter
<1> QED
  BY <1>1, <1>2

-----------------------------------------------------------------------------
LEMMA InitIInv ==
  Init => IInv
<1> SUFFICES ASSUME Init PROVE IInv
  OBVIOUS
<1>e. 0 \in Edge /\ Width \in Nat
  BY SizesAssumption DEF Edge
<1>s. \A k \in Edge : Sum[k] \in Short
  BY Tables, IsShort
<1>1. BorderInv
  BY <1>e DEF Init, BorderInv
<1>2. d \in [Edge -> [Edge -> [LaneNo -> Short]]]
  <2>1. \A r, c \in Edge : \A l \in LaneNo :
          (IF c = 0 THEN Sum[r] ELSE IF r = 0 THEN Sum[c] ELSE 0) \in Short
    <3>1. 0 \in Short
      BY IsShort
    <3> QED
      BY <1>s, <3>1
  <2> QED
    BY <2>1 DEF Init
<1>3. scores \in [DOMAIN files -> Short \cup {Unwritten}]
  BY DEF Init
<1>4. TypeOK
  BY <1>2, <1>3, SizesAssumption DEF Init, TypeOK
<1>5. RowInv /\ FillInv /\ ScoreInv
  BY DEF Init, RowInv, FillInv, ScoreInv
<1> QED
  BY <1>1, <1>4, <1>5 DEF IInv

LEMMA ReindexStep ==
  ASSUME IInv, NEW x \in Listings, Reindex(x)
  PROVE  IInv'
<1>1. TypeOK'
  BY DEF IInv, TypeOK, Reindex
<1>2. BorderInv'
  BY DEF IInv, BorderInv, Reindex
<1>3. RowInv' /\ FillInv' /\ ScoreInv'
  BY DEF Reindex, RowInv, FillInv, ScoreInv
<1> QED
  BY <1>1, <1>2, <1>3 DEF IInv

LEMMA SearchStep ==
  ASSUME IInv, NEW n \in Needles, Search(n)
  PROVE  IInv'
<1>0. Len(n) \in Nat
  BY StringsAssumption
<1>1. TypeOK'
  BY SizesAssumption DEF IInv, TypeOK, Search
<1>2. BorderInv'
  BY DEF IInv, BorderInv, Search
<1>3. RowInv'
  BY <1>0 DEF Search, RowInv
<1>4. FillInv'
  BY SizesAssumption DEF Search, FillInv, Edge
<1>5. ScoreInv'
  <2>1. \A f \in DOMAIN files : ~(f <= 0)
    <3>1. \A f \in DOMAIN files : f \in Nat \ {0}
      BY Shape DEF IInv
    <3> QED
      BY <3>1
  <2> QED
    BY <2>1 DEF Search, ScoreInv
<1> QED
  BY <1>1, <1>2, <1>3, <1>4, <1>5 DEF IInv

\* There is a cell to be filled.
Filling == Batching /\ i <= Len(needle) /\ Reaches(j)

\* The place of the cell, and what it is computed from.
LEMMA CellReads ==
  ASSUME IInv, Filling, NEW l \in LaneNo
  PROVE  /\ i \in 1 .. Width - 1 /\ j \in 1 .. Width - 1
         /\ i \in Edge /\ j \in Edge /\ i - 1 \in Edge /\ j - 1 \in Edge
         /\ Within(d[i - 1][j - 1][l], i - 1, j - 1)
         /\ Within(d[i - 1][j][l], i - 1, j)
         /\ Within(d[i][j - 1][l], i, j - 1)
         /\ Match(needle[i], Letter(l, j)) \in -9 .. 9
<1>t. TypeOK /\ pc = "fill" /\ i <= Len(needle) /\ Reaches(j)
  BY DEF IInv, Filling, Batching
<1>n. needle \in Seq(Int \ {0}) /\ Len(needle) \in 0 .. Width - 1
  BY <1>t, Shape DEF Edge
<1>1. i \in 1 .. Width - 1 /\ i \in 1 .. Len(needle)
  BY <1>t, <1>n, SizesAssumption DEF TypeOK
<1>2. j \in 1 .. Width - 1 /\ (j - 1 = 0 \/ Reaches(j - 1))
  <2>1. j \in 1 .. Width
    BY <1>t DEF TypeOK
  <2>2. j \in 1 .. Width - 1 /\ \A b \in 1 .. j : Reaches(b)
    BY <1>t, <2>1, Columns
  <2>3. j - 1 = 0 \/ j - 1 \in 1 .. j
    BY <2>1, SizesAssumption
  <2> QED
    BY <2>2, <2>3
<1>e. i \in Edge /\ j \in Edge /\ i - 1 \in Edge /\ j - 1 \in Edge /\ i - 1 < i /\ j - 1 < j
  BY <1>1, <1>2, SizesAssumption DEF Edge
<1>3. /\ Within(d[i - 1][j - 1][l], i - 1, j - 1)
      /\ Within(d[i - 1][j][l], i - 1, j)
      /\ Within(d[i][j - 1][l], i, j - 1)
  BY <1>t, <1>e, <1>2, Known
<1>4. Match(needle[i], Letter(l, j)) \in -9 .. 9
  <2>1. needle[i] \in Int \ {0}
    BY <1>n, <1>1
  <2>2. Letter(l, j) \in Int
    BY <1>t, LetterInt DEF TypeOK
  <2> QED
    BY <2>1, <2>2, MatchRange
<1> QED
  BY <1>1, <1>2, <1>e, <1>3, <1>4

\* The cell that FillCell writes.
LEMMA FillCellWithin ==
  ASSUME IInv, FillCell, NEW l \in LaneNo
  PROVE  /\ i \in 1 .. Width - 1 /\ j \in 1 .. Width - 1
         /\ Within(Cell(l), i, j) /\ Cell(l) \in Short
<1>1. Filling
  BY DEF FillCell, Filling
<1>2. i \in 1 .. Width - 1 /\ j \in 1 .. Width - 1 /\ i \in Edge /\ j \in Edge
  BY <1>1, CellReads
<1>3. /\ Within(d[i - 1][j - 1][l], i - 1, j - 1) /\ Within(d[i - 1][j][l], i - 1, j)
      /\ Within(d[i][j - 1][l], i, j - 1) /\ Match(needle[i], Letter(l, j)) \in -9 .. 9
  BY <1>1, CellReads
<1>4. Within(Cell(l), i, j)
  BY <1>2, <1>3, CellWithin DEF Cell
<1>5. Cell(l) \in Short
  <2>1. /\ Lo(i, j) \in Int /\ Hi(i, j) \in Int /\ Cell(l) \in Int
        /\ -18000 <= Lo(i, j) /\ Hi(i, j) <= 18000
        /\ Lo(i, j) <= Cell(l) /\ Cell(l) <= Hi(i, j)
    BY <1>2, <1>4, BoundsFit DEF Within
  <2> QED
    BY <2>1, IsShort
<1> QED
  BY <1>2, <1>4, <1>5

LEMMA FillCellStep ==
  ASSUME IInv, FillCell
  PROVE  IInv'
<1>t. /\ TypeOK /\ pc = "fill" /\ i \in 1 .. Width /\ j \in 1 .. Width
      /\ d \in [Edge -> [Edge -> [LaneNo -> Short]]]
      /\ Width \in Nat
  BY SizesAssumption DEF IInv, TypeOK, FillCell, Batching
<1>l. 0 \in LaneNo
  BY SizesAssumption DEF LaneNo
<1>1. i \in 1 .. Width - 1 /\ j \in 1 .. Width - 1
  BY <1>l, FillCellWithin
<1>e. i \in Edge /\ j \in Edge /\ i # 0 /\ j # 0
  BY <1>1, <1>t DEF Edge
<1>2. \A l \in LaneNo : Within(Cell(l), i, j) /\ Cell(l) \in Short
  BY FillCellWithin
<1>3. /\ d' = [d EXCEPT ![i][j] = [l \in LaneNo |-> Cell(l)]]
      /\ j' = j + 1 /\ UNCHANGED <<pc, files, needle, first, i, scores>>
  BY DEF FillCell
<1>4. \A r, c \in Edge : \A l \in LaneNo :
        d'[r][c][l] = IF r = i /\ c = j THEN Cell(l) ELSE d[r][c][l]
  BY <1>3, <1>t, <1>e
<1>5. TypeOK'
  <2>1. d' \in [Edge -> [Edge -> [LaneNo -> Short]]]
    <3>1. [l \in LaneNo |-> Cell(l)] \in [LaneNo -> Short]
      BY <1>2
    <3>2. [d[i] EXCEPT ![j] = [l \in LaneNo |-> Cell(l)]] \in [Edge -> [LaneNo -> Short]]
      BY <3>1, <1>t, <1>e
    <3> QED
      BY <3>2, <1>3, <1>t, <1>e
  <2>2. j' \in 1 .. Width
    BY <1>3, <1>1, <1>t
  <2> QED
    BY <2>1, <2>2, <1>3 DEF IInv, TypeOK
<1>6. BorderInv'
  BY <1>4, <1>e, SizesAssumption DEF IInv, BorderInv, Edge
<1>7. RowInv'
  BY <1>3 DEF IInv, RowInv
<1>8. FillInv'
  <2> SUFFICES ASSUME NEW r \in Edge \ {0}, NEW c \in Edge \ {0}, NEW l \in LaneNo,
                      Reaches(c)', r < i \/ (r = i /\ c < j + 1)
               PROVE  Within(d'[r][c][l], r, c)
    BY <1>3 DEF FillInv, Within, Lo, Hi
  <2>1. Reaches(c)
    BY <1>3 DEF Reaches, File
  <2>2. CASE r = i /\ c = j
    BY <2>2, <1>2, <1>4
  <2>3. CASE ~(r = i /\ c = j)
    <3>1. r < i \/ (r = i /\ c < j)
      BY <2>3, <1>t DEF Edge
    <3> QED
      BY <3>1, <2>1, <2>3, <1>4, <1>t DEF IInv, FillInv
  <2> QED
    BY <2>2, <2>3
<1>9. ScoreInv'
  BY <1>3 DEF IInv, ScoreInv, Within, Lo, Hi
<1> QED
  BY <1>5, <1>6, <1>7, <1>8, <1>9 DEF IInv

LEMMA NextRowStep ==
  ASSUME IInv, NextRow
  PROVE  IInv'
<1>t. TypeOK /\ pc = "fill" /\ i \in 1 .. Width /\ i <= Len(needle) /\ ~Reaches(j)
  BY DEF IInv, TypeOK, NextRow, Batching
<1>n. Len(needle) \in 0 .. Width - 1
  BY <1>t, Shape DEF Edge
<1>3. i' = i + 1 /\ j' = 1 /\ UNCHANGED <<pc, files, needle, d, first, scores>>
  BY DEF NextRow
<1>1. TypeOK'
  <2>1. i' \in 1 .. Width /\ j' \in 1 .. Width
    BY <1>3, <1>t, <1>n, SizesAssumption
  <2> QED
    BY <2>1, <1>3 DEF IInv, TypeOK
<1>2. BorderInv'
  BY <1>3 DEF IInv, BorderInv
<1>4. RowInv'
  BY <1>3, <1>t, <1>n DEF RowInv
<1>5. FillInv'
  <2> SUFFICES ASSUME NEW r \in Edge \ {0}, NEW c \in Edge \ {0}, NEW l \in LaneNo,
                      Reaches(c)', r < i + 1 \/ (r = i + 1 /\ c < 1)
               PROVE  Within(d[r][c][l], r, c)
    BY <1>3 DEF FillInv, Within, Lo, Hi
  <2>1. Reaches(c)
    BY <1>3 DEF Reaches, File
  <2>2. c \in 1 .. Width /\ j \in 1 .. Width
    BY <1>t, SizesAssumption DEF Edge, TypeOK
  <2>3. c < j
    BY <2>1, <2>2, <1>t, Columns
  <2>4. r < i \/ (r = i /\ c < j)
    BY <2>2, <2>3, <1>t DEF Edge
  <2> QED
    BY <2>1, <2>4, <1>t DEF IInv, FillInv
<1>6. ScoreInv'
  BY <1>3 DEF IInv, ScoreInv, Within, Lo, Hi
<1> QED
  BY <1>1, <1>2, <1>4, <1>5, <1>6 DEF IInv

LEMMA CollectStep ==
  ASSUME IInv, Collect
  PROVE  IInv'
<1>t. /\ TypeOK /\ pc = "fill" /\ i \in 1 .. Width /\ i > Len(needle) /\ first \in Nat
      /\ Lanes \in Nat \ {0} /\ Width \in Nat \ {0}
  BY SizesAssumption DEF IInv, TypeOK, Collect, Batching
<1>n. Len(needle) \in Edge
  BY <1>t, Shape
<1>f. \A f \in DOMAIN files : f \in Nat \ {0} /\ Len(files[f]) \in Edge
  BY <1>t, Shape
<1>3. /\ first' = first + Lanes /\ i' = 1 /\ j' = 1
      /\ UNCHANGED <<pc, files, needle, d>>
      /\ scores' = [f \in DOMAIN files |->
                     IF f - first - 1 \in LaneNo
                     THEN d[Len(needle)][Len(files[f])][f - first - 1]
                     ELSE scores[f]]
  BY DEF Collect
<1>4. ASSUME NEW f \in DOMAIN files, f - first - 1 \in LaneNo
      PROVE  /\ Within(d[Len(needle)][Len(files[f])][f - first - 1], Len(needle), Len(files[f]))
             /\ d[Len(needle)][Len(files[f])][f - first - 1] \in Short
  <2>1. Len(files[f]) = 0 \/ Reaches(Len(files[f]))
    <3>1. File(f - first - 1) = f
      BY <1>t, <1>f DEF File
    <3>2. Len(files[f]) <= Len(files[f])
      BY <1>f DEF Edge
    <3> QED
      BY <3>1, <3>2, <1>4 DEF Reaches
  <2>2. Within(d[Len(needle)][Len(files[f])][f - first - 1], Len(needle), Len(files[f]))
    BY <2>1, <1>t, <1>n, <1>f, <1>4, Known
  <2>3. d[Len(needle)][Len(files[f])][f - first - 1] \in Short
    BY <1>t, <1>n, <1>f, <1>4 DEF TypeOK
  <2> QED
    BY <2>2, <2>3
<1>1. TypeOK'
  <2>1. scores' \in [DOMAIN files -> Short \cup {Unwritten}]
    BY <1>3, <1>4, <1>t DEF TypeOK
  <2>2. first' \in Nat /\ i' \in 1 .. Width /\ j' \in 1 .. Width
    BY <1>3, <1>t
  <2> QED
    BY <2>1, <2>2, <1>3 DEF IInv, TypeOK
<1>2. BorderInv'
  BY <1>3 DEF IInv, BorderInv
<1>5. RowInv'
  BY <1>3, <1>n DEF RowInv, Edge
<1>6. FillInv'
  BY <1>3 DEF FillInv, Edge
<1>7. ScoreInv'
  <2> SUFFICES ASSUME NEW f \in DOMAIN files, f <= first + Lanes
               PROVE  Within(scores'[f], Len(needle), Len(files[f]))
    BY <1>3, <1>t DEF ScoreInv, Within, Lo, Hi
  <2>1. CASE f - first - 1 \in LaneNo
    BY <2>1, <1>3, <1>4
  <2>2. CASE f - first - 1 \notin LaneNo
    <3>1. f <= first
      BY <2>2, <1>t, <1>f DEF LaneNo
    <3> QED
      BY <3>1, <2>2, <1>3, <1>t DEF IInv, ScoreInv
  <2> QED
    BY <2>1, <2>2
<1> QED
  BY <1>1, <1>2, <1>5, <1>6, <1>7 DEF IInv

\* Rank and Return change no data.
LEMMA RankReturnStep ==
  ASSUME IInv, Rank \/ Return
  PROVE  IInv'
<1>1. UNCHANGED <<files, needle, d, first, i, j, scores>> /\ pc' \in {"idle", "rank"}
  BY DEF Rank, Return
<1>2. TypeOK' /\ BorderInv'
  BY <1>1 DEF IInv, TypeOK, BorderInv
<1>3. RowInv' /\ FillInv'
  BY <1>1 DEF RowInv, FillInv
<1>4. ScoreInv'
  <2>1. CASE Rank
    BY <2>1, <1>1 DEF Rank, IInv, ScoreInv, Within, Lo, Hi
  <2>2. CASE Return
    BY <2>2 DEF Return, ScoreInv
  <2> QED
    BY <2>1, <2>2
<1> QED
  BY <1>2, <1>3, <1>4 DEF IInv

LEMMA Unchanged ==
  ASSUME IInv, UNCHANGED vars
  PROVE  IInv'
<1>1. UNCHANGED <<pc, files, needle, d, first, i, j, scores>>
  BY DEF vars
<1>2. FillInv'
  BY <1>1 DEF IInv, FillInv, Reaches, File, Within, Lo, Hi
<1>3. ScoreInv'
  BY <1>1 DEF IInv, ScoreInv, Within, Lo, Hi
<1> QED
  BY <1>1, <1>2, <1>3 DEF IInv, TypeOK, RowInv, BorderInv

-----------------------------------------------------------------------------
LEMMA NextIInv ==
  IInv /\ [Next]_vars => IInv'
  BY ReindexStep, SearchStep, FillCellStep, NextRowStep, CollectStep, RankReturnStep,
     Unchanged DEF Next

\* The invariant holds in every reachable state.
THEOREM Invariance == Spec => []IInv
  BY InitIInv, NextIInv, PTL DEF Spec

\* Every index is inside the matrix, for everything typed and every list of files.
THEOREM TypeCorrect == Spec => []TypeOK
<1>1. IInv => TypeOK
  BY DEF IInv
<1> QED
  BY Invariance, <1>1, PTL

\* The three sums of a cell, which _mm256_add_epi16 computes modulo 2^16, as integers.
SumsFit ==
  Filling => \A l \in LaneNo :
    /\ d[i - 1][j - 1][l] + Match(needle[i], Letter(l, j)) \in Short
    /\ d[i - 1][j][l] + Gap[i - 1] \in Short
    /\ d[i][j - 1][l] + Gap[j - 1] \in Short

\* No addition of the recurrence wraps around: not for the rows and columns of the border,
\* not for the longest strings, not for lanes whose name has ended.
THEOREM NeverWraps == Spec => []SumsFit
<1>1. IInv => SumsFit
  <2> SUFFICES ASSUME IInv, Filling, NEW l \in LaneNo
               PROVE  /\ d[i - 1][j - 1][l] + Match(needle[i], Letter(l, j)) \in Short
                      /\ d[i - 1][j][l] + Gap[i - 1] \in Short
                      /\ d[i][j - 1][l] + Gap[j - 1] \in Short
    BY DEF SumsFit
  <2>1. PICK x, y, z, m : /\ x = d[i - 1][j - 1][l] /\ y = d[i - 1][j][l] /\ z = d[i][j - 1][l]
                          /\ m = Match(needle[i], Letter(l, j))
    OBVIOUS
  <2>2. /\ i \in Edge /\ j \in Edge /\ i - 1 \in Edge /\ j - 1 \in Edge
        /\ Within(x, i - 1, j - 1) /\ Within(y, i - 1, j) /\ Within(z, i, j - 1) /\ m \in -9 .. 9
    BY <2>1, CellReads
  <2>3. ASSUME NEW b \in Edge, NEW c \in Edge, NEW v, Within(v, b, c),
               NEW w \in Int, -50 <= w, w <= 9
        PROVE  v + w \in Short
    <3>1. /\ Lo(b, c) \in Int /\ Hi(b, c) \in Int /\ -18000 <= Lo(b, c) /\ Hi(b, c) <= 18000
          /\ v \in Int /\ Lo(b, c) <= v /\ v <= Hi(b, c)
      BY <2>3, BoundsFit DEF Within
    <3>2. v + w \in Int /\ -18050 <= v + w /\ v + w <= 18009
      BY <2>3, <3>1
    <3>3. PICK o \in Int : o = v + w
      BY <3>2
    <3>4. SHRT_MIN \in Int /\ SHRT_MAX \in Int /\ SHRT_MIN <= o /\ o <= SHRT_MAX
      BY <3>2, <3>3 DEF SHRT_MIN, SHRT_MAX
    <3> QED
      BY <3>3, <3>4 DEF Short
  <2>4. /\ Gap[i - 1] \in Int /\ -50 <= Gap[i - 1] /\ Gap[i - 1] <= 9
        /\ Gap[j - 1] \in Int /\ -50 <= Gap[j - 1] /\ Gap[j - 1] <= 9
    <3>1. \A k \in Edge : Gap[k] \in Int /\ -50 <= Gap[k] /\ Gap[k] <= 9
      BY Tables
    <3> QED
      BY <2>2, <3>1
  <2>5. m \in Int /\ -50 <= m /\ m <= 9
    BY <2>2
  <2>6. x + m \in Short
    BY <2>2, <2>3, <2>5
  <2>7. y + Gap[i - 1] \in Short
    BY <2>2, <2>3, <2>4
  <2>8. z + Gap[j - 1] \in Short
    BY <2>2, <2>3, <2>4
  <2> QED
    BY <2>1, <2>6, <2>7, <2>8
<1> QED
  BY Invariance, <1>1, PTL

\* The scores lie between the bounds that swimd_top_scores asserts.
THEOREM ScoresWithinBounds == Spec => []WithinBounds
<1>1. IInv => WithinBounds
  <2> SUFFICES ASSUME IInv, pc = "rank", NEW f \in DOMAIN files
               PROVE  scores[f] \in MinScore(needle, files[f]) .. MaxScore(needle, files[f])
    BY DEF WithinBounds
  <2>0. TypeOK /\ first \in Nat
    BY DEF IInv, TypeOK
  <2>1. f \in 1 .. Len(files) /\ Len(files) \in Nat /\ Len(needle) \in Edge
        /\ Len(files[f]) \in Edge
    BY <2>0, Shape
  <2>2. f <= first
    BY <2>0, <2>1 DEF IInv, ScoreInv
  <2>3. Within(scores[f], Len(needle), Len(files[f]))
    BY <2>2 DEF IInv, ScoreInv
  <2>4. /\ MinScore(needle, files[f]) = Lo(Len(needle), Len(files[f]))
        /\ MaxScore(needle, files[f]) = Hi(Len(needle), Len(files[f]))
    <3>1. \A x \in Edge, y \in Edge : Sum[Larger(x, y)] \in Int /\ Sum[Lesser(x, y)] \in Int
                                  /\ Lesser(x, y) \in Int
      BY Tables, SizesAssumption DEF Edge, Larger, Lesser
    <3> QED
      BY <3>1, <2>1 DEF MinScore, MaxScore, Lo, Hi, GapSum, Longer, Shorter,
                        SUB_PENALTY, MATCH_STRICT_REWARD
  <2>5. Lo(Len(needle), Len(files[f])) \in Int /\ Hi(Len(needle), Len(files[f])) \in Int
    BY <2>1, BoundsFit
  <2> QED
    BY <2>3, <2>4, <2>5 DEF Within
<1> QED
  BY Invariance, <1>1, PTL
-----------------------------------------------------------------------------
(***************************************************************************)
(* The best alignment.  What a cell holds is the worth of the best         *)
(* alignment of the characters above it with those to its left.            *)
(***************************************************************************)
\* The worth of an alignment of the first r and the first c characters.
Value(A, n, m, r, c) == Total(NeedleWorth(A, n, m), r) + Total(NameWorth(A, n, m), c)

IsBest(v, n, m, r, c) ==
  /\ \E A \in Alignments(r, c) : v = Value(A, n, m, r, c)
  /\ \A A \in Alignments(r, c) : Value(A, n, m, r, c) <= v

\* A string that fits the matrix.
IsText(n) == n \in Seq(Int) /\ Len(n) < Width

\* What this batch has filled, as far as a lane's own name goes.
BestCells ==
  pc = "fill" =>
    \A r, c \in Edge \ {0}, l \in LaneNo :
      /\ r <= Len(needle) /\ (r < i \/ (r = i /\ c < j))
      /\ File(l) \in DOMAIN files /\ c <= Len(files[File(l)])
      => IsBest(d[r][c][l], needle, files[File(l)], r, c)

\* What earlier batches have collected.
BestScores ==
  pc \in {"fill", "rank"} =>
    \A f \in DOMAIN files :
      f <= first => IsBest(scores[f], needle, files[f], Len(needle), Len(files[f]))

BestInv == IInv /\ BestCells /\ BestScores

-----------------------------------------------------------------------------
(***************************************************************************)
(* Sums.                                                                   *)
(***************************************************************************)
\* Numbers are well-ordered.
LEMMA LeastNumber ==
  ASSUME NEW S, S \subseteq Nat, S # {}
  PROVE  \E x \in S : \A y \in S : x <= y
<1>1. PICK R : R = OpToRel(<, Nat)
  OBVIOUS
<1>2. \A p : p \in R <=> p \in Nat \X Nat /\ p[1] < p[2]
  BY <1>1, Zenon DEF OpToRel
<1>3. IsWellFoundedOn(R, Nat)
  BY <1>1, NatLessThanWellFounded, Zenon
<1>4. PICK x \in S : \A y \in S : <<y, x>> \notin R
  BY <1>3, WFMin, Zenon
<1>5. \A y \in S : ~(y < x)
  BY <1>2, <1>4
<1> QED
  BY <1>4, <1>5

\* Induction over the natural numbers, of a set rather than of a predicate.
LEMMA Counting ==
  ASSUME NEW S, 0 \in S, \A n \in Nat : n \in S => n + 1 \in S
  PROVE  Nat \subseteq S
<1> SUFFICES ASSUME Nat \ S # {} PROVE FALSE
  OBVIOUS
<1>1. PICK x \in Nat \ S : \A y \in Nat \ S : x <= y
  BY LeastNumber
<1>2. x - 1 \in Nat /\ x - 1 \in S
  BY <1>1
<1> QED
  BY <1>1, <1>2

\* The sum is what is added up step by step.
LEMMA Totals ==
  ASSUME NEW K \in Nat, NEW q \in [1 .. K -> Int]
  PROVE  \E s \in [0 .. K -> Int] :
           /\ s[0] = 0 /\ \A m \in 1 .. K : s[m] = s[m - 1] + q[m]
           /\ \A k \in 0 .. K : Total(q, k) = s[k]
<1> DEFINE Sums(u, k) == u = [m \in 0 .. k |-> IF m = 0 THEN 0 ELSE u[m - 1] + q[m]]
           Has(k) == \E u \in [0 .. k -> Int] : Sums(u, k)
           S == {k \in Nat : k <= K => Has(k)}
<1>1. 0 \in S
  <2>1. PICK u : u = [m \in 0 .. 0 |-> 0]
    OBVIOUS
  <2>2. u \in [0 .. 0 -> Int] /\ Sums(u, 0)
    BY <2>1
  <2> QED
    BY <2>2
<1>2. ASSUME NEW k \in Nat, k \in S
      PROVE  k + 1 \in S
  <2>0. SUFFICES ASSUME k + 1 <= K
                 PROVE  Has(k + 1)
    <3> HIDE DEF Has
    <3> QED
      OBVIOUS
  <2>h. Has(k)
    <3> HIDE DEF Has
    <3> QED
      BY <1>2, <2>0
  <2>1. PICK u \in [0 .. k -> Int] : Sums(u, k)
    BY <2>h, Zenon
  <2>2. PICK v : v = [m \in 0 .. k + 1 |-> IF m = k + 1 THEN u[k] + q[k + 1] ELSE u[m]]
    OBVIOUS
  <2>3. u[k] \in Int /\ q[k + 1] \in Int
    BY <2>0, <2>1
  <2>4. v \in [0 .. k + 1 -> Int]
    BY <2>1, <2>2, <2>3
  <2>5. ASSUME NEW m \in 0 .. k + 1
        PROVE  v[m] = IF m = 0 THEN 0 ELSE v[m - 1] + q[m]
    <3>1. CASE m = k + 1
      BY <2>2, <3>1
    <3>2. CASE m # k + 1
      <4>1. m \in 0 .. k /\ v[m] = u[m] /\ (m # 0 => v[m - 1] = u[m - 1])
        BY <2>2, <3>2
      <4>2. u[m] = IF m = 0 THEN 0 ELSE u[m - 1] + q[m]
        BY <2>1, <4>1
      <4> QED
        BY <4>1, <4>2
    <3> QED
      BY <3>1, <3>2
  <2>6. Sums(v, k + 1)
    BY <2>2, <2>5
  <2> QED
    BY <2>4, <2>6
<1>3. Nat \subseteq S
  <2> HIDE DEF S
  <2> QED
    BY <1>1, <1>2, Counting
<1>4. \A k \in 0 .. K : Has(k)
  <2> HIDE DEF Has
  <2> QED
    BY <1>3
<1>5. PICK s \in [0 .. K -> Int] : Sums(s, K)
  <2>1. K \in 0 .. K
    OBVIOUS
  <2>2. Has(K)
    BY <1>4, <2>1, Zenon
  <2> QED
    BY <2>2, Zenon
<1>6. s[0] = 0 /\ \A m \in 1 .. K : s[m] = s[m - 1] + q[m]
  BY <1>5
<1>7. ASSUME NEW k \in 0 .. K
      PROVE  Total(q, k) = s[k]
  <2>1. PICK u : u = CHOOSE v : Sums(v, k)
    OBVIOUS
  <2>2. Sums(u, k)
    <3>1. Has(k)
      BY <1>4, Zenon
    <3> QED
      BY <2>1, <3>1, Zenon
  <2>3. u[0] = 0 /\ \A m \in 1 .. k : u[m] = u[m - 1] + q[m]
    BY <2>2
  <2> DEFINE T == {m \in Nat : m <= k => u[m] = s[m]}
  <2>4. 0 \in T
    BY <1>6, <2>3
  <2>5. ASSUME NEW m \in Nat, m \in T
        PROVE  m + 1 \in T
    <3> SUFFICES ASSUME m + 1 <= k
                 PROVE  u[m + 1] = s[m + 1]
      OBVIOUS
    <3>1. PICK o : o = m + 1
      OBVIOUS
    <3>2. o \in 1 .. k /\ o \in 1 .. K /\ o - 1 = m
      BY <3>1
    <3>3. u[m] = s[m]
      BY <2>5
    <3>4. u[o] = u[m] + q[o] /\ s[o] = s[m] + q[o]
      BY <1>6, <2>3, <3>2
    <3> QED
      BY <3>1, <3>3, <3>4
  <2>6. k \in T
    <3> HIDE DEF T
    <3>1. Nat \subseteq T
      BY <2>4, <2>5, Counting
    <3> QED
      BY <3>1
  <2>7. Total(q, k) = u[k]
    BY <2>1 DEF Total
  <2> QED
    BY <2>6, <2>7
<1> QED
  BY <1>6, <1>7

LEMMA TotalOf ==
  ASSUME NEW K \in Nat, NEW q \in [1 .. K -> Int]
  PROVE  /\ Total(q, 0) = 0
         /\ \A k \in 0 .. K : Total(q, k) \in Int
         /\ \A k \in 1 .. K : Total(q, k) = Total(q, k - 1) + q[k]
<1>1. PICK s \in [0 .. K -> Int] :
        /\ s[0] = 0 /\ \A m \in 1 .. K : s[m] = s[m - 1] + q[m]
        /\ \A k \in 0 .. K : Total(q, k) = s[k]
  BY Totals
<1> QED
  BY <1>1

\* A sum is known by its steps.
AddsUp(g, q, k) ==
  /\ \A m \in 0 .. k : g[m] \in Int
  /\ g[0] = 0 /\ \A m \in 1 .. k : g[m] = g[m - 1] + q[m]

LEMMA TotalIs ==
  ASSUME NEW K \in Nat, NEW q \in [1 .. K -> Int], NEW k \in 0 .. K, NEW g, AddsUp(g, q, k)
  PROVE  Total(q, k) = g[k]
<1> DEFINE T == {m \in Nat : m <= k => Total(q, m) = g[m]}
<1>1. 0 \in T
  BY TotalOf DEF AddsUp
<1>2. ASSUME NEW m \in Nat, m \in T
      PROVE  m + 1 \in T
  <2> SUFFICES ASSUME m + 1 <= k
               PROVE  Total(q, m + 1) = g[m + 1]
    OBVIOUS
  <2>1. PICK o : o = m + 1
    OBVIOUS
  <2>2. o \in 1 .. k /\ o \in 1 .. K /\ o - 1 = m
    BY <2>1
  <2>3. Total(q, m) = g[m]
    BY <1>2
  <2>4. g[o] = g[m] + q[o] /\ g[m] \in Int
    BY <2>2 DEF AddsUp
  <2>5. Total(q, o) = Total(q, m) + q[o]
    BY <2>2, TotalOf
  <2>6. Total(q, o) = g[o]
    BY <2>3, <2>4, <2>5
  <2> QED
    BY <2>1, <2>6
<1>3. k \in T
  <2> HIDE DEF T
  <2>1. Nat \subseteq T
    BY <1>1, <1>2, Counting
  <2> QED
    BY <2>1
<1> QED
  BY <1>3

LEMMA TotalSame ==
  ASSUME NEW K \in Nat, NEW q \in [1 .. K -> Int], NEW p \in [1 .. K -> Int],
         NEW k \in 0 .. K, \A m \in 1 .. k : p[m] = q[m]
  PROVE  Total(p, k) = Total(q, k)
<1>1. PICK s \in [0 .. K -> Int] :
        /\ s[0] = 0 /\ \A m \in 1 .. K : s[m] = s[m - 1] + q[m]
        /\ \A o \in 0 .. K : Total(q, o) = s[o]
  BY Totals
<1>2. \A m \in 1 .. k : s[m] = s[m - 1] + p[m]
  BY <1>1
<1>i. AddsUp(s, p, k)
  BY <1>1, <1>2 DEF AddsUp
<1>3. Total(p, k) = s[k]
  BY <1>i, TotalIs
<1> QED
  BY <1>1, <1>3
-----------------------------------------------------------------------------
(***************************************************************************)
(* Alignments, and what they are worth.                                    *)
(***************************************************************************)
\* Every pair is in the corner, and any two are in order.
LEMMA AlignmentIs ==
  ASSUME NEW r \in Int, NEW c \in Int, NEW A
  PROVE  A \in Alignments(r, c) <=>
           /\ \A p \in A : \E a \in 1 .. r, b \in 1 .. c : p = <<a, b>>
           /\ \A a, b, x, y : <<a, b>> \in A /\ <<x, y>> \in A
                => (a = x /\ b = y) \/ (a < x /\ b < y) \/ (x < a /\ y < b)
<1>1. ASSUME A \in Alignments(r, c)
      PROVE  /\ \A p \in A : \E a \in 1 .. r, b \in 1 .. c : p = <<a, b>>
             /\ \A a, b, x, y : <<a, b>> \in A /\ <<x, y>> \in A
                  => (a = x /\ b = y) \/ (a < x /\ b < y) \/ (x < a /\ y < b)
  BY <1>1 DEF Alignments
<1>2. ASSUME \A p \in A : \E a \in 1 .. r, b \in 1 .. c : p = <<a, b>>,
             \A a, b, x, y : <<a, b>> \in A /\ <<x, y>> \in A
               => (a = x /\ b = y) \/ (a < x /\ b < y) \/ (x < a /\ y < b)
      PROVE  A \in Alignments(r, c)
  <2>1. A \in SUBSET ((1 .. r) \X (1 .. c))
    BY <1>2
  <2>2. ASSUME NEW p \in A, NEW q \in A
        PROVE  p = q \/ (p[1] < q[1] /\ p[2] < q[2]) \/ (q[1] < p[1] /\ q[2] < p[2])
    <3>1. PICK a, b : p = <<a, b>>
      BY <1>2
    <3>2. PICK x, y : q = <<x, y>>
      BY <1>2
    <3>3. <<a, b>> \in A /\ <<x, y>> \in A
      BY <3>1, <3>2
    <3>4. (a = x /\ b = y) \/ (a < x /\ b < y) \/ (x < a /\ y < b)
      BY <1>2, <3>3
    <3> QED
      BY <3>1, <3>2, <3>4
  <2> QED
    BY <2>1, <2>2 DEF Alignments
<1> QED
  BY <1>1, <1>2

\* The last characters are paired with each other, or one of them is left over.
LEMMA LastPair ==
  ASSUME NEW r \in Nat \ {0}, NEW c \in Nat \ {0}, NEW A \in Alignments(r, c)
  PROVE  \/ A \in Alignments(r - 1, c)
         \/ A \in Alignments(r, c - 1)
         \/ \E B \in Alignments(r - 1, c - 1) : A = B \cup {<<r, c>>}
<1>a. /\ \A p \in A : \E a \in 1 .. r, b \in 1 .. c : p = <<a, b>>
      /\ \A a, b, x, y : <<a, b>> \in A /\ <<x, y>> \in A
           => (a = x /\ b = y) \/ (a < x /\ b < y) \/ (x < a /\ y < b)
  BY AlignmentIs
<1>1. CASE \A y : <<r, y>> \notin A
  <2>1. \A p \in A : \E a \in 1 .. r - 1, b \in 1 .. c : p = <<a, b>>
    <3> TAKE p \in A
    <3>1. PICK a \in 1 .. r, b \in 1 .. c : p = <<a, b>>
      BY <1>a
    <3>2. a # r
      BY <1>1, <3>1
    <3> QED
      BY <3>1, <3>2
  <2> QED
    BY <1>a, <2>1, AlignmentIs
<1>2. CASE \A x : <<x, c>> \notin A
  <2>1. \A p \in A : \E a \in 1 .. r, b \in 1 .. c - 1 : p = <<a, b>>
    <3> TAKE p \in A
    <3>1. PICK a \in 1 .. r, b \in 1 .. c : p = <<a, b>>
      BY <1>a
    <3>2. b # c
      BY <1>2, <3>1
    <3> QED
      BY <3>1, <3>2
  <2> QED
    BY <1>a, <2>1, AlignmentIs
<1>3. ASSUME NEW x, NEW y, <<r, y>> \in A, <<x, c>> \in A
      PROVE  \E B \in Alignments(r - 1, c - 1) : A = B \cup {<<r, c>>}
  <2>1. x \in 1 .. r /\ y \in 1 .. c
    BY <1>3, <1>a
  <2>2. (r = x /\ y = c) \/ (r < x /\ y < c) \/ (x < r /\ c < y)
    BY <1>3, <1>a
  <2>3. <<r, c>> \in A
    BY <1>3, <2>1, <2>2
  <2>4. PICK B : B = A \ {<<r, c>>}
    OBVIOUS
  <2>5. \A p \in B : \E a \in 1 .. r - 1, b \in 1 .. c - 1 : p = <<a, b>>
    <3> TAKE p \in B
    <3>1. PICK a \in 1 .. r, b \in 1 .. c : p = <<a, b>>
      BY <1>a, <2>4
    <3>2. (a = r /\ b = c) \/ (a < r /\ b < c) \/ (r < a /\ c < b)
      BY <1>a, <2>3, <2>4, <3>1
    <3>3. ~(a = r /\ b = c)
      BY <2>4, <3>1
    <3>4. a \in 1 .. r - 1 /\ b \in 1 .. c - 1
      BY <3>2, <3>3
    <3> QED
      BY <3>1, <3>4
  <2>6. \A a, b, o, u : <<a, b>> \in B /\ <<o, u>> \in B
          => (a = o /\ b = u) \/ (a < o /\ b < u) \/ (o < a /\ u < b)
    BY <1>a, <2>4
  <2>7. B \in Alignments(r - 1, c - 1)
    BY <2>5, <2>6, AlignmentIs
  <2>8. A = B \cup {<<r, c>>}
    BY <2>3, <2>4
  <2> QED
    BY <2>7, <2>8
<1> QED
  BY <1>1, <1>2, <1>3

LEMMA WorthsAre ==
  ASSUME NEW n, NEW m, IsText(n), IsText(m), NEW A
  PROVE  /\ NeedleWorth(A, n, m) \in [1 .. Len(n) -> Int]
         /\ NameWorth(A, n, m) \in [1 .. Len(m) -> Int]
         /\ Len(n) \in Nat /\ Len(m) \in Nat
<1>1. n \in Seq(Int) /\ m \in Seq(Int) /\ Len(n) \in Nat /\ Len(m) \in Nat
      /\ Len(n) < Width /\ Len(m) < Width
  BY DEF IsText
<1>2. ASSUME NEW k \in Int, 1 <= k, k < Width
      PROVE  Gap[k - 1] \in Int
  <2>1. k - 1 \in Edge
    BY <1>2, SizesAssumption DEF Edge
  <2> QED
    BY <2>1, Tables
<1>3. \A a, b : Match(a, b) \in Int
  BY DEF Match, MATCH_STRICT_REWARD, MATCH_CASE_INSENSITIVE_REWARD, SUB_PENALTY
<1>4. ASSUME NEW k \in 1 .. Len(n)
      PROVE  Gap[k - 1] \in Int
  <2>1. k \in Int /\ 1 <= k /\ k < Width
    BY <1>1, <1>4, SizesAssumption
  <2> QED
    BY <1>2, <2>1
<1>5. ASSUME NEW k \in 1 .. Len(m)
      PROVE  Gap[k - 1] \in Int
  <2>1. k \in Int /\ 1 <= k /\ k < Width
    BY <1>1, <1>5, SizesAssumption
  <2> QED
    BY <1>2, <2>1
<1>6. NeedleWorth(A, n, m) \in [1 .. Len(n) -> Int]
  BY <1>3, <1>4 DEF NeedleWorth
<1>7. NameWorth(A, n, m) \in [1 .. Len(m) -> Int]
  BY <1>5 DEF NameWorth
<1> QED
  BY <1>1, <1>6, <1>7

LEMMA ValueIsInt ==
  ASSUME NEW n, NEW m, IsText(n), IsText(m), NEW A,
         NEW r \in 0 .. Len(n), NEW c \in 0 .. Len(m)
  PROVE  Value(A, n, m, r, c) \in Int
<1>1. PICK p, q : p = NeedleWorth(A, n, m) /\ q = NameWorth(A, n, m)
  OBVIOUS
<1>2. p \in [1 .. Len(n) -> Int] /\ q \in [1 .. Len(m) -> Int] /\ Len(n) \in Nat /\ Len(m) \in Nat
  BY <1>1, WorthsAre
<1>3. Total(p, r) \in Int /\ Total(q, c) \in Int
  BY <1>2, TotalOf
<1> QED
  BY <1>1, <1>3 DEF Value

\* The last character of the needle is left over.
LEMMA NeedleLeft ==
  ASSUME NEW n, NEW m, IsText(n), IsText(m),
         NEW r \in 1 .. Len(n), NEW c \in 0 .. Len(m), NEW A \in Alignments(r - 1, c)
  PROVE  /\ A \in Alignments(r, c)
         /\ Value(A, n, m, r, c) = Value(A, n, m, r - 1, c) + Gap[r - 1]
<1>1. PICK p, q : p = NeedleWorth(A, n, m) /\ q = NameWorth(A, n, m)
  OBVIOUS
<1>2. p \in [1 .. Len(n) -> Int] /\ q \in [1 .. Len(m) -> Int] /\ Len(n) \in Nat /\ Len(m) \in Nat
  BY <1>1, WorthsAre
<1>3. /\ \A o \in A : \E a \in 1 .. r - 1, b \in 1 .. c : o = <<a, b>>
      /\ \A a, b, x, y : <<a, b>> \in A /\ <<x, y>> \in A
           => (a = x /\ b = y) \/ (a < x /\ b < y) \/ (x < a /\ y < b)
  BY <1>2, AlignmentIs
<1>4. A \in Alignments(r, c)
  <2>1. \A o \in A : \E a \in 1 .. r, b \in 1 .. c : o = <<a, b>>
    BY <1>3
  <2> QED
    BY <1>2, <1>3, <2>1, AlignmentIs
<1>5. p[r] = Gap[r - 1]
  <2>1. ASSUME NEW b, <<r, b>> \in A
        PROVE  FALSE
    <3>1. PICK a \in 1 .. r - 1, x \in 1 .. c : <<r, b>> = <<a, x>>
      BY <1>3, <2>1
    <3>2. r = a /\ r \in Int
      BY <1>2, <3>1
    <3> QED
      BY <3>1, <3>2
  <2> QED
    BY <1>1, <2>1 DEF NeedleWorth
<1>6. Total(p, r) = Total(p, r - 1) + p[r] /\ Total(p, r - 1) \in Int /\ p[r] \in Int
  <2>1. r - 1 \in 0 .. Len(n)
    BY <1>2
  <2> QED
    BY <1>2, <2>1, TotalOf
<1>7. Total(q, c) \in Int
  BY <1>2, TotalOf
<1>8. Value(A, n, m, r, c) = Total(p, r) + Total(q, c)
      /\ Value(A, n, m, r - 1, c) = Total(p, r - 1) + Total(q, c)
  BY <1>1 DEF Value
<1> QED
  BY <1>4, <1>5, <1>6, <1>7, <1>8

\* The last character of the name is left over.
LEMMA NameLeft ==
  ASSUME NEW n, NEW m, IsText(n), IsText(m),
         NEW r \in 0 .. Len(n), NEW c \in 1 .. Len(m), NEW A \in Alignments(r, c - 1)
  PROVE  /\ A \in Alignments(r, c)
         /\ Value(A, n, m, r, c) = Value(A, n, m, r, c - 1) + Gap[c - 1]
<1>1. PICK p, q : p = NeedleWorth(A, n, m) /\ q = NameWorth(A, n, m)
  OBVIOUS
<1>2. p \in [1 .. Len(n) -> Int] /\ q \in [1 .. Len(m) -> Int] /\ Len(n) \in Nat /\ Len(m) \in Nat
  BY <1>1, WorthsAre
<1>3. /\ \A o \in A : \E a \in 1 .. r, b \in 1 .. c - 1 : o = <<a, b>>
      /\ \A a, b, x, y : <<a, b>> \in A /\ <<x, y>> \in A
           => (a = x /\ b = y) \/ (a < x /\ b < y) \/ (x < a /\ y < b)
  BY <1>2, AlignmentIs
<1>4. A \in Alignments(r, c)
  <2>1. \A o \in A : \E a \in 1 .. r, b \in 1 .. c : o = <<a, b>>
    BY <1>3
  <2> QED
    BY <1>2, <1>3, <2>1, AlignmentIs
<1>5. q[c] = Gap[c - 1]
  <2>1. ASSUME NEW a, <<a, c>> \in A
        PROVE  FALSE
    <3>1. PICK x \in 1 .. r, b \in 1 .. c - 1 : <<a, c>> = <<x, b>>
      BY <1>3, <2>1
    <3>2. c = b /\ c \in Int
      BY <1>2, <3>1
    <3> QED
      BY <3>1, <3>2
  <2> QED
    BY <1>1, <2>1 DEF NameWorth
<1>6. Total(q, c) = Total(q, c - 1) + q[c] /\ Total(q, c - 1) \in Int /\ q[c] \in Int
  <2>1. c - 1 \in 0 .. Len(m)
    BY <1>2
  <2> QED
    BY <1>2, <2>1, TotalOf
<1>7. Total(p, r) \in Int
  BY <1>2, TotalOf
<1>8. Value(A, n, m, r, c) = Total(p, r) + Total(q, c)
      /\ Value(A, n, m, r, c - 1) = Total(p, r) + Total(q, c - 1)
  BY <1>1 DEF Value
<1> QED
  BY <1>4, <1>5, <1>6, <1>7, <1>8
\* The last characters are paired with each other.
LEMMA LastPaired ==
  ASSUME NEW n, NEW m, IsText(n), IsText(m),
         NEW r \in 1 .. Len(n), NEW c \in 1 .. Len(m), NEW A \in Alignments(r - 1, c - 1),
         NEW B, B = A \cup {<<r, c>>}
  PROVE  /\ B \in Alignments(r, c)
         /\ Value(B, n, m, r, c) = Value(A, n, m, r - 1, c - 1) + Match(n[r], m[c])
<1>1. PICK p, q, s, t : /\ p = NeedleWorth(A, n, m) /\ q = NameWorth(A, n, m)
                        /\ s = NeedleWorth(B, n, m) /\ t = NameWorth(B, n, m)
  OBVIOUS
<1>2. /\ p \in [1 .. Len(n) -> Int] /\ q \in [1 .. Len(m) -> Int]
      /\ s \in [1 .. Len(n) -> Int] /\ t \in [1 .. Len(m) -> Int]
      /\ Len(n) \in Nat /\ Len(m) \in Nat
  BY <1>1, WorthsAre
<1>i. r \in Int /\ c \in Int /\ r - 1 \in 0 .. Len(n) /\ c - 1 \in 0 .. Len(m)
  BY <1>2
<1>3. /\ \A o \in A : \E a \in 1 .. r - 1, b \in 1 .. c - 1 : o = <<a, b>>
      /\ \A a, b, x, y : <<a, b>> \in A /\ <<x, y>> \in A
           => (a = x /\ b = y) \/ (a < x /\ b < y) \/ (x < a /\ y < b)
  BY <1>i, AlignmentIs
<1>4. \A a, b : <<a, b>> \in A => a \in 1 .. r - 1 /\ b \in 1 .. c - 1
  BY <1>3
<1>5. \A a, b : <<a, b>> \in B <=> <<a, b>> \in A \/ (a = r /\ b = c)
  OBVIOUS
<1>6. B \in Alignments(r, c)
  <2>1. ASSUME NEW o \in B
        PROVE  \E a \in 1 .. r, b \in 1 .. c : o = <<a, b>>
    <3>1. CASE o \in A
      <4>1. PICK a \in 1 .. r - 1, b \in 1 .. c - 1 : o = <<a, b>>
        BY <1>3, <3>1
      <4>2. a \in 1 .. r /\ b \in 1 .. c
        BY <1>i
      <4> QED
        BY <4>1, <4>2
    <3>2. CASE o = <<r, c>>
      <4>1. r \in 1 .. r /\ c \in 1 .. c
        BY <1>i
      <4> QED
        BY <3>2, <4>1
    <3> QED
      BY <3>1, <3>2
  <2>2. ASSUME NEW a, NEW b, NEW x, NEW y, <<a, b>> \in B, <<x, y>> \in B
        PROVE  (a = x /\ b = y) \/ (a < x /\ b < y) \/ (x < a /\ y < b)
    <3>1. CASE <<a, b>> \in A /\ <<x, y>> \in A
      BY <1>3, <3>1
    <3>2. CASE <<a, b>> \in A /\ x = r /\ y = c
      <4>1. a \in 1 .. r - 1 /\ b \in 1 .. c - 1
        BY <1>4, <3>2
      <4> QED
        BY <1>i, <3>2, <4>1
    <3>3. CASE a = r /\ b = c /\ <<x, y>> \in A
      <4>1. x \in 1 .. r - 1 /\ y \in 1 .. c - 1
        BY <1>4, <3>3
      <4> QED
        BY <1>i, <3>3, <4>1
    <3>4. CASE a = r /\ b = c /\ x = r /\ y = c
      BY <3>4
    <3> QED
      BY <1>5, <2>2, <3>1, <3>2, <3>3, <3>4
  <2> QED
    BY <1>i, <2>1, <2>2, AlignmentIs
<1>7. \A k \in 1 .. r - 1 : s[k] = p[k]
  <2> TAKE k \in 1 .. r - 1
  <2>1. k \in 1 .. Len(n) /\ k # r
    BY <1>2
  <2>2. \A b : <<k, b>> \in B <=> <<k, b>> \in A
    BY <1>5, <2>1
  <2> QED
    BY <1>1, <2>1, <2>2 DEF NeedleWorth
<1>8. \A k \in 1 .. c - 1 : t[k] = q[k]
  <2> TAKE k \in 1 .. c - 1
  <2>1. k \in 1 .. Len(m) /\ k # c
    BY <1>2
  <2>2. \A a : <<a, k>> \in B <=> <<a, k>> \in A
    BY <1>5, <2>1
  <2> QED
    BY <1>1, <2>1, <2>2 DEF NameWorth
<1>9. s[r] = Match(n[r], m[c])
  <2>1. ~(r \in 1 .. r - 1)
    BY <1>i
  <2>2. \A b : <<r, b>> \in B <=> b = c
    BY <1>4, <1>5, <2>1
  <2>3. (CHOOSE b \in 1 .. Len(m) : <<r, b>> \in B) = c
    BY <2>2
  <2> QED
    BY <1>1, <2>2, <2>3 DEF NeedleWorth
<1>10. t[c] = 0
  <2>1. <<r, c>> \in B
    BY <1>5
  <2> QED
    BY <1>1, <2>1 DEF NameWorth
<1>11. /\ Total(s, r) = Total(s, r - 1) + s[r] /\ Total(t, c) = Total(t, c - 1) + t[c]
       /\ Total(s, r - 1) \in Int /\ Total(t, c - 1) \in Int
       /\ s[r] \in Int /\ t[c] \in Int
  BY <1>2, <1>i, TotalOf
<1>12. Total(s, r - 1) = Total(p, r - 1)
  <2>1. PICK k : k = r - 1
    OBVIOUS
  <2>2. k \in 0 .. Len(n) /\ \A o \in 1 .. k : s[o] = p[o]
    BY <1>i, <1>7, <2>1
  <2>3. Total(s, k) = Total(p, k)
    BY <1>2, <2>2, TotalSame
  <2> QED
    BY <2>1, <2>3
<1>13. Total(t, c - 1) = Total(q, c - 1)
  <2>1. PICK k : k = c - 1
    OBVIOUS
  <2>2. k \in 0 .. Len(m) /\ \A o \in 1 .. k : t[o] = q[o]
    BY <1>i, <1>8, <2>1
  <2>3. Total(t, k) = Total(q, k)
    BY <1>2, <2>2, TotalSame
  <2> QED
    BY <2>1, <2>3
<1>14. /\ Value(B, n, m, r, c) = Total(s, r) + Total(t, c)
       /\ Value(A, n, m, r - 1, c - 1) = Total(p, r - 1) + Total(q, c - 1)
  BY <1>1 DEF Value
<1> QED
  BY <1>6, <1>9, <1>10, <1>11, <1>12, <1>13, <1>14

\* The recurrence: the best alignment is the best of the best of these three kinds.
LEMMA BestStep ==
  ASSUME NEW n, NEW m, IsText(n), IsText(m), NEW r \in 1 .. Len(n), NEW c \in 1 .. Len(m),
         NEW x, IsBest(x, n, m, r - 1, c - 1), NEW y, IsBest(y, n, m, r - 1, c),
         NEW z, IsBest(z, n, m, r, c - 1),
         NEW o1, o1 = x + Match(n[r], m[c]),
         NEW o2, o2 = y + Gap[r - 1], NEW o3, o3 = z + Gap[c - 1]
  PROVE  IsBest(Larger(Larger(o1, o2), o3), n, m, r, c)
<1>i. /\ Len(n) \in Nat /\ Len(m) \in Nat /\ r \in Nat \ {0} /\ c \in Nat \ {0}
      /\ r - 1 \in 0 .. Len(n) /\ c - 1 \in 0 .. Len(m)
      /\ r \in 0 .. Len(n) /\ c \in 0 .. Len(m)
  BY WorthsAre
<1>1. PICK A1 \in Alignments(r - 1, c - 1) : x = Value(A1, n, m, r - 1, c - 1)
  BY DEF IsBest
<1>2. PICK A2 \in Alignments(r - 1, c) : y = Value(A2, n, m, r - 1, c)
  BY DEF IsBest
<1>3. PICK A3 \in Alignments(r, c - 1) : z = Value(A3, n, m, r, c - 1)
  BY DEF IsBest
<1>4. PICK B1 : B1 = A1 \cup {<<r, c>>}
  OBVIOUS
<1>5. B1 \in Alignments(r, c) /\ Value(B1, n, m, r, c) = o1
  BY <1>1, <1>4, LastPaired
<1>6. A2 \in Alignments(r, c) /\ Value(A2, n, m, r, c) = o2
  BY <1>i, <1>2, NeedleLeft
<1>7. A3 \in Alignments(r, c) /\ Value(A3, n, m, r, c) = o3
  BY <1>i, <1>3, NameLeft
<1>8. o1 \in Int /\ o2 \in Int /\ o3 \in Int
  BY <1>i, <1>5, <1>6, <1>7, ValueIsInt
<1>9. /\ Larger(Larger(o1, o2), o3) \in {o1, o2, o3}
      /\ o1 <= Larger(Larger(o1, o2), o3) /\ o2 <= Larger(Larger(o1, o2), o3)
      /\ o3 <= Larger(Larger(o1, o2), o3)
  BY <1>8 DEF Larger
<1>g. Match(n[r], m[c]) \in Int /\ Gap[r - 1] \in Int /\ Gap[c - 1] \in Int
  <2>1. Match(n[r], m[c]) \in Int
    BY DEF Match, MATCH_STRICT_REWARD, MATCH_CASE_INSENSITIVE_REWARD, SUB_PENALTY
  <2>2. r - 1 \in Edge /\ c - 1 \in Edge
    BY <1>i, SizesAssumption DEF Edge, IsText
  <2> QED
    BY <2>1, <2>2, Tables
<1>10. ASSUME NEW A \in Alignments(r, c)
       PROVE  \/ Value(A, n, m, r, c) <= o1
              \/ Value(A, n, m, r, c) <= o2
              \/ Value(A, n, m, r, c) <= o3
  <2>1. CASE A \in Alignments(r - 1, c)
    <3>1. Value(A, n, m, r - 1, c) <= y
      BY <2>1 DEF IsBest
    <3>2. Value(A, n, m, r, c) = Value(A, n, m, r - 1, c) + Gap[r - 1]
      BY <1>i, <2>1, NeedleLeft
    <3>3. Value(A, n, m, r - 1, c) \in Int /\ y \in Int
      BY <1>i, <1>2, ValueIsInt
    <3> QED
      BY <1>g, <3>1, <3>2, <3>3
  <2>2. CASE A \in Alignments(r, c - 1)
    <3>1. Value(A, n, m, r, c - 1) <= z
      BY <2>2 DEF IsBest
    <3>2. Value(A, n, m, r, c) = Value(A, n, m, r, c - 1) + Gap[c - 1]
      BY <1>i, <2>2, NameLeft
    <3>3. Value(A, n, m, r, c - 1) \in Int /\ z \in Int
      BY <1>i, <1>3, ValueIsInt
    <3> QED
      BY <1>g, <3>1, <3>2, <3>3
  <2>3. CASE \E B \in Alignments(r - 1, c - 1) : A = B \cup {<<r, c>>}
    <3>1. PICK B \in Alignments(r - 1, c - 1) : A = B \cup {<<r, c>>}
      BY <2>3
    <3>2. Value(B, n, m, r - 1, c - 1) <= x
      BY <3>1 DEF IsBest
    <3>3. Value(A, n, m, r, c) = Value(B, n, m, r - 1, c - 1) + Match(n[r], m[c])
      BY <3>1, LastPaired
    <3>4. Value(B, n, m, r - 1, c - 1) \in Int /\ x \in Int
      BY <1>i, <1>1, ValueIsInt
    <3> QED
      BY <1>g, <3>2, <3>3, <3>4
  <2> QED
    BY <1>i, <2>1, <2>2, <2>3, LastPair
<1>11. ASSUME NEW A \in Alignments(r, c)
       PROVE  Value(A, n, m, r, c) <= Larger(Larger(o1, o2), o3)
  <2>1. Value(A, n, m, r, c) \in Int
    BY <1>i, ValueIsInt
  <2> QED
    BY <1>8, <1>9, <1>10, <2>1
<1> QED
  BY <1>5, <1>6, <1>7, <1>9, <1>11 DEF IsBest
\* Nothing can be paired on the border: every character costs its gap.
LEMMA BestBorder ==
  ASSUME NEW n, NEW m, IsText(n), IsText(m)
  PROVE  /\ \A k \in 0 .. Len(n) : IsBest(Sum[k], n, m, k, 0)
         /\ \A k \in 0 .. Len(m) : IsBest(Sum[k], n, m, 0, k)
<1>1. PICK p, q : p = NeedleWorth({}, n, m) /\ q = NameWorth({}, n, m)
  OBVIOUS
<1>2. /\ p \in [1 .. Len(n) -> Int] /\ q \in [1 .. Len(m) -> Int]
      /\ Len(n) \in Nat /\ Len(m) \in Nat /\ Len(n) < Width /\ Len(m) < Width
  BY <1>1, WorthsAre DEF IsText
<1>3. /\ \A k \in 1 .. Len(n) : p[k] = Gap[k - 1]
      /\ \A k \in 1 .. Len(m) : q[k] = Gap[k - 1]
  BY <1>1 DEF NeedleWorth, NameWorth
<1>4. ASSUME NEW k \in Nat, k < Width
      PROVE  /\ Sum[0] = 0 /\ \A o \in 0 .. k : Sum[o] \in Int
             /\ \A o \in 1 .. k : Sum[o] = Sum[o - 1] + Gap[o - 1]
  <2>1. 0 .. k \subseteq Edge /\ 1 .. k \subseteq 1 .. Width - 1
    BY <1>4, SizesAssumption DEF Edge
  <2> QED
    BY <2>1, Tables
<1>5. ASSUME NEW k \in 0 .. Len(n)
      PROVE  Total(p, k) = Sum[k] /\ Sum[k] \in Int
  <2>1. k \in Nat /\ k < Width
    BY <1>2, SizesAssumption
  <2>2. /\ Sum[0] = 0 /\ \A o \in 0 .. k : Sum[o] \in Int
        /\ \A o \in 1 .. k : Sum[o] = Sum[o - 1] + Gap[o - 1]
    BY <1>4, <2>1
  <2>3. \A o \in 1 .. k : Sum[o] = Sum[o - 1] + p[o]
    <3>1. 1 .. k \subseteq 1 .. Len(n)
      BY <1>2
    <3> QED
      BY <1>3, <2>2, <3>1
  <2>4. AddsUp(Sum, p, k)
    BY <2>2, <2>3 DEF AddsUp
  <2>5. Total(p, k) = Sum[k]
    BY <1>2, <2>4, TotalIs
  <2> QED
    BY <2>1, <2>2, <2>5
<1>6. ASSUME NEW k \in 0 .. Len(m)
      PROVE  Total(q, k) = Sum[k] /\ Sum[k] \in Int
  <2>1. k \in Nat /\ k < Width
    BY <1>2, SizesAssumption
  <2>2. /\ Sum[0] = 0 /\ \A o \in 0 .. k : Sum[o] \in Int
        /\ \A o \in 1 .. k : Sum[o] = Sum[o - 1] + Gap[o - 1]
    BY <1>4, <2>1
  <2>3. \A o \in 1 .. k : Sum[o] = Sum[o - 1] + q[o]
    <3>1. 1 .. k \subseteq 1 .. Len(m)
      BY <1>2
    <3> QED
      BY <1>3, <2>2, <3>1
  <2>4. AddsUp(Sum, q, k)
    BY <2>2, <2>3 DEF AddsUp
  <2>5. Total(q, k) = Sum[k]
    BY <1>2, <2>4, TotalIs
  <2> QED
    BY <2>1, <2>2, <2>5
<1>7. Total(p, 0) = 0 /\ Total(q, 0) = 0
  BY <1>2, TotalOf
<1>8. ASSUME NEW r \in Int, NEW c \in Int, r = 0 \/ c = 0
      PROVE  Alignments(r, c) = {{}}
  <2>1. ASSUME NEW A \in Alignments(r, c), NEW o \in A
        PROVE  FALSE
    <3>1. PICK a \in 1 .. r, b \in 1 .. c : o = <<a, b>>
      BY <2>1, AlignmentIs
    <3> QED
      BY <1>8, <3>1
  <2>2. {} \in Alignments(r, c)
    BY AlignmentIs
  <2> QED
    BY <2>1, <2>2
<1>9. ASSUME NEW k \in 0 .. Len(n)
      PROVE  IsBest(Sum[k], n, m, k, 0)
  <2>1. {} \in Alignments(k, 0) /\ \A A \in Alignments(k, 0) : A = {}
    BY <1>8
  <2>2. Value({}, n, m, k, 0) = Sum[k] /\ Sum[k] <= Sum[k]
    BY <1>1, <1>5, <1>7 DEF Value
  <2> QED
    BY <2>1, <2>2 DEF IsBest
<1>10. ASSUME NEW k \in 0 .. Len(m)
       PROVE  IsBest(Sum[k], n, m, 0, k)
  <2>1. {} \in Alignments(0, k) /\ \A A \in Alignments(0, k) : A = {}
    BY <1>8
  <2>2. Value({}, n, m, 0, k) = Sum[k] /\ Sum[k] <= Sum[k]
    BY <1>1, <1>6, <1>7 DEF Value
  <2> QED
    BY <2>1, <2>2 DEF IsBest
<1> QED
  BY <1>9, <1>10

\* The cell where both strings end holds the best of all alignments.
LEMMA BestIs ==
  ASSUME NEW n, NEW m, IsText(n), IsText(m), NEW v, IsBest(v, n, m, Len(n), Len(m))
  PROVE  v = Best(n, m)
<1>1. Len(n) \in Nat /\ Len(m) \in Nat
  BY WorthsAre
<1>2. \A A : Worth(A, n, m) = Value(A, n, m, Len(n), Len(m)) /\ Worth(A, n, m) \in Int
  <2>1. Len(n) \in 0 .. Len(n) /\ Len(m) \in 0 .. Len(m)
    BY <1>1
  <2> QED
    BY <2>1, ValueIsInt DEF Worth, Value
<1>3. PICK W : W = {Worth(A, n, m) : A \in Alignments(Len(n), Len(m))}
  OBVIOUS
<1>4. v \in W /\ \A w \in W : w <= v /\ w \in Int
  BY <1>2, <1>3 DEF IsBest
<1>5. Max(W) = v
  <2>1. PICK x : x = Max(W)
    OBVIOUS
  <2>2. x \in W /\ \A w \in W : x >= w
    BY <1>4, <2>1 DEF Max
  <2> QED
    BY <1>4, <2>1, <2>2
<1> QED
  BY <1>3, <1>5 DEF Best

-----------------------------------------------------------------------------
(***************************************************************************)
(* The matrix holds the best, whatever has been in it before.              *)
(***************************************************************************)
LEMMA Texts ==
  ASSUME TypeOK
  PROVE  IsText(needle) /\ \A f \in DOMAIN files : IsText(files[f])
<1>1. /\ needle \in Seq(Int \ {0}) /\ Len(needle) \in Edge
      /\ \A f \in DOMAIN files : files[f] \in Seq(Int \ {0}) /\ Len(files[f]) \in Edge
  BY Shape
<1>2. \A s : s \in Seq(Int \ {0}) => s \in Seq(Int)
  OBVIOUS
<1> QED
  BY <1>1, <1>2, SizesAssumption DEF IsText, Edge

\* Every cell that a lane may read is the best of its corner.
LEMMA BestKnown ==
  ASSUME BestInv, pc = "fill", NEW r \in Edge, NEW c \in Edge, NEW l \in LaneNo,
         r <= Len(needle), r < i \/ (r = i /\ c < j),
         File(l) \in DOMAIN files, c <= Len(files[File(l)])
  PROVE  IsBest(d[r][c][l], needle, files[File(l)], r, c)
<1>1. TypeOK /\ BorderInv
  BY DEF BestInv, IInv
<1>2. IsText(needle) /\ IsText(files[File(l)])
  BY <1>1, Texts
<1>3. r \in 0 .. Len(needle) /\ c \in 0 .. Len(files[File(l)])
  <2>1. Len(needle) \in Nat /\ Len(files[File(l)]) \in Nat
    BY <1>2 DEF IsText
  <2> QED
    BY <2>1, SizesAssumption DEF Edge
<1>4. CASE c = 0
  <2>1. d[r][0][l] = Sum[r]
    BY <1>1 DEF BorderInv
  <2>2. IsBest(Sum[r], needle, files[File(l)], r, 0)
    BY <1>2, <1>3, BestBorder
  <2> QED
    BY <1>4, <2>1, <2>2
<1>5. CASE r = 0
  <2>1. d[0][c][l] = Sum[c]
    BY <1>1 DEF BorderInv
  <2>2. IsBest(Sum[c], needle, files[File(l)], 0, c)
    BY <1>2, <1>3, BestBorder
  <2> QED
    BY <1>5, <2>1, <2>2
<1>6. CASE r # 0 /\ c # 0
  BY <1>6 DEF BestInv, BestCells
<1> QED
  BY <1>4, <1>5, <1>6

LEMMA FillCellBest ==
  ASSUME BestInv, FillCell, NEW l \in LaneNo,
         File(l) \in DOMAIN files, j <= Len(files[File(l)])
  PROVE  IsBest(Cell(l), needle, files[File(l)], i, j)
<1>1. IInv /\ TypeOK /\ pc = "fill" /\ i <= Len(needle) /\ Reaches(j)
  BY DEF BestInv, IInv, FillCell, Batching
<1>2. IsText(needle) /\ IsText(files[File(l)])
  BY <1>1, Texts
<1>3. i \in 1 .. Width - 1 /\ j \in 1 .. Width - 1
  BY <1>1, FillCellWithin
<1>4. i \in 1 .. Len(needle) /\ j \in 1 .. Len(files[File(l)])
  <2>1. Len(needle) \in Nat /\ Len(files[File(l)]) \in Nat
    BY <1>2 DEF IsText
  <2> QED
    BY <1>1, <1>3, <2>1, SizesAssumption
<1>5. /\ i \in Edge /\ j \in Edge /\ i - 1 \in Edge /\ j - 1 \in Edge
      /\ i - 1 < i /\ j - 1 < j /\ i - 1 <= Len(needle) /\ j - 1 <= Len(files[File(l)])
  <2>1. Len(needle) \in Nat /\ Len(files[File(l)]) \in Nat
    BY <1>2 DEF IsText
  <2> QED
    BY <1>3, <1>4, <2>1, SizesAssumption DEF Edge
<1>6. PICK diag, up, left, m :
        /\ diag = d[i - 1][j - 1][l] /\ up = d[i - 1][j][l] /\ left = d[i][j - 1][l]
        /\ m = Match(needle[i], files[File(l)][j])
  OBVIOUS
<1>7. /\ IsBest(diag, needle, files[File(l)], i - 1, j - 1)
      /\ IsBest(up, needle, files[File(l)], i - 1, j)
      /\ IsBest(left, needle, files[File(l)], i, j - 1)
  BY <1>1, <1>5, <1>6, BestKnown
<1>8. Within(diag, i - 1, j - 1) /\ Within(up, i - 1, j) /\ Within(left, i, j - 1)
  <2>1. j - 1 = 0 \/ Reaches(j - 1)
    BY <1>5 DEF Reaches
  <2> QED
    BY <1>1, <1>5, <1>6, <2>1, Known
<1>m. m \in -9 .. 9
  <2>1. needle[i] \in Int \ {0}
    BY <1>1, <1>4, Shape
  <2>2. files[File(l)][j] \in Int
    BY <1>2, <1>4 DEF IsText
  <2> QED
    BY <1>6, <2>1, <2>2, MatchRange
<1>9. Letter(l, j) = files[File(l)][j]
  BY <1>4 DEF Letter
<1>10. /\ Add(diag, m) = diag + m
       /\ Add(up, Gap[i - 1]) = up + Gap[i - 1]
       /\ Add(left, Gap[j - 1]) = left + Gap[j - 1]
  <2>1. m \in Int /\ -50 <= m /\ m <= 9
    BY <1>m
  <2>2. /\ Gap[i - 1] \in Int /\ -50 <= Gap[i - 1] /\ Gap[i - 1] <= 9
        /\ Gap[j - 1] \in Int /\ -50 <= Gap[j - 1] /\ Gap[j - 1] <= 9
    BY <1>5, Tables
  <2>3. Add(diag, m) = diag + m
    BY <1>5, <1>8, <2>1, NoWrap
  <2>4. Add(up, Gap[i - 1]) = up + Gap[i - 1]
    BY <1>5, <1>8, <2>2, NoWrap
  <2>5. Add(left, Gap[j - 1]) = left + Gap[j - 1]
    BY <1>5, <1>8, <2>2, NoWrap
  <2> QED
    BY <2>3, <2>4, <2>5
<1>11. Cell(l) = Larger(Larger(diag + m, up + Gap[i - 1]), left + Gap[j - 1])
  BY <1>6, <1>9, <1>10 DEF Cell
<1> QED
  BY <1>2, <1>4, <1>6, <1>7, <1>11, BestStep
LEMMA FillCellBestStep ==
  ASSUME BestInv, FillCell
  PROVE  BestCells' /\ BestScores'
<1>1. /\ TypeOK /\ d \in [Edge -> [Edge -> [LaneNo -> Short]]]
      /\ i \in 1 .. Width /\ j \in 1 .. Width /\ Width \in Nat
  BY SizesAssumption DEF BestInv, IInv, TypeOK
<1>2. /\ d' = [d EXCEPT ![i][j] = [l \in LaneNo |-> Cell(l)]]
      /\ j' = j + 1 /\ UNCHANGED <<pc, files, needle, first, i, scores>>
  BY DEF FillCell
<1>3. \A l : File(l)' = File(l)
  BY <1>2 DEF File
<1>4. BestCells'
  <2> SUFFICES ASSUME pc = "fill", NEW r \in Edge \ {0}, NEW c \in Edge \ {0}, NEW l \in LaneNo,
                      r <= Len(needle), r < i \/ (r = i /\ c < j + 1),
                      File(l) \in DOMAIN files, c <= Len(files[File(l)])
               PROVE  IsBest(d'[r][c][l], needle, files[File(l)], r, c)
    BY <1>2, <1>3 DEF BestCells
  <2>1. r \in Int /\ c \in Int
    BY SizesAssumption DEF Edge
  <2>2. CASE r = i /\ c = j
    <3>1. d'[r][c][l] = Cell(l)
      BY <1>1, <1>2, <2>2
    <3> QED
      BY <2>2, <3>1, FillCellBest
  <2>3. CASE ~(r = i /\ c = j)
    <3>1. d'[r][c][l] = d[r][c][l]
      BY <1>1, <1>2, <2>3
    <3>2. r < i \/ (r = i /\ c < j)
      BY <1>1, <2>1, <2>3
    <3> QED
      BY <3>1, <3>2 DEF BestInv, BestCells
  <2> QED
    BY <2>2, <2>3
<1>5. BestScores'
  BY <1>2 DEF BestInv, BestScores
<1> QED
  BY <1>4, <1>5

LEMMA NextRowBestStep ==
  ASSUME BestInv, NextRow
  PROVE  BestCells' /\ BestScores'
<1>1. TypeOK /\ pc = "fill" /\ i \in 1 .. Width /\ j \in 1 .. Width /\ ~Reaches(j)
  BY DEF BestInv, IInv, TypeOK, NextRow, Batching
<1>2. i' = i + 1 /\ j' = 1 /\ UNCHANGED <<pc, files, needle, d, first, scores>>
  BY DEF NextRow
<1>3. \A l : File(l)' = File(l)
  BY <1>2 DEF File
<1>4. BestCells'
  <2> SUFFICES ASSUME NEW r \in Edge \ {0}, NEW c \in Edge \ {0}, NEW l \in LaneNo,
                      r <= Len(needle), r < i + 1 \/ (r = i + 1 /\ c < 1),
                      File(l) \in DOMAIN files, c <= Len(files[File(l)])
               PROVE  IsBest(d[r][c][l], needle, files[File(l)], r, c)
    BY <1>2, <1>3 DEF BestCells
  <2>1. r \in Int /\ c \in 1 .. Width
    BY SizesAssumption DEF Edge
  <2>2. Reaches(c)
    BY DEF Reaches
  <2>3. c < j
    BY <1>1, <2>1, <2>2, Columns
  <2>4. r < i \/ (r = i /\ c < j)
    BY <1>1, <2>1, <2>3
  <2> QED
    BY <1>1, <2>4 DEF BestInv, BestCells
<1>5. BestScores'
  BY <1>2 DEF BestInv, BestScores
<1> QED
  BY <1>4, <1>5

LEMMA CollectBestStep ==
  ASSUME BestInv, Collect
  PROVE  BestCells' /\ BestScores'
<1>1. /\ TypeOK /\ pc = "fill" /\ i > Len(needle) /\ i \in Int /\ first \in Nat
      /\ Lanes \in Nat \ {0}
  BY SizesAssumption DEF BestInv, IInv, TypeOK, Collect, Batching
<1>2. /\ first' = first + Lanes /\ i' = 1 /\ j' = 1
      /\ UNCHANGED <<pc, files, needle, d>>
      /\ scores' = [f \in DOMAIN files |->
                     IF f - first - 1 \in LaneNo
                     THEN d[Len(needle)][Len(files[f])][f - first - 1]
                     ELSE scores[f]]
  BY DEF Collect
<1>3. BestCells'
  <2>1. \A r, c \in Edge \ {0} : ~(r < 1 \/ (r = 1 /\ c < 1))
    BY SizesAssumption DEF Edge
  <2> QED
    BY <1>2, <2>1 DEF BestCells
<1>4. BestScores'
  <2> SUFFICES ASSUME NEW f \in DOMAIN files, f <= first + Lanes
               PROVE  IsBest(scores'[f], needle, files[f], Len(needle), Len(files[f]))
    BY <1>2 DEF BestScores
  <2>1. f \in Nat /\ Len(files[f]) \in Edge /\ Len(needle) \in Edge
    BY <1>1, Shape
  <2>2. CASE f - first - 1 \in LaneNo
    <3>1. PICK l \in LaneNo : l = f - first - 1
      BY <2>2
    <3>2. File(l) = f
      BY <1>1, <2>1, <3>1 DEF File
    <3>3. scores'[f] = d[Len(needle)][Len(files[f])][l]
      BY <1>2, <2>2, <3>1
    <3>4. Len(needle) < i /\ Len(needle) <= Len(needle) /\ Len(files[f]) <= Len(files[f])
      BY <1>1, <2>1, SizesAssumption DEF Edge
    <3> QED
      BY <1>1, <2>1, <3>2, <3>3, <3>4, BestKnown
  <2>3. CASE f - first - 1 \notin LaneNo
    <3>1. f <= first
      BY <1>1, <2>1, <2>3 DEF LaneNo
    <3>2. scores'[f] = scores[f]
      BY <1>2, <2>3
    <3> QED
      BY <1>1, <3>1, <3>2 DEF BestInv, BestScores
  <2> QED
    BY <2>2, <2>3
<1> QED
  BY <1>3, <1>4

\* The steps that neither fill nor collect.
LEMMA OtherBestSteps ==
  ASSUME BestInv,
         (\E l \in Listings : Reindex(l)) \/ (\E n \in Needles : Search(n))
           \/ Rank \/ Return \/ UNCHANGED vars
  PROVE  BestCells' /\ BestScores'
<1>1. ASSUME NEW l \in Listings, Reindex(l)
      PROVE  BestCells' /\ BestScores'
  BY <1>1 DEF Reindex, BestCells, BestScores
<1>2. ASSUME NEW n \in Needles, Search(n)
      PROVE  BestCells' /\ BestScores'
  <2>1. i' = 1 /\ j' = 1 /\ first' = 0 /\ files' = files
    BY <1>2 DEF Search
  <2>2. \A r, c \in Edge \ {0} : ~(r < 1 \/ (r = 1 /\ c < 1))
    BY SizesAssumption DEF Edge
  <2>3. \A f \in DOMAIN files : ~(f <= 0)
    <3>1. files \in Seq(Seq(Int \ {0}))
      BY Shape DEF BestInv, IInv
    <3>2. \A f \in DOMAIN files : f \in Nat \ {0}
      BY <3>1
    <3> QED
      BY <3>2
  <2> QED
    BY <2>1, <2>2, <2>3 DEF BestCells, BestScores
<1>3. ASSUME Rank
      PROVE  BestCells' /\ BestScores'
  BY <1>3 DEF Rank, BestInv, BestCells, BestScores
<1>4. ASSUME Return
      PROVE  BestCells' /\ BestScores'
  BY <1>4 DEF Return, BestCells, BestScores
<1>5. ASSUME UNCHANGED vars
      PROVE  BestCells' /\ BestScores'
  <2>1. UNCHANGED <<pc, files, needle, d, first, i, j, scores>>
    BY <1>5 DEF vars
  <2>2. \A l : File(l)' = File(l)
    BY <2>1 DEF File
  <2> QED
    BY <2>1, <2>2 DEF BestInv, BestCells, BestScores
<1> QED
  BY <1>1, <1>2, <1>3, <1>4, <1>5

\* What a cell of the matrix holds, once this batch has filled it, is the best alignment of
\* what is above it and what is left of it, whatever earlier batches, searches and
\* listings have left there.
THEOREM BestInvariance == Spec => []BestInv
<1>1. Init => BestInv
  <2>1. Init => BestCells /\ BestScores
    BY DEF Init, BestCells, BestScores
  <2> QED
    BY <2>1, InitIInv DEF BestInv
<1>2. BestInv /\ [Next]_vars => BestInv'
  <2>1. BestInv /\ [Next]_vars => IInv'
    BY NextIInv DEF BestInv
  <2>2. BestInv /\ [Next]_vars => BestCells' /\ BestScores'
    BY FillCellBestStep, NextRowBestStep, CollectBestStep, OtherBestSteps DEF Next
  <2> QED
    BY <2>1, <2>2 DEF BestInv
<1> QED
  BY <1>1, <1>2, PTL DEF Spec

\* Every file gets the worth of the best alignment with what was typed, for every number of
\* lanes, every listing and every history of searches in the same matrix.
THEOREM ScoresAreBest == Spec => []ScoreIsBest
<1>1. BestInv => ScoreIsBest
  <2> SUFFICES ASSUME BestInv, pc = "rank", NEW f \in DOMAIN files
               PROVE  scores[f] = Best(needle, files[f])
    BY DEF ScoreIsBest
  <2>1. TypeOK /\ first \in Nat /\ first >= Len(files)
    BY DEF BestInv, IInv, TypeOK, ScoreInv
  <2>2. f \in 1 .. Len(files) /\ Len(files) \in Nat
    BY <2>1, Shape
  <2>3. IsBest(scores[f], needle, files[f], Len(needle), Len(files[f]))
    BY <2>1, <2>2 DEF BestInv, BestScores
  <2> QED
    BY <2>1, <2>3, Texts, BestIs
<1> QED
  BY BestInvariance, <1>1, PTL

-----------------------------------------------------------------------------
(***************************************************************************)
(* Percentages.                                                            *)
(***************************************************************************)
LEMMA Quotient ==
  ASSUME NEW x \in Nat, NEW y \in Nat \ {0}
  PROVE  /\ \A e \in Truncated(x, y) : e \in Nat
         /\ x <= 100 * y => \A e \in Truncated(x, y) : e <= 100
<1>1. x \div y \in Nat /\ y * (x \div y) <= x
  OBVIOUS
<1>2. x > 0 /\ x % y = 0 => x \div y >= 1
  OBVIOUS
<1>3. ASSUME x <= 100 * y
      PROVE  x \div y <= 100
  <2>1. PICK q : q = x \div y
    OBVIOUS
  <2>2. q \in Nat /\ y * q <= x
    BY <1>1, <2>1
  <2>3. q <= 100
    <3> SUFFICES ASSUME q >= 101 PROVE FALSE
      BY <2>2
    <3>1. y * q >= y * 101
      BY <2>2
    <3> QED
      BY <1>3, <2>2, <3>1
  <2> QED
    BY <2>1, <2>3
<1>4. \A e \in Truncated(x, y) :
        e = x \div y \/ (x > 0 /\ x % y = 0 /\ e = x \div y - 1)
  BY DEF Truncated
<1> QED
  BY <1>1, <1>2, <1>3, <1>4

LEMMA QuotientBelow ==
  ASSUME NEW x \in Nat, NEW y \in Nat \ {0}, x < 100 * y, NEW e \in Truncated(x, y)
  PROVE  e < 100
<1>1. PICK q : q = x \div y
  OBVIOUS
<1>2. q \in Nat /\ y * q <= x
  BY <1>1
<1>3. q < 100
  <2> SUFFICES ASSUME q >= 100 PROVE FALSE
    BY <1>2
  <2>1. y * q >= y * 100
    BY <1>2
  <2> QED
    BY <1>2, <2>1
<1>4. e = q \/ e = q - 1
  BY <1>1 DEF Truncated
<1> QED
  BY <1>2, <1>3, <1>4

LEMMA QuotientAbove ==
  ASSUME NEW x \in Nat, NEW y \in Nat \ {0}, y < x, NEW e \in Truncated(x, y)
  PROVE  e \in Nat \ {0}
<1>1. PICK q, o : q = x \div y /\ o = x % y
  OBVIOUS
<1>2. q \in Nat /\ o \in 0 .. y - 1 /\ x = y * q + o
  BY <1>1
<1>3. q # 0 /\ (o = 0 => q # 1)
  BY <1>2
<1>4. e = q \/ (o = 0 /\ e = q - 1)
  BY <1>1 DEF Truncated
<1> QED
  BY <1>2, <1>3, <1>4

\* What swimd_score_minmax computes, from the lengths alone.
LEMMA MinMax ==
  ASSUME NEW n, NEW m, IsText(n), IsText(m)
  PROVE  /\ MinScore(n, m) \in Int /\ MaxScore(n, m) \in Int
         /\ MaxScore(n, m) - MinScore(n, m) = 18 * Shorter(n, m)
         /\ Shorter(n, m) \in Nat /\ Longer(n, m) \in Nat /\ Shorter(n, m) <= Longer(n, m)
         /\ Shorter(n, m) = 0 <=> Len(n) = 0 \/ Len(m) = 0
         /\ Len(n) = Len(m) => MaxScore(n, m) = 9 * Len(n) /\ Longer(n, m) = Shorter(n, m)
<1>1. Len(n) \in Nat /\ Len(m) \in Nat /\ Len(n) \in Edge /\ Len(m) \in Edge
  BY SizesAssumption DEF IsText, Edge
<1>2. PICK s, g : s = Shorter(n, m) /\ g = Longer(n, m)
  OBVIOUS
<1>3. /\ s \in Nat /\ g \in Nat /\ s <= g /\ s \in Edge /\ g \in Edge
      /\ (s = 0 <=> Len(n) = 0 \/ Len(m) = 0)
      /\ (Len(n) = Len(m) => s = Len(n) /\ g = s)
  BY <1>1, <1>2 DEF Shorter, Longer, Lesser, Larger
<1>4. Sum[s] \in Int /\ Sum[g] \in Int
  BY <1>3, Tables
<1>5. MinScore(n, m) = -9 * s + (Sum[g] - Sum[s]) /\ MaxScore(n, m) = 9 * s + (Sum[g] - Sum[s])
  BY <1>2, <1>3, <1>4 DEF MinScore, MaxScore, GapSum, SUB_PENALTY, MATCH_STRICT_REWARD
<1>6. Len(n) = Len(m) => MaxScore(n, m) = 9 * Len(n)
  BY <1>1, <1>3, <1>4, <1>5
<1>7. MinScore(n, m) \in Int /\ MaxScore(n, m) \in Int /\ MaxScore(n, m) - MinScore(n, m) = 18 * s
  <2>1. PICK gap \in Int : gap = Sum[g] - Sum[s]
    BY <1>4
  <2>2. MinScore(n, m) = -9 * s + gap /\ MaxScore(n, m) = 9 * s + gap
    BY <1>5, <2>1
  <2> QED
    BY <1>3, <2>2
<1> QED
  BY <1>2, <1>3, <1>6, <1>7

\* A string aligned with itself earns the strict reward for each of its characters.
LEMMA Identity ==
  ASSUME NEW n \in Seq(Int \ {0}), IsText(n), NEW v \in Int, IsBest(v, n, n, Len(n), Len(n))
  PROVE  9 * Len(n) <= v
<1>1. PICK A, p, q : /\ A = {<<k, k>> : k \in 1 .. Len(n)}
                     /\ p = NeedleWorth(A, n, n) /\ q = NameWorth(A, n, n)
  OBVIOUS
<1>2. p \in [1 .. Len(n) -> Int] /\ q \in [1 .. Len(n) -> Int] /\ Len(n) \in Nat
  BY <1>1, WorthsAre
<1>3. \A a, b : <<a, b>> \in A <=> a \in 1 .. Len(n) /\ a = b
  BY <1>1
<1>4. A \in Alignments(Len(n), Len(n))
  <2>1. \A o \in A : \E a \in 1 .. Len(n), b \in 1 .. Len(n) : o = <<a, b>>
    BY <1>1
  <2>2. \A a, b, x, y : <<a, b>> \in A /\ <<x, y>> \in A
          => (a = x /\ b = y) \/ (a < x /\ b < y) \/ (x < a /\ y < b)
    BY <1>2, <1>3
  <2> QED
    BY <1>2, <2>1, <2>2, AlignmentIs
<1>5. ASSUME NEW k \in 1 .. Len(n)
      PROVE  p[k] = 9 /\ q[k] = 0
  <2>1. (CHOOSE c \in 1 .. Len(n) : <<k, c>> \in A) = k
    BY <1>3
  <2>2. Match(n[k], n[k]) = 9
    <3>1. PICK x \in Int \ {0} : x = n[k]
      BY <1>2
    <3>2. AzInverseCase(x) # x
      BY DEF AzInverseCase
    <3>3. Match(x, x) = 9
      BY <3>2 DEF Match, MATCH_STRICT_REWARD
    <3> QED
      BY <3>1, <3>3
  <2> QED
    BY <1>1, <1>3, <2>1, <2>2 DEF NeedleWorth, NameWorth
<1>6. PICK K \in Nat : K = Len(n)
  BY <1>2
<1>7. Total(p, K) = 9 * K
  <2>1. PICK g : g = [k \in 0 .. K |-> 9 * k]
    OBVIOUS
  <2>2. g[0] = 0 /\ g[K] = 9 * K /\ \A k \in 0 .. K : g[k] \in Int
    BY <1>6, <2>1
  <2>3. \A k \in 1 .. K : g[k] = g[k - 1] + p[k]
    <3> TAKE k \in 1 .. K
    <3>1. p[k] = 9
      BY <1>5, <1>6
    <3>2. g[k] = 9 * k /\ g[k - 1] = 9 * (k - 1)
      BY <2>1
    <3> QED
      BY <3>1, <3>2
  <2>4. Total(p, K) = g[K]
    <3>1. K \in Nat /\ K \in 0 .. K
      BY <1>6
    <3>2. p \in [1 .. K -> Int]
      BY <1>2, <1>6
    <3>3. AddsUp(g, p, K)
      BY <2>2, <2>3 DEF AddsUp
    <3> QED
      BY <3>1, <3>2, <3>3, TotalIs
  <2> QED
    BY <2>2, <2>4
<1>8. Total(q, K) = 0
  <2>1. PICK g : g = [k \in 0 .. K |-> 0]
    OBVIOUS
  <2>2. g[0] = 0 /\ \A k \in 0 .. K : g[k] \in Int
    BY <1>6, <2>1
  <2>3. \A k \in 1 .. K : g[k] = g[k - 1] + q[k]
    <3> TAKE k \in 1 .. K
    <3>1. q[k] = 0
      BY <1>5, <1>6
    <3>2. g[k] = 0 /\ g[k - 1] = 0
      BY <2>1
    <3> QED
      BY <3>1, <3>2
  <2>4. Total(q, K) = g[K]
    <3>1. K \in Nat /\ K \in 0 .. K
      BY <1>6
    <3>2. q \in [1 .. K -> Int]
      BY <1>2, <1>6
    <3>3. AddsUp(g, q, K)
      BY <2>2, <2>3 DEF AddsUp
    <3> QED
      BY <3>1, <3>2, <3>3, TotalIs
  <2>5. g[K] = 0
    BY <1>6, <2>1
  <2> QED
    BY <2>4, <2>5
<1>9. Value(A, n, n, Len(n), Len(n)) = 9 * Len(n)
  BY <1>1, <1>6, <1>7, <1>8 DEF Value
<1> QED
  BY <1>4, <1>9 DEF IsBest

\* An alignment of two prefixes earns the strict reward for each pair at most, and that much
\* only if the prefixes are equal.
Earns(A, n, m, r, c) ==
  /\ Value(A, n, m, r, c) <= 9 * Lesser(r, c)
  /\ r = c /\ Value(A, n, m, r, c) = 9 * r => \A k \in 1 .. r : n[k] = m[k]

LEMMA MatchEarns ==
  ASSUME NEW x \in Int \ {0}, NEW y \in Int
  PROVE  Match(x, y) \in Int /\ Match(x, y) <= 9 /\ (Match(x, y) = 9 => x = y)
<1>1. AzInverseCase(x) # x /\ AzInverseCase(x) \in Int
  BY DEF AzInverseCase
<1> QED
  BY <1>1 DEF Match, SUB_PENALTY, MATCH_STRICT_REWARD, MATCH_CASE_INSENSITIVE_REWARD

LEMMA Lessers ==
  ASSUME NEW x \in Nat \ {0}, NEW y \in Nat \ {0}
  PROVE  /\ Lesser(x, y) \in Nat /\ Lesser(x - 1, y - 1) = Lesser(x, y) - 1
         /\ Lesser(x - 1, y) \in Nat /\ Lesser(x - 1, y) <= Lesser(x, y)
         /\ Lesser(x, y - 1) \in Nat /\ Lesser(x, y - 1) <= Lesser(x, y)
         /\ x = y => Lesser(x, y) = x /\ Lesser(x - 1, y) = x - 1 /\ Lesser(x, y - 1) = x - 1
  BY DEF Lesser

LEMMA PrefixesEarn ==
  ASSUME NEW n \in Seq(Int \ {0}), IsText(n), NEW m, IsText(m),
         NEW r \in 0 .. Len(n), NEW c \in 0 .. Len(m), NEW A \in Alignments(r, c)
  PROVE  Earns(A, n, m, r, c)
<1>1. Len(n) \in Nat /\ Len(m) \in Nat /\ Len(n) < Width /\ Len(m) < Width
  BY DEF IsText
<1> DEFINE T == {s \in Nat : \A x \in 0 .. Len(n), y \in 0 .. Len(m) :
                   x + y <= s => \A B \in Alignments(x, y) : Earns(B, n, m, x, y)}
\* On the border nothing is earned.
<1>2. ASSUME NEW x \in 0 .. Len(n), NEW y \in 0 .. Len(m), x = 0 \/ y = 0,
             NEW B \in Alignments(x, y)
      PROVE  Earns(B, n, m, x, y)
  <2>1. PICK k \in Edge : IsBest(Sum[k], n, m, x, y)
    <3>1. x \in Edge /\ y \in Edge
      BY <1>1, SizesAssumption DEF Edge
    <3>2. IsBest(Sum[x], n, m, x, 0) /\ IsBest(Sum[y], n, m, 0, y)
      BY BestBorder
    <3> QED
      BY <1>2, <3>1, <3>2
  <2>2. Sum[k] \in Int /\ Sum[k] <= 0
    BY Tables
  <2>3. PICK v : v = Value(B, n, m, x, y)
    OBVIOUS
  <2>4. v \in Int /\ v <= Sum[k]
    BY <2>1, <2>3, ValueIsInt DEF IsBest
  <2>5. x \in Nat /\ y \in Nat /\ Lesser(x, y) = 0
    BY <1>1, <1>2 DEF Lesser
  <2>6. v <= 9 * Lesser(x, y)
    BY <2>2, <2>4, <2>5
  <2>7. x = y => 1 .. x = {}
    BY <1>2, <2>5
  <2> QED
    BY <2>3, <2>6, <2>7 DEF Earns
<1>3. 0 \in T
  <2> SUFFICES ASSUME NEW x \in 0 .. Len(n), NEW y \in 0 .. Len(m), x + y <= 0,
                      NEW B \in Alignments(x, y)
               PROVE  Earns(B, n, m, x, y)
    OBVIOUS
  <2>1. x = 0
    BY <1>1
  <2> QED
    BY <1>2, <2>1
<1>4. ASSUME NEW s \in Nat, s \in T
      PROVE  s + 1 \in T
  <2> SUFFICES ASSUME NEW x \in 0 .. Len(n), NEW y \in 0 .. Len(m), x + y <= s + 1,
                      x # 0, y # 0, NEW B \in Alignments(x, y)
               PROVE  Earns(B, n, m, x, y)
    BY <1>2
  <2>1. /\ x \in Nat \ {0} /\ y \in Nat \ {0} /\ x \in 1 .. Len(n) /\ y \in 1 .. Len(m)
        /\ x - 1 \in 0 .. Len(n) /\ y - 1 \in 0 .. Len(m)
        /\ x - 1 + y <= s /\ x + (y - 1) <= s /\ x - 1 + (y - 1) <= s
    BY <1>1
  <2>2. /\ Gap[x - 1] \in Int /\ Gap[x - 1] <= 0 /\ Gap[y - 1] \in Int /\ Gap[y - 1] <= 0
    <3>1. x - 1 \in Edge /\ y - 1 \in Edge
      BY <1>1, <2>1, SizesAssumption DEF Edge
    <3> QED
      BY <3>1, Tables
  <2>3. PICK v : v = Value(B, n, m, x, y)
    OBVIOUS
  <2>4. CASE B \in Alignments(x - 1, y)
    <3>1. PICK w, h : w = Value(B, n, m, x - 1, y) /\ h = Gap[x - 1]
      OBVIOUS
    <3>2. w \in Int /\ v = w + h /\ h \in Int /\ h <= 0
      BY <2>1, <2>2, <2>3, <2>4, <3>1, NeedleLeft, ValueIsInt
    <3>3. w <= 9 * Lesser(x - 1, y)
      BY <1>4, <2>1, <2>4, <3>1 DEF Earns
    <3>4. PICK a, b : a = Lesser(x, y) /\ b = Lesser(x - 1, y)
      OBVIOUS
    <3>5. a \in Nat /\ b \in Nat /\ b <= a /\ (x = y => a = x /\ b = x - 1)
      BY <2>1, <3>4, Lessers
    <3>6. v <= 9 * b
      BY <3>2, <3>3, <3>4, <3>5
    <3>7. v \in Int /\ v <= 9 * a /\ (x = y => v # 9 * x)
      BY <2>1, <3>2, <3>5, <3>6
    <3> QED
      BY <2>3, <3>4, <3>7 DEF Earns
  <2>5. CASE B \in Alignments(x, y - 1)
    <3>1. PICK w, h : w = Value(B, n, m, x, y - 1) /\ h = Gap[y - 1]
      OBVIOUS
    <3>2. w \in Int /\ v = w + h /\ h \in Int /\ h <= 0
      BY <2>1, <2>2, <2>3, <2>5, <3>1, NameLeft, ValueIsInt
    <3>3. w <= 9 * Lesser(x, y - 1)
      BY <1>4, <2>1, <2>5, <3>1 DEF Earns
    <3>4. PICK a, b : a = Lesser(x, y) /\ b = Lesser(x, y - 1)
      OBVIOUS
    <3>5. a \in Nat /\ b \in Nat /\ b <= a /\ (x = y => a = x /\ b = x - 1)
      BY <2>1, <3>4, Lessers
    <3>6. v <= 9 * b
      BY <3>2, <3>3, <3>4, <3>5
    <3>7. v \in Int /\ v <= 9 * a /\ (x = y => v # 9 * x)
      BY <2>1, <3>2, <3>5, <3>6
    <3> QED
      BY <2>3, <3>4, <3>7 DEF Earns
  <2>6. ASSUME NEW C \in Alignments(x - 1, y - 1), B = C \cup {<<x, y>>}
        PROVE  Earns(B, n, m, x, y)
    <3>1. PICK w, o : w = Value(C, n, m, x - 1, y - 1) /\ o = Match(n[x], m[y])
      OBVIOUS
    <3>2. w \in Int /\ v = w + o
      <4>1. w \in Int
        BY <2>1, <2>6, <3>1, ValueIsInt
      <4>2. v = w + o
        BY <2>1, <2>3, <2>6, <3>1, LastPaired
      <4> QED
        BY <4>1, <4>2
    <3>3. /\ w <= 9 * Lesser(x - 1, y - 1)
          /\ x - 1 = y - 1 /\ w = 9 * (x - 1) => \A k \in 1 .. x - 1 : n[k] = m[k]
      BY <1>4, <2>1, <2>6, <3>1 DEF Earns
    <3>4. o \in Int /\ o <= 9 /\ (o = 9 => n[x] = m[y])
      <4>1. n[x] \in Int \ {0} /\ m[y] \in Int
        BY <2>1 DEF IsText
      <4> QED
        BY <3>1, <4>1, MatchEarns
    <3>5. v <= 9 * Lesser(x, y)
      <4>1. PICK a, b : a = Lesser(x, y) /\ b = Lesser(x - 1, y - 1)
        OBVIOUS
      <4>2. a \in Nat /\ b = a - 1
        BY <2>1, <4>1, Lessers
      <4> QED
        BY <3>2, <3>3, <3>4, <4>1, <4>2
    <3>6. ASSUME x = y, v = 9 * x
          PROVE  \A k \in 1 .. x : n[k] = m[k]
      <4>1. w <= 9 * (x - 1)
        BY <2>1, <3>3, <3>6, Lessers
      <4>2. w = 9 * (x - 1) /\ o = 9
        BY <2>1, <3>2, <3>4, <3>6, <4>1
      <4>3. \A k \in 1 .. x : k \in 1 .. x - 1 \/ k = x
        BY <2>1
      <4> QED
        BY <3>3, <3>4, <3>6, <4>2, <4>3
    <3> QED
      BY <2>3, <3>5, <3>6 DEF Earns
  <2> QED
    BY <2>1, <2>4, <2>5, <2>6, LastPair
<1> HIDE DEF T
<1>5. Nat \subseteq T
  BY <1>3, <1>4, Counting
<1>6. r + c \in T /\ r + c <= r + c
  BY <1>1, <1>5
<1> QED
  BY <1>6 DEF T

\* No other string of its length earns as much as a string with itself.
LEMMA OnlyItself ==
  ASSUME NEW n \in Seq(Int \ {0}), IsText(n), NEW m \in Seq(Int \ {0}), IsText(m),
         Len(m) = Len(n), IsBest(9 * Len(n), n, m, Len(n), Len(m))
  PROVE  m = n
<1>1. PICK A \in Alignments(Len(n), Len(m)) : 9 * Len(n) = Value(A, n, m, Len(n), Len(m))
  BY DEF IsBest
<1>2. Len(n) \in Nat /\ Len(n) \in 0 .. Len(n) /\ Len(m) \in 0 .. Len(m)
  OBVIOUS
<1>3. Earns(A, n, m, Len(n), Len(m))
  BY <1>2, PrefixesEarn
<1>4. \A k \in 1 .. Len(n) : n[k] = m[k]
  BY <1>1, <1>3 DEF Earns
<1> QED
  BY <1>4

\* The percentages of a score within bounds.
LEMMA PercentIs ==
  ASSUME NEW n, NEW m, IsText(n), IsText(m),
         NEW score \in MinScore(n, m) .. MaxScore(n, m)
  PROVE  /\ \A p \in Percent(n, m, score) : p \in Int /\ p <= 100
         /\ Shorter(n, m) = 0 => Percent(n, m, score) = {0}
         /\ Shorter(n, m) # 0 /\ Longer(n, m) = Shorter(n, m) /\ score = MaxScore(n, m)
              => Percent(n, m, score) = {100}
         /\ score # MaxScore(n, m) \/ Longer(n, m) \in Shorter(n, m) + 1 .. 29
              => \A p \in Percent(n, m, score) : p < 100
<1>1. PICK s, g, low, high, range, diff, raw :
        /\ s = Shorter(n, m) /\ g = Longer(n, m)
        /\ low = MinScore(n, m) /\ high = MaxScore(n, m)
        /\ range = high - low /\ diff = g - s
        /\ raw = IF range = 0 THEN {0} ELSE IF score = high THEN {100}
                 ELSE Truncated(100 * (score - low), range)
  OBVIOUS
<1>2. /\ s \in Nat /\ g \in Nat /\ s <= g /\ low \in Int /\ high \in Int
      /\ range = 18 * s /\ diff \in Nat /\ score \in Int /\ low <= score /\ score <= high
  BY <1>1, MinMax
<1> DEFINE Cost(p) == IF p = 0 THEN {0} ELSE Truncated(3 * diff * p, 10 * g)
<1>3. \A o : o \in Percent(n, m, score) <=> \E p \in raw : \E e \in Cost(p) : o = p - e
  <2>1. Percent(n, m, score) = UNION {{p - e : e \in Cost(p)} : p \in raw}
    BY <1>1 DEF Percent
  <2> HIDE DEF Cost
  <2> QED
    BY <2>1
<1>4. \A p \in raw : p \in Nat /\ p <= 100
  <2>1. CASE range = 0 \/ score = high
    BY <1>1, <2>1
  <2>2. CASE range # 0 /\ score # high
    <3>1. PICK x : x = 100 * (score - low)
      OBVIOUS
    <3>2. x \in Nat /\ range \in Nat \ {0} /\ x <= 100 * range
      BY <1>1, <1>2, <2>2, <3>1
    <3>3. raw = Truncated(x, range)
      BY <1>1, <2>2, <3>1
    <3> QED
      BY <3>2, <3>3, Quotient
  <2> QED
    BY <2>1, <2>2
<1>5. ASSUME NEW p \in raw, p # 0, NEW e \in Truncated(3 * diff * p, 10 * g)
      PROVE  e \in Nat
  <2>1. PICK x, y : x = 3 * diff * p /\ y = 10 * g
    OBVIOUS
  <2>2. s # 0
    BY <1>1, <1>2, <1>5
  <2>3. x \in Nat
    BY <1>2, <1>4, <2>1
  <2>4. y \in Nat \ {0}
    BY <1>2, <2>1, <2>2
  <2> QED
    BY <1>5, <2>1, <2>3, <2>4, Quotient
<1>6. ASSUME NEW o \in Percent(n, m, score)
      PROVE  o \in Int /\ o <= 100
  <2>1. PICK p \in raw : \E e \in Cost(p) : o = p - e
    BY <1>3, <1>6
  <2>2. PICK e \in Cost(p) : o = p - e
    BY <2>1
  <2>3. p \in Nat /\ p <= 100
    BY <1>4
  <2>4. e \in Nat
    BY <1>5, <2>2
  <2> QED
    BY <2>2, <2>3, <2>4
<1>7. ASSUME NEW p \in Nat, raw = {p}, Cost(p) = {0}
      PROVE  Percent(n, m, score) = {p}
  <2> HIDE DEF Cost
  <2>1. \A o : o \in Percent(n, m, score) <=> o = p - 0
    BY <1>3, <1>7
  <2> QED
    BY <2>1
<1>8. ASSUME s = 0
      PROVE  Percent(n, m, score) = {0}
  <2>1. raw = {0} /\ Cost(0) = {0}
    BY <1>1, <1>2, <1>8
  <2> QED
    BY <1>7, <2>1
<1>9. ASSUME s # 0, g = s, score = high
      PROVE  Percent(n, m, score) = {100}
  <2>1. raw = {100} /\ diff = 0
    BY <1>1, <1>2, <1>9
  <2>2. PICK x, y : x = 3 * diff * 100 /\ y = 10 * g
    OBVIOUS
  <2>3. x = 0 /\ y \in Nat \ {0}
    BY <1>2, <1>9, <2>1, <2>2
  <2>4. Truncated(x, y) = {0}
    BY <2>3 DEF Truncated
  <2>5. Cost(100) = {0}
    BY <2>2, <2>4
  <2> QED
    BY <1>7, <2>1, <2>5
<1>10. ASSUME NEW p \in raw, p < 100, NEW e \in Cost(p)
       PROVE  p - e < 100
  <2>1. p \in Nat /\ e \in Nat
    BY <1>4, <1>5, <1>10
  <2> QED
    BY <1>10, <2>1
<1>11. ASSUME score # high, NEW p \in raw
       PROVE  p < 100
  <2>1. CASE range = 0
    BY <1>1, <1>11, <2>1
  <2>2. CASE range # 0
    <3>1. PICK x : x = 100 * (score - low)
      OBVIOUS
    <3>2. x \in Nat /\ range \in Nat \ {0} /\ x < 100 * range
      BY <1>1, <1>2, <1>11, <2>2, <3>1
    <3>3. raw = Truncated(x, range)
      BY <1>1, <1>11, <2>2, <3>1
    <3> QED
      BY <3>2, <3>3, QuotientBelow
  <2> QED
    BY <2>1, <2>2
\* Below 30 characters one more or less is charged with a percent at least.
<1>12. ASSUME g \in s + 1 .. 29, 100 \in raw, NEW e \in Cost(100)
       PROVE  100 - e < 100
  <2>1. PICK x, y : x = 3 * diff * 100 /\ y = 10 * g
    OBVIOUS
  <2>2. diff \in Nat \ {0} /\ g \in 1 .. 29
    <3>1. diff = g - s /\ s \in Nat /\ g \in s + 1 .. 29
      BY <1>1, <1>2, <1>12
    <3> QED
      BY <3>1
  <2>3. x \in Nat /\ y \in Nat \ {0} /\ y < x
    BY <2>1, <2>2
  <2>4. e \in Truncated(x, y)
    BY <1>12, <2>1
  <2>5. e \in Nat \ {0}
    BY <2>3, <2>4, QuotientAbove
  <2> QED
    BY <2>5
<1>13. ASSUME score # high \/ g \in s + 1 .. 29, NEW o \in Percent(n, m, score)
       PROVE  o < 100
  <2>1. PICK p \in raw : \E e \in Cost(p) : o = p - e
    BY <1>3, <1>13
  <2>2. PICK e \in Cost(p) : o = p - e
    BY <2>1
  <2>3. p < 100 \/ p = 100
    BY <1>4
  <2>4. CASE p < 100
    BY <1>10, <2>2, <2>4
  <2>5. CASE p = 100
    <3>1. g \in s + 1 .. 29
      BY <1>11, <1>13, <2>5
    <3> QED
      BY <1>12, <2>2, <2>5, <3>1
  <2> QED
    BY <2>3, <2>4, <2>5
<1> QED
  <2> HIDE DEF Cost
  <2> QED
    BY <1>1, <1>6, <1>8, <1>9, <1>13

\* The file whose name was typed is offered with 100 and, as long as the names have less than
\* 30 characters, every other with less, for all tables and strings that fit the matrix.
THEOREM ExactFirst == Spec => []ExactOnTop
<1>1. BestInv /\ WithinBounds => ExactOnTop
  <2> SUFFICES ASSUME BestInv, WithinBounds, pc = "rank", NEW f \in DOMAIN files
               PROVE  /\ files[f] = needle /\ needle # <<>> => Offers(f) = {100}
                      /\ files[f] # needle /\ Longer(needle, files[f]) < 30
                           => \A p \in Offers(f) : p < 100
    BY DEF ExactOnTop
  <2>1. TypeOK /\ first \in Nat /\ first >= Len(files)
    BY DEF BestInv, IInv, TypeOK, ScoreInv
  <2>2. IsText(needle) /\ IsText(files[f])
    BY <2>1, Texts
  <2>3. scores[f] \in MinScore(needle, files[f]) .. MaxScore(needle, files[f])
    BY DEF WithinBounds
  <2>4. /\ needle \in Seq(Int \ {0}) /\ Len(needle) \in Nat
        /\ files[f] \in Seq(Int \ {0}) /\ Len(files[f]) \in Nat
    BY <2>1, Shape
  <2>5. IsBest(scores[f], needle, files[f], Len(needle), Len(files[f]))
    <3>1. f <= first
      BY <2>1, Shape
    <3> QED
      BY <3>1 DEF BestInv, BestScores
  <2>6. ASSUME files[f] = needle, needle # <<>>
        PROVE  Offers(f) = {100}
    <3>1. Len(needle) # 0
      BY <2>4, <2>6
    <3>2. MaxScore(needle, needle) = 9 * Len(needle) /\ MinScore(needle, needle) \in Int
          /\ Shorter(needle, needle) # 0 /\ Longer(needle, needle) = Shorter(needle, needle)
      BY <2>2, <3>1, MinMax
    <3>3. scores[f] \in Int /\ scores[f] <= 9 * Len(needle)
      BY <2>3, <2>4, <2>6, <3>2
    <3>4. 9 * Len(needle) <= scores[f]
      BY <2>2, <2>4, <2>5, <2>6, <3>3, Identity
    <3>5. scores[f] = MaxScore(needle, needle)
      <4>1. PICK k, v : k = Len(needle) /\ v = scores[f]
        OBVIOUS
      <4>2. k \in Nat /\ v \in Int /\ v <= 9 * k /\ 9 * k <= v
        BY <2>4, <3>3, <3>4, <4>1
      <4>3. v = 9 * k
        BY <4>2
      <4> QED
        BY <3>2, <4>1, <4>3
    <3>6. Percent(needle, needle, scores[f]) = {100}
      BY <2>2, <2>3, <2>6, <3>2, <3>5, PercentIs
    <3> QED
      BY <2>6, <3>6 DEF Offers, Threshold
  <2>7. ASSUME files[f] # needle, Longer(needle, files[f]) < 30
        PROVE  \A p \in Offers(f) : p < 100
    <3>1. CASE Len(files[f]) = Len(needle)
      <4>1. scores[f] # MaxScore(needle, files[f])
        <5> SUFFICES ASSUME scores[f] = MaxScore(needle, files[f]) PROVE FALSE
          OBVIOUS
        <5>1. scores[f] = 9 * Len(needle)
          BY <2>2, <3>1, MinMax
        <5> QED
          BY <2>2, <2>4, <2>5, <2>7, <3>1, <5>1, OnlyItself
      <4> QED
        BY <2>2, <2>3, <4>1, PercentIs DEF Offers
    <3>2. CASE Len(files[f]) # Len(needle)
      <4>1. Longer(needle, files[f]) \in Shorter(needle, files[f]) + 1 .. 29
        BY <2>4, <2>7, <3>2 DEF Longer, Shorter, Larger, Lesser
      <4> QED
        BY <2>2, <2>3, <4>1, PercentIs DEF Offers
    <3> QED
      BY <3>1, <3>2
  <2> QED
    BY <2>6, <2>7
<1> QED
  BY BestInvariance, ScoresWithinBounds, <1>1, PTL
=============================================================================
