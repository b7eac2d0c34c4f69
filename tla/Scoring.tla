------------------------------ MODULE Scoring ------------------------------
(***************************************************************************)
(* swimd_simd_scores of main.c: how well what was typed (the needle)       *)
(* matches each file name, by the best alignment of the two.  As many      *)
(* files as there are lanes are scored together, in one matrix that is     *)
(* filled in place, row by row, and used again for the next batch and the  *)
(* next search: only its border is ever initialised.  A turn of the inner  *)
(* loop is a step.                                                         *)
(*                                                                         *)
(* Characters are their codes; 0 pads the shorter names of a batch.        *)
(***************************************************************************)
EXTENDS Integers, Sequences, FiniteSetsExt

CONSTANTS
  Lanes,     \* LANES_COUNT_SHORT
  Width,     \* MAX_PATH_LENGTH, the rows and columns of the matrix
  Gap, Sum,  \* gap_distr_fun, gap_distr_sum
  Listings,  \* the sequences of file names that an index may hold
  Needles    \* what may be typed

Edge   == 0 .. Width - 1
LaneNo == 0 .. Lanes - 1
SHRT_MIN == -32768
SHRT_MAX == 32767
Short  == SHRT_MIN .. SHRT_MAX

Unwritten == 32768   \* what malloc has left in the scores, unlike any of them

\* The tables: leaving a character out costs less the later it stands, and all sums of
\* costs fit a 16-bit integer with room to spare.
ASSUME SizesAssumption == Lanes \in Nat \ {0} /\ Width \in 1 .. 300
ASSUME GapAssumption ==
  /\ Gap \in [Edge -> -50 .. 0]
  /\ \A k, m \in Edge : k <= m => Gap[k] <= Gap[m]
ASSUME SumAssumption ==
  /\ Sum \in [Edge -> Int]
  /\ \A k \in Edge : -15000 <= Sum[k] /\ Sum[k] <= 0
  /\ Sum[0] = 0
  /\ \A k \in Edge \ {0} : Sum[k] = Sum[k - 1] + Gap[k - 1]

\* C strings that fit the matrix.  (The code checks no length; see the README.)
ASSUME StringsAssumption ==
  /\ \A n \in Needles : n \in Seq(Int \ {0}) /\ Len(n) < Width
  /\ \A l \in Listings : l \in Seq(Seq(Int \ {0})) /\ \A f \in DOMAIN l : Len(l[f]) < Width

VARIABLES
  pc,
  files, needle,
  d,       \* d_vec
  first,   \* how many files the batches before this one hold
  i, j,
  scores

vars == <<pc, files, needle, d, first, i, j, scores>>

-----------------------------------------------------------------------------
(***************************************************************************)
(* Arithmetic in 16 bits, and characters.                                  *)
(***************************************************************************)
SUB_PENALTY                   == -9
MATCH_STRICT_REWARD           == 9
MATCH_CASE_INSENSITIVE_REWARD == 5

Larger(x, y)  == IF x >= y THEN x ELSE y
Lesser(x, y)  == IF x <= y THEN x ELSE y

Add(x, y) == LET s == x + y IN IF s > SHRT_MAX THEN s - 65536
                               ELSE IF s < SHRT_MIN THEN s + 65536 ELSE s

\* A letter in its other case; 0 for everything else.
AzInverseCase(c) ==
  IF c \in 97 .. 122 THEN c - 32 ELSE IF c \in 65 .. 90 THEN c + 32 ELSE 0

\* (A definition whose name ends in X is the one after it with a plausible bug: the runs
\* use it to show that a property would catch that bug.  No action refers to it.)
MatchX(a, b) ==  \* the two rewards are not exclusive
  (IF a = b THEN MATCH_STRICT_REWARD ELSE 0)
    + (IF a = b \/ AzInverseCase(a) = b THEN MATCH_CASE_INSENSITIVE_REWARD ELSE SUB_PENALTY)

Match(a, b) ==
  (IF a = b THEN MATCH_STRICT_REWARD ELSE 0)
    + (IF AzInverseCase(a) = b THEN MATCH_CASE_INSENSITIVE_REWARD ELSE 0)
    + (IF a # b /\ AzInverseCase(a) # b THEN SUB_PENALTY ELSE 0)

-----------------------------------------------------------------------------
(***************************************************************************)
(* Filling the matrix.                                                     *)
(***************************************************************************)
Init ==
  /\ pc = "idle"
  /\ files \in Listings /\ needle = <<>>
  /\ d = [r \in Edge |-> [c \in Edge |-> [l \in LaneNo |->
            IF c = 0 THEN Sum[r] ELSE IF r = 0 THEN Sum[c] ELSE 0]]]
  /\ first = 0 /\ i = 1 /\ j = 1
  /\ scores = [f \in DOMAIN files |-> Unwritten]

\* A scan has ended: swimd_prep_files_vec and swimd_scores_init for a new list of files.
Reindex(l) ==
  /\ pc = "idle"
  /\ files' = l
  /\ scores' = [f \in DOMAIN l |-> Unwritten]
  /\ UNCHANGED <<pc, needle, d, first, i, j>>

Search(n) ==
  /\ pc = "idle"
  /\ needle' = n
  /\ pc' = "fill" /\ first' = 0 /\ i' = 1 /\ j' = 1
  /\ UNCHANGED <<files, d, scores>>

File(l)      == first + l + 1
Letter(l, c) == IF File(l) \in DOMAIN files /\ c <= Len(files[File(l)])
                THEN files[File(l)][c] ELSE 0

\* Column c is within the longest name of the batch.
Reaches(c) == \E l \in LaneNo : File(l) \in DOMAIN files /\ c <= Len(files[File(l)])

CellX(l) ==  \* a gap in the name is charged by the row
  LET o1 == Add(d[i - 1][j - 1][l], Match(needle[i], Letter(l, j)))
      o2 == Add(d[i - 1][j][l], Gap[i - 1])
      o3 == Add(d[i][j - 1][l], Gap[i - 1])
  IN Larger(Larger(o1, o2), o3)

Cell(l) ==
  LET o1 == Add(d[i - 1][j - 1][l], Match(needle[i], Letter(l, j)))
      o2 == Add(d[i - 1][j][l], Gap[i - 1])
      o3 == Add(d[i][j - 1][l], Gap[j - 1])
  IN Larger(Larger(o1, o2), o3)

Batching == pc = "fill" /\ first < Len(files)

FillCellX ==  \* every other column
  /\ Batching /\ i <= Len(needle) /\ Reaches(j)
  /\ d' = [d EXCEPT ![i][j] = [l \in LaneNo |-> Cell(l)]]
  /\ j' = j + 2
  /\ UNCHANGED <<pc, files, needle, first, i, scores>>

FillCell ==
  /\ Batching /\ i <= Len(needle) /\ Reaches(j)
  /\ d' = [d EXCEPT ![i][j] = [l \in LaneNo |-> Cell(l)]]
  /\ j' = j + 1
  /\ UNCHANGED <<pc, files, needle, first, i, scores>>

NextRow ==
  /\ Batching /\ i <= Len(needle) /\ ~Reaches(j)
  /\ i' = i + 1 /\ j' = 1
  /\ UNCHANGED <<pc, files, needle, d, first, scores>>

\* Each lane's score stands where its own name ends.
Collect ==
  /\ Batching /\ i > Len(needle)
  /\ scores' = [f \in DOMAIN files |->
                  IF f - first - 1 \in LaneNo
                  THEN d[Len(needle)][Len(files[f])][f - first - 1]
                  ELSE scores[f]]
  /\ first' = first + Lanes /\ i' = 1 /\ j' = 1
  /\ UNCHANGED <<pc, files, needle, d>>

\* All batches are done: swimd_top_scores looks at the scores.
Rank ==
  /\ pc = "fill" /\ first >= Len(files)
  /\ pc' = "rank"
  /\ UNCHANGED <<files, needle, d, first, i, j, scores>>

Return ==
  /\ pc = "rank"
  /\ pc' = "idle"
  /\ UNCHANGED <<files, needle, d, first, i, j, scores>>

Next ==
  \/ (\E l \in Listings : Reindex(l)) \/ (\E n \in Needles : Search(n))
  \/ FillCell \/ NextRow \/ Collect \/ Rank \/ Return

Spec == Init /\ [][Next]_vars

-----------------------------------------------------------------------------
(***************************************************************************)
(* From scores to percent: swimd_score_minmax and swimd_top_scores.        *)
(***************************************************************************)
Longer(n, m)  == Larger(Len(n), Len(m))
Shorter(n, m) == Lesser(Len(n), Len(m))
GapSum(n, m)  == Sum[Longer(n, m)] - Sum[Shorter(n, m)]

MinScore(n, m)  == SUB_PENALTY * Shorter(n, m) + GapSum(n, m)
MaxScore(n, m)  == MATCH_STRICT_REWARD * Shorter(n, m) + GapSum(n, m)

\* What a quotient of two integers, scaled in double precision and truncated, may be: one
\* that is a whole number may come out just below it.
Truncated(x, y) == {x \div y} \cup (IF x % y = 0 /\ x > 0 THEN {x \div y - 1} ELSE {})

\* Both divided by zero if there is nothing to align: 0/0 becomes the short 0 (x64).
PercentX(n, m, score) ==  \* the length is not held against the score
  LET range == MaxScore(n, m) - MinScore(n, m)
  IN IF range = 0 THEN {0}
     ELSE IF score = MaxScore(n, m) THEN {100}
     ELSE Truncated(100 * (score - MinScore(n, m)), range)

Percent(n, m, score) ==
  LET range == MaxScore(n, m) - MinScore(n, m)
      raw   == IF range = 0 THEN {0}
               ELSE IF score = MaxScore(n, m) THEN {100}
               ELSE Truncated(100 * (score - MinScore(n, m)), range)
      diff  == Longer(n, m) - Shorter(n, m)
  IN UNION {{p - e : e \in IF p = 0 THEN {0} ELSE Truncated(3 * diff * p, 10 * Longer(n, m))}
              : p \in raw}

Threshold == 20   \* ERROR_THRESHOLD * 100

\* The percentages that file f may be offered to the heap with.
Offers(f) == {p \in Percent(needle, files[f], scores[f]) : p >= Threshold}

-----------------------------------------------------------------------------
(***************************************************************************)
(* The reference: an alignment pairs characters of needle and name, both   *)
(* in order; each character that is left over costs its gap.               *)
(***************************************************************************)
Alignments(r, c) ==
  {A \in SUBSET ((1 .. r) \X (1 .. c)) :
     \A p, q \in A : p = q \/ (p[1] < q[1] /\ p[2] < q[2]) \/ (q[1] < p[1] /\ q[2] < p[2])}

\* A pair counts as the needle's.
NeedleWorth(A, n, m) ==
  [k \in 1 .. Len(n) |->
     IF \E c \in 1 .. Len(m) : <<k, c>> \in A
     THEN Match(n[k], m[CHOOSE c \in 1 .. Len(m) : <<k, c>> \in A])
     ELSE Gap[k - 1]]

NameWorth(A, n, m) ==
  [k \in 1 .. Len(m) |-> IF \E r \in 1 .. Len(n) : <<r, k>> \in A THEN 0 ELSE Gap[k - 1]]

\* The first k of some numbers, added up.
Total(numbers, k) ==
  LET sum[m \in 0 .. k] == IF m = 0 THEN 0 ELSE sum[m - 1] + numbers[m]
  IN sum[k]

Worth(A, n, m) == Total(NeedleWorth(A, n, m), Len(n)) + Total(NameWorth(A, n, m), Len(m))

Best(n, m) == Max({Worth(A, n, m) : A \in Alignments(Len(n), Len(m))})

-----------------------------------------------------------------------------
TypeOK ==
  /\ pc \in {"idle", "fill", "rank"}
  /\ files \in Listings /\ needle \in Needles \cup {<<>>}
  /\ d \in [Edge -> [Edge -> [LaneNo -> Short]]]
  /\ first \in Nat /\ i \in 1 .. Width /\ j \in 1 .. Width
  /\ scores \in [DOMAIN files -> Short \cup {Unwritten}]

\* Whatever batches and searches have left in the matrix, every file gets the worth of
\* the best alignment with what was typed.
ScoreIsBest ==
  pc = "rank" => \A f \in DOMAIN files : scores[f] = Best(needle, files[f])

\* The scores lie between the bounds that swimd_top_scores computes and asserts
\* (main.c:1407), so no percentage is below 0 or above 100.
WithinBounds ==
  pc = "rank" => \A f \in DOMAIN files :
    scores[f] \in MinScore(needle, files[f]) .. MaxScore(needle, files[f])

\* A file whose name is exactly what was typed is offered with 100 whatever the rounding, and
\* every other one with less, so that it comes first.  (From 30 characters on a name that is
\* longer by one may be offered with 100, too: what main.c:1411 takes off is truncated to 0.)
ExactOnTop ==
  pc = "rank" => \A f \in DOMAIN files :
    /\ files[f] = needle /\ needle # <<>> => Offers(f) = {100}
    /\ files[f] # needle /\ Longer(needle, files[f]) < 30 => \A p \in Offers(f) : p < 100
=============================================================================
