----------------------------- MODULE TopScores -----------------------------
(***************************************************************************)
(* swimd_top_scores of main.c: the files are offered, one after the other, *)
(* to a binary min-heap that keeps the MaxSize best of them, and what it   *)
(* keeps is sorted.  One turn of a loop of the heap is one step.           *)
(*                                                                         *)
(* The scores are whatever the scoring gives; how they are computed is not *)
(* modelled here.                                                          *)
(***************************************************************************)
EXTENDS Integers, Sequences

CONSTANTS
  MaxSize,   \* how many results are asked for (100 in init.lua)
  NumFiles,  \* how many files there are
  Scores,    \* the normalized scores that pass the threshold
  None       \* no score, and the heap's uninitialised slots

ASSUME SizesAssumption  == MaxSize \in Nat \ {0} /\ NumFiles \in Nat
ASSUME ScoresAssumption == Scores \subseteq Int /\ None \notin Int

VARIABLES
  pc,
  next,     \* the file to be offered next
  arr, size,
  item,     \* the item that waits for the root to be cut
  ind,      \* where a sift has got to
  given,    \* history: the score each file was offered with
  result    \* the items, best first

heap == <<arr, size>>
vars == <<pc, next, heap, item, ind, given, result>>

Slots == 0 .. MaxSize - 1
Files == 0 .. NumFiles - 1
Item  == [score : Scores, index : Files]

NoItem == [score |-> None, index |-> None]

Left(i)   == 2 * (i + 1) - 1
Right(i)  == 2 * (i + 1)

\* (A definition whose name ends in X is the one after it with a plausible bug: the run
\* uses it to show that a property would catch that bug.  No action refers to it.)
Parent(i)  == (i - 1) \div 2

\* The smallest of a slot and its children, found as the code does.
Smaller(i, j) == IF j < size /\ arr[i].score > arr[j].score THEN j ELSE i
Smallest(i)   == Smaller(Smaller(i, Left(i)), Right(i))

Swap(i, j) == arr' = [arr EXCEPT ![i] = arr[j], ![j] = arr[i]]

-----------------------------------------------------------------------------
Init ==
  /\ pc = "offer" /\ next = 0
  /\ arr = [k \in Slots |-> NoItem] /\ size = 0
  /\ item = NoItem /\ ind = 0
  /\ given = [i \in Files |-> None]
  /\ result = <<>>

\* The next file is offered with score s.
Offer(s) ==
  /\ pc = "offer" /\ next < NumFiles
  /\ next' = next + 1
  /\ given' = [given EXCEPT ![next] = s]
  /\ UNCHANGED result

New(s) == [score |-> s, index |-> next]

\* The file's score is below the threshold.
Skip ==
  /\ pc = "offer" /\ next < NumFiles
  /\ next' = next + 1
  /\ UNCHANGED <<pc, heap, item, ind, given, result>>

InsertFirst(s) ==
  /\ Offer(s)
  /\ size = 0
  /\ arr' = [arr EXCEPT ![0] = New(s)]
  /\ size' = 1
  /\ UNCHANGED <<pc, item, ind>>

InsertLowX(s) ==  \* turns the better file away
  /\ Offer(s)
  /\ size = MaxSize /\ arr[0].score <= s
  /\ UNCHANGED <<pc, heap, item, ind>>

InsertLow(s) ==
  /\ Offer(s)
  /\ size = MaxSize /\ arr[0].score >= s
  /\ UNCHANGED <<pc, heap, item, ind>>

\* The root is cut: the last item takes its place and sinks.
InsertCut(s) ==
  /\ Offer(s)
  /\ size = MaxSize /\ arr[0].score < s
  /\ size' = size - 1
  /\ arr' = [arr EXCEPT ![0] = arr[size - 1]]
  /\ item' = New(s) /\ ind' = 0 /\ pc' = "sift_down"

InsertLastX(s) ==  \* does not stop at MaxSize
  /\ Offer(s)
  /\ 0 < size /\ size <= MaxSize
  /\ arr' = [arr EXCEPT ![size] = New(s)]
  /\ size' = size + 1
  /\ ind' = size /\ pc' = "sift_up"
  /\ UNCHANGED item

InsertLast(s) ==
  /\ Offer(s)
  /\ 0 < size /\ size < MaxSize
  /\ arr' = [arr EXCEPT ![size] = New(s)]
  /\ size' = size + 1
  /\ ind' = size /\ pc' = "sift_up"
  /\ UNCHANGED item

SiftDown ==
  /\ pc = "sift_down"
  /\ Smallest(ind) # ind
  /\ Swap(ind, Smallest(ind))
  /\ ind' = Smallest(ind)
  /\ UNCHANGED <<pc, next, size, item, given, result>>

\* The cut is over: the item waiting for it goes last and rises.
Place ==
  /\ pc = "sift_down"
  /\ Smallest(ind) = ind
  /\ arr' = [arr EXCEPT ![size] = item]
  /\ size' = size + 1
  /\ item' = NoItem
  /\ ind' = size /\ pc' = "sift_up"
  /\ UNCHANGED <<next, given, result>>

Rises == ind > 0 /\ arr[Parent(ind)].score > arr[ind].score

SiftUp ==
  /\ pc = "sift_up"
  /\ Rises
  /\ Swap(Parent(ind), ind)
  /\ ind' = Parent(ind)
  /\ UNCHANGED <<pc, next, size, item, given, result>>

Placed ==
  /\ pc = "sift_up"
  /\ ~Rises
  /\ pc' = "offer" /\ ind' = 0
  /\ UNCHANGED <<next, heap, item, given, result>>

\* qsort by score, with ties in any order, and swimd_process_input turns the list around:
\* of what is left, an item with the best score comes next.
Unranked == {k \in 0 .. size - 1 : \A m \in DOMAIN result : result[m] # arr[k]}

RankX(k) ==  \* the list is not turned around
  /\ pc = "offer" /\ next = NumFiles
  /\ k \in Unranked
  /\ \A j \in Unranked : arr[j].score >= arr[k].score
  /\ result' = Append(result, arr[k])
  /\ UNCHANGED <<pc, next, heap, item, ind, given>>

Rank(k) ==
  /\ pc = "offer" /\ next = NumFiles
  /\ k \in Unranked
  /\ \A j \in Unranked : arr[j].score <= arr[k].score
  /\ result' = Append(result, arr[k])
  /\ UNCHANGED <<pc, next, heap, item, ind, given>>

Finish ==
  /\ pc = "offer" /\ next = NumFiles
  /\ Unranked = {}
  /\ pc' = "done"
  /\ UNCHANGED <<next, heap, item, ind, given, result>>

Insert(s) == InsertFirst(s) \/ InsertLow(s) \/ InsertCut(s) \/ InsertLast(s)

Next ==
  \/ Skip \/ \E s \in Scores : Insert(s)
  \/ SiftDown \/ Place \/ SiftUp \/ Placed
  \/ (\E k \in Slots : Rank(k)) \/ Finish

Spec == Init /\ [][Next]_vars

-----------------------------------------------------------------------------
TypeOK ==
  /\ pc \in {"offer", "sift_down", "sift_up", "done"}
  /\ next \in 0 .. NumFiles
  /\ size \in 0 .. MaxSize
  /\ arr \in [Slots -> Item \cup {NoItem}]
  /\ item \in Item \cup {NoItem}
  /\ ind \in Slots
  /\ given \in [Files -> Scores \cup {None}]
  /\ result \in Seq(Item)

Offered == {i \in Files : given[i] # None}
Kept(i) == \E k \in 0 .. size - 1 : arr[k].index = i

\* Between two insertions no item's score is below its parent's.
HeapOrdered ==
  pc = "offer" => \A k \in 1 .. size - 1 : arr[Parent(k)].score <= arr[k].score

\* Between two insertions the heap holds files that were offered, with their scores and
\* each once; it is full if it has turned a file away, and no file it has turned away has
\* a better score than one it holds.
BestKept ==
  pc = "offer" =>
    /\ \A k \in 0 .. size - 1 : arr[k].index \in Offered /\ arr[k].score = given[arr[k].index]
    /\ \A j, k \in 0 .. size - 1 : arr[j].index = arr[k].index => j = k
    /\ \A i \in Offered : Kept(i) \/ (size = MaxSize /\ \A k \in 0 .. size - 1 :
                                                         given[i] <= arr[k].score)

\* The list shown has the best files, best first.
RankedBest ==
  pc = "done" =>
    /\ \A m, n \in DOMAIN result : m <= n => result[m].score >= result[n].score
    /\ \A i \in Offered :
         \/ \E m \in DOMAIN result : result[m] = [score |-> given[i], index |-> i]
         \/ \A m \in DOMAIN result : result[m].score >= given[i]
    /\ \A m \in DOMAIN result : result[m].index \in Offered
=============================================================================
