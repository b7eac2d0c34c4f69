-------------------------- MODULE TopScoresProofs --------------------------
(***************************************************************************)
(* The heap of best matches for any number of files and results and any    *)
(* scores: it stays a heap, holds the best files, and the list shown has   *)
(* them in order.                                                          *)
(*                                                                         *)
(* While an item sinks or rises only its own place is out of order.  What  *)
(* is turned away is turned away because of the root, so the proof needs   *)
(* that the root of a heap is its least item: the library's induction does *)
(* not apply to it, but its least counterexample does.                     *)
(***************************************************************************)
EXTENDS TopScores, WellFoundedInduction, TLAPS

Held == 0 .. size - 1

Sinking == pc = "sift_down"
Rising  == pc = "sift_up"

\* What a slot or the waiting item holds, and where the sifts are.
SlotInv ==
  /\ \A k \in Held : arr[k] \in Item
  /\ Sinking => item \in Item /\ size + 1 = MaxSize /\ (ind < size \/ ind = 0)
  /\ Rising  => ind < size

\* Only the item that is sifted may be out of order, and it only towards its children if it
\* sinks and towards its parent if it rises; these two are in order with each other.
HeapInv ==
  /\ \A k \in Held \ {0} :
       \/ arr[Parent(k)].score <= arr[k].score
       \/ Sinking /\ Parent(k) = ind
       \/ Rising /\ k = ind
  /\ Sinking \/ Rising =>
       \A k \in Held \ {0} : Parent(k) = ind /\ ind > 0 => arr[Parent(ind)].score <= arr[k].score

\* Each item is a file that was offered, and there is one of each.
HeldInv ==
  /\ \A i \in Files : given[i] # None => i < next
  /\ \A k \in Held : given[arr[k].index] = arr[k].score
  /\ \A j, k \in Held : arr[j].index = arr[k].index => j = k
  /\ Sinking => /\ given[item.index] = item.score
                /\ \A k \in Held : arr[k].index # item.index

\* A file is held, or waits, or was turned away by a full heap of better ones.
AwayInv == \A i \in Offered :
  \/ Kept(i)
  \/ Sinking /\ i = item.index
  \/ /\ size = MaxSize \/ Sinking
     /\ \A k \in Held : given[i] <= arr[k].score
     /\ Sinking => given[i] <= item.score

\* The list so far: items of the heap, in order, and none better is left.
RankInv ==
  /\ result # <<>> => next = NumFiles /\ ~Sinking /\ ~Rising
  /\ \A m \in DOMAIN result : \E k \in Held : result[m] = arr[k]
  /\ \A m, n \in DOMAIN result : m <= n => result[m].score >= result[n].score
  /\ \A m \in DOMAIN result, k \in Unranked : result[m].score >= arr[k].score
  /\ pc = "done" => Unranked = {}

IInv == TypeOK /\ SlotInv /\ HeapInv /\ HeldInv /\ AwayInv /\ RankInv

-----------------------------------------------------------------------------
LEMMA ParentBelow ==
  ASSUME NEW k \in Nat, k > 0
  PROVE  /\ Parent(k) \in Nat /\ Parent(k) < k
         /\ k = Left(Parent(k)) \/ k = Right(Parent(k))
  BY DEF Parent, Left, Right

LEMMA ChildrenAbove ==
  ASSUME NEW k \in Nat
  PROVE  /\ Left(k) \in Nat /\ k < Left(k) /\ Parent(Left(k)) = k
         /\ Right(k) \in Nat /\ k < Right(k) /\ Parent(Right(k)) = k
  BY DEF Parent, Left, Right

\* Numbers are well-ordered.
LEMMA LeastNumber ==
  ASSUME NEW S, S \subseteq Nat, S # {}
  PROVE  \E x \in S : \A y \in S : x <= y
<1>1. PICK R : R = OpToRel(<, Nat)
  OBVIOUS
<1>2. \A p : p \in R <=> p \in Nat \X Nat /\ p[1] < p[2]
  BY <1>1, Zenon DEF OpToRel
<1>3. IsWellFoundedOn(R, Nat)
  BY <1>1, NatLessThanWellFounded, Zenon
<1>4. PICK x \in S : \A y \in S : <<y, x>> \notin R
  BY <1>3, WFMin, Zenon
<1>5. \A y \in S : ~(y < x)
  BY <1>2, <1>4
<1> QED
  BY <1>4, <1>5

\* The root of a heap is its least item.
LEMMA RootLeast ==
  ASSUME NEW score, NEW n \in Nat, \A k \in 0 .. n - 1 : score[k] \in Int,
         \A k \in (0 .. n - 1) \ {0} : score[Parent(k)] <= score[k]
  PROVE  \A k \in 0 .. n - 1 : score[0] <= score[k]
<1> DEFINE Worse == {k \in 0 .. n - 1 : ~(score[0] <= score[k])}
<1> SUFFICES ASSUME Worse # {} PROVE FALSE
  OBVIOUS
<1>1. PICK k \in Worse : \A j \in Worse : k <= j
  <2> HIDE DEF Worse
  <2>1. Worse \subseteq Nat
    BY DEF Worse
  <2> QED
    BY <2>1, LeastNumber
<1>2. k \in 0 .. n - 1 /\ k # 0 /\ k \in Nat
  BY <1>1
<1>3. Parent(k) \in 0 .. n - 1 /\ Parent(k) < k /\ Parent(k) \in Nat
  BY <1>2, ParentBelow
<1>4. score[0] <= score[Parent(k)]
  BY <1>1, <1>3
<1>5. score[0] \in Int /\ score[k] \in Int /\ score[Parent(k)] \in Int
  BY <1>2, <1>3
<1> QED
  BY <1>1, <1>2, <1>4, <1>5

\* What the invariant says of types, for the steps below.
LEMMA Sizes ==
  ASSUME TypeOK
  PROVE  /\ MaxSize \in Nat /\ MaxSize > 0 /\ NumFiles \in Nat
         /\ size \in Nat /\ size <= MaxSize
         /\ next \in Nat /\ next <= NumFiles
         /\ ind \in Nat /\ ind < MaxSize
         /\ \A k : k \in Slots <=> k \in Nat /\ k < MaxSize
         /\ \A k : k \in Held <=> k \in Nat /\ k < size
         /\ \A i : i \in Files <=> i \in Nat /\ i < NumFiles
  BY SizesAssumption DEF TypeOK, Held, Slots, Files

LEMMA Items ==
  /\ \A x \in Item : x.score \in Scores /\ x.score \in Int /\ x.index \in Files
  /\ None \notin Scores /\ None \notin Int
  BY ScoresAssumption DEF Item

LEMMA NewItem ==
  ASSUME NEW s \in Scores, next \in Files
  PROVE  New(s) \in Item /\ New(s).score = s /\ New(s).index = next
  BY DEF New, Item

\* Between two insertions the root is the least item.
LEMMA HeapRootLeast ==
  ASSUME TypeOK, SlotInv, HeapInv, ~Sinking, ~Rising
  PROVE  \A k \in Held : arr[0].score <= arr[k].score
<1> DEFINE score == [k \in Held |-> arr[k].score]
<1>1. size \in Nat /\ Held = 0 .. size - 1
  BY Sizes DEF Held
<1>2. \A k \in Held : score[k] = arr[k].score /\ score[k] \in Int
  BY Items DEF SlotInv
<1>3. \A k \in Held \ {0} : Parent(k) \in Held
  BY Sizes, ParentBelow
<1>4. \A k \in Held \ {0} : score[Parent(k)] <= score[k]
  BY <1>3 DEF HeapInv
<1> HIDE DEF score
<1>5. \A k \in 0 .. size - 1 : score[0] <= score[k]
  BY <1>1, <1>2, <1>4, RootLeast
<1>6. Held # {} => 0 \in Held
  BY <1>1
<1> QED
  BY <1>1, <1>2, <1>5, <1>6

\* An item is put behind the last one, whence it is to rise.
Puts(x) ==
  /\ size < MaxSize /\ arr' = [arr EXCEPT ![size] = x] /\ size' = size + 1
  /\ ind' = size /\ pc' = "sift_up"

LEMMA PutKeepsHeap ==
  ASSUME TypeOK, SlotInv, NEW x \in Item, Puts(x),
         \A k \in Held \ {0} : arr[Parent(k)].score <= arr[k].score
  PROVE  /\ arr' \in [Slots -> Item \cup {NoItem}] /\ size' \in 0 .. MaxSize /\ ind' \in Slots
         /\ Held' = Held \cup {size} /\ size \notin Held
         /\ arr'[size] = x /\ \A k \in Held : arr'[k] = arr[k]
         /\ SlotInv' /\ HeapInv'
<1>1. size \in Slots /\ size' \in 0 .. MaxSize /\ ind' \in Slots
  BY Sizes DEF Puts
<1>2. arr' \in [Slots -> Item \cup {NoItem}]
  BY DEF Puts, TypeOK
<1>3. \A k : k \in Held' <=> k \in Nat /\ k < size + 1
  BY Sizes DEF Puts, Held
<1>4. Held' = Held \cup {size} /\ size \notin Held
  BY <1>3, Sizes
<1>5. arr'[size] = x /\ \A k \in Held : arr'[k] = arr[k]
  BY <1>1, <1>4, Sizes DEF Puts, TypeOK
<1>6. ~Sinking' /\ Rising'
  BY DEF Puts, Sinking, Rising
<1>7. SlotInv'
  BY <1>4, <1>5, <1>6, Sizes DEF SlotInv, Puts
<1>8. \A k \in Held' \ {0} : k # size => k \in Held /\ Parent(k) \in Held
  BY <1>4, Sizes, ParentBelow
<1>9. \A k \in Held' \ {0} : Parent(k) # size
  BY <1>3, Sizes, ParentBelow
<1>10. HeapInv'
  BY <1>5, <1>6, <1>8, <1>9 DEF HeapInv, Puts
<1> QED
  BY <1>1, <1>2, <1>4, <1>5, <1>7, <1>10

\* Two items change places.
Other(i, j, k) == IF k = i THEN j ELSE IF k = j THEN i ELSE k

LEMMA SwapKeepsItems ==
  ASSUME TypeOK, SlotInv, HeldInv, AwayInv, RankInv, Sinking \/ Rising,
         NEW i \in Held, NEW j \in Held, Swap(i, j), ind' \in Held,
         UNCHANGED <<pc, next, size, item, given, result>>
  PROVE  /\ TypeOK' /\ SlotInv' /\ HeldInv' /\ AwayInv' /\ RankInv'
         /\ Held' = Held /\ arr'[i] = arr[j] /\ arr'[j] = arr[i]
         /\ \A k \in Held : k # i /\ k # j => arr'[k] = arr[k]
<1>1. i \in Slots /\ j \in Slots /\ Held \subseteq Slots /\ ind' \in Slots
  BY Sizes
<1>2. arr' \in [Slots -> Item \cup {NoItem}]
  BY <1>1 DEF Swap, TypeOK
<1>3. \A k \in Held : arr'[k] = arr[Other(i, j, k)] /\ Other(i, j, k) \in Held
  BY <1>1 DEF Swap, TypeOK, Other
<1>4. \A k \in Held : Other(i, j, Other(i, j, k)) = k
  BY DEF Other
<1>5. TypeOK'
  BY <1>1, <1>2 DEF TypeOK
<1>6. Held' = Held /\ (Sinking' <=> Sinking) /\ (Rising' <=> Rising)
  BY DEF Held, Sinking, Rising
<1>7. SlotInv'
  <2>1. \A k \in Held' : arr'[k] \in Item
    BY <1>3, <1>6 DEF SlotInv
  <2>2. ind' < size'
    BY Sizes
  <2> QED
    BY <1>6, <2>1, <2>2 DEF SlotInv
<1>8. HeldInv'
  <2>1. \A k \in Held : given'[arr'[k].index] = arr'[k].score
    BY <1>3 DEF HeldInv
  <2>2. ASSUME NEW a \in Held, NEW b \in Held, arr'[a].index = arr'[b].index PROVE a = b
    <3>1. Other(i, j, a) = Other(i, j, b)
      BY <1>3, <2>2 DEF HeldInv
    <3> QED
      BY <1>4, <3>1
  <2>3. Sinking => /\ given'[item'.index] = item'.score
                   /\ \A k \in Held : arr'[k].index # item'.index
    BY <1>3 DEF HeldInv
  <2> QED
    BY <1>6, <2>1, <2>2, <2>3 DEF HeldInv
<1>9. AwayInv'
  <2>1. Offered' = Offered
    BY DEF Offered
  <2>2. ASSUME NEW f \in Offered, Kept(f) PROVE Kept(f)'
    <3>1. PICK k \in Held : arr[k].index = f
      BY <2>2 DEF Kept, Held
    <3>2. Other(i, j, k) \in Held /\ arr'[Other(i, j, k)] = arr[k]
      BY <1>3, <1>4
    <3>3. \E m \in Held' : arr'[m].index = f
      BY <1>6, <3>1, <3>2
    <3> QED
      BY <3>3 DEF Kept, Held
  <2>3. ASSUME NEW f \in Offered, \A k \in Held : given[f] <= arr[k].score
        PROVE  \A k \in Held' : given'[f] <= arr'[k].score
    BY <1>3, <1>6, <2>3
  <2> QED
    BY <1>6, <2>1, <2>2, <2>3 DEF AwayInv
<1>10. RankInv'
  <2>1. result = <<>> /\ result' = <<>> /\ pc' # "done"
    BY DEF RankInv, Sinking, Rising
  <2> QED
    BY <2>1 DEF RankInv
<1>11. /\ arr'[i] = arr[j] /\ arr'[j] = arr[i]
       /\ \A k \in Held : k # i /\ k # j => arr'[k] = arr[k]
  BY <1>3 DEF Other
<1> QED
  BY <1>5, <1>6, <1>7, <1>8, <1>9, <1>10, <1>11

LEMMA InitIInv == Init => IInv
<1> SUFFICES ASSUME Init PROVE IInv
  OBVIOUS
<1>1. arr \in [Slots -> Item \cup {NoItem}] /\ given \in [Files -> Scores \cup {None}]
  BY DEF Init
<1>2. 0 \in Slots /\ size \in 0 .. MaxSize /\ next \in 0 .. NumFiles
  BY SizesAssumption DEF Init, Slots, heap
<1>3. TypeOK
  BY <1>1, <1>2 DEF Init, TypeOK
<1>4. Held = {} /\ Unranked = {} /\ Offered = {}
  BY DEF Init, Held, Unranked, heap, Offered
<1>5. ~Sinking /\ ~Rising
  BY DEF Init, Sinking, Rising
<1>6. HeldInv
  BY <1>4, <1>5 DEF Init, HeldInv, Offered
<1>7. RankInv
  BY <1>4, <1>5 DEF Init, RankInv
<1> QED
  BY <1>3, <1>4, <1>5, <1>6, <1>7 DEF IInv, SlotInv, HeapInv, AwayInv

LEMMA SkipKeeps ==
  ASSUME IInv, Skip
  PROVE  IInv'
<1> USE DEF IInv, Skip, heap, Sinking, Rising
<1>1. TypeOK'
  BY Sizes DEF TypeOK
<1>2. SlotInv' /\ HeapInv' /\ AwayInv'
  BY DEF SlotInv, HeapInv, AwayInv, Held, Offered, Kept
<1>3. HeldInv'
  BY Sizes DEF HeldInv, Held
<1>4. result = <<>>
  BY Sizes DEF RankInv
<1>5. RankInv'
  BY <1>4 DEF RankInv
<1> QED
  BY <1>1, <1>2, <1>3, <1>5

\* What any offer does to the history.
LEMMA OfferGives ==
  ASSUME IInv, NEW s \in Scores, Offer(s)
  PROVE  /\ next \in Files /\ next' = next + 1 /\ next' \in 0 .. NumFiles
         /\ given' \in [Files -> Scores \cup {None}] /\ given'[next] = s
         /\ \A i \in Files : i # next => given'[i] = given[i]
         /\ \A i \in Files : given'[i] # None => i < next'
         /\ Offered' = Offered \cup {next} /\ next \notin Offered
         /\ \A k \in Held : arr[k].index # next
         /\ result = <<>> /\ result' = <<>> /\ ~Sinking /\ ~Rising /\ pc # "done"
<1>1. next \in Files /\ next' = next + 1 /\ next' \in 0 .. NumFiles
  BY Sizes DEF IInv, Offer
<1>2. /\ given' \in [Files -> Scores \cup {None}] /\ given'[next] = s
      /\ \A i \in Files : i # next => given'[i] = given[i]
  BY <1>1 DEF IInv, TypeOK, Offer
<1>3. \A i \in Files : given'[i] # None => i < next'
  BY <1>1, <1>2, Sizes DEF IInv, HeldInv
<1>4. given[next] = None
  BY <1>1, Sizes DEF IInv, HeldInv
<1>5. Offered' = Offered \cup {next} /\ next \notin Offered
  BY <1>1, <1>2, <1>4, Items DEF Offered
<1>6. \A k \in Held : arr[k].index # next
  BY <1>4, Items DEF IInv, HeldInv, SlotInv
<1>7. result = <<>> /\ ~Sinking /\ ~Rising /\ pc # "done"
  BY Sizes DEF IInv, RankInv, Offer, Sinking, Rising
<1> QED
  BY <1>1, <1>2, <1>3, <1>5, <1>6, <1>7 DEF Offer

\* An empty list of results is in order.
LEMMA NoRanks == ASSUME result' = <<>>, pc' # "done" PROVE RankInv'
  BY DEF RankInv

\* A full heap has turned a file away: the root is no worse, so nothing is.
LEMMA InsertLowKeeps ==
  ASSUME IInv, NEW s \in Scores, InsertLow(s)
  PROVE  IInv'
<1> USE DEF IInv, InsertLow, heap
<1>0. Offer(s)
  OBVIOUS
<1>1. TypeOK'
  BY <1>0, OfferGives DEF TypeOK
<1>2. /\ Held' = Held /\ (Sinking' <=> Sinking) /\ (Rising' <=> Rising)
      /\ ~Sinking /\ ~Rising
  BY <1>0, OfferGives DEF Held, Sinking, Rising
<1>3. SlotInv' /\ HeapInv'
  BY <1>2 DEF SlotInv, HeapInv
<1>4. \A k \in Held : arr[k].index \in Files /\ arr[k].index # next /\ arr[k].score \in Int
  BY <1>0, OfferGives, Items DEF SlotInv
<1>5. HeldInv'
  BY <1>0, <1>2, <1>4, OfferGives DEF HeldInv
<1>6. \A k \in Held : s <= arr[k].score
  <2>1. \A k \in Held : arr[0].score <= arr[k].score
    BY <1>2, HeapRootLeast
  <2>2. arr[0].score >= s /\ s \in Int /\ 0 \in Held
    BY Sizes, ScoresAssumption
  <2> QED
    BY <1>4, <2>1, <2>2
<1>7. AwayInv'
  <2>1. ASSUME NEW i \in Offered'
        PROVE  Kept(i) \/ (size = MaxSize /\ \A k \in Held : given'[i] <= arr[k].score)
    <3>1. CASE i = next
      BY <1>0, <1>6, <3>1, OfferGives
    <3>2. CASE i # next
      <4>1. i \in Offered /\ i \in Files /\ given'[i] = given[i]
        BY <1>0, <2>1, <3>2, OfferGives DEF Offered
      <4> QED
        BY <1>2, <4>1 DEF AwayInv
    <3> QED
      BY <3>1, <3>2
  <2>2. \A i : Kept(i)' <=> Kept(i)
    BY DEF Kept
  <2> QED
    BY <1>2, <2>1, <2>2 DEF AwayInv
<1>8. RankInv'
  BY <1>0, OfferGives, NoRanks
<1> QED
  BY <1>1, <1>3, <1>5, <1>7, <1>8

\* An offered item that goes behind the last one: what is held is held still.
LEMMA OfferPutKeeps ==
  ASSUME IInv, NEW s \in Scores, Offer(s), Puts(New(s)), UNCHANGED item,
         size < MaxSize
  PROVE  IInv'
<1> USE DEF IInv
<1>0. New(s) \in Item /\ New(s).score = s /\ New(s).index = next
  BY OfferGives, NewItem
<1>1. \A k \in Held \ {0} : arr[Parent(k)].score <= arr[k].score
  BY OfferGives DEF HeapInv
<1>2. /\ arr' \in [Slots -> Item \cup {NoItem}] /\ size' \in 0 .. MaxSize /\ ind' \in Slots
      /\ Held' = Held \cup {size} /\ size \notin Held
      /\ arr'[size] = New(s) /\ \A k \in Held : arr'[k] = arr[k]
      /\ SlotInv' /\ HeapInv'
  BY <1>0, <1>1, PutKeepsHeap
<1>3. TypeOK'
  BY <1>2, OfferGives DEF TypeOK, Puts
<1>4. ~Sinking' /\ ~Sinking
  BY OfferGives DEF Puts, Sinking
<1>5. \A k \in Held : arr[k].index \in Files /\ arr[k].index # next
  BY OfferGives, Items DEF SlotInv
<1>6. HeldInv'
  BY <1>0, <1>2, <1>4, <1>5, OfferGives DEF HeldInv
<1>7. AwayInv'
  <2> SUFFICES ASSUME NEW i \in Offered' PROVE \E k \in Held' : arr'[k].index = i
    BY DEF AwayInv, Kept, Held
  <2>1. CASE i = next
    BY <1>0, <1>2, <2>1
  <2>2. CASE i # next
    <3>1. i \in Offered
      BY <2>2, OfferGives
    <3>2. Kept(i)
      BY <1>4, <3>1, Sizes DEF AwayInv
    <3>3. PICK k \in Held : arr[k].index = i
      BY <3>2 DEF Kept, Held
    <3> QED
      BY <1>2, <3>3
  <2> QED
    BY <2>1, <2>2
<1>8. RankInv'
  BY OfferGives, NoRanks DEF Puts
<1> QED
  BY <1>2, <1>3, <1>6, <1>7, <1>8

LEMMA InsertLastKeeps ==
  ASSUME IInv, NEW s \in Scores, InsertLast(s)
  PROVE  IInv'
<1>1. Puts(New(s)) /\ Offer(s) /\ size < MaxSize /\ UNCHANGED item
  BY DEF InsertLast, Puts
<1> QED
  BY <1>1, OfferPutKeeps

LEMMA InsertFirstKeeps ==
  ASSUME IInv, NEW s \in Scores, InsertFirst(s)
  PROVE  IInv'
<1> USE DEF IInv
<1>0. Offer(s) /\ New(s) \in Item /\ New(s).score = s /\ New(s).index = next
  BY OfferGives, NewItem DEF InsertFirst
<1>1. /\ Held' = {0} /\ Held = {}
      /\ arr' \in [Slots -> Item \cup {NoItem}] /\ arr'[0] = New(s)
      /\ size' \in 0 .. MaxSize /\ 0 \in Slots
  BY <1>0, Sizes DEF InsertFirst, TypeOK, Held
<1>2. TypeOK'
  BY <1>0, <1>1, OfferGives DEF InsertFirst, TypeOK
<1>3. ~Sinking' /\ ~Rising'
  BY <1>0, OfferGives DEF InsertFirst, Sinking, Rising
<1>4. SlotInv' /\ HeapInv'
  BY <1>0, <1>1, <1>3 DEF SlotInv, HeapInv
<1>5. HeldInv'
  BY <1>0, <1>1, <1>3, OfferGives DEF HeldInv
<1>6. Offered = {}
  BY <1>0, <1>1, Sizes, OfferGives DEF AwayInv, InsertFirst, Kept
<1>7. AwayInv'
  <2>1. \A i \in Offered' : \E k \in Held' : arr'[k].index = i
    BY <1>0, <1>1, <1>6, OfferGives
  <2> QED
    BY <2>1 DEF AwayInv, Kept, Held
<1>8. RankInv'
  BY <1>0, OfferGives, NoRanks DEF InsertFirst
<1> QED
  BY <1>2, <1>4, <1>5, <1>7, <1>8

\* A better file comes for the root, which nothing held is worse than.
LEMMA InsertCutKeeps ==
  ASSUME IInv, NEW s \in Scores, InsertCut(s)
  PROVE  IInv'
<1> USE DEF IInv
<1> DEFINE From(k) == IF k = 0 THEN size - 1 ELSE k
<1>0. /\ Offer(s) /\ New(s) \in Item /\ New(s).score = s /\ New(s).index = next
      /\ item' = New(s) /\ ind' = 0 /\ size' = size - 1
  BY OfferGives, NewItem DEF InsertCut
<1>1. /\ size = MaxSize /\ size - 1 \in Held /\ 0 \in Held
      /\ \A k : k \in Held' <=> k \in Nat /\ k < size - 1
  BY Sizes DEF InsertCut, Held
<1>2. /\ Held' \subseteq Held /\ \A k \in Held' : From(k) \in Held
      /\ \A k \in Held : k # 0 => \E m \in Held' : From(m) = k
      /\ \A j, k \in Held' : From(j) = From(k) => j = k
  BY <1>1, Sizes
<1>3. \A k \in Held' : arr'[k] = arr[From(k)]
  BY <1>1, <1>2, Sizes DEF InsertCut, TypeOK
<1> HIDE DEF From
<1>4. arr' \in [Slots -> Item \cup {NoItem}] /\ size' \in 0 .. MaxSize /\ ind' \in Slots
  BY <1>0, <1>1, Sizes DEF InsertCut, TypeOK
<1>5. TypeOK'
  BY <1>0, <1>4, OfferGives DEF InsertCut, TypeOK
<1>6. Sinking' /\ ~Rising' /\ ~Sinking /\ ~Rising
  BY <1>0, OfferGives DEF InsertCut, Sinking, Rising
<1>7. SlotInv'
  <2>1. size' + 1 = MaxSize
    BY <1>0, <1>1, Sizes
  <2> QED
    BY <1>0, <1>2, <1>3, <1>6, <2>1 DEF SlotInv
<1>8. HeapInv'
  <2>1. \A k \in Held' \ {0} : Parent(k) \in Held /\ Parent(k) \in Held'
    BY <1>1, Sizes, ParentBelow
  <2>2. \A k \in Held' \ {0} : Parent(k) # 0 => arr'[Parent(k)].score <= arr'[k].score
    BY <1>2, <1>3, <1>6, <2>1 DEF HeapInv, From
  <2> QED
    BY <1>0, <1>6, <2>2 DEF HeapInv
<1>9. \A k \in Held : arr[k].index \in Files /\ arr[k].index # next
                      /\ arr[k].score \in Int /\ arr[0].score <= arr[k].score
  BY <1>0, <1>6, OfferGives, Items, HeapRootLeast DEF SlotInv
<1>10. HeldInv'
  <2>1. \A k \in Held' : given'[arr'[k].index] = arr'[k].score /\ arr'[k].index # item'.index
    BY <1>0, <1>2, <1>3, <1>9, OfferGives DEF HeldInv
  <2>2. \A j, k \in Held' : arr'[j].index = arr'[k].index => j = k
    BY <1>2, <1>3 DEF HeldInv
  <2>3. given'[item'.index] = item'.score
    BY <1>0, OfferGives
  <2> QED
    BY <1>0, <2>1, <2>2, <2>3, OfferGives DEF HeldInv
<1>11. AwayInv'
  <2>1. ASSUME NEW i \in Offered', i # next
        PROVE  \/ \E k \in Held' : arr'[k].index = i
               \/ /\ \A k \in Held' : given'[i] <= arr'[k].score
                  /\ given'[i] <= item'.score
    <3>1. i \in Offered /\ i \in Files /\ given'[i] = given[i]
      BY <1>0, <2>1, OfferGives DEF Offered
    <3>2. given[i] \in Int /\ s \in Int /\ arr[0].score < s /\ arr[0].score \in Int
      BY <1>1, <1>9, <3>1, ScoresAssumption DEF Offered, TypeOK, InsertCut
    <3>3. CASE \E k \in Held : k # 0 /\ arr[k].index = i
      BY <1>2, <1>3, <3>3
    <3>4. CASE arr[0].index = i
      <4>1. given[i] = arr[0].score
        BY <1>1, <3>4 DEF HeldInv
      <4> QED
        BY <1>0, <1>2, <1>3, <1>9, <3>1, <3>2, <4>1
    <3>5. CASE ~Kept(i)
      <4>1. \A k \in Held : given[i] <= arr[k].score
        BY <1>6, <3>1, <3>5 DEF AwayInv
      <4> QED
        BY <1>0, <1>1, <1>2, <1>3, <3>1, <3>2, <4>1
    <3> QED
      BY <1>1, <3>3, <3>4, <3>5 DEF Kept, Held
  <2>2. \A i : Kept(i)' <=> \E k \in Held' : arr'[k].index = i
    BY DEF Kept, Held
  <2> QED
    BY <1>0, <1>6, <2>1, <2>2 DEF AwayInv
<1>12. RankInv'
  BY <1>0, OfferGives, NoRanks DEF InsertCut
<1> QED
  BY <1>5, <1>7, <1>8, <1>10, <1>11, <1>12

\* What is sought of a slot and its children is the least.
LEMMA SmallestIsLeast ==
  ASSUME TypeOK, SlotInv, NEW i \in Held, NEW j, j = Smallest(i)
  PROVE  /\ j \in Held /\ (j = i \/ (Parent(j) = i /\ i < j))
         /\ j # i => arr[j].score < arr[i].score
         /\ \A k \in Held \ {0} : Parent(k) = i => arr[j].score <= arr[k].score
<1> DEFINE l == Smaller(i, Left(i))
<1>1. /\ i \in Nat /\ Left(i) \in Nat /\ Right(i) \in Nat /\ i < Left(i) /\ i < Right(i)
      /\ Parent(Left(i)) = i /\ Parent(Right(i)) = i
  BY Sizes, ChildrenAbove
<1>2. \A k \in Held : arr[k].score \in Int
  BY Items DEF SlotInv
<1>3. /\ l \in Held /\ (l = i \/ l = Left(i))
      /\ l # i => arr[l].score < arr[i].score
      /\ arr[l].score <= arr[i].score
      /\ Left(i) \in Held => arr[l].score <= arr[Left(i)].score
  BY <1>1, <1>2, Sizes DEF Smaller
<1>4. j = Smaller(l, Right(i))
  BY DEF Smallest
<1> HIDE DEF l
<1>5. /\ j \in Held /\ (j = l \/ j = Right(i))
      /\ j # l => arr[j].score < arr[l].score
      /\ arr[j].score <= arr[l].score
      /\ Right(i) \in Held => arr[j].score <= arr[Right(i)].score
  BY <1>1, <1>2, <1>3, <1>4, Sizes DEF Smaller
<1>6. j = i \/ (Parent(j) = i /\ i < j)
  BY <1>1, <1>3, <1>5
<1>7. j # i => arr[j].score < arr[i].score
  BY <1>2, <1>3, <1>5
<1>8. ASSUME NEW k \in Held \ {0}, Parent(k) = i PROVE arr[j].score <= arr[k].score
  <2>1. k = Left(i) \/ k = Right(i)
    BY <1>8, Sizes, ParentBelow
  <2> QED
    BY <1>2, <1>3, <1>5, <2>1
<1> QED
  BY <1>5, <1>6, <1>7, <1>8

LEMMA SiftDownKeeps ==
  ASSUME IInv, SiftDown
  PROVE  IInv'
<1> USE DEF IInv
<1>1. PICK i, j : i = ind /\ j = Smallest(ind)
  OBVIOUS
<1>2. Sinking /\ ~Rising /\ j # i /\ Swap(i, j) /\ ind' = j
  BY <1>1 DEF SiftDown, Sinking, Rising
<1>3. i \in Held
  <2>1. CASE i < size
    BY <1>1, <2>1, Sizes
  <2>2. CASE ~(i < size)
    \* An empty heap: there is nothing to swap with.
    <3>1. i = 0 /\ size = 0
      BY <1>1, <1>2, <2>2, Sizes DEF SlotInv
    <3>2. Smallest(0) = 0
      BY <3>1 DEF Smallest, Smaller, Left, Right
    <3> QED
      BY <1>1, <1>2, <3>1, <3>2
  <2> QED
    BY <2>1, <2>2
<1>4. /\ j \in Held /\ Parent(j) = i /\ i < j /\ arr[j].score < arr[i].score
      /\ \A k \in Held \ {0} : Parent(k) = i => arr[j].score <= arr[k].score
  BY <1>1, <1>2, <1>3, SmallestIsLeast
<1>5. /\ TypeOK' /\ SlotInv' /\ HeldInv' /\ AwayInv' /\ RankInv'
      /\ Held' = Held /\ arr'[i] = arr[j] /\ arr'[j] = arr[i]
      /\ \A k \in Held : k # i /\ k # j => arr'[k] = arr[k]
  BY <1>1, <1>2, <1>3, <1>4, SwapKeepsItems DEF SiftDown
<1>6. Sinking' /\ ~Rising'
  BY <1>2 DEF SiftDown, Sinking, Rising
<1>7. \A k \in Held \ {0} : Parent(k) \in Held /\ Parent(k) < k /\ k \in Nat
  BY Sizes, ParentBelow
<1>8. \A k \in Held : arr[k].score \in Int
  BY Items DEF SlotInv
<1>9. ASSUME NEW k \in Held \ {0}, Parent(k) # j PROVE arr'[Parent(k)].score <= arr'[k].score
  <2>1. CASE k = j
    BY <1>3, <1>4, <1>5, <1>8, <2>1
  <2>2. CASE k = i
    <3>1. i > 0 /\ j # 0 /\ Parent(i) # i /\ Parent(i) \in Held
      BY <1>3, <1>4, <1>7, <2>2, Sizes
    <3>2. arr[Parent(i)].score <= arr[j].score
      BY <1>1, <1>2, <1>4, <3>1 DEF HeapInv
    <3> QED
      BY <1>5, <1>9, <2>2, <3>1, <3>2
  <2>3. CASE k # i /\ k # j /\ Parent(k) = i
    BY <1>4, <1>5, <2>3
  <2>4. CASE k # i /\ k # j /\ Parent(k) # i
    <3>1. arr[Parent(k)].score <= arr[k].score
      BY <1>1, <1>2, <2>4 DEF HeapInv
    <3> QED
      BY <1>5, <1>7, <1>9, <2>4, <3>1
  <2> QED
    BY <2>1, <2>2, <2>3, <2>4
<1>10. ASSUME NEW k \in Held \ {0}, Parent(k) = j PROVE arr'[Parent(j)].score <= arr'[k].score
  <2>1. k # i /\ k # j /\ j # i
    BY <1>4, <1>7, <1>10, Sizes
  <2>2. arr[j].score <= arr[k].score
    BY <1>1, <1>2, <1>10, <2>1 DEF HeapInv
  <2> QED
    BY <1>4, <1>5, <2>1, <2>2
<1>11. HeapInv'
  BY <1>2, <1>5, <1>6, <1>9, <1>10 DEF HeapInv
<1> QED
  BY <1>5, <1>11

LEMMA PlaceKeeps ==
  ASSUME IInv, Place
  PROVE  IInv'
<1> USE DEF IInv
<1>1. Sinking /\ ~Rising /\ item \in Item /\ size + 1 = MaxSize
  BY DEF Place, Sinking, Rising, SlotInv
<1>2. \A k \in Held \ {0} : arr[Parent(k)].score <= arr[k].score
  <2> SUFFICES ASSUME NEW k \in Held \ {0} PROVE arr[Parent(k)].score <= arr[k].score
    OBVIOUS
  <2>1. CASE Parent(k) # ind
    BY <1>1, <2>1 DEF HeapInv
  <2>2. CASE Parent(k) = ind
    <3>1. ind \in Held
      BY <2>2, Sizes, ParentBelow
    <3>2. arr[Smallest(ind)].score <= arr[k].score
      BY <2>2, <3>1, SmallestIsLeast
    <3> QED
      BY <2>2, <3>2 DEF Place
  <2> QED
    BY <2>1, <2>2
<1>3. Puts(item)
  BY <1>1, Sizes DEF Place, Puts
<1>4. /\ arr' \in [Slots -> Item \cup {NoItem}] /\ size' \in 0 .. MaxSize /\ ind' \in Slots
      /\ Held' = Held \cup {size} /\ size \notin Held
      /\ arr'[size] = item /\ \A k \in Held : arr'[k] = arr[k]
      /\ SlotInv' /\ HeapInv'
  BY <1>1, <1>2, <1>3, PutKeepsHeap
<1>5. TypeOK'
  BY <1>4 DEF Place, TypeOK
<1>6. ~Sinking' /\ size' = MaxSize
  BY <1>1 DEF Place, Sinking
<1>7. HeldInv'
  BY <1>1, <1>4, <1>6 DEF HeldInv, Place
<1>8. AwayInv'
  <2>1. Offered' = Offered /\ given' = given
    BY DEF Offered, Place
  <2>2. ASSUME NEW i \in Offered
        PROVE  (\E k \in Held' : arr'[k].index = i) \/ \A k \in Held' : given[i] <= arr'[k].score
    <3>1. CASE Kept(i)
      BY <1>4, <3>1 DEF Kept, Held
    <3>2. CASE i = item.index
      BY <1>4, <3>2
    <3>3. CASE ~Kept(i) /\ i # item.index
      BY <1>1, <1>4, <3>3 DEF AwayInv
    <3> QED
      BY <3>1, <3>2, <3>3
  <2>3. \A i : Kept(i)' <=> \E k \in Held' : arr'[k].index = i
    BY DEF Kept, Held
  <2> QED
    BY <1>6, <2>1, <2>2, <2>3 DEF AwayInv, Place
<1>9. RankInv'
  <2>1. result' = <<>> /\ pc' # "done"
    BY <1>1 DEF RankInv, Place
  <2> QED
    BY <2>1, NoRanks
<1> QED
  BY <1>4, <1>5, <1>7, <1>8, <1>9

LEMMA SiftUpKeeps ==
  ASSUME IInv, SiftUp
  PROVE  IInv'
<1> USE DEF IInv
<1>1. PICK i, j : i = Parent(ind) /\ j = ind
  OBVIOUS
<1>2. ~Sinking /\ Rising /\ Swap(i, j) /\ ind' = i /\ j > 0 /\ arr[i].score > arr[j].score
  BY <1>1 DEF SiftUp, Rises, Sinking, Rising
<1>3. j \in Held /\ i \in Held /\ i < j
  BY <1>1, <1>2, Sizes, ParentBelow DEF SlotInv
<1>4. \A k \in Held \ {0} : Parent(k) \in Held /\ Parent(k) < k /\ k \in Nat
  BY Sizes, ParentBelow
<1>5. \A k \in Held : arr[k].score \in Int
  BY Items DEF SlotInv
<1>6. /\ TypeOK' /\ SlotInv' /\ HeldInv' /\ AwayInv' /\ RankInv'
      /\ Held' = Held /\ arr'[i] = arr[j] /\ arr'[j] = arr[i]
      /\ \A k \in Held : k # i /\ k # j => arr'[k] = arr[k]
  BY <1>1, <1>2, <1>3, SwapKeepsItems DEF SiftUp
<1>7. ~Sinking' /\ Rising'
  BY <1>2 DEF SiftUp, Sinking, Rising
<1>8. ASSUME NEW k \in Held \ {0}, k # i PROVE arr'[Parent(k)].score <= arr'[k].score
  <2>1. CASE k = j
    BY <1>1, <1>2, <1>3, <1>5, <1>6, <2>1
  <2>2. CASE k # j /\ Parent(k) = j
    <3>1. arr[i].score <= arr[k].score
      BY <1>1, <1>2, <2>2 DEF HeapInv
    <3> QED
      BY <1>6, <1>8, <2>2, <3>1
  <2>3. CASE k # j /\ Parent(k) = i
    <3>1. arr[i].score <= arr[k].score
      BY <1>1, <1>2, <2>3 DEF HeapInv
    <3> QED
      BY <1>2, <1>3, <1>4, <1>5, <1>6, <1>8, <2>3, <3>1
  <2>4. CASE k # j /\ Parent(k) # j /\ Parent(k) # i
    <3>1. arr[Parent(k)].score <= arr[k].score
      BY <1>1, <1>2, <2>4 DEF HeapInv
    <3> QED
      BY <1>4, <1>6, <1>8, <2>4, <3>1
  <2> QED
    BY <2>1, <2>2, <2>3, <2>4
<1>9. ASSUME NEW k \in Held \ {0}, Parent(k) = i, i > 0
      PROVE  arr'[Parent(i)].score <= arr'[k].score
  <2>1. i \in Held \ {0} /\ Parent(i) \in Held /\ Parent(i) # i /\ Parent(i) # j /\ i # j
    BY <1>3, <1>4, <1>9, Sizes
  <2>2. arr[Parent(i)].score <= arr[i].score /\ arr'[Parent(i)] = arr[Parent(i)]
    BY <1>1, <1>2, <1>6, <2>1 DEF HeapInv
  <2>3. CASE k = j
    BY <1>6, <2>2, <2>3
  <2>4. CASE k # j
    <3>1. arr[i].score <= arr[k].score /\ k # i
      BY <1>1, <1>2, <1>4, <1>9, <2>4 DEF HeapInv
    <3>2. arr'[k] = arr[k]
      BY <1>6, <2>4, <3>1
    <3>3. arr[Parent(i)].score \in Int /\ arr[i].score \in Int /\ arr[k].score \in Int
      BY <1>5, <2>1
    <3> QED
      BY <2>2, <3>1, <3>2, <3>3
  <2> QED
    BY <2>3, <2>4
<1>10. HeapInv'
  BY <1>2, <1>6, <1>7, <1>8, <1>9 DEF HeapInv
<1> QED
  BY <1>6, <1>10

LEMMA PlacedKeeps ==
  ASSUME IInv, Placed
  PROVE  IInv'
<1> USE DEF IInv, Placed, heap
<1>1. ~Sinking /\ Rising /\ ~Sinking' /\ ~Rising'
  BY DEF Sinking, Rising
<1>2. Held' = Held /\ Unranked' = Unranked
  BY DEF Held, Unranked
<1>3. 0 \in Slots
  BY Sizes
<1>4. TypeOK'
  BY <1>3 DEF TypeOK
<1>5. SlotInv' /\ HeldInv'
  BY <1>1, <1>2 DEF SlotInv, HeldInv
<1>6. HeapInv'
  <2> SUFFICES ASSUME NEW k \in Held \ {0} PROVE arr[Parent(k)].score <= arr[k].score
    BY <1>1, <1>2 DEF HeapInv
  <2>1. arr[Parent(k)].score \in Int /\ arr[k].score \in Int /\ k > 0
    BY Sizes, Items, ParentBelow DEF SlotInv
  <2>2. CASE k = ind
    BY <2>1, <2>2 DEF Rises
  <2>3. CASE k # ind
    BY <1>1, <2>3 DEF HeapInv
  <2> QED
    BY <2>2, <2>3
<1>7. AwayInv'
  BY <1>1, <1>2 DEF AwayInv, Offered, Kept
<1>8. RankInv'
  <2>1. result' = <<>> /\ pc' # "done"
    BY <1>1 DEF RankInv
  <2> QED
    BY <2>1, NoRanks
<1> QED
  BY <1>4, <1>5, <1>6, <1>7, <1>8

\* What is left of the heap when the results are listed.
LEMMA UnrankedIs ==
  \A k : k \in Unranked <=> k \in Held /\ \A m \in DOMAIN result : result[m] # arr[k]
  BY DEF Unranked, Held

LEMMA RankKeeps ==
  ASSUME IInv, NEW k \in Slots, Rank(k)
  PROVE  IInv'
<1> USE DEF IInv, Rank, heap
<1>1. Held' = Held /\ ~Sinking /\ ~Rising /\ ~Sinking' /\ ~Rising' /\ pc' # "done"
  BY DEF Held, Sinking, Rising
<1>2. k \in Held /\ arr[k] \in Item
  BY UnrankedIs DEF SlotInv
<1>3. result \in Seq(Item) /\ result' \in Seq(Item)
  BY <1>2 DEF TypeOK
<1>4. TypeOK'
  BY <1>3 DEF TypeOK
<1>5. SlotInv' /\ HeapInv' /\ HeldInv' /\ AwayInv'
  BY <1>1 DEF SlotInv, HeapInv, HeldInv, AwayInv, Offered, Kept
<1>6. PICK n \in Nat : n = Len(result) /\ DOMAIN result = 1 .. n /\ DOMAIN result' = 1 .. n + 1
  BY <1>2, <1>3
<1>7. result'[n + 1] = arr[k] /\ \A m \in 1 .. n : result'[m] = result[m]
  BY <1>2, <1>3, <1>6
<1>8. \A m \in 1 .. n + 1 : m = n + 1 \/ m \in 1 .. n
  BY <1>6
<1>9. \A m \in DOMAIN result' : \E j \in Held : result'[m] = arr[j]
  BY <1>2, <1>6, <1>7, <1>8 DEF RankInv
<1>10. \A m \in DOMAIN result' : result'[m].score \in Int
  BY <1>9, Items DEF SlotInv
<1>11. ASSUME NEW a \in DOMAIN result', NEW b \in DOMAIN result', a <= b
       PROVE  result'[a].score >= result'[b].score
  <2>1. CASE b \in 1 .. n
    <3>1. a \in 1 .. n
      BY <1>6, <1>11, <2>1
    <3> QED
      BY <1>6, <1>7, <1>11, <2>1, <3>1 DEF RankInv
  <2>2. CASE b = n + 1 /\ a \in 1 .. n
    BY <1>6, <1>7, <2>2 DEF RankInv
  <2>3. CASE b = n + 1 /\ a = n + 1
    BY <1>10, <2>3
  <2> QED
    BY <1>6, <1>8, <2>1, <2>2, <2>3
<1>12. ASSUME NEW a \in DOMAIN result', NEW j \in Unranked'
       PROVE  result'[a].score >= arr[j].score
  <2>1. j \in Held /\ \A m \in DOMAIN result' : result'[m] # arr[j]
    BY <1>1, <1>12 DEF Unranked, Held
  <2>2. j \in Unranked
    BY <1>6, <1>7, <2>1, UnrankedIs
  <2>3. CASE a \in 1 .. n
    BY <1>6, <1>7, <2>2, <2>3 DEF RankInv
  <2>4. CASE a = n + 1
    BY <1>2, <1>7, <2>1, <2>2, <2>4, Items DEF SlotInv
  <2> QED
    BY <1>6, <1>8, <2>3, <2>4
<1>13. RankInv'
  BY <1>1, <1>9, <1>11, <1>12 DEF RankInv
<1> QED
  BY <1>4, <1>5, <1>13

LEMMA FinishKeeps ==
  ASSUME IInv, Finish
  PROVE  IInv'
<1> USE DEF IInv, Finish, heap
<1>1. Held' = Held /\ Unranked' = Unranked /\ Unranked = {}
      /\ ~Sinking /\ ~Rising /\ ~Sinking' /\ ~Rising'
  BY DEF Held, Unranked, Sinking, Rising
<1>2. TypeOK'
  BY DEF TypeOK
<1>3. SlotInv' /\ HeapInv' /\ HeldInv' /\ AwayInv'
  BY <1>1 DEF SlotInv, HeapInv, HeldInv, AwayInv, Offered, Kept
<1>4. RankInv'
  BY <1>1 DEF RankInv
<1> QED
  BY <1>2, <1>3, <1>4

\* Every step keeps the invariant.
LEMMA StepIInv == IInv /\ [Next]_vars => IInv'
<1> SUFFICES ASSUME IInv, [Next]_vars PROVE IInv'
  OBVIOUS
<1>1. CASE UNCHANGED vars
  BY <1>1 DEF vars, heap, IInv, TypeOK, SlotInv, HeapInv, HeldInv, AwayInv, RankInv, Held,
              Sinking, Rising, Offered, Kept, Unranked
<1>2. ASSUME NEW s \in Scores, Insert(s) PROVE IInv'
  BY <1>2, InsertFirstKeeps, InsertLowKeeps, InsertCutKeeps, InsertLastKeeps DEF Insert
<1>3. CASE Skip \/ SiftDown \/ Place \/ SiftUp \/ Placed \/ Finish
  BY <1>3, SkipKeeps, SiftDownKeeps, PlaceKeeps, SiftUpKeeps, PlacedKeeps, FinishKeeps
<1>4. ASSUME NEW k \in Slots, Rank(k) PROVE IInv'
  BY <1>4, RankKeeps
<1> QED
  BY <1>1, <1>2, <1>3, <1>4 DEF Next

-----------------------------------------------------------------------------
\* At most one item is out of order, and only where the sift is.
THEOREM Invariance == Spec => []IInv
  BY InitIInv, StepIInv, PTL DEF Spec

\* No index leaves the heap (main.c:1332, 1367).
THEOREM TypeCorrect == Spec => []TypeOK
<1>1. IInv => TypeOK
  BY DEF IInv
<1> QED
  BY Invariance, <1>1, PTL

\* Between two insertions the array is a heap (main.c:1287-1385).
THEOREM StaysHeap == Spec => []HeapOrdered
<1>1. IInv => HeapOrdered
  <2> SUFFICES ASSUME IInv, pc = "offer", NEW k \in 1 .. size - 1
               PROVE  arr[Parent(k)].score <= arr[k].score
    BY DEF HeapOrdered
  <2>1. k \in Held \ {0}
    BY Sizes DEF IInv
  <2> QED
    BY <2>1 DEF IInv, HeapInv, Sinking, Rising
<1> QED
  BY Invariance, <1>1, PTL

\* The best files are kept, each once and with its score (main.c:1388-1433).
THEOREM KeepsBest == Spec => []BestKept
<1>1. IInv => BestKept
  <2> SUFFICES ASSUME IInv, pc = "offer" PROVE BestKept
    BY DEF BestKept
  <2>1. ~Sinking /\ ~Rising
    BY DEF Sinking, Rising
  <2>2. \A k \in Held : arr[k].index \in Offered /\ arr[k].score = given[arr[k].index]
    BY Items DEF IInv, SlotInv, HeldInv, Offered
  <2>3. \A i \in Offered : Kept(i) \/ (size = MaxSize /\ \A k \in Held : given[i] <= arr[k].score)
    BY <2>1 DEF IInv, AwayInv
  <2> QED
    BY <2>2, <2>3 DEF BestKept, IInv, HeldInv, Held
<1> QED
  BY Invariance, <1>1, PTL

\* The list shown has the best files, best first (main.c:1434-1440).
THEOREM RanksBest == Spec => []RankedBest
<1>1. IInv => RankedBest
  <2> SUFFICES ASSUME IInv, pc = "done" PROVE RankedBest
    BY DEF RankedBest
  <2>1. \A m \in DOMAIN result : \E k \in Held : result[m] = arr[k]
    BY DEF IInv, RankInv
  <2>2. \A k \in Held : \E m \in DOMAIN result : result[m] = arr[k]
    BY UnrankedIs DEF IInv, RankInv
  <2>3. ASSUME NEW i \in Offered
        PROVE  \/ \E m \in DOMAIN result : result[m] = [score |-> given[i], index |-> i]
               \/ \A m \in DOMAIN result : result[m].score >= given[i]
    <3>1. CASE Kept(i)
      <4>1. PICK k \in Held : arr[k].index = i
        BY <3>1 DEF Kept, Held
      <4>2. arr[k] \in Item /\ arr[k].score = given[i]
        BY <4>1 DEF IInv, SlotInv, HeldInv
      <4>3. arr[k] = [score |-> given[i], index |-> i]
        BY <4>1, <4>2 DEF Item
      <4> QED
        BY <2>2, <4>1, <4>3
    <3>2. CASE ~Kept(i)
      <4>1. \A k \in Held : given[i] <= arr[k].score
        BY <3>2 DEF IInv, AwayInv, Sinking
      <4>2. given[i] \in Int /\ \A k \in Held : arr[k].score \in Int
        BY Items, ScoresAssumption DEF IInv, SlotInv, TypeOK, Offered
      <4> QED
        BY <2>1, <4>1, <4>2
    <3> QED
      BY <3>1, <3>2
  <2>4. \A m \in DOMAIN result : result[m].index \in Offered
    BY <2>1, Items DEF IInv, SlotInv, HeldInv, Offered
  <2> QED
    BY <2>3, <2>4 DEF RankedBest, IInv, RankInv
<1> QED
  BY Invariance, <1>1, PTL
=============================================================================
