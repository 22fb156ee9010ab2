------------------------ MODULE RankedInsert_proofs -------------------------
(***************************************************************************)
(* Lemmas about the shared insertion, for every capacity and every strict  *)
(* total order, and about the loops around it, which are left folds of a   *)
(* sequence.  They are cited through an INSTANCE by the proofs of the      *)
(* containers.                                                             *)
(***************************************************************************)
EXTENDS RankedInsert, Folds, WellFoundedInduction, TLAPS

(* One round of a loop: what it only reads, twice, the value so far and    *)
(* the entry of the sequence it has come to.                               *)
CONSTANT Step(_, _, _, _)

(* Every nonempty set of naturals has a least element, since the order of  *)
(* the naturals is well founded; the search loop of the code needs it to   *)
(* have a first stopping position.                                         *)
LEMMA NatHasMin ==
  ASSUME NEW T \in SUBSET Nat, T # {}
  PROVE  \E x \in T : \A y \in T : x <= y
<1> DEFINE Less == OpToRel(<, Nat)
<1>1. IsWellFoundedOn(Less, Nat)
  BY NatLessThanWellFounded
<1>2. \A x, y \in Nat : <<x, y>> \in Less <=> x < y
  BY DEF OpToRel
<1> HIDE DEF Less
<1>3. PICK x \in T : \A y \in T : <<y, x>> \notin Less
  BY <1>1, WFMin
<1>4. \A y \in T : x <= y
  <2> SUFFICES ASSUME NEW y \in T PROVE x <= y
    OBVIOUS
  <2>1. ~ y < x
    BY <1>2, <1>3
  <2>2. x \in Nat /\ y \in Nat
    OBVIOUS
  <2> QED BY <2>1, <2>2
<1> QED BY <1>4

(* The search loop of insert_ranked stops, at the first entry the new item *)
(* precedes or just after the last entry.                                  *)
LEMMA PositionProperties ==
  ASSUME NEW S, NEW list \in Seq(S), NEW item
  PROVE  LET p == Position(list, item)
         IN  /\ p \in 1 .. Len(list) + 1
             /\ \A q \in 1 .. p - 1 : ~ Before(item, list[q])
             /\ p = Len(list) + 1 \/ Before(item, list[p])
<1> DEFINE T == {p \in 1 .. Len(list) + 1 :
                    p = Len(list) + 1 \/ Before(item, list[p])}
<1>1. T \subseteq Nat /\ T # {}
  <2>1. Len(list) + 1 \in T
    OBVIOUS
  <2> QED BY <2>1
<1>2. PICK p \in T : \A y \in T : p <= y
  BY <1>1, NatHasMin
<1>3. \A q \in 1 .. p - 1 : ~ Before(item, list[q])
  <2> SUFFICES ASSUME NEW q \in 1 .. p - 1, Before(item, list[q])
               PROVE  FALSE
    OBVIOUS
  <2>1. q \in T
    BY <1>2
  <2> QED BY <2>1, <1>2
<1> HIDE DEF T
<1>4. \E r \in 1 .. Len(list) + 1 :
        /\ \A q \in 1 .. r - 1 : ~ Before(item, list[q])
        /\ r = Len(list) + 1 \/ Before(item, list[r])
  BY <1>2, <1>3 DEF T
<1> QED BY <1>4 DEF Position

LEMMA ConcatIs ==
  ASSUME NEW S, NEW left \in Seq(S), NEW right \in Seq(S)
  PROVE  /\ left \o right \in Seq(S)
         /\ Len(left \o right) = Len(left) + Len(right)
         /\ \A i \in 1 .. Len(left) + Len(right) :
               (left \o right)[i] = IF i <= Len(left) THEN left[i] ELSE right[i - Len(left)]
OBVIOUS

(* Shifted, entry by entry: the entries before p stay, the later ones     *)
(* move up by one.                                                         *)
LEMMA ShiftedEntries ==
  ASSUME NEW S, NEW list \in Seq(S), NEW item \in S,
         NEW p \in 1 .. Len(list) + 1
  PROVE  /\ Shifted(list, p, item) \in Seq(S)
         /\ Len(Shifted(list, p, item)) = Len(list) + 1
         /\ \A i \in 1 .. Len(list) + 1 :
               Shifted(list, p, item)[i] =
                 IF i < p THEN list[i] ELSE IF i = p THEN item ELSE list[i - 1]
<1> DEFINE front == SubSeq(list, 1, p - 1)
           back  == SubSeq(list, p, Len(list))
           one   == <<item>>
           head  == front \o one
<1>1. /\ front \in Seq(S) /\ Len(front) = p - 1
      /\ \A i \in 1 .. p - 1 : front[i] = list[i]
  OBVIOUS
<1>2. /\ back \in Seq(S) /\ Len(back) = Len(list) - p + 1
      /\ \A i \in 1 .. Len(list) - p + 1 : back[i] = list[p + i - 1]
  OBVIOUS
<1>3. Shifted(list, p, item) = head \o back
  BY DEF Shifted
<1> HIDE DEF front, back
<1>4. one \in Seq(S) /\ Len(one) = 1 /\ one[1] = item
  OBVIOUS
<1> HIDE DEF one
<1>5. /\ head \in Seq(S) /\ Len(head) = p
      /\ \A i \in 1 .. p : head[i] = IF i < p THEN list[i] ELSE item
  <2>1. /\ head \in Seq(S) /\ Len(head) = Len(front) + Len(one)
        /\ \A i \in 1 .. Len(front) + Len(one) :
              head[i] = IF i <= Len(front) THEN front[i] ELSE one[i - Len(front)]
    BY <1>1, <1>4, ConcatIs
  <2> HIDE DEF head
  <2>2. Len(front) = p - 1 /\ Len(front) + Len(one) = p
    BY <1>1, <1>4
  <2>3. \A i \in 1 .. p : i < p => head[i] = list[i]
    BY <1>1, <2>1, <2>2
  <2>4. head[p] = item
    BY <1>4, <2>1, <2>2
  <2> QED BY <2>1, <2>2, <2>3, <2>4
<1> HIDE DEF head
<1>6. /\ head \o back \in Seq(S) /\ Len(head \o back) = Len(list) + 1
      /\ \A i \in 1 .. Len(list) + 1 :
            (head \o back)[i] = IF i <= p THEN head[i] ELSE back[i - p]
  <2>1. /\ head \o back \in Seq(S)
        /\ Len(head \o back) = Len(head) + Len(back)
        /\ \A i \in 1 .. Len(head) + Len(back) :
              (head \o back)[i] = IF i <= Len(head) THEN head[i]
                                  ELSE back[i - Len(head)]
    BY <1>2, <1>5, ConcatIs
  <2>2. Len(head) = p /\ Len(head) + Len(back) = Len(list) + 1
    BY <1>2, <1>5
  <2> QED BY <2>1, <2>2, SMTT(30)
<1>7. \A i \in 1 .. Len(list) + 1 :
        i > p => back[i - p] = list[i - 1]
  BY <1>2
<1> QED BY <1>3, <1>5, <1>6, <1>7

(* insert_ranked, entry by entry, and the capacity it respects.            *)
LEMMA InsertRankedEntries ==
  ASSUME Capacity \in Nat, NEW S, NEW list \in Seq(S), NEW item \in S,
         Len(list) <= Capacity
  PROVE  LET p   == Position(list, item)
             new == InsertRanked(list, item)
         IN  /\ new \in Seq(S)
             /\ Len(new) = LengthAfter(list)
             /\ LengthAfter(list) \in Nat
             /\ LengthAfter(list) <= Capacity
             /\ LengthAfter(list) <= Len(list) + 1
             /\ \A i \in 1 .. Len(new) :
                   new[i] = IF i < p THEN list[i]
                            ELSE IF i = p THEN item ELSE list[i - 1]
<1> DEFINE p    == Position(list, item)
           long == Shifted(list, p, item)
           m    == LengthAfter(list)
<1>1. m \in Nat /\ m <= Capacity /\ m <= Len(list) + 1
  BY DEF LengthAfter
<1>2. p \in 1 .. Len(list) + 1
  BY PositionProperties
<1>3. /\ long \in Seq(S) /\ Len(long) = Len(list) + 1
      /\ \A i \in 1 .. Len(list) + 1 :
            long[i] = IF i < p THEN list[i] ELSE IF i = p THEN item ELSE list[i - 1]
  <2> HIDE DEF p
  <2> QED BY <1>2, ShiftedEntries
<1> HIDE DEF long, p, m
<1>4. /\ SubSeq(long, 1, m) \in Seq(S)
      /\ Len(SubSeq(long, 1, m)) = m
      /\ \A i \in 1 .. m : SubSeq(long, 1, m)[i] = long[i]
  BY <1>1, <1>3
<1>5. InsertRanked(list, item) = SubSeq(long, 1, m)
  BY DEF InsertRanked, long, p, m
<1> QED BY <1>1, <1>3, <1>4, <1>5 DEF p, m

(* The elements of a list, by index.                                       *)
LEMMA ElementsOf ==
  ASSUME NEW S, NEW list \in Seq(S)
  PROVE  /\ \A x : x \in Elements(list) <=> \E i \in 1 .. Len(list) : x = list[i]
         /\ Elements(list) \subseteq S
BY DEF Elements

(* Where an inserted list keeps its old entries: entry i of the old list   *)
(* is at i or i + 1 of the new one, unless it was the last of a full list. *)
LEMMA InsertedElements ==
  ASSUME Capacity \in Nat, NEW S, NEW list \in Seq(S), NEW item \in S,
         Len(list) <= Capacity
  PROVE  LET p   == Position(list, item)
             new == InsertRanked(list, item)
         IN  /\ \A i \in 1 .. Len(new) : new[i] \in Elements(list) \cup {item}
             /\ \A x \in Elements(list) \ Elements(new) :
                   /\ Len(list) = Capacity
                   /\ p <= Len(list)
                   /\ x = list[Len(list)]
             /\ item \notin Elements(new) => /\ Len(list) = Capacity
                                          /\ p = Len(list) + 1
<1> DEFINE p   == Position(list, item)
           new == InsertRanked(list, item)
<1>1. /\ new \in Seq(S) /\ Len(new) = LengthAfter(list)
      /\ Len(new) \in Nat /\ Len(new) <= Capacity /\ Len(new) <= Len(list) + 1
      /\ \A i \in 1 .. Len(new) :
            new[i] = IF i < p THEN list[i] ELSE IF i = p THEN item ELSE list[i - 1]
  BY InsertRankedEntries
<1>2. p \in 1 .. Len(list) + 1
  BY PositionProperties
<1>3. Len(list) \in Nat
  OBVIOUS
<1> HIDE DEF p, new
<1>4. /\ Len(list) < Capacity => Len(new) = Len(list) + 1
      /\ Len(list) = Capacity => Len(new) = Len(list)
  BY <1>1, <1>3 DEF LengthAfter
<1>5. \A i \in 1 .. Len(new) : new[i] \in Elements(list) \cup {item}
  <2> SUFFICES ASSUME NEW i \in 1 .. Len(new)
               PROVE  new[i] \in Elements(list) \cup {item}
    OBVIOUS
  <2>1. CASE i < p
    BY <2>1, <1>1, <1>2, <1>3, ElementsOf
  <2>2. CASE i = p
    BY <2>2, <1>1
  <2>3. CASE i > p
    <3>1. i - 1 \in 1 .. Len(list) /\ new[i] = list[i - 1]
      BY <2>3, <1>1, <1>2, <1>3
    <3> QED BY <3>1, ElementsOf
  <2> QED BY <2>1, <2>2, <2>3, <1>2
<1>6. ASSUME NEW x \in Elements(list) \ Elements(new)
      PROVE  Len(list) = Capacity /\ p <= Len(list) /\ x = list[Len(list)]
  <2>1. PICK i \in 1 .. Len(list) : x = list[i]
    BY ElementsOf
  <2>2. i >= p
    <3> SUFFICES ASSUME i < p PROVE FALSE
      BY <1>2
    <3>1. i \in 1 .. Len(new) /\ new[i] = x
      BY <2>1, <1>1, <1>2, <1>3, <1>4
    <3> QED BY <3>1, <1>1, ElementsOf
  <2>3. i + 1 > Len(new)
    <3> SUFFICES ASSUME i + 1 <= Len(new) PROVE FALSE
      BY <1>1
    <3>1. i + 1 \in 1 .. Len(new) /\ new[i + 1] = x
      BY <2>1, <2>2, <1>1, <1>2, <1>3
    <3> QED BY <3>1, <1>1, ElementsOf
  <2> QED BY <2>1, <2>2, <2>3, <1>2, <1>3, <1>4
<1>7. ASSUME item \notin Elements(new)
      PROVE  Len(list) = Capacity /\ p = Len(list) + 1
  <2>1. p > Len(new)
    <3> SUFFICES ASSUME p <= Len(new) PROVE FALSE
      BY <1>1, <1>2
    <3>1. p \in 1 .. Len(new) /\ new[p] = item
      BY <1>1, <1>2
    <3> QED BY <3>1, <1>1, <1>7, ElementsOf
  <2> QED BY <2>1, <1>2, <1>3, <1>4
<1> QED BY <1>5, <1>6, <1>7 DEF p, new

(* Inserting an item into the first Capacity elements of S yields the first*)
(* Capacity elements of S together with the item.                          *)
LEMMA InsertKeepsTopK ==
  ASSUME Capacity \in Nat, NEW U, NEW S \in SUBSET U, NEW list \in Seq(U),
         NEW item \in U \ S, StrictTotalOrder(S \cup {item}), IsTopK(list, S)
  PROVE  IsTopK(InsertRanked(list, item), S \cup {item})
<1> DEFINE p   == Position(list, item)
           new == InsertRanked(list, item)
<1>1. Len(list) <= Capacity /\ Len(list) \in Nat /\ Elements(list) \subseteq S
  BY DEF IsTopK
<1>2. /\ new \in Seq(U)
      /\ Len(new) \in Nat /\ Len(new) <= Capacity /\ Len(new) <= Len(list) + 1
      /\ \A i \in 1 .. Len(new) :
            new[i] = IF i < p THEN list[i] ELSE IF i = p THEN item ELSE list[i - 1]
  BY <1>1, InsertRankedEntries
<1>3. /\ p \in 1 .. Len(list) + 1
      /\ \A q \in 1 .. p - 1 : ~ Before(item, list[q])
      /\ p = Len(list) + 1 \/ Before(item, list[p])
  BY PositionProperties
<1>4. /\ \A i \in 1 .. Len(new) : new[i] \in Elements(list) \cup {item}
      /\ \A x \in Elements(list) \ Elements(new) :
            Len(list) = Capacity /\ p <= Len(list) /\ x = list[Len(list)]
      /\ item \notin Elements(new) => Len(list) = Capacity /\ p = Len(list) + 1
  BY <1>1, InsertedElements
<1>5. \A i, j \in 1 .. Len(list) : i < j => Before(list[i], list[j])
  BY DEF IsTopK, Ascending
<1>6. \A i \in 1 .. Len(list) : list[i] \in S
  BY <1>1, ElementsOf
<1>7. (Len(list) < Capacity => Len(new) = Len(list) + 1)
      /\ (Len(list) = Capacity => Len(new) = Capacity)
  BY <1>1, InsertRankedEntries DEF LengthAfter
<1> HIDE DEF p, new
<1>8. \A q \in 1 .. p - 1 : Before(list[q], item)
  BY <1>1, <1>3, <1>6 DEF StrictTotalOrder
<1>9. \A q \in p .. Len(list) : Before(item, list[q])
  <2> SUFFICES ASSUME NEW q \in p .. Len(list)
               PROVE  Before(item, list[q])
    OBVIOUS
  <2>1. p \in 1 .. Len(list) /\ q \in 1 .. Len(list) /\ Before(item, list[p])
    BY <1>1, <1>3
  <2>2. q = p \/ Before(list[p], list[q])
    BY <2>1, <1>5
  <2>3. list[p] \in S \cup {item} /\ list[q] \in S \cup {item}
    BY <2>1, <1>6
  <2> QED BY <2>1, <2>2, <2>3 DEF StrictTotalOrder
<1>10. Ascending(new)
  <2> SUFFICES ASSUME NEW i \in 1 .. Len(new), NEW j \in 1 .. Len(new), i < j
               PROVE  Before(new[i], new[j])
    BY DEF Ascending
  <2>1. CASE j < p
    BY <2>1, <1>1, <1>2, <1>3, <1>5
  <2>2. CASE j = p
    BY <2>2, <1>1, <1>2, <1>3, <1>8
  <2>3. CASE j > p /\ i < p
    <3>1. i \in 1 .. Len(list) /\ j - 1 \in 1 .. Len(list)
          /\ new[i] = list[i] /\ new[j] = list[j - 1]
      BY <2>3, <1>1, <1>2, <1>3
    <3>2. Before(list[i], item) /\ Before(item, list[j - 1])
      BY <2>3, <3>1, <1>3, <1>8, <1>9
    <3>3. list[i] \in S \cup {item} /\ list[j - 1] \in S \cup {item}
      BY <3>1, <1>6
    <3> QED BY <3>1, <3>2, <3>3 DEF StrictTotalOrder
  <2>4. CASE j > p /\ i = p
    <3>1. j - 1 \in p .. Len(list) /\ new[i] = item /\ new[j] = list[j - 1]
      BY <2>4, <1>1, <1>2, <1>3
    <3> QED BY <3>1, <1>9
  <2>5. CASE i > p
    <3>1. i - 1 \in 1 .. Len(list) /\ j - 1 \in 1 .. Len(list)
          /\ new[i] = list[i - 1] /\ new[j] = list[j - 1]
      BY <2>5, <1>1, <1>2, <1>3
    <3> QED BY <3>1, <1>5
  <2> QED BY <2>1, <2>2, <2>3, <2>4, <2>5, <1>3
<1>11. Elements(new) \subseteq S \cup {item}
  BY <1>1, <1>2, <1>4, ElementsOf
<1>12. ASSUME NEW x \in (S \cup {item}) \ Elements(new)
       PROVE  /\ Len(new) = Capacity
              /\ \A i \in 1 .. Len(new) : Before(new[i], x)
  <2>1. Len(list) = Capacity
    BY <1>4 DEF IsTopK
  <2>2. Len(new) = Capacity
    BY <2>1, <1>7
  <2>3. CASE x = item
    <3>1. p = Len(list) + 1
      BY <2>3, <1>4
    <3>2. \A i \in 1 .. Len(new) : new[i] = list[i] /\ i \in 1 .. p - 1
      BY <3>1, <2>1, <2>2, <1>1, <1>2
    <3> QED BY <3>2, <2>2, <2>3, <1>8
  <2>4. CASE x \in S /\ x \notin Elements(list)
    <3>1. \A i \in 1 .. Len(list) : Before(list[i], x)
      BY <2>4 DEF IsTopK
    <3> SUFFICES ASSUME NEW i \in 1 .. Len(new)
                 PROVE  Before(new[i], x)
      BY <2>2
    <3>2. CASE new[i] \in Elements(list)
      BY <3>1, <3>2, ElementsOf
    <3>3. CASE new[i] = item
      <4>1. p <= Len(list)
        <5> SUFFICES ASSUME p = Len(list) + 1 PROVE FALSE
          BY <1>1, <1>3
        <5>1. i \in 1 .. Len(list) /\ new[i] = list[i]
          BY <2>1, <2>2, <1>1, <1>2
        <5> QED BY <5>1, <3>3, <1>6
      <4>2. Before(item, list[p]) /\ Before(list[p], x) /\ list[p] \in S
        BY <4>1, <3>1, <1>3, <1>6
      <4> QED BY <4>2, <3>3, <2>4 DEF StrictTotalOrder
    <3> QED BY <3>2, <3>3, <1>4
  <2>5. CASE x \in Elements(list)
    <3>1. p <= Len(list) /\ x = list[Len(list)]
      BY <2>5, <1>4
    <3>2. x \in S \cup {item}
      OBVIOUS
    <3> SUFFICES ASSUME NEW i \in 1 .. Len(new)
                 PROVE  Before(new[i], x)
      BY <2>2
    <3>3. CASE i < p
      BY <3>1, <3>3, <2>1, <2>2, <1>1, <1>2, <1>3, <1>5
    <3>4. CASE i = p
      BY <3>1, <3>4, <1>1, <1>2, <1>3, <1>9
    <3>5. CASE i > p
      <4>1. i - 1 \in 1 .. Len(list) /\ i - 1 < Len(list) /\ new[i] = list[i - 1]
        BY <3>5, <2>1, <2>2, <1>1, <1>2, <1>3
      <4> QED BY <4>1, <3>1, <1>1, <1>5
    <3> QED BY <3>3, <3>4, <3>5, <1>3
  <2> QED BY <2>3, <2>4, <2>5
<1> QED BY <1>2, <1>10, <1>11, <1>12 DEF IsTopK, new

(* The first Capacity elements of S in order are one list, no matter how   *)
(* it was built: the claim behind "input order cannot change retained      *)
(* ordering".  The proof looks at the first index where two such lists     *)
(* differ.                                                                 *)
LEMMA TopKUnique ==
  ASSUME Capacity \in Nat, NEW S, StrictTotalOrder(S),
         NEW a \in Seq(S), IsTopK(a, S),
         NEW b \in Seq(S), IsTopK(b, S)
  PROVE  a = b
<1> DEFINE Agree(i) == i <= Len(a) /\ i <= Len(b) /\ a[i] = b[i]
           Differ   == {i \in Nat \ {0} : (i <= Len(a) \/ i <= Len(b)) /\ ~ Agree(i)}
<1>1. Len(a) \in Nat /\ Len(b) \in Nat /\ Len(a) <= Capacity /\ Len(b) <= Capacity
  BY DEF IsTopK
<1>2. CASE Differ = {}
  <2>1. \A i \in 1 .. Len(a) : i <= Len(b) /\ a[i] = b[i]
    BY <1>1, <1>2
  <2>2. \A i \in 1 .. Len(b) : i <= Len(a)
    BY <1>1, <1>2
  <2>3. Len(a) = Len(b)
    BY <1>1, <2>1, <2>2
  <2> QED BY <2>1, <2>3
<1>3. CASE Differ # {}
  <2>1. PICK n \in Differ : \A i \in Differ : n <= i
    BY <1>3, NatHasMin
  <2>2. n \in Nat \ {0} /\ (n <= Len(a) \/ n <= Len(b)) /\ ~ Agree(n)
    BY <2>1
  <2>3. \A i \in 1 .. n - 1 : Agree(i)
    <3> SUFFICES ASSUME NEW i \in 1 .. n - 1, ~ Agree(i) PROVE FALSE
      OBVIOUS
    <3>1. i \in Differ
      BY <2>2, <1>1
    <3> QED BY <3>1, <2>1, <2>2
  <2> HIDE DEF Differ
  <2>4. /\ \A i, j \in 1 .. Len(a) : i < j => Before(a[i], a[j])
        /\ \A i, j \in 1 .. Len(b) : i < j => Before(b[i], b[j])
    BY DEF IsTopK, Ascending
  <2>5. (\A i \in 1 .. Len(a) : a[i] \in S) /\ (\A i \in 1 .. Len(b) : b[i] \in S)
    OBVIOUS
  (* An entry of one list the other one has at n or later, or has not: the *)
  (* other list's entry at n, if any, precedes it or equals it.            *)
  <2>6. ASSUME n \in 1 .. Len(a)
        PROVE  /\ n \in 1 .. Len(b)
               /\ a[n] = b[n] \/ Before(b[n], a[n])
    <3>1. \A j \in 1 .. n - 1 : j \in 1 .. Len(b) /\ b[j] # a[n]
      <4> SUFFICES ASSUME NEW j \in 1 .. n - 1
                   PROVE  j \in 1 .. Len(b) /\ b[j] # a[n]
        OBVIOUS
      <4>1. j \in 1 .. Len(b) /\ b[j] = a[j] /\ j \in 1 .. Len(a)
        BY <2>2, <2>3, <1>1
      <4>2. Before(a[j], a[n])
        BY <4>1, <2>4, <2>6
      <4> QED BY <4>1, <4>2, <2>5, <2>6 DEF StrictTotalOrder
    <3>2. CASE a[n] \in Elements(b)
      <4>1. PICK j \in 1 .. Len(b) : b[j] = a[n]
        BY <3>2, ElementsOf
      <4>2. j >= n
        BY <4>1, <3>1, <2>2
      <4> QED BY <4>1, <4>2, <2>4, <2>2, <1>1
    <3>3. CASE a[n] \notin Elements(b)
      <4>1. a[n] \in S \ Elements(b)
        BY <3>3, <2>5, <2>6
      <4>2. Len(b) = Capacity /\ \A i \in 1 .. Len(b) : Before(b[i], a[n])
        BY <4>1 DEF IsTopK
      <4> QED BY <4>2, <2>6, <1>1
    <3> QED BY <3>2, <3>3
  <2>7. ASSUME n \in 1 .. Len(b)
        PROVE  /\ n \in 1 .. Len(a)
               /\ a[n] = b[n] \/ Before(a[n], b[n])
    <3>1. \A j \in 1 .. n - 1 : j \in 1 .. Len(a) /\ a[j] # b[n]
      <4> SUFFICES ASSUME NEW j \in 1 .. n - 1
                   PROVE  j \in 1 .. Len(a) /\ a[j] # b[n]
        OBVIOUS
      <4>1. j \in 1 .. Len(a) /\ a[j] = b[j] /\ j \in 1 .. Len(b)
        BY <2>2, <2>3, <1>1
      <4>2. Before(b[j], b[n])
        BY <4>1, <2>4, <2>7
      <4> QED BY <4>1, <4>2, <2>5, <2>7 DEF StrictTotalOrder
    <3>2. CASE b[n] \in Elements(a)
      <4>1. PICK j \in 1 .. Len(a) : a[j] = b[n]
        BY <3>2, ElementsOf
      <4>2. j >= n
        BY <4>1, <3>1, <2>2
      <4> QED BY <4>1, <4>2, <2>4, <2>2, <1>1
    <3>3. CASE b[n] \notin Elements(a)
      <4>1. b[n] \in S \ Elements(a)
        BY <3>3, <2>5, <2>7
      <4>2. Len(a) = Capacity /\ \A i \in 1 .. Len(a) : Before(a[i], b[n])
        BY <4>1 DEF IsTopK
      <4> QED BY <4>2, <2>7, <1>1
    <3> QED BY <3>2, <3>3
  <2>8. n \in 1 .. Len(a) /\ n \in 1 .. Len(b)
    BY <2>2, <2>6, <2>7, <1>1
  <2>9. Before(b[n], a[n]) /\ Before(a[n], b[n])
    BY <2>2, <2>6, <2>7, <2>8
  <2> QED BY <2>5, <2>8, <2>9 DEF StrictTotalOrder
<1> QED BY <1>2, <1>3

-----------------------------------------------------------------------------
(* The loop over a whole sequence: the left fold of the community modules, *)
(* with the definitions it rests on written out.                           *)
Greatest(t) == CHOOSE x \in t : \A y \in t : x >= y

Folded(a, b, base, s) ==
  MapThenFoldSet(LAMBDA e, p : Step(a, b, p, e), base,
                 LAMBDA i : s[i], LAMBDA t : Greatest(t), DOMAIN s)

(* The fold recurses over the subsets of the domain, the greatest index    *)

(* outermost: f is that function.                                          *)
IsFold(f, a, b, base, s, n) ==
  f = [t \in SUBSET (1 .. n) |->
         IF t = {} THEN base ELSE Step(a, b, f[t \ {Greatest(t)}], s[Greatest(t)])]

(* A bounded set of naturals has a greatest element.                       *)
LEMMA GreatestIs ==
  ASSUME NEW n \in Nat, NEW t \in SUBSET (1 .. n), t # {}
  PROVE  Greatest(t) \in t /\ \A y \in t : y <= Greatest(t)
<1> DEFINE Bounds == {b \in Nat : \A y \in t : y <= b}
<1>1. n \in Bounds
  OBVIOUS
<1>2. PICK x \in Bounds : \A b \in Bounds : x <= b
  BY <1>1, NatHasMin
<1>3. x \in t
  <2> SUFFICES ASSUME x \notin t PROVE FALSE
    OBVIOUS
  <2>1. PICK y \in t : TRUE
    OBVIOUS
  <2>2. x \in Nat /\ y \in 1 .. n /\ y <= x /\ x # y
    BY <1>2, <2>1
  <2>3. x - 1 \in Nat
    BY <2>2
  <2>4. ASSUME NEW z \in t PROVE z <= x - 1
    <3>1. z \in 1 .. n /\ z <= x /\ z # x
      BY <1>2
    <3> QED BY <3>1, <2>2
  <2>5. x - 1 \in Bounds
    BY <2>3, <2>4
  <2> QED BY <1>2, <2>2, <2>5
<1>4. \A y \in t : x >= y
  BY <1>2
<1> QED BY <1>3, <1>4 DEF Greatest

AgreeTo(f, g, n) == \A t \in SUBSET (1 .. n) : f[t] = g[t]
SameTo(s, r, n) == \A i \in 1 .. n : s[i] = r[i]

(* The function is determined by the first entries of the sequence, on the *)

(* sets of their indices: a least n at which two of them differ cannot be. *)
LEMMA FoldsAgree ==
  ASSUME NEW a, NEW b, NEW base, NEW s, NEW r, NEW n \in Nat, NEW m \in Nat, n <= m,
         NEW f, IsFold(f, a, b, base, s, n), NEW g, IsFold(g, a, b, base, r, m),
         SameTo(s, r, n)
  PROVE  AgreeTo(f, g, n)
<1> DEFINE Wrong == {k \in 0 .. n : \E u \in SUBSET (1 .. k) : f[u] # g[u]}
<1> SUFFICES ASSUME NEW t \in SUBSET (1 .. n), f[t] # g[t] PROVE FALSE
  BY DEF AgreeTo
<1>1. n \in Wrong
  OBVIOUS
<1>2. PICK k \in Wrong : \A j \in Wrong : k <= j
  <2>1. Wrong \in SUBSET Nat
    OBVIOUS
  <2> QED BY <1>1, <2>1, NatHasMin
<1>3. PICK u \in SUBSET (1 .. k) : f[u] # g[u]
  BY <1>2
<1>4. k \in 0 .. n /\ u \in SUBSET (1 .. n) /\ u \in SUBSET (1 .. m)
  BY <1>2, <1>3
<1>5. u # {}
  BY <1>3, <1>4 DEF IsFold
<1> DEFINE x == Greatest(u)
<1>6. x \in u /\ \A y \in u : y <= x
  BY <1>4, <1>5, GreatestIs
<1>7. x \in 1 .. k /\ u \in SUBSET (1 .. x)
  <2>0. k \in Nat
    BY <1>4
  <2>1. x \in 1 .. k
    BY <1>6
  <2>2. ASSUME NEW y \in u PROVE y \in 1 .. x
    <3>1. y \in 1 .. k /\ y <= x
      BY <1>3, <1>6
    <3> QED BY <3>1, <2>1
  <2> QED BY <2>1, <2>2
<1>8. x \in Wrong
  BY <1>3, <1>4, <1>7
<1>9. x = k
  BY <1>2, <1>7, <1>8, <1>4
<1>10. u \ {x} \in SUBSET (1 .. k - 1) /\ k - 1 \in 0 .. n
  BY <1>4, <1>6, <1>7, <1>9
<1>11. k - 1 \notin Wrong
  BY <1>2, <1>10, <1>4
<1>12. f[u \ {x}] = g[u \ {x}]
  BY <1>10, <1>11
<1>13. f[u] = Step(a, b, f[u \ {x}], s[x])
  BY <1>4, <1>5 DEF IsFold
<1>14. g[u] = Step(a, b, g[u \ {x}], r[x])
  BY <1>4, <1>5 DEF IsFold
<1>15. s[x] = r[x]
  BY <1>7, <1>4 DEF SameTo
<1> QED BY <1>3, <1>12, <1>13, <1>14, <1>15

(* The function exists: for n + 1 indices it is the one for n, extended.   *)
LEMMA FoldExists ==
  ASSUME NEW a, NEW b, NEW base, NEW s, NEW n \in Nat
  PROVE  \E f : IsFold(f, a, b, base, s, n)
<1> DEFINE Wrong == {k \in Nat : ~ \E f : IsFold(f, a, b, base, s, k)}
<1> SUFFICES ASSUME Wrong # {} PROVE FALSE
  OBVIOUS
<1>1. PICK k \in Wrong : \A j \in Wrong : k <= j
  BY NatHasMin
<1>2. CASE k = 0
  <2> DEFINE f == [t \in SUBSET (1 .. 0) |-> base]
  <2>1. \A t \in SUBSET (1 .. 0) : t = {}
    OBVIOUS
  <2>2. f = [t \in SUBSET (1 .. 0) |->
         IF t = {} THEN base ELSE Step(a, b, f[t \ {Greatest(t)}], s[Greatest(t)])]
    BY <2>1
  <2>3. IsFold(f, a, b, base, s, 0)
    BY <2>2 DEF IsFold
  <2> QED BY <1>1, <1>2, <2>3
<1>3. CASE k > 0
  <2>1. k \in Nat /\ k - 1 \in Nat /\ k - 1 \notin Wrong
    BY <1>1, <1>3
  <2>2. PICK f : IsFold(f, a, b, base, s, k - 1)
    BY <2>1
  <2> DEFINE Value(t) == IF t = {} THEN base ELSE Step(a, b, f[t \ {Greatest(t)}], s[Greatest(t)])
             g == [t \in SUBSET (1 .. k) |-> Value(t)]
  <2>3. ASSUME NEW t \in SUBSET (1 .. k - 1)
        PROVE  g[t] = f[t]
    <3>1. t \in SUBSET (1 .. k)
      BY <2>1
    <3>2. f[t] = Value(t)
      BY <2>2 DEF IsFold
    <3> QED BY <3>1, <3>2
  <2>4. ASSUME NEW t \in SUBSET (1 .. k), t # {}
        PROVE  f[t \ {Greatest(t)}] = g[t \ {Greatest(t)}]
    <3>1. Greatest(t) \in t /\ \A y \in t : y <= Greatest(t)
      BY <2>1, <2>4, GreatestIs
    <3>2. t \ {Greatest(t)} \in SUBSET (1 .. k - 1)
      <4>1. Greatest(t) \in 1 .. k
        BY <3>1
      <4>2. ASSUME NEW y \in t \ {Greatest(t)} PROVE y \in 1 .. k - 1
        <5>1. y \in 1 .. k /\ y <= Greatest(t) /\ y # Greatest(t)
          BY <3>1
        <5> QED BY <5>1, <4>1, <2>1
      <4> QED BY <4>2
    <3> QED BY <3>2, <2>3
  <2>5. \A t \in SUBSET (1 .. k) :
           Value(t) = IF t = {} THEN base ELSE Step(a, b, g[t \ {Greatest(t)}], s[Greatest(t)])
    BY <2>4
  <2> HIDE DEF Value
  <2>6. g = [t \in SUBSET (1 .. k) |->
               IF t = {} THEN base ELSE Step(a, b, g[t \ {Greatest(t)}], s[Greatest(t)])]
    BY <2>5
  <2>7. IsFold(g, a, b, base, s, k)
    BY <2>6 DEF IsFold
  <2> QED BY <1>1, <2>7
<1> QED BY <1>1, <1>2, <1>3

(* So the fold is its value at the whole domain.                           *)
LEMMA FoldIs ==
  ASSUME NEW a, NEW b, NEW base, NEW S, NEW s \in Seq(S)
  PROVE  \E f : IsFold(f, a, b, base, s, Len(s)) /\ Folded(a, b, base, s) = f[1 .. Len(s)]
<1> DEFINE f == CHOOSE f : IsFold(f, a, b, base, s, Len(s))
<1>1. DOMAIN s = 1 .. Len(s) /\ Len(s) \in Nat
  OBVIOUS
<1>2. Folded(a, b, base, s) =
        (CHOOSE h : h = [t \in SUBSET DOMAIN s |->
           IF t = {} THEN base ELSE Step(a, b, h[t \ {Greatest(t)}], s[Greatest(t)])])[DOMAIN s]
  BY DEF Folded, MapThenFoldSet
<1>3. Folded(a, b, base, s) = f[1 .. Len(s)]
  BY <1>1, <1>2 DEF IsFold
<1>4. IsFold(f, a, b, base, s, Len(s))
  BY <1>1, FoldExists
<1> QED BY <1>3, <1>4

(* No entry, no round.                                                     *)
LEMMA FoldEmpty ==
  ASSUME NEW a, NEW b, NEW base
  PROVE  Folded(a, b, base, << >>) = base
<1> DEFINE none == << >>
<1>1. none \in Seq({}) /\ Len(none) = 0
  OBVIOUS
<1> HIDE DEF none
<1>2. \E f : IsFold(f, a, b, base, none, Len(none)) /\ Folded(a, b, base, none) = f[1 .. Len(none)]
  BY <1>1, FoldIs
<1>3. PICK f : IsFold(f, a, b, base, none, 0) /\ Folded(a, b, base, none) = f[1 .. 0]
  BY <1>1, <1>2
<1>4. 1 .. 0 = {}
  OBVIOUS
<1>5. f[{}] = base
  BY <1>3, <1>4 DEF IsFold
<1> QED BY <1>3, <1>4, <1>5 DEF none

(* One more entry, one more round: the loop that has run over the first n  *)

(* entries is the loop over the first n - 1 of them and then one round.    *)
LEMMA FoldNext ==
  ASSUME NEW a, NEW b, NEW base, NEW S, NEW s \in Seq(S), NEW n \in 1 .. Len(s)
  PROVE  Folded(a, b, base, SubSeq(s, 1, n))
           = Step(a, b, Folded(a, b, base, SubSeq(s, 1, n - 1)), s[n])
<1> DEFINE now == SubSeq(s, 1, n)
           before == SubSeq(s, 1, n - 1)
<1>1. /\ now \in Seq(S) /\ Len(now) = n /\ \A i \in 1 .. n : now[i] = s[i]
      /\ before \in Seq(S) /\ Len(before) = n - 1 /\ \A i \in 1 .. n - 1 : before[i] = s[i]
  OBVIOUS
<1>2. n \in Nat /\ n - 1 \in Nat /\ n - 1 <= n /\ n \in 1 .. n
  OBVIOUS
<1> HIDE DEF now, before
<1>3. PICK f : IsFold(f, a, b, base, before, n - 1) /\ Folded(a, b, base, before) = f[1 .. n - 1]
  BY <1>1, FoldIs
<1>4. PICK g : IsFold(g, a, b, base, now, n) /\ Folded(a, b, base, now) = g[1 .. n]
  BY <1>1, FoldIs
<1>5. f[1 .. n - 1] = g[1 .. n - 1]
  <2>1. \A i \in 1 .. n - 1 : before[i] = now[i]
    BY <1>1, <1>2
  <2>2. IsFold(f, a, b, base, before, n - 1) /\ IsFold(g, a, b, base, now, n)
    BY <1>3, <1>4
  <2> DEFINE k == n - 1
  <2>3. k \in Nat /\ n \in Nat /\ k <= n
    BY <1>2
  <2>4. SameTo(before, now, k) /\ IsFold(f, a, b, base, before, k)
    BY <2>1, <2>2 DEF SameTo
  <2> HIDE DEF k
  <2>5. AgreeTo(f, g, k)
    BY <2>2, <2>3, <2>4, FoldsAgree
  <2>6. f[1 .. k] = g[1 .. k]
    BY <2>5 DEF AgreeTo
  <2> QED BY <2>6 DEF k
<1>6. 1 .. n \in SUBSET (1 .. n) /\ 1 .. n # {}
  BY <1>2
<1>7. Greatest(1 .. n) = n
  <2>1. Greatest(1 .. n) \in 1 .. n /\ n <= Greatest(1 .. n)
    BY <1>2, <1>6, GreatestIs
  <2> QED BY <2>1, <1>2
<1>8. (1 .. n) \ {n} = 1 .. n - 1
  BY <1>2
<1>9. g[1 .. n] = Step(a, b, g[1 .. n - 1], now[n])
  BY <1>4, <1>6, <1>7, <1>8 DEF IsFold
<1> QED BY <1>1, <1>2, <1>3, <1>4, <1>5, <1>9 DEF now, before

(* All entries are the sequence, and before the first there is the base.   *)
LEMMA FoldAll ==
  ASSUME NEW a, NEW b, NEW base, NEW S, NEW s \in Seq(S)
  PROVE  /\ Folded(a, b, base, SubSeq(s, 1, Len(s))) = Folded(a, b, base, s)
         /\ Folded(a, b, base, SubSeq(s, 1, 0)) = base
<1>1. SubSeq(s, 1, Len(s)) = s
  OBVIOUS
<1>2. SubSeq(s, 1, 0) = << >>
  OBVIOUS
<1> QED BY <1>1, <1>2, FoldEmpty

(* An invariant of the loop, which may depend on how far it has come: what *)
(* holds of the base and is kept by every round holds at the end.          *)
LEMMA FoldKeeps ==
  ASSUME NEW a, NEW b, NEW V, NEW base \in V[0], NEW S, NEW s \in Seq(S),
         \A n \in 1 .. Len(s) : \A v \in V[n - 1] : Step(a, b, v, s[n]) \in V[n]
  PROVE  Folded(a, b, base, s) \in V[Len(s)]
<1> DEFINE At(n) == Folded(a, b, base, SubSeq(s, 1, n))
           Wrong == {n \in 0 .. Len(s) : At(n) \notin V[n]}
<1>1. Len(s) \in Nat
  OBVIOUS
<1>2. At(0) = base /\ At(Len(s)) = Folded(a, b, base, s)
  <2>1. At(0) = base
    BY FoldAll
  <2>2. At(Len(s)) = Folded(a, b, base, s)
    BY FoldAll
  <2> QED BY <2>1, <2>2
<1>3. \A n \in 1 .. Len(s) : At(n) = Step(a, b, At(n - 1), s[n])
  BY FoldNext
<1> HIDE DEF At
<1>4. Wrong = {}
  <2> SUFFICES ASSUME Wrong # {} PROVE FALSE
    OBVIOUS
  <2>1. Wrong \in SUBSET Nat
    BY <1>1
  <2>2. PICK n \in Wrong : \A m \in Wrong : n <= m
    BY <2>1, NatHasMin
  <2>3. n \in 1 .. Len(s) /\ n - 1 \in 0 .. Len(s) /\ n \in Nat
    BY <1>1, <1>2, <2>2
  <2>4. n - 1 \notin Wrong
    BY <2>2, <2>3
  <2>5. At(n - 1) \in V[n - 1]
    BY <2>3, <2>4
  <2> QED BY <1>3, <2>2, <2>3, <2>5
<1> QED BY <1>1, <1>2, <1>4

(* One that does not.                                                      *)
LEMMA FoldStays ==
  ASSUME NEW a, NEW b, NEW V, NEW base \in V, NEW S, NEW s \in Seq(S),
         \A v \in V : \A i \in 1 .. Len(s) : Step(a, b, v, s[i]) \in V
  PROVE  Folded(a, b, base, s) \in V
<1> DEFINE W == [n \in 0 .. Len(s) |-> V]
<1>1. Len(s) \in Nat /\ \A n \in 0 .. Len(s) : W[n] = V
  OBVIOUS
<1>2. base \in W[0]
  BY <1>1
<1>3. \A n \in 1 .. Len(s) : \A v \in W[n - 1] : Step(a, b, v, s[n]) \in W[n]
  BY <1>1
<1> HIDE DEF W
<1>4. Folded(a, b, base, s) \in W[Len(s)]
  BY <1>2, <1>3, FoldKeeps
<1> QED BY <1>1, <1>4
=============================================================================
