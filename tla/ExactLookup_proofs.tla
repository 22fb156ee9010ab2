------------------------- MODULE ExactLookup_proofs -------------------------
(***************************************************************************)
(* Proofs about ExactLookup for every set of contexts, every hash function *)
(* and every ascending exact section.                                      *)
(***************************************************************************)
EXTENDS ExactLookup, TLAPS

USE HashOfAssumption, RecordTablesAssumption

(* Below lower every hash is too small, from upper on none is; the scan    *)
(* has passed only records that do not answer.                             *)
BoundsEnclose ==
  stage = "search" =>
    /\ lower <= upper
    /\ found = 0
    /\ \A p \in 1 .. lower - 1 : records[p].hash < HashOf(context)
    /\ \A p \in upper .. Len(records) : records[p].hash >= HashOf(context)

ScanIsExhaustive ==
  stage = "collisions" =>
    /\ index >= 1
    /\ found = 0
    /\ \A p \in 1 .. index - 1 : ~ Answers(records[p], context)
    /\ \A p \in index .. Len(records) : records[p].hash >= HashOf(context)

IInv == TypeOK /\ BoundsEnclose /\ ScanIsExhaustive /\ FoundIsFirstMatch

(* The facts of a validated section the steps use.                         *)
LEMMA SectionFacts ==
  ASSUME TypeOK
  PROVE  /\ Len(records) \in Nat
         /\ \A p \in 1 .. Len(records) : records[p] \in ExactRecord
         /\ \A p \in 1 .. Len(records) : records[p].hash \in Nat
         /\ \A p, q \in 1 .. Len(records) :
              p <= q => records[p].hash <= records[q].hash
         /\ HashOf(context) \in Nat
<1>1. records \in Seq(ExactRecord) /\ HashesAscend(records)
  BY DEF TypeOK
<1>2. \A p \in 1 .. Len(records) : records[p] \in ExactRecord
  BY <1>1
<1>3. \A p \in 1 .. Len(records) : records[p].hash \in Nat
  BY <1>2 DEF ExactRecord
<1> QED BY <1>1, <1>2, <1>3 DEF TypeOK, HashesAscend

LEMMA MiddleIsBetween ==
  ASSUME NEW lo \in Nat, NEW up \in Nat, lo < up
  PROVE  lo + (up - lo) \div 2 \in lo .. up - 1
OBVIOUS

(* The record FirstMatch chooses is the only one it can choose.            *)
LEMMA FirstMatchIs ==
  ASSUME TypeOK, NEW p \in 1 .. Len(records), Answers(records[p], context),
         \A q \in 1 .. p - 1 : ~ Answers(records[q], context)
  PROVE  FirstMatch(records, context) = p
<1> DEFINE IsFirst(r) == /\ Answers(records[r], context)
                         /\ \A q \in 1 .. r - 1 : ~ Answers(records[q], context)
           f == CHOOSE r \in 1 .. Len(records) : IsFirst(r)
<1>1. f \in 1 .. Len(records) /\ IsFirst(f)
  BY DEF IsFirst
<1>2. \A r \in 1 .. Len(records) : IsFirst(r) => r = p
  <2> SUFFICES ASSUME NEW r \in 1 .. Len(records), IsFirst(r) PROVE r = p
    OBVIOUS
  <2>1. r < p => r \in 1 .. p - 1
    BY SectionFacts
  <2>2. p < r => p \in 1 .. r - 1
    BY SectionFacts
  <2> QED BY <2>1, <2>2
<1>3. f = p
  BY <1>1, <1>2
<1> QED BY <1>3 DEF FirstMatch

LEMMA InitIInv == Init => IInv
<1> SUFFICES ASSUME Init PROVE IInv
  OBVIOUS
<1>1. Len(records) \in Nat
  BY DEF Init
<1>2. TypeOK
  BY <1>1 DEF Init, TypeOK
<1> QED BY <1>1, <1>2 DEF Init, IInv, BoundsEnclose, ScanIsExhaustive, FoundIsFirstMatch

LEMMA SearchRightStep ==
  ASSUME IInv, SearchRight
  PROVE  IInv'
<1>1. TypeOK /\ BoundsEnclose
  BY DEF IInv
<1>2. Middle \in lower .. upper - 1 /\ lower \in 1 .. Len(records) + 1
      /\ upper \in 1 .. Len(records) + 1 /\ Len(records) \in Nat
  BY <1>1, SectionFacts, MiddleIsBetween DEF SearchRight, Middle, TypeOK
<1>3. lower' \in 1 .. Len(records) + 1 /\ lower' <= upper
  BY <1>2 DEF SearchRight
<1>4. TypeOK'
  BY <1>1, <1>3 DEF SearchRight, TypeOK
<1>5. \A p \in 1 .. lower' - 1 : records[p].hash < HashOf(context)
  <2> SUFFICES ASSUME NEW p \in 1 .. lower' - 1
               PROVE  records[p].hash < HashOf(context)
    OBVIOUS
  <2>1. p \in 1 .. Len(records) /\ Middle \in 1 .. Len(records) /\ p <= Middle
    BY <1>2, <1>3 DEF SearchRight
  <2>2. records[Middle].hash < HashOf(context)
    BY DEF SearchRight
  <2> HIDE DEF Middle
  <2> QED BY <1>1, <2>1, <2>2, SectionFacts
<1>6. BoundsEnclose'
  BY <1>1, <1>3, <1>5 DEF SearchRight, BoundsEnclose
<1> QED BY <1>4, <1>6 DEF IInv, SearchRight, ScanIsExhaustive, FoundIsFirstMatch

LEMMA SearchLeftStep ==
  ASSUME IInv, SearchLeft
  PROVE  IInv'
<1>1. TypeOK /\ BoundsEnclose
  BY DEF IInv
<1>2. Middle \in lower .. upper - 1 /\ lower \in 1 .. Len(records) + 1
      /\ upper \in 1 .. Len(records) + 1 /\ Len(records) \in Nat
  BY <1>1, SectionFacts, MiddleIsBetween DEF SearchLeft, Middle, TypeOK
<1>3. upper' = Middle /\ upper' \in 1 .. Len(records) + 1 /\ lower <= upper'
  BY <1>2 DEF SearchLeft
<1>4. TypeOK'
  BY <1>1, <1>3 DEF SearchLeft, TypeOK
<1>5. \A p \in upper' .. Len(records) : records[p].hash >= HashOf(context)
  <2> SUFFICES ASSUME NEW p \in upper' .. Len(records)
               PROVE  records[p].hash >= HashOf(context)
    OBVIOUS
  <2>1. p \in 1 .. Len(records) /\ Middle \in 1 .. Len(records) /\ Middle <= p
    BY <1>2, <1>3
  <2>2. records[Middle].hash >= HashOf(context)
    BY DEF SearchLeft
  <2> HIDE DEF Middle
  <2> QED BY <1>1, <2>1, <2>2, SectionFacts
<1>6. BoundsEnclose'
  BY <1>1, <1>3, <1>5 DEF SearchLeft, BoundsEnclose
<1> QED BY <1>4, <1>6 DEF IInv, SearchLeft, ScanIsExhaustive, FoundIsFirstMatch

LEMMA SearchEndsStep ==
  ASSUME IInv, SearchEnds
  PROVE  IInv'
<1>1. TypeOK /\ BoundsEnclose
  BY DEF IInv
<1>2. lower = upper /\ lower \in 1 .. Len(records) + 1 /\ Len(records) \in Nat
  BY <1>1, SectionFacts DEF SearchEnds, BoundsEnclose, TypeOK
<1>3. TypeOK'
  BY <1>1, <1>2 DEF SearchEnds, TypeOK
<1>4. \A p \in 1 .. lower - 1 : ~ Answers(records[p], context)
  <2>1. \A p \in 1 .. lower - 1 :
          records[p].hash < HashOf(context) /\ p \in 1 .. Len(records)
    BY <1>1, <1>2 DEF SearchEnds, BoundsEnclose
  <2> QED BY <2>1, <1>1, SectionFacts DEF Answers
<1>5. ScanIsExhaustive'
  BY <1>1, <1>2, <1>4 DEF SearchEnds, BoundsEnclose, ScanIsExhaustive
<1> QED BY <1>3, <1>5 DEF IInv, SearchEnds, BoundsEnclose, FoundIsFirstMatch

LEMMA SkipCollisionStep ==
  ASSUME IInv, SkipCollision
  PROVE  IInv'
<1>1. TypeOK /\ ScanIsExhaustive
  BY DEF IInv
<1>2. index \in 1 .. Len(records) /\ Len(records) \in Nat
  BY <1>1, SectionFacts DEF SkipCollision, OnEqualHash, ScanIsExhaustive, TypeOK
<1>3. TypeOK'
  BY <1>1, <1>2 DEF SkipCollision, TypeOK
<1>4. ~ Answers(records[index], context)
  BY DEF SkipCollision, Answers
<1>5. \A p \in 1 .. index' - 1 : ~ Answers(records[p], context)
  <2>1. \A p \in 1 .. index' - 1 : p \in 1 .. index - 1 \/ p = index
    BY <1>2 DEF SkipCollision
  <2> QED BY <2>1, <1>1, <1>4 DEF SkipCollision, ScanIsExhaustive
<1>6. ScanIsExhaustive'
  BY <1>1, <1>2, <1>5 DEF SkipCollision, ScanIsExhaustive
<1> QED BY <1>3, <1>6 DEF IInv, SkipCollision, BoundsEnclose, FoundIsFirstMatch

LEMMA ReturnRecordStep ==
  ASSUME IInv, ReturnRecord
  PROVE  IInv'
<1>1. TypeOK /\ ScanIsExhaustive
  BY DEF IInv
<1>2. index \in 1 .. Len(records) /\ Len(records) \in Nat
  BY <1>1, SectionFacts DEF ReturnRecord, OnEqualHash, ScanIsExhaustive, TypeOK
<1>3. TypeOK'
  BY <1>1, <1>2 DEF ReturnRecord, TypeOK
<1>4. FirstMatch(records, context) = index
  <2>1. Answers(records[index], context)
    BY DEF ReturnRecord, OnEqualHash, Answers
  <2>2. \A q \in 1 .. index - 1 : ~ Answers(records[q], context)
    BY <1>1 DEF ReturnRecord, ScanIsExhaustive
  <2> QED BY <1>1, <1>2, <2>1, <2>2, FirstMatchIs
<1>5. FoundIsFirstMatch'
  BY <1>4 DEF ReturnRecord, FoundIsFirstMatch, FirstMatch, Answers
<1> QED BY <1>3, <1>5 DEF IInv, ReturnRecord, BoundsEnclose, ScanIsExhaustive

LEMMA ReturnNoneStep ==
  ASSUME IInv, ReturnNone
  PROVE  IInv'
<1>1. TypeOK /\ ScanIsExhaustive
  BY DEF IInv
<1>2. index \in 1 .. Len(records) + 1 /\ Len(records) \in Nat /\ found = 0
  BY <1>1, SectionFacts DEF ReturnNone, ScanIsExhaustive, TypeOK
<1>3. TypeOK'
  BY <1>1 DEF ReturnNone, TypeOK
<1>4. ASSUME NEW p \in 1 .. Len(records)
      PROVE  ~ Answers(records[p], context)
  <2>1. CASE p < index
    BY <2>1, <1>1, <1>2 DEF ReturnNone, ScanIsExhaustive
  <2>2. CASE p >= index
    <3>1. index \in 1 .. Len(records) /\ records[index].hash # HashOf(context)
      BY <2>2, <1>2 DEF ReturnNone, OnEqualHash
    <3>2. records[index].hash >= HashOf(context)
      BY <3>1, <1>1 DEF ReturnNone, ScanIsExhaustive
    <3>3. records[index].hash <= records[p].hash
      BY <2>2, <3>1, <1>1, SectionFacts
    <3>4. records[p].hash # HashOf(context)
      BY <3>1, <3>2, <3>3, <1>1, SectionFacts
    <3> QED BY <3>4 DEF Answers
  <2> QED BY <1>2, <2>1, <2>2
<1>5. FoundIsFirstMatch'
  BY <1>2, <1>4 DEF ReturnNone, FoundIsFirstMatch, FirstMatch, Answers
<1> QED BY <1>3, <1>5 DEF IInv, ReturnNone, BoundsEnclose, ScanIsExhaustive

LEMMA LookUpStep ==
  ASSUME IInv, NEW c \in Contexts, LookUp(c)
  PROVE  IInv'
<1>1. TypeOK /\ Len(records) \in Nat
  BY SectionFacts DEF IInv
<1>2. TypeOK'
  BY <1>1 DEF LookUp, TypeOK
<1>3. BoundsEnclose'
  BY <1>1 DEF LookUp, BoundsEnclose
<1> QED BY <1>2, <1>3 DEF IInv, LookUp, ScanIsExhaustive, FoundIsFirstMatch

LEMMA NextIInv == IInv /\ [Next]_vars => IInv'
<1> SUFFICES ASSUME IInv, [Next]_vars PROVE IInv'
  OBVIOUS
<1>1. CASE SearchRight   BY <1>1, SearchRightStep
<1>2. CASE SearchLeft    BY <1>2, SearchLeftStep
<1>3. CASE SearchEnds    BY <1>3, SearchEndsStep
<1>4. CASE SkipCollision BY <1>4, SkipCollisionStep
<1>5. CASE ReturnRecord  BY <1>5, ReturnRecordStep
<1>6. CASE ReturnNone    BY <1>6, ReturnNoneStep
<1>7. ASSUME NEW c \in Contexts, LookUp(c) PROVE IInv'
  BY <1>7, LookUpStep
<1>8. CASE UNCHANGED vars
  BY <1>8 DEF vars, IInv, TypeOK, BoundsEnclose, ScanIsExhaustive, FoundIsFirstMatch
<1> QED BY <1>1, <1>2, <1>3, <1>4, <1>5, <1>6, <1>7, <1>8 DEF Next, FindStep

(* The bounds of find_exact stay inside the section, so no record access   *)
(* of it can fail.                                                         *)
THEOREM LookupTypes == Spec => []TypeOK
<1>1. IInv => TypeOK
  BY DEF IInv
<1> QED BY <1>1, InitIInv, NextIInv, PTL DEF Spec

(* find_exact returns the first record stored for the context, and none    *)
(* only when there is none, for every section and every hash function.     *)
THEOREM LookupIsExactAndComplete == Spec => []FoundIsFirstMatch
<1>1. IInv => FoundIsFirstMatch
  BY DEF IInv
<1> QED BY <1>1, InitIInv, NextIInv, PTL DEF Spec
=============================================================================
