------------------------ MODULE Compatibility_proofs ------------------------
(***************************************************************************)
(* Proofs about the prediction of an artifact and the evidence taken from  *)
(* it, for every artifact, question and capacity: whatever went through    *)
(* the reused buffers before, an answer is the function of the artifact    *)
(* and the question that the module Artifact states without loops.         *)
(***************************************************************************)
EXTENDS Compatibility, FiniteSetTheorems, SequenceTheorems, TLAPS

USE BitsAssumption, MaxActiveAssumption, LowBitsAssumption, OutputCapacityAssumption,
    TokensAssumption, ScoreAssumption

-----------------------------------------------------------------------------
(* The five loops, each with what a round of it does: the push into a      *)
(* bucket of the index, the scan of a bucket, the emissions of one region, *)
(* the regions of the scratch, and the copy of an exact record.            *)
IndexRound(regions, bucket, kept, i) ==
  IF NearBucket(regions[i], bucket) THEN Append(kept, i) ELSE kept

IndexLoop ==
  INSTANCE RankedInsert_proofs WITH Capacity <- MaxActive, Before <- EntryPrecedes,
    Step <- IndexRound

ScanRound(regions, signature, kept, i) ==
  IF Covers(regions[i], signature)
  THEN Scratch!InsertRanked(kept, RouteEntry(regions, i, signature)) ELSE kept

ScanLoop ==
  INSTANCE RankedInsert_proofs WITH Capacity <- MaxActive, Before <- EntryPrecedes,
    Step <- ScanRound

EmissionRound(margin, none, p, emission) == Accumulate(p, WithBonus(emission, margin))

EmissionLoop ==
  INSTANCE RankedInsert_proofs WITH Capacity <- OutputCapacity, Before <- TokenPrecedes,
    Step <- EmissionRound

ActiveRound(regions, none, p, e) == AccumulateRegion(p, regions[e.record_index], e.margin)

ActiveLoop ==
  INSTANCE RankedInsert_proofs WITH Capacity <- OutputCapacity, Before <- TokenPrecedes,
    Step <- ActiveRound

CopyRound(none, same, p, entry) == InsertExact(p, entry)

CopyLoop ==
  INSTANCE RankedInsert_proofs WITH Capacity <- OutputCapacity, Before <- TokenPrecedes,
    Step <- CopyRound

(* The buffers after n rounds of a loop, and the regions the scan counted. *)
AfterScan(regions, signature, bucket, n) ==
  ScanLoop!Folded(regions, signature, << >>, SubSeq(bucket, 1, n))

CoveredIn(regions, signature, bucket, n) ==
  Cardinality({k \in 1 .. n : Covers(regions[bucket[k]], signature)})

AfterEmissions(region, margin, p, n) ==
  EmissionLoop!Folded(margin, 0, p, SubSeq(region.emissions, 1, n))

AfterActive(regions, kept, n) ==
  ActiveLoop!Folded(regions, 0, EmptyPrediction, SubSeq(kept, 1, n))

-----------------------------------------------------------------------------
(* The loops of the module Artifact are these.                             *)
LEMMA RegionLoop ==
  ASSUME NEW p, NEW region, NEW margin
  PROVE  AccumulateRegion(p, region, margin)
           = EmissionLoop!Folded(margin, 0, p, region.emissions)
BY DEF AccumulateRegion, EmissionLoop!Folded, EmissionRound, FoldLeft, MapThenFoldSet, Max,
       EmissionLoop!MapThenFoldSet, EmissionLoop!Greatest

(* What PredictedGraph says, with the loops named.                         *)
GraphOf(regions, signature, bucket) ==
  LET kept == ScanLoop!Folded(regions, signature, << >>, bucket)
      answered == ActiveLoop!Folded(regions, 0, EmptyPrediction, kept)
  IN  [prediction |-> answered,
       summary    |-> Summary(IF answered.entries # << >> THEN "Graph" ELSE "Novel",
                              0, Cardinality({k \in DOMAIN bucket : Covers(regions[bucket[k]], signature)}),
                              Len(kept), Len(bucket))]

LEMMA GraphLoops ==
  ASSUME NEW a, NEW c
  PROVE  PredictedGraph(a, c) = GraphOf(a.regions, SignatureOf(c), a.index[BucketOf(c)])
BY DEF PredictedGraph, GraphOf, ActiveLoop!Folded, ActiveRound, ScanLoop!Folded, ScanRound,
       FoldLeft, MapThenFoldSet, Max,
       ActiveLoop!MapThenFoldSet, ActiveLoop!Greatest,
       ScanLoop!MapThenFoldSet, ScanLoop!Greatest

LEMMA CopyLoops ==
  ASSUME NEW record
  PROVE  CopyExact(record) = CopyLoop!Folded(0, 0, EmptyPrediction, record.emissions)
BY DEF CopyExact, CopyLoop!Folded, CopyRound, FoldLeft, MapThenFoldSet, Max,
       CopyLoop!MapThenFoldSet, CopyLoop!Greatest

LEMMA IndexLoops ==
  ASSUME NEW regions, NEW bucket \in Buckets
  PROVE  BuildRegionIndex(regions)[bucket]
           = IndexLoop!Folded(regions, bucket, << >>, [i \in DOMAIN regions |-> i])
BY DEF BuildRegionIndex, IndexLoop!Folded, IndexRound,
       FoldLeftDomain, FoldLeft, MapThenFoldSet, Max,
       IndexLoop!MapThenFoldSet, IndexLoop!Greatest

-----------------------------------------------------------------------------
(* The entry of every region of an artifact.                               *)
Entries(regions, signature) == {RouteEntry(regions, i, signature) : i \in DOMAIN regions}

(* A validated artifact, taken apart.                                      *)
LEMMA ArtifactFacts ==
  ASSUME NEW a \in Artifacts, NEW bucket \in Buckets
  PROVE  /\ a.exact \in Seq(ExactRecord)
         /\ a.regions \in Seq(RegionRecord)
         /\ a.index[bucket] \in Seq(DOMAIN a.regions)
BY ArtifactsAssumption

(* The context of a question that is not too long has a signature, and its *)
(* bucket stands in the index.                                             *)
LEMMA QuestionFacts ==
  ASSUME NEW q \in Questions, Len(q) <= MaxContext
  PROVE  q \in Contexts /\ SignatureOf(q) \in Code /\ BucketOf(q) \in Buckets
<1>1. q \in Seq(Tokens) /\ Len(q) \in Nat
  BY QuestionsAssumption
<1>2. SuffixOf(q, Len(q)) \in Contexts
  BY <1>1, ContextsAssumption
<1>3. SuffixOf(q, Len(q)) = q
  <2>1. SubSeq(q, 1, Len(q)) = q
    BY <1>1
  <2>2. Len(q) - Len(q) + 1 = 1
    BY <1>1
  <2> QED BY <2>1, <2>2 DEF SuffixOf
<1>4. q \in Contexts
  BY <1>2, <1>3
<1> QED BY <1>4, SignatureOfAssumption DEF BucketOf, Buckets

LEMMA HammingType ==
  ASSUME NEW code \in Code, NEW region \in RegionRecord
  PROVE  MaskedHamming(code, region) \in Nat
<1> DEFINE D == ((code \ region.prototype) \cup (region.prototype \ code)) \cap region.mask
<1>1. D \in SUBSET Bits
  BY DEF Code, RegionRecord
<1>2. IsFiniteSet(D)
  BY <1>1, FS_Subset
<1>3. Cardinality(D) \in Nat
  BY <1>2, FS_CardinalityType
<1> QED BY <1>3 DEF MaskedHamming

(* The scan keeps entries of the artifact's regions, as many as fit.       *)
LEMMA ScanRoundType ==
  ASSUME NEW regions, NEW signature, NEW i \in DOMAIN regions,
         NEW kept \in Seq(Entries(regions, signature)), Len(kept) <= MaxActive
  PROVE  /\ ScanRound(regions, signature, kept, i) \in Seq(Entries(regions, signature))
         /\ Len(ScanRound(regions, signature, kept, i)) <= MaxActive
<1> DEFINE e == RouteEntry(regions, i, signature)
<1>1. e \in Entries(regions, signature)
  BY DEF Entries
<1> HIDE DEF e
<1>2. /\ ScanLoop!InsertRanked(kept, e) \in Seq(Entries(regions, signature))
      /\ Len(ScanLoop!InsertRanked(kept, e)) = ScanLoop!LengthAfter(kept)
      /\ ScanLoop!LengthAfter(kept) <= MaxActive
  BY <1>1, ScanLoop!InsertRankedEntries
<1>3. ScanLoop!InsertRanked(kept, e) = Scratch!InsertRanked(kept, e)
  BY DEF ScanLoop!InsertRanked, Scratch!InsertRanked, ScanLoop!Shifted, Scratch!Shifted,
         ScanLoop!Position, Scratch!Position, ScanLoop!LengthAfter, Scratch!LengthAfter
<1>4. CASE Covers(regions[i], signature)
  <2>1. ScanRound(regions, signature, kept, i) = Scratch!InsertRanked(kept, e)
    BY <1>4 DEF ScanRound, e
  <2> QED BY <2>1, <1>2, <1>3
<1>5. CASE ~ Covers(regions[i], signature)
  BY <1>5 DEF ScanRound
<1> QED BY <1>4, <1>5

LEMMA ScanType ==
  ASSUME NEW regions, NEW signature, NEW bucket \in Seq(DOMAIN regions)
  PROVE  ScanLoop!Folded(regions, signature, << >>, bucket)
           \in {kept \in Seq(Entries(regions, signature)) : Len(kept) <= MaxActive}
<1> DEFINE V == {kept \in Seq(Entries(regions, signature)) : Len(kept) <= MaxActive}
<1>1. << >> \in V
  OBVIOUS
<1>2. \A v \in V : \A k \in 1 .. Len(bucket) : ScanRound(regions, signature, v, bucket[k]) \in V
  BY ScanRoundType
<1> HIDE DEF V
<1>3. ScanLoop!Folded(regions, signature, << >>, bucket) \in V
  BY <1>1, <1>2, ScanLoop!FoldStays
<1> QED BY <1>3 DEF V

(* The scan, round by round.                                               *)
LEMMA ScanRounds ==
  ASSUME NEW regions, NEW signature, NEW bucket \in Seq(DOMAIN regions)
  PROVE  /\ AfterScan(regions, signature, bucket, 0) = << >>
         /\ \A n \in 1 .. Len(bucket) :
              AfterScan(regions, signature, bucket, n)
                = ScanRound(regions, signature, AfterScan(regions, signature, bucket, n - 1),
                            bucket[n])
         /\ AfterScan(regions, signature, bucket, Len(bucket))
              = ScanLoop!Folded(regions, signature, << >>, bucket)
<1>1. AfterScan(regions, signature, bucket, 0) = << >>
  BY ScanLoop!FoldAll DEF AfterScan
<1>2. ASSUME NEW n \in 1 .. Len(bucket)
      PROVE  AfterScan(regions, signature, bucket, n)
                = ScanRound(regions, signature, AfterScan(regions, signature, bucket, n - 1),
                            bucket[n])
  BY ScanLoop!FoldNext DEF AfterScan
<1>3. AfterScan(regions, signature, bucket, Len(bucket))
        = ScanLoop!Folded(regions, signature, << >>, bucket)
  <2>1. SubSeq(bucket, 1, Len(bucket)) = bucket
    OBVIOUS
  <2> QED BY <2>1 DEF AfterScan
<1> QED BY <1>1, <1>2, <1>3

(* The number of regions the scan has counted, round by round.             *)
LEMMA CountRounds ==
  ASSUME NEW regions, NEW signature, NEW bucket \in Seq(DOMAIN regions),
         NEW n \in 0 .. Len(bucket)
  PROVE  /\ CoveredIn(regions, signature, bucket, n) \in Nat
         /\ n = 0 => CoveredIn(regions, signature, bucket, n) = 0
         /\ n > 0 => CoveredIn(regions, signature, bucket, n)
                       = CoveredIn(regions, signature, bucket, n - 1)
                           + IF Covers(regions[bucket[n]], signature) THEN 1 ELSE 0
<1> DEFINE In(m) == {k \in 1 .. m : Covers(regions[bucket[k]], signature)}
<1>1. \A m \in 0 .. Len(bucket) : IsFiniteSet(In(m)) /\ Cardinality(In(m)) \in Nat
  <2> SUFFICES ASSUME NEW m \in 0 .. Len(bucket)
               PROVE  IsFiniteSet(In(m)) /\ Cardinality(In(m)) \in Nat
    OBVIOUS
  <2>1. IsFiniteSet(1 .. m)
    BY FS_Interval
  <2>2. In(m) \in SUBSET (1 .. m)
    OBVIOUS
  <2> HIDE DEF In
  <2>3. IsFiniteSet(In(m))
    BY <2>1, <2>2, FS_Subset
  <2> QED BY <2>3, FS_CardinalityType
<1>2. /\ CoveredIn(regions, signature, bucket, n) = Cardinality(In(n))
      /\ CoveredIn(regions, signature, bucket, n - 1) = Cardinality(In(n - 1))
  BY DEF CoveredIn
<1>3. n = 0 => In(n) = {}
  OBVIOUS
<1>4. n > 0 => /\ n - 1 \in 0 .. Len(bucket) /\ n \notin In(n - 1)
               /\ In(n) = IF Covers(regions[bucket[n]], signature)
                           THEN In(n - 1) \cup {n} ELSE In(n - 1)
  OBVIOUS
<1> HIDE DEF In
<1>5. CASE n = 0
  BY <1>1, <1>2, <1>3, <1>5, FS_EmptySet
<1>6. CASE n > 0
  <2>1. Cardinality(In(n - 1) \cup {n}) = Cardinality(In(n - 1)) + 1
    BY <1>1, <1>4, <1>6, FS_AddElement
  <2>2. Cardinality(In(n)) \in Nat
    BY <1>1
  <2>3. CASE Covers(regions[bucket[n]], signature)
    <3>1. Cardinality(In(n)) = Cardinality(In(n - 1)) + 1
      BY <1>4, <1>6, <2>1, <2>3
    <3> QED BY <1>2, <1>6, <2>2, <2>3, <3>1
  <2>4. CASE ~ Covers(regions[bucket[n]], signature)
    <3>1. Cardinality(In(n)) = Cardinality(In(n - 1))
      BY <1>4, <1>6, <2>4
    <3> QED BY <1>2, <1>6, <2>2, <2>4, <3>1
  <2> QED BY <2>3, <2>4
<1> QED BY <1>5, <1>6

(* The accumulation, round by round.                                       *)
LEMMA EmissionRounds ==
  ASSUME NEW region \in RegionRecord, NEW margin, NEW p
  PROVE  /\ AfterEmissions(region, margin, p, 0) = p
         /\ \A n \in 1 .. Len(region.emissions) :
              AfterEmissions(region, margin, p, n)
                = Accumulate(AfterEmissions(region, margin, p, n - 1),
                             WithBonus(region.emissions[n], margin))
         /\ AfterEmissions(region, margin, p, Len(region.emissions))
              = AccumulateRegion(p, region, margin)
<1>1. region.emissions \in Seq(TokenScore)
  BY DEF RegionRecord, Emissions
<1>2. AfterEmissions(region, margin, p, 0) = p
  BY <1>1, EmissionLoop!FoldAll DEF AfterEmissions
<1>3. ASSUME NEW n \in 1 .. Len(region.emissions)
      PROVE  AfterEmissions(region, margin, p, n)
                = Accumulate(AfterEmissions(region, margin, p, n - 1),
                             WithBonus(region.emissions[n], margin))
  <2>1. AfterEmissions(region, margin, p, n)
          = EmissionRound(margin, 0, AfterEmissions(region, margin, p, n - 1),
                          region.emissions[n])
    BY <1>1, EmissionLoop!FoldNext DEF AfterEmissions
  <2> QED BY <2>1 DEF EmissionRound
<1>4. AfterEmissions(region, margin, p, Len(region.emissions)) = AccumulateRegion(p, region, margin)
  <2>1. AfterEmissions(region, margin, p, Len(region.emissions))
          = EmissionLoop!Folded(margin, 0, p, region.emissions)
    <3>1. SubSeq(region.emissions, 1, Len(region.emissions)) = region.emissions
      BY <1>1
    <3> QED BY <3>1 DEF AfterEmissions
  <2> QED BY <2>1, RegionLoop
<1> QED BY <1>2, <1>3, <1>4

LEMMA ActiveRounds ==
  ASSUME NEW regions, NEW S, NEW kept \in Seq(S)
  PROVE  /\ AfterActive(regions, kept, 0) = EmptyPrediction
         /\ \A n \in 1 .. Len(kept) :
              AfterActive(regions, kept, n)
                = AccumulateRegion(AfterActive(regions, kept, n - 1),
                                   regions[kept[n].record_index], kept[n].margin)
         /\ AfterActive(regions, kept, Len(kept))
              = ActiveLoop!Folded(regions, 0, EmptyPrediction, kept)
<1>1. AfterActive(regions, kept, 0) = EmptyPrediction
  BY ActiveLoop!FoldAll DEF AfterActive
<1>2. ASSUME NEW n \in 1 .. Len(kept)
      PROVE  AfterActive(regions, kept, n)
                = AccumulateRegion(AfterActive(regions, kept, n - 1),
                                   regions[kept[n].record_index], kept[n].margin)
  <2>1. AfterActive(regions, kept, n)
          = ActiveRound(regions, 0, AfterActive(regions, kept, n - 1), kept[n])
    BY ActiveLoop!FoldNext DEF AfterActive
  <2> QED BY <2>1 DEF ActiveRound
<1>3. AfterActive(regions, kept, Len(kept)) = ActiveLoop!Folded(regions, 0, EmptyPrediction, kept)
  <2>1. SubSeq(kept, 1, Len(kept)) = kept
    OBVIOUS
  <2> QED BY <2>1 DEF AfterActive
<1> QED BY <1>1, <1>2, <1>3

-----------------------------------------------------------------------------
(* The invariant.  While a call runs, each buffer is what the rounds of    *)
(* its loop have made of an empty one; between calls the answer is the     *)
(* function of the question.                                               *)
Asked == context \in Questions /\ Len(context) <= MaxContext

Fresh ==
  /\ position = 0 /\ matched = 0 /\ scratch = << >>
  /\ active = 0 /\ emitted = 0 /\ prediction = EmptyPrediction

Types ==
  /\ artifact \in Artifacts
  /\ phase \in {"idle", "backoff", "scan", "accumulate"}
  /\ policy \in {"PreferExact", "GraphOnly"}
  /\ phase # "idle" \/ context # << >> => Asked

BackingOff ==
  phase = "backoff" =>
    /\ Fresh
    /\ depth \in 0 .. Len(context)
    /\ IF policy = "PreferExact"
       THEN \A d \in ExactDepths(artifact, context) : d <= depth ELSE depth = 0

Scanned ==
  phase \in {"scan", "accumulate"} =>
    /\ policy = "PreferExact" => ExactDepths(artifact, context) = {}
    /\ position \in 0 .. Len(Bucket)
    /\ matched = CoveredIn(artifact.regions, SignatureOf(context), Bucket, position)
    /\ scratch = AfterScan(artifact.regions, SignatureOf(context), Bucket, position)

NotAccumulated ==
  phase = "scan" => active = 0 /\ emitted = 0 /\ prediction = EmptyPrediction

Accumulated ==
  phase = "accumulate" =>
    /\ position = Len(Bucket)
    /\ active \in 0 .. Len(scratch)
    /\ active = Len(scratch) =>
         emitted = 0 /\ prediction = AfterActive(artifact.regions, scratch, active)
    /\ active < Len(scratch) =>
         /\ emitted \in 0 .. Len(ActiveRegion.emissions)
         /\ prediction = AfterEmissions(ActiveRegion, scratch[active + 1].margin,
                           AfterActive(artifact.regions, scratch, active), emitted)

IInv ==
  /\ Types /\ BackingOff /\ Scanned /\ NotAccumulated /\ Accumulated
  /\ AnswersDependOnQuestionOnly

(* What a question that is being answered provides.                        *)
LEMMA RunningFacts ==
  ASSUME Types, phase # "idle"
  PROVE  /\ context \in Questions /\ Len(context) <= MaxContext
         /\ context \in Seq(Tokens) /\ Len(context) \in Nat
         /\ artifact.regions \in Seq(RegionRecord)
         /\ SignatureOf(context) \in Code
         /\ Bucket \in Seq(DOMAIN artifact.regions)
<1>1. Asked /\ artifact \in Artifacts
  BY DEF Types
<1>2. context \in Questions /\ Len(context) <= MaxContext
  BY <1>1 DEF Asked
<1>3. SignatureOf(context) \in Code /\ BucketOf(context) \in Buckets
  BY <1>2, QuestionFacts
<1>4. context \in Seq(Tokens) /\ Len(context) \in Nat
  BY <1>2, QuestionsAssumption
<1>5. artifact.regions \in Seq(RegionRecord)
  BY <1>1, ArtifactsAssumption
<1>6. Bucket \in Seq(DOMAIN artifact.regions)
  BY <1>1, <1>3, ArtifactFacts DEF Bucket
<1> QED BY <1>2, <1>3, <1>4, <1>5, <1>6

LEMMA InitIInv == Init => IInv
BY DEF Init, IInv, Types, BackingOff, Scanned, NotAccumulated, Accumulated,
       AnswersDependOnQuestionOnly

LEMMA RefuseContextStep ==
  ASSUME IInv, NEW c \in Questions, RefuseContext(c)
  PROVE  IInv'
<1>1. Types'
  BY DEF IInv, Types, Asked, RefuseContext
<1>2. BackingOff' /\ Scanned' /\ NotAccumulated' /\ Accumulated'
  BY DEF RefuseContext, BackingOff, Scanned, NotAccumulated, Accumulated
<1>3. AnswersDependOnQuestionOnly'
  BY DEF IInv, RefuseContext, AnswersDependOnQuestionOnly
<1> QED BY <1>1, <1>2, <1>3 DEF IInv

LEMMA BeginPredictStep ==
  ASSUME IInv, NEW c \in Questions, NEW p \in {"PreferExact", "GraphOnly"}, BeginPredict(c, p)
  PROVE  IInv'
<1>1. Types'
  BY DEF IInv, Types, Asked, BeginPredict
<1>2. Len(c) \in Nat
  BY QuestionsAssumption
<1>3. BackingOff'
  <2>1. Fresh'
    BY DEF BeginPredict, Fresh
  <2>2. context' = c /\ policy' = p /\ depth' = IF p = "PreferExact" THEN Len(c) ELSE 0
    BY DEF BeginPredict
  <2>3. \A d \in ExactDepths(artifact', c) : d <= Len(c)
    BY <1>2 DEF ExactDepths
  <2> QED BY <1>2, <2>1, <2>2, <2>3 DEF BackingOff
<1>4. Scanned' /\ NotAccumulated' /\ Accumulated' /\ AnswersDependOnQuestionOnly'
  BY DEF BeginPredict, Scanned, NotAccumulated, Accumulated, AnswersDependOnQuestionOnly
<1> QED BY <1>1, <1>3, <1>4 DEF IInv

(* The longest suffix that is stored is the first the backoff finds.       *)
LEMMA FirstIsLongest ==
  ASSUME NEW a, NEW c, NEW d \in ExactDepths(a, c),
         Len(c) \in Nat,
         \A e \in ExactDepths(a, c) : e <= d
  PROVE  Max(ExactDepths(a, c)) = d
<1> DEFINE D == ExactDepths(a, c)
<1>1. D \subseteq Nat /\ d \in D /\ \A e \in D : e <= d
  BY DEF ExactDepths
<1> HIDE DEF D
<1>2. \A e \in D : d >= e
  BY <1>1
<1>3. \A x \in D : (\A y \in D : x >= y) => x = d
  BY <1>1
<1>4. Max(D) = d
  BY <1>1, <1>2, <1>3 DEF Max
<1> QED BY <1>4 DEF D

LEMMA ServeExactStep ==
  ASSUME IInv, ServeExact
  PROVE  IInv'
<1>1. Types /\ BackingOff /\ phase = "backoff" /\ depth > 0 /\ SuffixRecord # 0
  BY DEF IInv, ServeExact
<1>2. Len(context) \in Nat /\ Asked
  BY <1>1, RunningFacts DEF Asked
<1>3. depth \in 1 .. Len(context) /\ policy = "PreferExact"
  BY <1>1, <1>2 DEF BackingOff, Types
<1>4. depth \in ExactDepths(artifact, context)
  BY <1>1, <1>3 DEF ExactDepths, SuffixRecord
<1>5. Max(ExactDepths(artifact, context)) = depth
  <2>1. \A e \in ExactDepths(artifact, context) : e <= depth
    BY <1>1, <1>3 DEF BackingOff
  <2> QED BY <1>2, <1>4, <2>1, FirstIsLongest
<1>6. Predicted(artifact, context, policy) =
        [prediction |-> CopyExact(artifact.exact[SuffixRecord]),
         summary    |-> Summary("Exact", depth, 0, 0, 0)]
  BY <1>3, <1>4, <1>5 DEF Predicted, PredictedExact, SuffixRecord
<1>7. Types' /\ BackingOff' /\ Scanned' /\ NotAccumulated' /\ Accumulated'
  BY <1>1, <1>2 DEF ServeExact, Types, Asked, BackingOff, Scanned, NotAccumulated, Accumulated
<1>8. AnswersDependOnQuestionOnly'
  <2>1. Predicted(artifact, context, policy)' = Predicted(artifact, context, policy)
    BY DEF ServeExact
  <2>2. /\ prediction' = CopyExact(artifact.exact[SuffixRecord])
        /\ source' = "Exact" /\ answer' = Summary("Exact", depth, 0, 0, 0)
    BY DEF ServeExact
  <2>3. /\ Predicted(artifact, context, policy).prediction = CopyExact(artifact.exact[SuffixRecord])
        /\ Predicted(artifact, context, policy).summary = Summary("Exact", depth, 0, 0, 0)
    BY <1>6
  <2>4. Summary("Exact", depth, 0, 0, 0).source = "Exact"
    BY DEF Summary
  <2> QED BY <2>1, <2>2, <2>3, <2>4 DEF AnswersDependOnQuestionOnly
<1> QED BY <1>7, <1>8 DEF IInv

LEMMA BackOffStep ==
  ASSUME IInv, BackOff
  PROVE  IInv'
<1>1. Types /\ BackingOff /\ phase = "backoff" /\ depth > 0 /\ SuffixRecord = 0
  BY DEF IInv, BackOff
<1>2. Len(context) \in Nat /\ Asked
  BY <1>1, RunningFacts DEF Asked
<1>3. depth \in 1 .. Len(context) /\ policy = "PreferExact"
  BY <1>1, <1>2 DEF BackingOff, Types
<1>4. depth \notin ExactDepths(artifact, context)
  BY <1>1 DEF ExactDepths, SuffixRecord
<1>5. \A d \in ExactDepths(artifact, context) : d <= depth - 1
  <2> SUFFICES ASSUME NEW d \in ExactDepths(artifact, context) PROVE d <= depth - 1
    OBVIOUS
  <2>1. d <= depth /\ d # depth /\ d \in Nat
    BY <1>1, <1>3, <1>4 DEF BackingOff, ExactDepths
  <2> QED BY <2>1, <1>3
<1>6. BackingOff'
  <2>1. Fresh'
    BY <1>1 DEF BackingOff, Fresh, BackOff
  <2>2. depth' = depth - 1 /\ UNCHANGED <<artifact, context, policy>>
    BY DEF BackOff
  <2> QED BY <1>3, <1>5, <2>1, <2>2 DEF BackingOff
<1>7. Types' /\ Scanned' /\ NotAccumulated' /\ Accumulated' /\ AnswersDependOnQuestionOnly'
  BY <1>1, <1>2 DEF BackOff, Types, Asked, Scanned, NotAccumulated, Accumulated,
       AnswersDependOnQuestionOnly
<1> QED BY <1>6, <1>7 DEF IInv

LEMMA BeginScanStep ==
  ASSUME IInv, BeginScan
  PROVE  IInv'
<1>1. Types /\ BackingOff /\ phase = "backoff" /\ depth = 0
  BY DEF IInv, BeginScan
<1>2. Len(context) \in Nat /\ Asked /\ Bucket \in Seq(DOMAIN artifact.regions)
  BY <1>1, RunningFacts DEF Asked
<1>3. policy = "PreferExact" => ExactDepths(artifact, context) = {}
  BY <1>1, <1>2 DEF BackingOff, ExactDepths
<1>4. Fresh /\ UNCHANGED <<artifact, context, policy, position, matched, scratch, active,
                           emitted, prediction>>
  BY <1>1 DEF BackingOff, BeginScan
<1>5. Scanned'
  <2>1. AfterScan(artifact.regions, SignatureOf(context), Bucket, 0) = << >>
    BY <1>2, ScanRounds
  <2>2. Len(Bucket) \in Nat /\ 0 \in 0 .. Len(Bucket)
    BY <1>2
  <2>3. CoveredIn(artifact.regions, SignatureOf(context), Bucket, 0) = 0
    BY <1>2, <2>2, CountRounds
  <2>4. Bucket' = Bucket
    BY <1>4 DEF Bucket
  <2> QED BY <1>3, <1>4, <2>1, <2>2, <2>3, <2>4 DEF Fresh, Scanned
<1>6. NotAccumulated' /\ Types'
  BY <1>1, <1>2, <1>4 DEF Fresh, NotAccumulated, Types, BeginScan, Asked
<1>7. BackingOff' /\ Accumulated' /\ AnswersDependOnQuestionOnly'
  BY DEF BeginScan, BackingOff, Accumulated, AnswersDependOnQuestionOnly
<1> QED BY <1>5, <1>6, <1>7 DEF IInv

LEMMA ScanRegionStep ==
  ASSUME IInv, ScanRegion
  PROVE  IInv'
<1> DEFINE regions == artifact.regions
           signature == SignatureOf(context)
           n == position + 1
<1>1. Types /\ Scanned /\ NotAccumulated /\ phase = "scan" /\ position < Len(Bucket)
  BY DEF IInv, ScanRegion
<1>2. Asked /\ Bucket \in Seq(DOMAIN regions)
  BY <1>1, RunningFacts DEF Asked
<1>3. position \in 0 .. Len(Bucket) /\ n \in 1 .. Len(Bucket) /\ n - 1 = position
      /\ n \in 0 .. Len(Bucket) /\ n > 0
  BY <1>1, <1>2 DEF Scanned
<1>4. UNCHANGED <<artifact, phase, context, policy, active, emitted, prediction>>
      /\ position' = n
  BY DEF ScanRegion
<1>5. /\ matched = CoveredIn(regions, signature, Bucket, position)
      /\ scratch = AfterScan(regions, signature, Bucket, position)
      /\ policy = "PreferExact" => ExactDepths(artifact, context) = {}
  BY <1>1 DEF Scanned
<1>6. scratch' = ScanRound(regions, signature, scratch, Bucket[n])
  BY DEF ScanRegion, ScanRound
<1>7. matched' = matched + IF Covers(regions[Bucket[n]], signature) THEN 1 ELSE 0
  <2>1. matched \in Nat
    BY <1>2, <1>3, <1>5, CountRounds
  <2>2. CASE Covers(regions[Bucket[n]], signature)
    BY <2>2 DEF ScanRegion
  <2>3. CASE ~ Covers(regions[Bucket[n]], signature)
    BY <2>1, <2>3 DEF ScanRegion
  <2> QED BY <2>2, <2>3
<1> HIDE DEF n
<1>8. AfterScan(regions, signature, Bucket, n)
        = ScanRound(regions, signature, AfterScan(regions, signature, Bucket, n - 1), Bucket[n])
  BY <1>2, <1>3, ScanRounds
<1>9. CoveredIn(regions, signature, Bucket, n)
        = CoveredIn(regions, signature, Bucket, n - 1)
            + IF Covers(regions[Bucket[n]], signature) THEN 1 ELSE 0
  BY <1>2, <1>3, CountRounds
<1>10. scratch' = AfterScan(regions, signature, Bucket, n)
       /\ matched' = CoveredIn(regions, signature, Bucket, n)
  BY <1>3, <1>5, <1>6, <1>7, <1>8, <1>9
<1>11. Bucket' = Bucket
  BY <1>4 DEF Bucket
<1>12. Scanned'
  BY <1>3, <1>4, <1>5, <1>10, <1>11 DEF Scanned
<1>13. Types' /\ NotAccumulated'
  BY <1>1, <1>2, <1>4 DEF Types, NotAccumulated, Asked
<1>14. BackingOff' /\ Accumulated' /\ AnswersDependOnQuestionOnly'
  BY <1>1, <1>4 DEF BackingOff, Accumulated, AnswersDependOnQuestionOnly
<1> QED BY <1>12, <1>13, <1>14 DEF IInv

(* The scratch of a scan that has run: entries of the artifact's regions.  *)
LEMMA ScratchFacts ==
  ASSUME Types, Scanned, phase \in {"scan", "accumulate"}, position = Len(Bucket)
  PROVE  /\ scratch \in Seq(Entries(artifact.regions, SignatureOf(context)))
         /\ Len(scratch) \in Nat
         /\ scratch = ScanLoop!Folded(artifact.regions, SignatureOf(context), << >>, Bucket)
         /\ \A k \in 1 .. Len(scratch) :
              artifact.regions[scratch[k].record_index] \in RegionRecord
<1> DEFINE regions == artifact.regions
           signature == SignatureOf(context)
<1>1. Bucket \in Seq(DOMAIN regions) /\ regions \in Seq(RegionRecord)
  BY RunningFacts
<1>2. scratch = AfterScan(regions, signature, Bucket, Len(Bucket))
  BY DEF Scanned
<1>3. scratch = ScanLoop!Folded(regions, signature, << >>, Bucket)
  BY <1>1, <1>2, ScanRounds
<1>4. ScanLoop!Folded(regions, signature, << >>, Bucket)
        \in {kept \in Seq(Entries(regions, signature)) : Len(kept) <= MaxActive}
  BY <1>1, ScanType
<1>5. scratch \in Seq(Entries(regions, signature)) /\ Len(scratch) \in Nat
  BY <1>3, <1>4
<1>6. \A e \in Entries(regions, signature) : regions[e.record_index] \in RegionRecord
  BY <1>1 DEF Entries, RouteEntry
<1> QED BY <1>3, <1>5, <1>6

(* Where the accumulation stands after its last round of a region.         *)
LEMMA AtRegion ==
  ASSUME Types, Scanned, phase \in {"scan", "accumulate"}, position = Len(Bucket),
         NEW k \in 0 .. Len(scratch)
  PROVE  /\ k = 0 => AfterActive(artifact.regions, scratch, k) = EmptyPrediction
         /\ k < Len(scratch) =>
              LET e == scratch[k + 1]
                  region == artifact.regions[e.record_index]
              IN  /\ region.emissions \in Seq(TokenScore)
                  /\ Len(region.emissions) \in Nat
                  /\ \A p : /\ AfterEmissions(region, e.margin, p, 0) = p
                            /\ \A n \in 1 .. Len(region.emissions) :
                                 AfterEmissions(region, e.margin, p, n)
                                   = Accumulate(AfterEmissions(region, e.margin, p, n - 1),
                                                WithBonus(region.emissions[n], e.margin))
                  /\ AfterEmissions(region, e.margin, AfterActive(artifact.regions, scratch, k),
                                    Len(region.emissions))
                       = AfterActive(artifact.regions, scratch, k + 1)
<1> DEFINE regions == artifact.regions
           e == scratch[k + 1]
           region == regions[e.record_index]
<1>1. /\ scratch \in Seq(Entries(regions, SignatureOf(context))) /\ Len(scratch) \in Nat
      /\ \A j \in 1 .. Len(scratch) : regions[scratch[j].record_index] \in RegionRecord
  BY ScratchFacts
<1>2. /\ AfterActive(regions, scratch, 0) = EmptyPrediction
      /\ \A j \in 1 .. Len(scratch) :
           AfterActive(regions, scratch, j)
             = AccumulateRegion(AfterActive(regions, scratch, j - 1),
                                regions[scratch[j].record_index], scratch[j].margin)
  BY <1>1, ActiveRounds
<1>3. ASSUME k < Len(scratch)
      PROVE  /\ region.emissions \in Seq(TokenScore)
             /\ Len(region.emissions) \in Nat
             /\ \A p : /\ AfterEmissions(region, e.margin, p, 0) = p
                       /\ \A n \in 1 .. Len(region.emissions) :
                            AfterEmissions(region, e.margin, p, n)
                              = Accumulate(AfterEmissions(region, e.margin, p, n - 1),
                                           WithBonus(region.emissions[n], e.margin))
             /\ AfterEmissions(region, e.margin, AfterActive(regions, scratch, k),
                               Len(region.emissions))
                  = AfterActive(regions, scratch, k + 1)
  <2>1. k + 1 \in 1 .. Len(scratch) /\ (k + 1) - 1 = k
    BY <1>1, <1>3
  <2>2. region \in RegionRecord
    BY <1>1, <2>1
  <2>3. AfterActive(regions, scratch, k + 1)
          = AccumulateRegion(AfterActive(regions, scratch, k), region, e.margin)
    BY <1>2, <2>1
  <2>4. region.emissions \in Seq(TokenScore) /\ Len(region.emissions) \in Nat
    BY <2>2 DEF RegionRecord, Emissions
  <2> HIDE DEF region, e
  <2>5. ASSUME NEW p
        PROVE  /\ AfterEmissions(region, e.margin, p, 0) = p
               /\ \A n \in 1 .. Len(region.emissions) :
                    AfterEmissions(region, e.margin, p, n)
                      = Accumulate(AfterEmissions(region, e.margin, p, n - 1),
                                   WithBonus(region.emissions[n], e.margin))
               /\ AfterEmissions(region, e.margin, p, Len(region.emissions))
                    = AccumulateRegion(p, region, e.margin)
    BY <2>2, EmissionRounds
  <2> QED BY <2>3, <2>4, <2>5
<1> QED BY <1>2, <1>3

LEMMA BeginAccumulateStep ==
  ASSUME IInv, BeginAccumulate
  PROVE  IInv'
<1> DEFINE regions == artifact.regions
<1>1. Types /\ Scanned /\ NotAccumulated /\ phase = "scan" /\ position = Len(Bucket)
  BY DEF IInv, BeginAccumulate
<1>2. Asked /\ Len(scratch) \in Nat
  BY <1>1, RunningFacts, ScratchFacts DEF Asked
<1>3. active = 0 /\ emitted = 0 /\ prediction = EmptyPrediction
  BY <1>1 DEF NotAccumulated
<1>4. UNCHANGED <<artifact, context, policy, position, matched, scratch, active, emitted,
                  prediction>>
      /\ phase' = "accumulate"
  BY DEF BeginAccumulate
<1>5. 0 \in 0 .. Len(scratch)
  BY <1>2
<1>6. AfterActive(regions, scratch, 0) = EmptyPrediction
  BY <1>1, <1>5, AtRegion
<1>7. ASSUME 0 < Len(scratch)
      PROVE  /\ 0 \in 0 .. Len(ActiveRegion.emissions)
             /\ AfterEmissions(ActiveRegion, scratch[active + 1].margin, EmptyPrediction, 0)
                  = EmptyPrediction
  <2>1. Len(ActiveRegion.emissions) \in Nat
    BY <1>1, <1>3, <1>5, <1>7, AtRegion DEF ActiveRegion
  <2>2. \A p : AfterEmissions(ActiveRegion, scratch[active + 1].margin, p, 0) = p
    BY <1>1, <1>3, <1>5, <1>7, AtRegion DEF ActiveRegion
  <2> QED BY <2>1, <2>2
<1>8. Bucket' = Bucket /\ ActiveRegion' = ActiveRegion
  BY <1>4 DEF Bucket, ActiveRegion
<1>9. Accumulated'
  BY <1>1, <1>2, <1>3, <1>4, <1>5, <1>6, <1>7, <1>8 DEF Accumulated
<1>10. Types' /\ Scanned'
  BY <1>1, <1>2, <1>4, <1>8 DEF Types, Scanned, Asked
<1>11. BackingOff' /\ NotAccumulated' /\ AnswersDependOnQuestionOnly'
  BY <1>4 DEF BackingOff, NotAccumulated, AnswersDependOnQuestionOnly
<1> QED BY <1>9, <1>10, <1>11 DEF IInv

LEMMA AccumulateEmissionStep ==
  ASSUME IInv, AccumulateEmission
  PROVE  IInv'
<1> DEFINE regions == artifact.regions
           margin == scratch[active + 1].margin
           sofar == AfterActive(regions, scratch, active)
           n == emitted + 1
<1>1. /\ Types /\ Scanned /\ Accumulated /\ phase = "accumulate"
      /\ active < Len(scratch) /\ emitted < Len(ActiveRegion.emissions)
  BY DEF IInv, AccumulateEmission
<1>2. Asked /\ Len(scratch) \in Nat /\ position = Len(Bucket) /\ active \in 0 .. Len(scratch)
  BY <1>1, RunningFacts, ScratchFacts DEF Asked, Accumulated
<1>3. /\ emitted \in 0 .. Len(ActiveRegion.emissions)
      /\ prediction = AfterEmissions(ActiveRegion, margin, sofar, emitted)
  BY <1>1 DEF Accumulated
<1>4. /\ UNCHANGED <<artifact, phase, context, policy, position, matched, scratch, active>>
      /\ emitted' = n
      /\ prediction' = Accumulate(prediction, WithBonus(ActiveRegion.emissions[n], margin))
  BY DEF AccumulateEmission
<1>5. Len(ActiveRegion.emissions) \in Nat
  BY <1>1, <1>2, AtRegion DEF ActiveRegion
<1>6. n \in 1 .. Len(ActiveRegion.emissions) /\ n - 1 = emitted
  BY <1>1, <1>3, <1>5
<1>7. \A p : \A m \in 1 .. Len(ActiveRegion.emissions) :
         AfterEmissions(ActiveRegion, margin, p, m)
           = Accumulate(AfterEmissions(ActiveRegion, margin, p, m - 1),
                        WithBonus(ActiveRegion.emissions[m], margin))
  BY <1>1, <1>2, AtRegion DEF ActiveRegion
<1> HIDE DEF n, sofar, margin
<1>8. AfterEmissions(ActiveRegion, margin, sofar, n)
        = Accumulate(AfterEmissions(ActiveRegion, margin, sofar, n - 1),
                     WithBonus(ActiveRegion.emissions[n], margin))
  BY <1>6, <1>7
<1>9. prediction' = AfterEmissions(ActiveRegion, margin, sofar, n)
  BY <1>3, <1>4, <1>6, <1>8
<1>10. Bucket' = Bucket /\ ActiveRegion' = ActiveRegion /\ margin' = margin /\ sofar' = sofar
  BY <1>4 DEF Bucket, ActiveRegion, margin, sofar
<1>11. n \in 0 .. Len(ActiveRegion.emissions)
  BY <1>5, <1>6
<1>12. Accumulated'
  <2>1. position' = Len(Bucket') /\ active' \in 0 .. Len(scratch') /\ active' # Len(scratch')
    BY <1>1, <1>2, <1>4, <1>10
  <2>2. emitted' \in 0 .. Len(ActiveRegion'.emissions)
    BY <1>4, <1>10, <1>11
  <2>3. prediction' = AfterEmissions(ActiveRegion', margin', sofar', emitted')
    BY <1>4, <1>9, <1>10
  <2> QED BY <2>1, <2>2, <2>3 DEF Accumulated, margin, sofar
<1>13. Types' /\ Scanned'
  BY <1>1, <1>2, <1>4, <1>10 DEF Types, Scanned, Asked
<1>14. BackingOff' /\ NotAccumulated' /\ AnswersDependOnQuestionOnly'
  BY <1>1, <1>4 DEF BackingOff, NotAccumulated, AnswersDependOnQuestionOnly
<1> QED BY <1>12, <1>13, <1>14 DEF IInv

LEMMA NextActiveStep ==
  ASSUME IInv, NextActive
  PROVE  IInv'
<1> DEFINE regions == artifact.regions
           k == active + 1
<1>1. /\ Types /\ Scanned /\ Accumulated /\ phase = "accumulate"
      /\ active < Len(scratch) /\ emitted = Len(ActiveRegion.emissions)
  BY DEF IInv, NextActive
<1>2. Asked /\ Len(scratch) \in Nat /\ position = Len(Bucket) /\ active \in 0 .. Len(scratch)
  BY <1>1, RunningFacts, ScratchFacts DEF Asked, Accumulated
<1>3. prediction = AfterEmissions(ActiveRegion, scratch[k].margin,
                     AfterActive(regions, scratch, active), Len(ActiveRegion.emissions))
  BY <1>1 DEF Accumulated
<1>4. prediction = AfterActive(regions, scratch, k)
  BY <1>1, <1>2, <1>3, AtRegion DEF ActiveRegion
<1>5. /\ UNCHANGED <<artifact, phase, context, policy, position, matched, scratch, prediction>>
      /\ active' = k /\ emitted' = 0
  BY DEF NextActive
<1>6. k \in 0 .. Len(scratch)
  BY <1>1, <1>2
<1> HIDE DEF k
<1> DEFINE region == regions[scratch[k + 1].record_index]
           margin == scratch[k + 1].margin
<1>7. ASSUME k < Len(scratch)
      PROVE  /\ 0 \in 0 .. Len(region.emissions)
             /\ AfterEmissions(region, margin, AfterActive(regions, scratch, k), 0)
                  = AfterActive(regions, scratch, k)
  <2>1. Len(region.emissions) \in Nat
    BY <1>1, <1>2, <1>6, <1>7, AtRegion
  <2>2. \A p : AfterEmissions(region, margin, p, 0) = p
    BY <1>1, <1>2, <1>6, <1>7, AtRegion
  <2> QED BY <2>1, <2>2
<1>8. Bucket' = Bucket /\ ActiveRegion' = region
  BY <1>5 DEF Bucket, ActiveRegion
<1>9. Accumulated'
  <2>1. position' = Len(Bucket') /\ active' \in 0 .. Len(scratch')
    BY <1>2, <1>5, <1>6, <1>8
  <2>2. prediction' = AfterActive(artifact'.regions, scratch', active') /\ emitted' = 0
    BY <1>4, <1>5
  <2>3. ASSUME active' < Len(scratch')
        PROVE  /\ emitted' \in 0 .. Len(ActiveRegion'.emissions)
               /\ prediction' = AfterEmissions(ActiveRegion', scratch'[active' + 1].margin,
                                  AfterActive(artifact'.regions, scratch', active'), emitted')
    <3>1. k < Len(scratch)
      BY <1>5, <2>3
    <3> QED BY <1>4, <1>5, <1>7, <1>8, <3>1
  <2> QED BY <2>1, <2>2, <2>3 DEF Accumulated
<1>10. Types' /\ Scanned'
  BY <1>1, <1>2, <1>5, <1>8 DEF Types, Scanned, Asked
<1>11. BackingOff' /\ NotAccumulated' /\ AnswersDependOnQuestionOnly'
  BY <1>1, <1>5 DEF BackingOff, NotAccumulated, AnswersDependOnQuestionOnly
<1> QED BY <1>9, <1>10, <1>11 DEF IInv

LEMMA FinishGraphStep ==
  ASSUME IInv, FinishGraph
  PROVE  IInv'
<1> DEFINE regions == artifact.regions
           signature == SignatureOf(context)
           served == IF prediction.entries # << >> THEN "Graph" ELSE "Novel"
<1>1. /\ Types /\ Scanned /\ Accumulated /\ phase = "accumulate" /\ active = Len(scratch)
  BY DEF IInv, FinishGraph
<1>2. /\ Asked /\ position = Len(Bucket) /\ Bucket \in Seq(DOMAIN regions)
      /\ scratch \in Seq(Entries(regions, signature))
      /\ scratch = ScanLoop!Folded(regions, signature, << >>, Bucket)
  BY <1>1, RunningFacts, ScratchFacts DEF Asked, Accumulated
<1>3. prediction = ActiveLoop!Folded(regions, 0, EmptyPrediction, scratch)
  <2>1. prediction = AfterActive(regions, scratch, Len(scratch))
    BY <1>1 DEF Accumulated
  <2> QED BY <1>2, <2>1, ActiveRounds
<1>4. matched = Cardinality({k \in DOMAIN Bucket : Covers(regions[Bucket[k]], signature)})
  <2>1. DOMAIN Bucket = 1 .. Len(Bucket)
    BY <1>2
  <2> QED BY <1>1, <1>2, <2>1 DEF Scanned, CoveredIn
<1>5. PredictedGraph(artifact, context)
        = [prediction |-> prediction,
           summary    |-> Summary(served, 0, matched, Len(scratch), Len(Bucket))]
  BY <1>2, <1>3, <1>4, GraphLoops DEF GraphOf, Bucket
<1>6. Predicted(artifact, context, policy) = PredictedGraph(artifact, context)
  BY <1>1 DEF Scanned, Predicted
<1> HIDE DEF served
<1>7. /\ Predicted(artifact, context, policy).prediction = prediction
      /\ Predicted(artifact, context, policy).summary
           = Summary(served, 0, matched, Len(scratch), Len(Bucket))
  BY <1>5, <1>6
<1>8. Summary(served, 0, matched, Len(scratch), Len(Bucket)).source = served
  BY DEF Summary
<1>9. AnswersDependOnQuestionOnly'
  <2>1. Predicted(artifact, context, policy)' = Predicted(artifact, context, policy)
    BY DEF FinishGraph
  <2>2. /\ prediction' = prediction /\ source' = served
        /\ answer' = Summary(served, 0, matched, Len(scratch), Len(Bucket))
    BY DEF FinishGraph, served
  <2> QED BY <1>7, <1>8, <2>1, <2>2 DEF AnswersDependOnQuestionOnly
<1>10. Types' /\ BackingOff' /\ Scanned' /\ NotAccumulated' /\ Accumulated'
  BY <1>1, <1>2 DEF FinishGraph, Types, Asked, BackingOff, Scanned, NotAccumulated, Accumulated
<1> QED BY <1>9, <1>10 DEF IInv

LEMMA NextIInv == IInv /\ [Next]_vars => IInv'
<1> SUFFICES ASSUME IInv, [Next]_vars PROVE IInv'
  OBVIOUS
<1>1. ASSUME NEW c \in Questions, RefuseContext(c) PROVE IInv'
  BY <1>1, RefuseContextStep
<1>2. ASSUME NEW c \in Questions, NEW p \in {"PreferExact", "GraphOnly"}, BeginPredict(c, p)
      PROVE  IInv'
  BY <1>2, BeginPredictStep
<1>3. CASE PredictStep
  BY <1>3, ServeExactStep, BackOffStep, BeginScanStep, ScanRegionStep, BeginAccumulateStep,
     AccumulateEmissionStep, NextActiveStep, FinishGraphStep DEF PredictStep
<1>4. CASE UNCHANGED vars
  <2>1. Types' /\ BackingOff'
    BY <1>4 DEF IInv, Types, Asked, BackingOff, Fresh, vars
  <2>2. Scanned' /\ NotAccumulated'
    BY <1>4 DEF IInv, Scanned, NotAccumulated, Bucket, vars
  <2>3. Accumulated'
    BY <1>4 DEF IInv, Accumulated, Bucket, ActiveRegion, vars
  <2>4. AnswersDependOnQuestionOnly'
    BY <1>4 DEF IInv, AnswersDependOnQuestionOnly, vars
  <2> QED BY <2>1, <2>2, <2>3, <2>4 DEF IInv
<1> QED BY <1>1, <1>2, <1>3, <1>4 DEF Next

-----------------------------------------------------------------------------
(* What build_region_index gives a bucket: the regions near it, ascending, *)
(* each of them once.                                                      *)
Lists(L, regions, bucket, n) ==
  /\ L \in Seq(1 .. Len(regions))
  /\ \A k, l \in 1 .. Len(L) : k < l => L[k] < L[l]
  /\ \A k \in 1 .. Len(L) : L[k] <= n
  /\ \A i \in 1 .. n : NearBucket(regions[i], bucket) => \E k \in 1 .. Len(L) : L[k] = i

LEMMA IndexRoundLists ==
  ASSUME NEW regions \in Seq(RegionRecord), NEW bucket, NEW n \in 1 .. Len(regions),
         NEW L, Lists(L, regions, bucket, n - 1)
  PROVE  Lists(IndexRound(regions, bucket, L, n), regions, bucket, n)
<1>1. /\ L \in Seq(1 .. Len(regions)) /\ Len(L) \in Nat /\ n \in Nat
      /\ \A k, l \in 1 .. Len(L) : k < l => L[k] < L[l]
      /\ \A k \in 1 .. Len(L) : L[k] \in Nat /\ L[k] <= n - 1
      /\ \A i \in 1 .. n - 1 : NearBucket(regions[i], bucket) => \E k \in 1 .. Len(L) : L[k] = i
  BY DEF Lists
<1>2. CASE NearBucket(regions[n], bucket)
  <2> DEFINE M == Append(L, n)
  <2>1. /\ M \in Seq(1 .. Len(regions)) /\ Len(M) = Len(L) + 1
        /\ M[Len(L) + 1] = n /\ \A k \in 1 .. Len(L) : M[k] = L[k]
    BY <1>1
  <2> HIDE DEF M
  <2>2. \A k \in 1 .. Len(M) : M[k] <= n
    <3> SUFFICES ASSUME NEW k \in 1 .. Len(M) PROVE M[k] <= n
      OBVIOUS
    <3>1. CASE k \in 1 .. Len(L)
      <4>1. M[k] = L[k] /\ L[k] \in Nat /\ L[k] <= n - 1
        BY <1>1, <2>1, <3>1
      <4> QED BY <1>1, <4>1
    <3>2. CASE k \notin 1 .. Len(L)
      <4>1. k = Len(L) + 1
        BY <1>1, <2>1, <3>2
      <4> QED BY <1>1, <2>1, <4>1
    <3> QED BY <3>1, <3>2
  <2>3. \A k, l \in 1 .. Len(M) : k < l => M[k] < M[l]
    <3> SUFFICES ASSUME NEW k \in 1 .. Len(M), NEW l \in 1 .. Len(M), k < l
                 PROVE  M[k] < M[l]
      OBVIOUS
    <3>0. Len(L) \in Nat /\ Len(M) = Len(L) + 1
      BY <1>1, <2>1
    <3>1. k \in 1 .. Len(L) /\ M[k] = L[k]
      <4>1. k \in 1 .. Len(L)
        BY <3>0
      <4> QED BY <2>1, <4>1
    <3>2. CASE l \in 1 .. Len(L)
      BY <1>1, <2>1, <3>1, <3>2
    <3>3. CASE l \notin 1 .. Len(L)
      <4>0. l = Len(L) + 1
        <5>1. Len(L) \in Nat /\ l \in 1 .. Len(L) + 1
          BY <1>1, <2>1
        <5> QED BY <3>3, <5>1
      <4>1. L[k] \in Nat /\ L[k] <= n - 1
        BY <1>1, <3>1
      <4>2. M[l] = n
        BY <2>1, <4>0
      <4> QED BY <1>1, <3>1, <4>1, <4>2
    <3> QED BY <3>2, <3>3
  <2>4. \A i \in 1 .. n : NearBucket(regions[i], bucket) => \E k \in 1 .. Len(M) : M[k] = i
    <3> SUFFICES ASSUME NEW i \in 1 .. n, NearBucket(regions[i], bucket)
                 PROVE  \E k \in 1 .. Len(M) : M[k] = i
      OBVIOUS
    <3>1. CASE i = n
      <4>1. Len(L) + 1 \in 1 .. Len(M)
        BY <1>1, <2>1
      <4> QED BY <2>1, <3>1, <4>1
    <3>2. CASE i # n
      <4>1. i \in 1 .. n - 1
        BY <1>1, <3>2
      <4>2. PICK k \in 1 .. Len(L) : L[k] = i
        BY <1>1, <4>1
      <4>3. M[k] = i
        BY <2>1, <4>2
      <4>4. Len(L) \in Nat /\ Len(M) = Len(L) + 1
        BY <1>1, <2>1
      <4>5. k \in 1 .. Len(M)
        BY <4>4
      <4> QED BY <4>3, <4>5
    <3> QED BY <3>1, <3>2
  <2>5. IndexRound(regions, bucket, L, n) = M
    BY <1>2 DEF IndexRound, M
  <2> QED BY <2>1, <2>2, <2>3, <2>4, <2>5 DEF Lists
<1>3. CASE ~ NearBucket(regions[n], bucket)
  <2>1. IndexRound(regions, bucket, L, n) = L
    BY <1>3 DEF IndexRound
  <2>2. \A k \in 1 .. Len(L) : L[k] <= n
    BY <1>1
  <2>3. \A i \in 1 .. n : NearBucket(regions[i], bucket) => i \in 1 .. n - 1
    BY <1>1, <1>3
  <2> QED BY <1>1, <2>1, <2>2, <2>3 DEF Lists
<1> QED BY <1>2, <1>3

LEMMA IndexIs ==
  ASSUME NEW regions \in Seq(RegionRecord), NEW bucket \in Buckets
  PROVE  Lists(BuildRegionIndex(regions)[bucket], regions, bucket, Len(regions))
<1> DEFINE N == Len(regions)
           numbers == [i \in DOMAIN regions |-> i]
           V == [n \in 0 .. N |-> {L \in Seq(1 .. N) : Lists(L, regions, bucket, n)}]
<1>1. N \in Nat /\ numbers \in Seq(1 .. N) /\ Len(numbers) = N
      /\ \A n \in 1 .. N : numbers[n] = n
  OBVIOUS
<1>2. << >> \in V[0]
  <2>1. Lists(<< >>, regions, bucket, 0)
    BY DEF Lists
  <2> QED BY <1>1, <2>1
<1>3. \A n \in 1 .. N : \A L \in V[n - 1] : IndexRound(regions, bucket, L, numbers[n]) \in V[n]
  <2> SUFFICES ASSUME NEW n \in 1 .. N, NEW L \in V[n - 1]
               PROVE  IndexRound(regions, bucket, L, n) \in V[n]
    BY <1>1
  <2>1. n - 1 \in 0 .. N /\ n \in 0 .. N
    BY <1>1
  <2>2. Lists(L, regions, bucket, n - 1)
    BY <2>1
  <2>3. Lists(IndexRound(regions, bucket, L, n), regions, bucket, n)
    BY <2>2, IndexRoundLists
  <2>4. IndexRound(regions, bucket, L, n) \in Seq(1 .. N)
    BY <2>3 DEF Lists
  <2> QED BY <2>1, <2>3, <2>4
<1>4. BuildRegionIndex(regions)[bucket] = IndexLoop!Folded(regions, bucket, << >>, numbers)
  BY IndexLoops
<1>5. N \in 0 .. N
  BY <1>1
<1> HIDE DEF V, numbers, N
<1>6. IndexLoop!Folded(regions, bucket, << >>, numbers) \in V[N]
  <2>1. Len(numbers) = N /\ numbers \in Seq(1 .. N)
    BY <1>1
  <2> QED BY <1>2, <1>3, <2>1, IndexLoop!FoldKeeps
<1> QED BY <1>4, <1>5, <1>6 DEF V, N

(* A region that covers a signature is near the signature's bucket: with a *)
(* full mask the low byte counts no bit the whole code does not count.     *)
LEMMA CoveringIsNear ==
  ASSUME NEW region \in RegionRecord, region.mask = Bits,
         NEW signature \in Code, Covers(region, signature)
  PROVE  NearBucket(region, signature \cap LowBits)
<1> DEFINE key == region.prototype \cap LowBits
           bucket == signature \cap LowBits
           low == (bucket \ key) \cup (key \ bucket)
           all == ((signature \ region.prototype) \cup (region.prototype \ signature))
                     \cap region.mask
<1>1. all \in SUBSET Bits /\ low \in SUBSET all
  BY DEF Code, RegionRecord
<1>2. IsFiniteSet(all)
  BY <1>1, FS_Subset
<1>3. Cardinality(low) <= Cardinality(all) /\ Cardinality(all) \in Nat
  BY <1>1, <1>2, FS_Subset, FS_CardinalityType
<1>4. IsFiniteSet(low) /\ Cardinality(low) \in Nat
  BY <1>1, <1>2, FS_Subset, FS_CardinalityType
<1>5. Cardinality(all) <= region.radius /\ region.radius \in Nat
  BY DEF Covers, MaskedHamming, RegionRecord
<1> HIDE DEF all
<1>6. Cardinality(low) <= region.radius
  BY <1>3, <1>4, <1>5
<1> QED BY <1>6 DEF NearBucket

(* So the covering regions of a bucket are all there are.                  *)
LEMMA BucketLosesNone ==
  ASSUME NEW regions \in Seq(RegionRecord),
         \A i \in DOMAIN regions : regions[i].mask = Bits,
         NEW signature \in Code
  PROVE  LET bucket == BuildRegionIndex(regions)[signature \cap LowBits]
         IN  CoveredIn(regions, signature, bucket, Len(bucket))
               = Cardinality({i \in DOMAIN regions : Covers(regions[i], signature)})
<1> DEFINE L == BuildRegionIndex(regions)[signature \cap LowBits]
           S == {k \in 1 .. Len(L) : Covers(regions[L[k]], signature)}
           T == {i \in DOMAIN regions : Covers(regions[i], signature)}
           f == [k \in S |-> L[k]]
<1>1. signature \cap LowBits \in Buckets
  BY DEF Buckets
<1>2. Lists(L, regions, signature \cap LowBits, Len(regions))
  BY <1>1, IndexIs
<1> HIDE DEF L
<1>3. /\ L \in Seq(1 .. Len(regions)) /\ Len(L) \in Nat
      /\ \A k, l \in 1 .. Len(L) : k < l => L[k] < L[l]
      /\ \A k \in 1 .. Len(L) : L[k] \in DOMAIN regions /\ L[k] \in Nat
      /\ \A i \in DOMAIN regions :
            NearBucket(regions[i], signature \cap LowBits) => \E k \in 1 .. Len(L) : L[k] = i
  <2>1. DOMAIN regions = 1 .. Len(regions) /\ Len(regions) \in Nat
    OBVIOUS
  <2>2. L \in Seq(1 .. Len(regions)) /\ \A k, l \in 1 .. Len(L) : k < l => L[k] < L[l]
    BY <1>2 DEF Lists
  <2>3. Len(L) \in Nat /\ \A k \in 1 .. Len(L) : L[k] \in 1 .. Len(regions)
    BY <2>2
  <2>4. \A k \in 1 .. Len(L) : L[k] \in DOMAIN regions /\ L[k] \in Nat
    BY <2>1, <2>3
  <2>5. \A i \in DOMAIN regions :
          NearBucket(regions[i], signature \cap LowBits) => \E k \in 1 .. Len(L) : L[k] = i
    BY <1>2, <2>1 DEF Lists
  <2> QED BY <2>2, <2>3, <2>4, <2>5
<1>4. f \in [S -> T]
  BY <1>3
<1>5. \A k, l \in S : f[k] = f[l] => k = l
  <2> SUFFICES ASSUME NEW k \in S, NEW l \in S, k # l PROVE L[k] # L[l]
    OBVIOUS
  <2>1. k \in 1 .. Len(L) /\ l \in 1 .. Len(L) /\ (k < l \/ l < k)
    BY <1>3
  <2>2. L[k] < L[l] \/ L[l] < L[k]
    BY <1>3, <2>1
  <2>3. L[k] \in Nat /\ L[l] \in Nat
    BY <1>3, <2>1
  <2> QED BY <2>2, <2>3
<1>6. \A i \in T : \E k \in S : f[k] = i
  <2> SUFFICES ASSUME NEW i \in T PROVE \E k \in S : f[k] = i
    OBVIOUS
  <2>1. NearBucket(regions[i], signature \cap LowBits)
    BY CoveringIsNear
  <2>2. PICK k \in 1 .. Len(L) : L[k] = i
    BY <1>3, <2>1
  <2>3. k \in S
    BY <2>2
  <2> QED BY <2>2, <2>3
<1>7. f \in Bijection(S, T)
  <2>1. f \in Injection(S, T)
    BY <1>4, <1>5 DEF Injection, IsInjective
  <2>2. f \in Surjection(S, T)
    BY <1>4, <1>6 DEF Surjection
  <2> QED BY <2>1, <2>2 DEF Bijection
<1>8. IsFiniteSet(S)
  <2>1. S \in SUBSET (1 .. Len(L)) /\ Len(L) \in Nat
    BY <1>3
  <2> HIDE DEF S, T, f
  <2> DEFINE m == Len(L)
  <2>2. m \in Nat /\ S \in SUBSET (1 .. m)
    BY <2>1
  <2> HIDE DEF m
  <2>3. IsFiniteSet(1 .. m)
    BY <2>2, FS_Interval
  <2> QED BY <2>2, <2>3, FS_Subset
<1> HIDE DEF S, T, f
<1>9. Cardinality(T) = Cardinality(S)
  BY <1>7, <1>8, FS_Bijection DEF ExistsBijection
<1> QED BY <1>9 DEF S, T, L, CoveredIn

-----------------------------------------------------------------------------
(* Whatever questions went through the reused scratch and prediction       *)
(* before, and whatever was refused in between, every buffer of a running  *)
(* call is what its loops have made of an empty one.                       *)
THEOREM BuffersStartEmpty == Spec => []IInv
BY InitIInv, NextIInv, PTL DEF Spec

(* An answer is the function of the artifact, the context and the policy   *)
(* that Predicted states without buffers (artifact.rs:644-782).            *)
THEOREM AnswersAreTheirQuestions == Spec => []AnswersDependOnQuestionOnly
<1>1. IInv => AnswersDependOnQuestionOnly
  BY DEF IInv
<1> QED BY <1>1, BuffersStartEmpty, PTL

LEMMA SourceOf ==
  ASSUME NEW a, NEW c, NEW p
  PROVE  LET e == Predicted(a, c, p)
         IN  IF p = "PreferExact" /\ ExactDepths(a, c) # {}
             THEN /\ e.summary.source = "Exact"
                  /\ e.summary.exact_context_len = Max(ExactDepths(a, c))
             ELSE /\ e.summary.source = IF e.prediction.entries # << >> THEN "Graph" ELSE "Novel"
                  /\ e.summary.exact_context_len = 0
<1>1. CASE p = "PreferExact" /\ ExactDepths(a, c) # {}
  BY <1>1 DEF Predicted, PredictedExact, Summary
<1>2. CASE ~ (p = "PreferExact" /\ ExactDepths(a, c) # {})
  <2> DEFINE e == PredictedGraph(a, c)
  <2>1. Predicted(a, c, p) = e
    BY <1>2 DEF Predicted
  <2>2. /\ e.summary.source = IF e.prediction.entries # << >> THEN "Graph" ELSE "Novel"
        /\ e.summary.exact_context_len = 0
    BY DEF PredictedGraph, Summary
  <2> QED BY <1>2, <2>1, <2>2
<1> QED BY <1>1, <1>2

(* The longest stored suffix of the context serves, and the graph answers  *)
(* only when none is stored or the policy ignores them.                    *)
THEOREM SuffixesComeFirst == Spec => []LongestSuffixServes
<1>1. AnswersDependOnQuestionOnly => LongestSuffixServes
  <2> SUFFICES ASSUME AnswersDependOnQuestionOnly, phase = "idle",
                      answer # ContextTooLong, context # << >>
               PROVE  IF policy = "PreferExact" /\ ExactDepths(artifact, context) # {}
                      THEN source = "Exact" /\ answer.exact_context_len = Max(ExactDepths(artifact, context))
                      ELSE source # "Exact" /\ answer.exact_context_len = 0
    BY DEF LongestSuffixServes
  <2> DEFINE e == Predicted(artifact, context, policy)
  <2>1. source = e.summary.source /\ answer = e.summary
    BY DEF AnswersDependOnQuestionOnly
  <2>2. IF policy = "PreferExact" /\ ExactDepths(artifact, context) # {}
        THEN /\ e.summary.source = "Exact"
             /\ e.summary.exact_context_len = Max(ExactDepths(artifact, context))
        ELSE /\ e.summary.source = IF e.prediction.entries # << >> THEN "Graph" ELSE "Novel"
             /\ e.summary.exact_context_len = 0
    BY SourceOf
  <2> HIDE DEF e
  <2> QED BY <2>1, <2>2
<1> QED BY <1>1, AnswersAreTheirQuestions, PTL

-----------------------------------------------------------------------------
(* Every artifact was written by compile, with full masks and an index of  *)
(* its own regions (compiler.rs:688-710).                                  *)
CompiledArtifacts ==
  \A a \in Artifacts :
    /\ a.index = BuildRegionIndex(a.regions)
    /\ \A i \in DOMAIN a.regions : a.regions[i].mask = Bits

(* The one bucket a prediction scans holds every region that covers the    *)
(* signature, so what the scan has counted at its end is all of them.      *)
THEOREM BucketsHoldAllTheyCover ==
  ASSUME CompiledArtifacts
  PROVE  Spec => []IndexLosesNoRegion
<1>1. IInv => IndexLosesNoRegion
  <2> SUFFICES ASSUME IInv, phase = "accumulate"
               PROVE  matched = Cardinality({i \in DOMAIN artifact.regions :
                                  Covers(artifact.regions[i], SignatureOf(context))})
    BY DEF IndexLosesNoRegion
  <2> DEFINE regions == artifact.regions
             signature == SignatureOf(context)
  <2>1. Types /\ Scanned /\ Accumulated
    BY DEF IInv
  <2>2. matched = CoveredIn(regions, signature, Bucket, Len(Bucket))
    BY <2>1 DEF Scanned, Accumulated
  <2>3. artifact \in Artifacts /\ regions \in Seq(RegionRecord) /\ signature \in Code
    BY <2>1, RunningFacts DEF Types
  <2>4. /\ Bucket = BuildRegionIndex(regions)[signature \cap LowBits]
        /\ \A i \in DOMAIN regions : regions[i].mask = Bits
    BY <2>3 DEF CompiledArtifacts, Bucket, BucketOf
  <2> HIDE DEF regions, signature
  <2>5. CoveredIn(regions, signature, Bucket, Len(Bucket))
          = Cardinality({i \in DOMAIN regions : Covers(regions[i], signature)})
    BY <2>3, <2>4, BucketLosesNone
  <2> QED BY <2>2, <2>5 DEF regions, signature
<1> QED BY <1>1, BuffersStartEmpty, PTL

-----------------------------------------------------------------------------
(* Taking evidence only observes: with it the prediction does what it did  *)
(* without it, so what is proved of Spec holds of CompatibilitySpec.       *)
LEMMA EvidenceOnlyObserves == CompatibilitySpec => Spec
<1>1. InitCompatibility => Init
  BY DEF InitCompatibility
<1>2. [CompatibilityNext]_<<vars, evidence>> => [Next]_vars
  BY DEF CompatibilityNext, TakeEvidence
<1> QED BY <1>1, <1>2, PTL DEF CompatibilitySpec, Spec

-----------------------------------------------------------------------------
(* The predictions a buffer of the capacity can hold.                      *)
Predictions ==
  {p \in [entries : Seq(TokenScore), truncated : Nat] : Len(p.entries) <= OutputCapacity}

LEMMA SaturateType ==
  ASSUME NEW sum \in Int
  PROVE  Saturate(sum) \in Score
BY DEF Saturate, Score

LEMMA CopyRoundType ==
  ASSUME NEW p \in Predictions, NEW entry \in TokenScore
  PROVE  /\ InsertExact(p, entry) \in Predictions
         /\ OutputCapacity > 0 => InsertExact(p, entry).entries # << >>
<1>1. /\ p.entries \in Seq(TokenScore) /\ p.truncated \in Nat
      /\ Len(p.entries) \in Nat /\ Len(p.entries) <= OutputCapacity
  BY DEF Predictions
<1>2. CASE Len(p.entries) < OutputCapacity
  <2> DEFINE s == Append(p.entries, entry)
  <2>1. s \in Seq(TokenScore) /\ Len(s) = Len(p.entries) + 1
    BY <1>1
  <2>2. s # << >>
    BY <1>1
  <2>3. InsertExact(p, entry) = [entries |-> s, truncated |-> p.truncated]
    BY <1>2 DEF InsertExact
  <2> HIDE DEF s
  <2>4. Len(s) <= OutputCapacity
    BY <1>1, <1>2, <2>1
  <2> QED BY <1>1, <2>1, <2>2, <2>3, <2>4 DEF Predictions
<1>3. CASE ~ (Len(p.entries) < OutputCapacity)
  <2>1. InsertExact(p, entry) = [entries |-> p.entries, truncated |-> p.truncated + 1]
    BY <1>3 DEF InsertExact
  <2>2. OutputCapacity > 0 => p.entries # << >>
    BY <1>1, <1>3
  <2> QED BY <1>1, <2>1, <2>2 DEF Predictions
<1> QED BY <1>2, <1>3

(* A copy of an exact record is a prediction, and not an empty one.        *)
LEMMA CopyType ==
  ASSUME NEW record, record.emissions \in Seq(TokenScore)
  PROVE  /\ CopyExact(record) \in Predictions
         /\ OutputCapacity > 0 /\ record.emissions # << >> => CopyExact(record).entries # << >>
<1> DEFINE s == record.emissions
           V == [n \in 0 .. Len(s) |->
                   {p \in Predictions : OutputCapacity > 0 /\ n > 0 => p.entries # << >>}]
<1>1. Len(s) \in Nat /\ Len(s) \in 0 .. Len(s)
  OBVIOUS
<1>2. EmptyPrediction \in V[0]
  <2>1. EmptyPrediction \in Predictions
    BY DEF EmptyPrediction, Predictions
  <2> QED BY <1>1, <2>1
<1>3. \A n \in 1 .. Len(s) : \A v \in V[n - 1] : CopyRound(0, 0, v, s[n]) \in V[n]
  <2> SUFFICES ASSUME NEW n \in 1 .. Len(s), NEW v \in V[n - 1]
               PROVE  CopyRound(0, 0, v, s[n]) \in V[n]
    OBVIOUS
  <2>1. n \in 0 .. Len(s) /\ n - 1 \in 0 .. Len(s) /\ s[n] \in TokenScore
    BY <1>1
  <2>2. v \in Predictions
    BY <2>1
  <2>3. /\ InsertExact(v, s[n]) \in Predictions
        /\ OutputCapacity > 0 => InsertExact(v, s[n]).entries # << >>
    BY <2>1, <2>2, CopyRoundType
  <2> QED BY <2>1, <2>3 DEF CopyRound
<1> HIDE DEF V
<1>4. CopyLoop!Folded(0, 0, EmptyPrediction, s) \in V[Len(s)]
  BY <1>2, <1>3, CopyLoop!FoldKeeps
<1>5. CopyExact(record) = CopyLoop!Folded(0, 0, EmptyPrediction, s)
  BY CopyLoops
<1>6. /\ CopyExact(record) \in Predictions
      /\ OutputCapacity > 0 /\ Len(s) > 0 => CopyExact(record).entries # << >>
  BY <1>1, <1>4, <1>5 DEF V
<1>7. s # << >> => Len(s) > 0
  OBVIOUS
<1> QED BY <1>6, <1>7

(* The slot of a held token, and what taking it out leaves.                *)
LEMMA SlotIs ==
  ASSUME NEW entries \in Seq(TokenScore), NEW token
  PROVE  SlotOf(entries, token) \in 0 .. Len(entries)
<1> DEFINE I == {i \in 1 .. Len(entries) : entries[i].token = token}
<1>1. SlotOf(entries, token) = IF I # {} THEN Min(I) ELSE 0
  BY DEF SlotOf, SelectInSeq
<1>2. Len(entries) \in Nat /\ I \in SUBSET Nat /\ I \in SUBSET (1 .. Len(entries))
  OBVIOUS
<1>3. CASE I # {}
  <2> HIDE DEF I
  <2>1. PICK x \in I : \A y \in I : x <= y
    BY <1>2, <1>3, CopyLoop!NatHasMin
  <2>2. Min(I) \in I
    BY <2>1 DEF Min
  <2>3. SlotOf(entries, token) = Min(I)
    BY <1>1, <1>3
  <2>4. SlotOf(entries, token) \in 1 .. Len(entries)
    BY <1>2, <2>2, <2>3
  <2> QED BY <1>2, <2>4
<1>4. CASE I = {}
  <2>1. SlotOf(entries, token) = 0
    BY <1>1, <1>4
  <2> QED BY <1>2, <2>1
<1> QED BY <1>3, <1>4

LEMMA RemovedType ==
  ASSUME NEW S, NEW s \in Seq(S), NEW i \in 1 .. Len(s)
  PROVE  RemoveAt(s, i) \in Seq(S) /\ Len(RemoveAt(s, i)) = Len(s) - 1
<1>1. Len(s) \in Nat /\ i \in Nat
  OBVIOUS
<1>2. SubSeq(s, 1, i - 1) \in Seq(S) /\ Len(SubSeq(s, 1, i - 1)) = i - 1
  BY <1>1, SubSeqProperties
<1>3. SubSeq(s, i + 1, Len(s)) \in Seq(S) /\ Len(SubSeq(s, i + 1, Len(s))) = Len(s) - i
  BY <1>1, SubSeqProperties
<1>4. RemoveAt(s, i) = SubSeq(s, 1, i - 1) \o SubSeq(s, i + 1, Len(s))
  BY DEF RemoveAt
<1> DEFINE l == SubSeq(s, 1, i - 1)
           r == SubSeq(s, i + 1, Len(s))
<1>5. l \in Seq(S) /\ r \in Seq(S) /\ Len(l) = i - 1 /\ Len(r) = Len(s) - i
  BY <1>2, <1>3
<1> HIDE DEF l, r
<1>6. l \o r \in Seq(S) /\ Len(l \o r) = Len(l) + Len(r)
  BY <1>5, ConcatProperties
<1>7. RemoveAt(s, i) = l \o r
  BY <1>4 DEF l, r
<1>8. Len(l) + Len(r) = Len(s) - 1
  <2>1. Len(s) \in Nat /\ i \in Nat /\ Len(l) = i - 1 /\ Len(r) = Len(s) - i
    BY <1>1, <1>5
  <2> QED BY <2>1
<1>9. Len(l \o r) = Len(s) - 1
  BY <1>6, <1>8
<1> QED BY <1>6, <1>7, <1>9

LEMMA RankedType ==
  ASSUME NEW s \in Seq(TokenScore), Len(s) <= OutputCapacity, NEW entry \in TokenScore
  PROVE  /\ Ranked!InsertRanked(s, entry) \in Seq(TokenScore)
         /\ Len(Ranked!InsertRanked(s, entry)) <= OutputCapacity
         /\ OutputCapacity > 0 => Ranked!InsertRanked(s, entry) # << >>
<1>1. /\ EmissionLoop!InsertRanked(s, entry) \in Seq(TokenScore)
      /\ Len(EmissionLoop!InsertRanked(s, entry)) = EmissionLoop!LengthAfter(s)
      /\ EmissionLoop!LengthAfter(s) <= OutputCapacity
  BY EmissionLoop!InsertRankedEntries
<1>2. EmissionLoop!InsertRanked(s, entry) = Ranked!InsertRanked(s, entry)
  BY DEF EmissionLoop!InsertRanked, Ranked!InsertRanked, EmissionLoop!Shifted, Ranked!Shifted,
         EmissionLoop!Position, Ranked!Position, EmissionLoop!LengthAfter, Ranked!LengthAfter
<1>3. OutputCapacity > 0 => EmissionLoop!LengthAfter(s) > 0
  BY DEF EmissionLoop!LengthAfter
<1> QED BY <1>1, <1>2, <1>3

LEMMA AccumulateType ==
  ASSUME NEW p \in Predictions, NEW entry \in TokenScore
  PROVE  Accumulate(p, entry) \in Predictions
<1> DEFINE entries == p.entries
           slot == SlotOf(entries, entry.token)
           grown == [token |-> entry.token, score |-> Saturate(entries[slot].score + entry.score)]
<1>1. /\ entries \in Seq(TokenScore) /\ p.truncated \in Nat
      /\ Len(entries) \in Nat /\ Len(entries) <= OutputCapacity
  BY DEF Predictions
<1>2. slot \in 0 .. Len(entries)
  BY <1>1, SlotIs
<1> HIDE DEF entries, slot
<1>3. CASE slot # 0
  <2>1. slot \in 1 .. Len(entries)
    BY <1>2, <1>3, <1>1
  <2>2. grown \in TokenScore
    <3>1. entries[slot] \in TokenScore
      BY <1>1, <2>1
    <3>2. entries[slot].score \in Int /\ entry.score \in Int /\ entry.token \in Tokens
      BY <3>1 DEF TokenScore, Score
    <3>3. Saturate(entries[slot].score + entry.score) \in Score
      BY <3>2, SaturateType
    <3> QED BY <3>2, <3>3 DEF TokenScore
  <2> HIDE DEF grown
  <2>3. RemoveAt(entries, slot) \in Seq(TokenScore) /\ Len(RemoveAt(entries, slot)) <= OutputCapacity
    BY <1>1, <2>1, RemovedType
  <2>4. /\ Ranked!InsertRanked(RemoveAt(entries, slot), grown) \in Seq(TokenScore)
        /\ Len(Ranked!InsertRanked(RemoveAt(entries, slot), grown)) <= OutputCapacity
    BY <2>2, <2>3, RankedType
  <2>5. Accumulate(p, entry) = [entries |-> Ranked!InsertRanked(RemoveAt(entries, slot), grown),
                                truncated |-> p.truncated]
    BY <1>3 DEF Accumulate, entries, slot, grown
  <2> QED BY <1>1, <2>4, <2>5 DEF Predictions
<1>4. CASE slot = 0
  <2>1. /\ Ranked!InsertRanked(entries, entry) \in Seq(TokenScore)
        /\ Len(Ranked!InsertRanked(entries, entry)) <= OutputCapacity
    BY <1>1, RankedType
  <2>2. Accumulate(p, entry) = [entries |-> Ranked!InsertRanked(entries, entry),
                                truncated |-> IF Len(entries) < OutputCapacity
                                              THEN p.truncated ELSE p.truncated + 1]
    BY <1>4 DEF Accumulate, entries, slot
  <2> QED BY <1>1, <2>1, <2>2 DEF Predictions
<1> QED BY <1>3, <1>4

LEMMA RegionType ==
  ASSUME NEW p \in Predictions, NEW region \in RegionRecord, NEW margin \in Int
  PROVE  AccumulateRegion(p, region, margin) \in Predictions
<1> DEFINE s == region.emissions
<1>1. s \in Seq(TokenScore)
  BY DEF RegionRecord, Emissions
<1>2. \A v \in Predictions : \A i \in 1 .. Len(s) : EmissionRound(margin, 0, v, s[i]) \in Predictions
  <2> SUFFICES ASSUME NEW v \in Predictions, NEW i \in 1 .. Len(s)
               PROVE  EmissionRound(margin, 0, v, s[i]) \in Predictions
    OBVIOUS
  <2>1. s[i] \in TokenScore
    BY <1>1
  <2>2. s[i].token \in Tokens /\ s[i].score \in Int
    BY <2>1 DEF TokenScore, Score
  <2>3. Saturate(s[i].score + margin) \in Score
    BY <2>2, SaturateType
  <2>4. WithBonus(s[i], margin) \in TokenScore
    BY <2>2, <2>3 DEF WithBonus, TokenScore
  <2> QED BY <2>4, AccumulateType DEF EmissionRound
<1> HIDE DEF s
<1>3. EmissionLoop!Folded(margin, 0, p, s) \in Predictions
  BY <1>1, <1>2, EmissionLoop!FoldStays
<1> QED BY <1>3, RegionLoop DEF s

LEMMA GraphType ==
  ASSUME NEW regions \in Seq(RegionRecord), NEW signature \in Code,
         NEW kept \in Seq(Entries(regions, signature))
  PROVE  ActiveLoop!Folded(regions, 0, EmptyPrediction, kept) \in Predictions
<1>1. EmptyPrediction \in Predictions
  BY DEF EmptyPrediction, Predictions
<1>2. \A v \in Predictions : \A i \in 1 .. Len(kept) :
        ActiveRound(regions, 0, v, kept[i]) \in Predictions
  <2> SUFFICES ASSUME NEW v \in Predictions, NEW i \in 1 .. Len(kept)
               PROVE  ActiveRound(regions, 0, v, kept[i]) \in Predictions
    OBVIOUS
  <2>1. PICK j \in DOMAIN regions : kept[i] = RouteEntry(regions, j, signature)
    <3>1. kept[i] \in Entries(regions, signature)
      OBVIOUS
    <3> QED BY <3>1 DEF Entries
  <2>2. regions[j] \in RegionRecord
    OBVIOUS
  <2>3. /\ kept[i].record_index = j
        /\ kept[i].margin = regions[j].radius - MaskedHamming(signature, regions[j])
    BY <2>1 DEF RouteEntry, MembershipOf
  <2>4. MaskedHamming(signature, regions[j]) \in Nat /\ regions[j].radius \in Nat
    BY <2>2, HammingType DEF RegionRecord
  <2>5. kept[i].margin \in Int
    BY <2>3, <2>4
  <2>6. AccumulateRegion(v, regions[j], kept[i].margin) \in Predictions
    BY <2>2, <2>5, RegionType
  <2> QED BY <2>3, <2>6 DEF ActiveRound
<1> QED BY <1>1, <1>2, ActiveLoop!FoldStays

(* The record that serves a suffix is one of the artifact's.               *)
LEMMA MatchIsRecord ==
  ASSUME NEW records, NEW c, FirstMatch(records, c) # 0
  PROVE  FirstMatch(records, c) \in 1 .. Len(records)
<1> DEFINE Hits == {p \in 1 .. Len(records) : Answers(records[p], c)}
<1>1. Hits # {} /\ Hits \in SUBSET Nat
  BY DEF FirstMatch
<1>2. PICK p \in Hits : \A q \in Hits : p <= q
  <2> HIDE DEF Hits
  <2> QED BY <1>1, CopyLoop!NatHasMin
<1>3. p \in 1 .. Len(records) /\ Answers(records[p], c)
  BY <1>2
<1>4. \A q \in 1 .. p - 1 : ~ Answers(records[q], c)
  <2> SUFFICES ASSUME NEW q \in 1 .. p - 1, Answers(records[q], c) PROVE FALSE
    OBVIOUS
  <2>1. p \in Nat /\ q \in Nat /\ 1 <= q /\ q < p
    BY <1>3
  <2>2. q \in 1 .. Len(records)
    BY <1>3, <2>1
  <2>3. q \in Hits
    BY <2>2
  <2> QED BY <1>2, <2>1, <2>3
<1> QED BY <1>1, <1>3, <1>4 DEF FirstMatch

(* Records of an artifact that serves have emissions, as compile writes    *)
(* them, and there is room to serve one.                                   *)
AnswersAreServed ==
  /\ OutputCapacity > 0
  /\ \A a \in Artifacts : \A i \in DOMAIN a.exact : a.exact[i].emissions # << >>

(* An answer has entries unless it is novel.                               *)
LEMMA AnswerIsServed ==
  ASSUME AnswersAreServed, NEW a \in Artifacts,
         NEW c \in Questions, Len(c) <= MaxContext, NEW p
  PROVE  LET e == Predicted(a, c, p)
         IN  /\ e.prediction.entries \in Seq(TokenScore)
             /\ e.summary.source = "Novel" <=> e.prediction.entries = << >>
<1> DEFINE e == Predicted(a, c, p)
<1>1. CASE p = "PreferExact" /\ ExactDepths(a, c) # {}
  <2> DEFINE longest == Max(ExactDepths(a, c))
             i == FirstMatch(a.exact, SuffixOf(c, longest))
  <2>1. longest \in ExactDepths(a, c)
    <3>1. Len(c) \in Nat
      BY QuestionsAssumption
    <3>2. ExactDepths(a, c) \in SUBSET (1 .. Len(c))
      BY DEF ExactDepths
    <3> QED BY <1>1, <3>1, <3>2, CopyLoop!GreatestIs DEF Max, CopyLoop!Greatest
  <2>2. i # 0
    BY <2>1 DEF ExactDepths
  <2> HIDE DEF longest
  <2>3. i \in 1 .. Len(a.exact)
    BY <2>2, MatchIsRecord
  <2>4. e.prediction = CopyExact(a.exact[i]) /\ e.summary.source = "Exact"
    BY <1>1 DEF Predicted, PredictedExact, Summary, longest
  <2> HIDE DEF i, e
  <2>5. a.exact \in Seq(ExactRecord)
    BY ArtifactsAssumption
  <2>6. a.exact[i] \in ExactRecord /\ i \in DOMAIN a.exact
    BY <2>3, <2>5
  <2>7. a.exact[i].emissions \in Seq(TokenScore) /\ a.exact[i].emissions # << >>
    BY <2>6 DEF ExactRecord, Emissions, AnswersAreServed
  <2>8. CopyExact(a.exact[i]) \in Predictions /\ CopyExact(a.exact[i]).entries # << >>
    BY <2>7, CopyType DEF AnswersAreServed
  <2> QED BY <2>4, <2>8 DEF Predictions, e
<1>2. CASE ~ (p = "PreferExact" /\ ExactDepths(a, c) # {})
  <2> DEFINE regions == a.regions
             signature == SignatureOf(c)
             bucket == a.index[BucketOf(c)]
             kept == ScanLoop!Folded(regions, signature, << >>, bucket)
  <2>1. SignatureOf(c) \in Code /\ BucketOf(c) \in Buckets
    BY QuestionFacts
  <2>2. regions \in Seq(RegionRecord) /\ bucket \in Seq(DOMAIN regions)
    BY <2>1, ArtifactFacts
  <2>3. e = GraphOf(regions, signature, bucket)
    BY <1>2, GraphLoops DEF Predicted
  <2> HIDE DEF e, bucket, regions
  <2>4. kept \in Seq(Entries(regions, signature))
    BY <2>2, ScanType
  <2>5. e.prediction = ActiveLoop!Folded(regions, 0, EmptyPrediction, kept)
    BY <2>3 DEF GraphOf
  <2> HIDE DEF kept
  <2>6. e.prediction \in Predictions
    BY <2>1, <2>2, <2>4, <2>5, GraphType
  <2>7. e.summary.source = IF e.prediction.entries # << >> THEN "Graph" ELSE "Novel"
    BY <1>2, SourceOf DEF e
  <2> QED BY <2>6, <2>7 DEF Predictions, e
<1> QED BY <1>1, <1>2

(* What evidence that is held says, whatever was asked since: it is of the *)
(* answer that its question has.                                           *)
EvidenceOf(c, p) ==
  LET e == Predicted(artifact, c, p)
      entries == e.prediction.entries
  IN  /\ evidence.question = <<c, p>>
      /\ evidence.witness.artifact_id = "own"
      /\ evidence.witness.status = Status(e.summary.source)
      /\ evidence.witness.token = IF entries = << >> THEN 0 ELSE Head(entries).token
      /\ evidence.copy = Copied(e.prediction, e.summary.source)
      /\ evidence.full = (Len(entries) > TargetCapacity)

EvidenceInv ==
  evidence = NoEvidence
    \/ \E c \in Questions, p \in {"PreferExact", "GraphOnly"} :
         c # << >> /\ Len(c) <= MaxContext /\ EvidenceOf(c, p)

LEMMA TakeEvidenceStep ==
  ASSUME IInv, TakeEvidence
  PROVE  EvidenceInv'
<1> DEFINE e == Predicted(artifact, context, policy)
<1>1. phase = "idle" /\ context # << >> /\ UNCHANGED vars
  BY DEF TakeEvidence
<1>2. prediction = e.prediction /\ source = e.summary.source
  BY <1>1 DEF IInv, AnswersDependOnQuestionOnly
<1>3. context \in Questions /\ Len(context) <= MaxContext
      /\ policy \in {"PreferExact", "GraphOnly"}
  BY <1>1 DEF IInv, Types, Asked
<1>4. artifact' = artifact
  BY <1>1 DEF vars
<1>5. /\ evidence'.question = <<context, policy>>
      /\ evidence'.witness.artifact_id = "own"
      /\ evidence'.witness.status = Status(source)
      /\ evidence'.witness.token = IF prediction.entries = << >> THEN 0
                                   ELSE Head(prediction.entries).token
      /\ evidence'.copy = Copied(prediction, source)
      /\ evidence'.full = (Len(prediction.entries) > TargetCapacity)
  BY DEF TakeEvidence, FromArtifact
<1>6. Predicted(artifact, context, policy)' = e
  BY <1>1 DEF vars
<1> HIDE DEF e
<1>7. LET d == Predicted(artifact', context, policy)
          entries == d.prediction.entries
      IN  /\ evidence'.question = <<context, policy>>
          /\ evidence'.witness.artifact_id = "own"
          /\ evidence'.witness.status = Status(d.summary.source)
          /\ evidence'.witness.token = IF entries = << >> THEN 0 ELSE Head(entries).token
          /\ evidence'.copy = Copied(d.prediction, d.summary.source)
          /\ evidence'.full = (Len(entries) > TargetCapacity)
  BY <1>2, <1>4, <1>5 DEF e
<1>8. \E c \in Questions, p \in {"PreferExact", "GraphOnly"} :
        c # << >> /\ Len(c) <= MaxContext /\ EvidenceOf(c, p)'
  BY <1>1, <1>3, <1>7 DEF EvidenceOf
<1> QED BY <1>8 DEF EvidenceInv

LEMMA EvidenceInvKept == IInv /\ EvidenceInv /\ [CompatibilityNext]_<<vars, evidence>> => EvidenceInv'
<1> SUFFICES ASSUME IInv, EvidenceInv, [CompatibilityNext]_<<vars, evidence>> PROVE EvidenceInv'
  OBVIOUS
<1>1. CASE TakeEvidence
  BY <1>1, TakeEvidenceStep
<1>2. CASE evidence' = evidence /\ artifact' = artifact
  BY <1>2 DEF EvidenceInv, EvidenceOf
<1>3. CASE Next /\ UNCHANGED evidence
  <2>1. artifact' = artifact
    BY <1>3 DEF Next, RefuseContext, BeginPredict, PredictStep, ServeExact, BackOff, BeginScan,
       ScanRegion, BeginAccumulate, AccumulateEmission, NextActive, FinishGraph
  <2> QED BY <1>2, <1>3, <2>1
<1>4. CASE UNCHANGED <<vars, evidence>>
  BY <1>2, <1>4 DEF vars
<1> QED BY <1>1, <1>3, <1>4 DEF CompatibilityNext

(* Evidence of an answer verifies against any later answer to the same     *)
(* question, under every manifest that names the artifact and under none   *)
(* that does not (compatibility.rs:118-150 and 241-297).                   *)
LEMMA EvidenceVerifies ==
  ASSUME AnswersAreServed, IInv, EvidenceInv
  PROVE  EvidenceReplays
<1> SUFFICES ASSUME phase = "idle", evidence # NoEvidence, evidence.question = <<context, policy>>
             PROVE  /\ \A manifest \in Manifest :
                         LET verdict == Verified(evidence.witness, manifest, prediction, source)
                         IN  IF ManifestError(manifest) = "Artifact"
                             THEN verdict = "WitnessIdentityMismatch"
                             ELSE verdict = IF source = "Novel" THEN "MissingPrediction" ELSE "Ok"
                    /\ MatchesRuntime(evidence.copy, prediction, source) <=> ~ evidence.full
  BY DEF EvidenceReplays
<1> DEFINE e == Predicted(artifact, context, policy)
<1>1. PICK c \in Questions, p \in {"PreferExact", "GraphOnly"} :
        c # << >> /\ Len(c) <= MaxContext /\ EvidenceOf(c, p)
  BY DEF EvidenceInv
<1>2. c = context /\ p = policy
  <2>1. <<c, p>> = <<context, policy>>
    BY <1>1 DEF EvidenceOf
  <2> QED BY <2>1
<1>3. context \in Questions /\ context # << >> /\ Len(context) <= MaxContext /\ artifact \in Artifacts
  BY <1>1, <1>2 DEF IInv, Types
<1>4. prediction = e.prediction /\ source = e.summary.source
  BY <1>3 DEF IInv, AnswersDependOnQuestionOnly
<1>5. /\ prediction.entries \in Seq(TokenScore)
      /\ source = "Novel" <=> prediction.entries = << >>
  BY <1>3, <1>4, AnswerIsServed
<1>6. /\ evidence.witness.artifact_id = "own"
      /\ evidence.witness.status = Status(source)
      /\ evidence.witness.token = IF prediction.entries = << >> THEN 0
                                  ELSE Head(prediction.entries).token
      /\ evidence.copy = Copied(prediction, source)
      /\ evidence.full = (Len(prediction.entries) > TargetCapacity)
  BY <1>1, <1>2, <1>4 DEF EvidenceOf
<1> HIDE DEF e
<1>7. ASSUME NEW manifest \in Manifest
      PROVE  IF ManifestError(manifest) = "Artifact"
             THEN Verified(evidence.witness, manifest, prediction, source) = "WitnessIdentityMismatch"
             ELSE Verified(evidence.witness, manifest, prediction, source)
                    = IF source = "Novel" THEN "MissingPrediction" ELSE "Ok"
  <2>1. ManifestError(manifest) = "Artifact" <=> manifest.artifact_id # "own"
    BY DEF ManifestError, FromArtifact
  <2> QED BY <1>5, <1>6, <2>1 DEF Verified
<1>8. MatchesRuntime(evidence.copy, prediction, source) <=> ~ evidence.full
  <2> DEFINE s == prediction.entries
             m == IF Len(s) < TargetCapacity THEN Len(s) ELSE TargetCapacity
  <2>1. s \in Seq(TokenScore) /\ Len(s) \in Nat /\ TargetCapacity \in Nat
    BY <1>5, TargetCapacityAssumption
  <2>2. m \in 0 .. Len(s) /\ (m = Len(s) <=> ~ (Len(s) > TargetCapacity))
    BY <2>1
  <2>3. MatchesRuntime(evidence.copy, prediction, source) <=> SubSeq(s, 1, m) = s
    BY <1>6 DEF MatchesRuntime, Copied
  <2> HIDE DEF m
  <2>4. Len(SubSeq(s, 1, m)) = m
    BY <2>1, <2>2, SubSeqProperties
  <2>5. SubSeq(s, 1, Len(s)) = s
    BY <2>1
  <2>6. SubSeq(s, 1, m) = s <=> m = Len(s)
    BY <2>4, <2>5
  <2> QED BY <1>6, <2>2, <2>3, <2>6
<1> QED BY <1>7, <1>8

(* Whatever is asked between the two answers, refused questions included,  *)
(* evidence replays.                                                       *)
THEOREM EvidenceAlwaysReplays ==
  ASSUME AnswersAreServed
  PROVE  CompatibilitySpec => []EvidenceReplays
<1>1. InitCompatibility => EvidenceInv
  BY DEF InitCompatibility, EvidenceInv
<1>2. CompatibilitySpec => []IInv
  BY EvidenceOnlyObserves, BuffersStartEmpty, PTL
<1>3. CompatibilitySpec => []EvidenceInv
  BY <1>1, <1>2, EvidenceInvKept, PTL DEF CompatibilitySpec
<1>4. IInv /\ EvidenceInv => EvidenceReplays
  BY EvidenceVerifies
<1> QED BY <1>2, <1>3, <1>4, PTL

-----------------------------------------------------------------------------
(* The evidence of some of the parts.  FoldSet recurses over the subsets of *)
(* what it adds up: sum is that function for the sets in D.                *)
Adding(regions, signature, token, part, sum) ==
  IF /\ part[2] <= Len(regions[part[1]].emissions)
     /\ regions[part[1]].emissions[part[2]].token = token
  THEN sum + regions[part[1]].emissions[part[2]].score
           + (regions[part[1]].radius - MaskedHamming(signature, regions[part[1]]))
  ELSE sum

EvidenceIn(regions, signature, token, some) ==
  FoldSet(LAMBDA part, sum : Adding(regions, signature, token, part, sum), 0, some)

IsSum(sum, regions, signature, token, D) ==
  sum = [s \in D |->
           IF s = {} THEN 0
           ELSE LET x == CHOOSE y \in s : TRUE
                IN  Adding(regions, signature, token, x, sum[s \ {x}])]

(* The subsets of T of at most k elements.                                 *)
UpTo(T, k) == {s \in SUBSET T : Cardinality(s) <= k}

LEMMA SmallerSubset ==
  ASSUME NEW T, IsFiniteSet(T), NEW s \in SUBSET T, s # {}, NEW x \in s
  PROVE  /\ s \ {x} \in SUBSET T /\ IsFiniteSet(s)
         /\ Cardinality(s) \in Nat /\ Cardinality(s \ {x}) \in Nat
         /\ Cardinality(s) = Cardinality(s \ {x}) + 1
<1>1. IsFiniteSet(s)
  BY FS_Subset
<1>2. Cardinality(s \ {x}) = Cardinality(s) - 1 /\ IsFiniteSet(s \ {x})
  BY <1>1, FS_RemoveElement
<1> QED BY <1>1, <1>2, FS_CardinalityType

LEMMA SumExists ==
  ASSUME NEW regions, NEW signature, NEW token, NEW T, IsFiniteSet(T), NEW n \in Nat
  PROVE  \E sum : IsSum(sum, regions, signature, token, UpTo(T, n))
<1> DEFINE Adds(x, m) == Adding(regions, signature, token, x, m)
           Sums(sum, D) == IsSum(sum, regions, signature, token, D)
           Wrong == {k \in Nat : ~ \E sum : Sums(sum, UpTo(T, k))}
           Chosen(s) == CHOOSE y \in s : TRUE
<1> SUFFICES ASSUME Wrong # {} PROVE FALSE
  OBVIOUS
<1>0. \A sum, D : Sums(sum, D) <=>
        sum = [s \in D |-> IF s = {} THEN 0 ELSE Adds(Chosen(s), sum[s \ {Chosen(s)}])]
  BY DEF IsSum
<1> HIDE DEF Adds, Sums
<1>1. PICK k \in Wrong : \A j \in Wrong : k <= j
  BY CopyLoop!NatHasMin
<1>2. k \in Nat /\ ~ \E sum : Sums(sum, UpTo(T, k))
  BY <1>1
<1>3. \A s \in SUBSET T : s # {} =>
        /\ Chosen(s) \in s /\ s \ {Chosen(s)} \in SUBSET T
        /\ Cardinality(s) \in Nat /\ Cardinality(s \ {Chosen(s)}) \in Nat
        /\ Cardinality(s) = Cardinality(s \ {Chosen(s)}) + 1
  <2> SUFFICES ASSUME NEW s \in SUBSET T, s # {}
               PROVE  /\ Chosen(s) \in s /\ s \ {Chosen(s)} \in SUBSET T
                      /\ Cardinality(s) \in Nat /\ Cardinality(s \ {Chosen(s)}) \in Nat
                      /\ Cardinality(s) = Cardinality(s \ {Chosen(s)}) + 1
    OBVIOUS
  <2>1. Chosen(s) \in s
    OBVIOUS
  <2> HIDE DEF Chosen
  <2> QED BY <2>1, SmallerSubset
<1>4. PICK less : \A s \in UpTo(T, k) : s # {} =>
        less[s \ {Chosen(s)}] =
          IF s \ {Chosen(s)} = {} THEN 0
          ELSE Adds(Chosen(s \ {Chosen(s)}),
                    less[(s \ {Chosen(s)}) \ {Chosen(s \ {Chosen(s)})}])
  <2>1. CASE k = 0
    <3>1. \A s \in UpTo(T, k) : s = {}
      <4> SUFFICES ASSUME NEW s \in UpTo(T, k), s # {} PROVE FALSE
        OBVIOUS
      <4> HIDE DEF Chosen
      <4>1. s \in SUBSET T /\ Cardinality(s) <= 0
        BY <2>1 DEF UpTo
      <4> DEFINE all == Cardinality(s)
                 less == Cardinality(s \ {Chosen(s)})
      <4>2. all \in Nat /\ less \in Nat /\ all = less + 1
        BY <1>3, <4>1
      <4>3. all <= 0
        BY <4>1
      <4> HIDE DEF all, less
      <4> QED BY <4>2, <4>3
    <3> QED BY <3>1
  <2>2. CASE k # 0
    <3>1. k - 1 \in Nat /\ k - 1 \notin Wrong
      BY <1>1, <1>2, <2>2
    <3>2. PICK less : Sums(less, UpTo(T, k - 1))
      BY <3>1
    <3>3. \A u \in UpTo(T, k - 1) :
            less[u] = IF u = {} THEN 0 ELSE Adds(Chosen(u), less[u \ {Chosen(u)}])
      BY <1>0, <3>2
    <3>4. \A s \in UpTo(T, k) : s # {} => s \ {Chosen(s)} \in UpTo(T, k - 1)
      <4> HIDE DEF Chosen
      <4> SUFFICES ASSUME NEW s \in UpTo(T, k), s # {} PROVE s \ {Chosen(s)} \in UpTo(T, k - 1)
        OBVIOUS
      <4>1. s \in SUBSET T /\ Cardinality(s) <= k
        BY DEF UpTo
      <4>2. s \ {Chosen(s)} \in SUBSET T /\ Cardinality(s \ {Chosen(s)}) <= k - 1
        BY <1>2, <1>3, <4>1
      <4> QED BY <4>2 DEF UpTo
    <3> HIDE DEF Chosen
    <3> QED BY <3>3, <3>4
  <2> QED BY <2>1, <2>2
<1> DEFINE sum == [s \in UpTo(T, k) |-> IF s = {} THEN 0
                                        ELSE Adds(Chosen(s), less[s \ {Chosen(s)}])]
<1>5. \A s \in UpTo(T, k) : s # {} => /\ s \ {Chosen(s)} \in UpTo(T, k)
                                      /\ sum[s \ {Chosen(s)}] = less[s \ {Chosen(s)}]
  <2> SUFFICES ASSUME NEW s \in UpTo(T, k), s # {}
               PROVE  /\ s \ {Chosen(s)} \in UpTo(T, k)
                      /\ sum[s \ {Chosen(s)}] = less[s \ {Chosen(s)}]
    OBVIOUS
  <2> HIDE DEF Chosen
  <2>1. s \in SUBSET T /\ Cardinality(s) <= k
    BY DEF UpTo
  <2>2. s \ {Chosen(s)} \in SUBSET T /\ Cardinality(s \ {Chosen(s)}) <= k
    BY <1>2, <1>3, <2>1
  <2>3. s \ {Chosen(s)} \in UpTo(T, k)
    BY <2>2 DEF UpTo
  <2> QED BY <1>4, <2>3
<1>6. \A s \in UpTo(T, k) :
        sum[s] = IF s = {} THEN 0 ELSE Adds(Chosen(s), sum[s \ {Chosen(s)}])
  <2> HIDE DEF Chosen
  <2>1. \A s \in UpTo(T, k) :
          sum[s] = IF s = {} THEN 0 ELSE Adds(Chosen(s), less[s \ {Chosen(s)}])
    OBVIOUS
  <2> HIDE DEF sum
  <2> QED BY <1>5, <2>1
<1>7. sum = [s \in UpTo(T, k) |-> sum[s]]
  OBVIOUS
<1> HIDE DEF sum
<1>8. Sums(sum, UpTo(T, k))
  BY <1>0, <1>6, <1>7
<1> QED BY <1>2, <1>8

LEMMA EvidenceIs ==
  ASSUME NEW regions, NEW signature, NEW token, NEW T, IsFiniteSet(T)
  PROVE  \E sum : /\ IsSum(sum, regions, signature, token, SUBSET T)
                  /\ EvidenceIn(regions, signature, token, T) = sum[T]
<1> DEFINE Sums(sum) == IsSum(sum, regions, signature, token, SUBSET T)
           all == CHOOSE sum : Sums(sum)
<1>1. Cardinality(T) \in Nat /\ UpTo(T, Cardinality(T)) = SUBSET T
  <2>1. \A s \in SUBSET T : Cardinality(s) <= Cardinality(T)
    BY FS_Subset
  <2> QED BY <2>1, FS_CardinalityType DEF UpTo
<1>2. \E sum : Sums(sum)
  <2>1. \E sum : IsSum(sum, regions, signature, token, UpTo(T, Cardinality(T)))
    BY <1>1, SumExists
  <2> QED BY <1>1, <2>1
<1>3. Sums(all)
  BY <1>2
<1>4. EvidenceIn(regions, signature, token, T) = all[T]
  BY DEF EvidenceIn, FoldSet, MapThenFoldSet, IsSum
<1> QED BY <1>3, <1>4

(* Every emission there could be: a region and a place in its record.     *)
AllParts(regions) == (DOMAIN regions) \X (Nat \ {0})

(* What one part adds.                                                     *)
Worth(regions, signature, token, part) == Adding(regions, signature, token, part, 0)

LEMMA AddingIs ==
  ASSUME NEW regions \in Seq(RegionRecord), NEW signature \in Code, NEW token,
         NEW part \in AllParts(regions)
  PROVE  /\ Worth(regions, signature, token, part) \in Int
         /\ \A m \in Int : Adding(regions, signature, token, part, m)
                             = m + Worth(regions, signature, token, part)
<1> DEFINE region == regions[part[1]]
           emission == region.emissions[part[2]]
           margin == region.radius - MaskedHamming(signature, region)
<1>1. region \in RegionRecord /\ part[2] \in Nat \ {0}
  BY DEF AllParts
<1>2. region.emissions \in Seq(TokenScore) /\ region.radius \in Nat
  BY <1>1 DEF RegionRecord, Emissions
<1>3. MaskedHamming(signature, region) \in Nat
  BY <1>1, HammingType
<1> HIDE DEF region
<1>4. margin \in Int
  BY <1>2, <1>3
<1>5. part[2] <= Len(region.emissions) => emission.score \in Int
  <2> SUFFICES ASSUME part[2] <= Len(region.emissions) PROVE emission.score \in Int
    OBVIOUS
  <2>1. part[2] \in 1 .. Len(region.emissions)
    BY <1>1, <1>2
  <2>2. emission \in TokenScore
    BY <1>2, <2>1
  <2> QED BY <2>2 DEF TokenScore, Score
<1>6. \A m \in Int : Adding(regions, signature, token, part, m)
        = IF part[2] <= Len(region.emissions) /\ emission.token = token
          THEN m + emission.score + margin ELSE m
  BY DEF Adding, region
<1> HIDE DEF margin, emission
<1> QED BY <1>4, <1>5, <1>6 DEF Worth

(* The order in which the parts are added up does not matter: the sum of a *)
(* set is the sum without any of its parts, and that part.                 *)
Grows(sum, regions, signature, token, s) ==
  /\ sum[s] \in Int
  /\ s = {} => sum[s] = 0
  /\ \A x \in s : sum[s] = sum[s \ {x}] + Worth(regions, signature, token, x)

LEMMA SumGrows ==
  ASSUME NEW regions \in Seq(RegionRecord), NEW signature \in Code, NEW token,
         NEW T \in SUBSET AllParts(regions), IsFiniteSet(T),
         NEW sum, IsSum(sum, regions, signature, token, SUBSET T)
  PROVE  \A s \in SUBSET T : Grows(sum, regions, signature, token, s)
<1> DEFINE w(x) == Worth(regions, signature, token, x)
           Right(s) == /\ sum[s] \in Int
                       /\ s = {} => sum[s] = 0
                       /\ \A x \in s : sum[s] = sum[s \ {x}] + w(x)
           Wrong == {k \in Nat : \E s \in SUBSET T : Cardinality(s) = k /\ ~ Right(s)}
<1>1. ASSUME NEW x \in T
      PROVE  w(x) \in Int /\ \A m \in Int : Adding(regions, signature, token, x, m) = m + w(x)
  BY AddingIs
<1> HIDE DEF w
<1>2. ASSUME Wrong # {} PROVE FALSE
  <2>1. PICK k \in Wrong : \A j \in Wrong : k <= j
    BY <1>2, CopyLoop!NatHasMin
  <2>2. PICK s \in SUBSET T : Cardinality(s) = k /\ ~ Right(s)
    BY <2>1
  <2>3. k \in Nat
    BY <2>1
  <2> DEFINE y == CHOOSE x \in s : TRUE
  <2>4. sum[s] = IF s = {} THEN 0 ELSE Adding(regions, signature, token, y, sum[s \ {y}])
    BY DEF IsSum
  <2>5. s # {}
    BY <2>2, <2>4
  <2>6. y \in s
    BY <2>5
  <2> HIDE DEF y
  <2>7. \A x \in s : Right(s \ {x})
    <3> SUFFICES ASSUME NEW x \in s PROVE Right(s \ {x})
      OBVIOUS
    <3>1. /\ s \ {x} \in SUBSET T /\ Cardinality(s \ {x}) \in Nat
          /\ Cardinality(s) = Cardinality(s \ {x}) + 1
      <4> HIDE DEF Right, Wrong
      <4> QED BY <2>5, SmallerSubset, SMTT(30)
    <3> DEFINE c == Cardinality(s \ {x})
    <3>2. c \in Nat /\ k = c + 1 /\ c \notin Wrong
      <4>1. c \in Nat /\ k = c + 1
        BY <2>2, <3>1
      <4>2. c \in Wrong => k <= c
        BY <2>1
      <4> HIDE DEF c, Wrong
      <4> QED BY <2>3, <4>1, <4>2
    <3> HIDE DEF Right
    <3> QED BY <3>1, <3>2
  <2>8. sum[s \ {y}] \in Int /\ w(y) \in Int
    BY <1>1, <2>6, <2>7
  <2>9. sum[s] = sum[s \ {y}] + w(y)
    BY <1>1, <2>4, <2>5, <2>6, <2>8
  <2>10. ASSUME NEW x \in s
         PROVE  sum[s] = sum[s \ {x}] + w(x)
    <3>1. CASE x = y
      BY <2>9, <3>1
    <3>2. CASE x # y
      <4>1. y \in s \ {x} /\ x \in s \ {y}
        BY <2>6, <3>2
      <4>2. sum[s \ {x}] = sum[(s \ {x}) \ {y}] + w(y)
        BY <2>7, <4>1
      <4>3. sum[s \ {y}] = sum[(s \ {y}) \ {x}] + w(x)
        BY <2>6, <2>7, <4>1
      <4>4. (s \ {x}) \ {y} = (s \ {y}) \ {x}
        OBVIOUS
      <4> DEFINE both == sum[(s \ {y}) \ {x}]
      <4>5. both \in Int
        <5>1. s \ {x} \in SUBSET T /\ sum[s \ {x}] \in Int
          BY <2>7
        <5>2. T \ {} = T
          OBVIOUS
        <5>3. sum[s \ {y}] \in Int /\ w(x) \in Int
          BY <1>1, <2>8
        <5> DEFINE u == (s \ {y}) \ {x}
        <5>4. u \in SUBSET T
          OBVIOUS
        <5>5. Cardinality(s \ {y}) \in Nat /\ k = Cardinality(s \ {y}) + 1
          BY <2>2, <2>5, <2>6, SmallerSubset
        <5>6. s \ {y} \in SUBSET T /\ s \ {y} # {} /\ x \in s \ {y}
          BY <4>1
        <5>7. Cardinality(u) \in Nat /\ Cardinality(s \ {y}) = Cardinality(u) + 1
          <6> DEFINE v == s \ {y}
          <6>1. v \in SUBSET T /\ v # {} /\ x \in v
            BY <5>6
          <6> HIDE DEF v
          <6>2. Cardinality(v \ {x}) \in Nat /\ Cardinality(v) = Cardinality(v \ {x}) + 1
            BY <6>1, SmallerSubset, SMTT(30)
          <6> QED BY <6>2 DEF v
        <5> HIDE DEF u
        <5> DEFINE c == Cardinality(u)
        <5>8. c \in Nat /\ ~ k <= c
          <6>1. c \in Nat /\ k = (c + 1) + 1
            BY <5>5, <5>7
          <6> HIDE DEF c
          <6> QED BY <6>1
        <5>9. c \notin Wrong
          <6> HIDE DEF Wrong
          <6> QED BY <2>1, <5>8
        <5>10. Right(u)
          <6> HIDE DEF Right
          <6> QED BY <5>4, <5>8, <5>9
        <5> QED BY <5>10 DEF u
      <4> HIDE DEF both
      <4>6. w(x) \in Int /\ w(y) \in Int
        BY <1>1, <2>8
      <4>7. sum[s] = (both + w(x)) + w(y) /\ sum[s \ {x}] = both + w(y)
        BY <2>9, <4>2, <4>3, <4>4 DEF both
      <4> QED BY <4>5, <4>6, <4>7
    <3> QED BY <3>1, <3>2
  <2>11. sum[s] \in Int
    BY <2>8, <2>9
  <2> QED BY <2>2, <2>5, <2>10, <2>11
<1> HIDE DEF Right
<1>3. \A s \in SUBSET T : Right(s)
  <2> SUFFICES ASSUME NEW s \in SUBSET T, ~ Right(s) PROVE FALSE
    OBVIOUS
  <2>1. Cardinality(s) \in Nat
    BY FS_Subset, FS_CardinalityType
  <2> QED BY <1>2, <2>1
<1> QED BY <1>3 DEF Right, w, Grows

(* The sum of a subset is the same whatever set it is taken from.          *)
Evidences(sum, regions, signature, token, S) ==
  EvidenceIn(regions, signature, token, S) = sum[S]

LEMMA SumIsEvidence ==
  ASSUME NEW regions \in Seq(RegionRecord), NEW signature \in Code, NEW token,
         NEW T \in SUBSET AllParts(regions), IsFiniteSet(T),
         NEW sum, IsSum(sum, regions, signature, token, SUBSET T)
  PROVE  \A S \in SUBSET T : Evidences(sum, regions, signature, token, S)
<1> SUFFICES ASSUME NEW S \in SUBSET T
             PROVE  EvidenceIn(regions, signature, token, S) = sum[S]
  BY DEF Evidences
<1>1. IsFiniteSet(S) /\ S \in SUBSET AllParts(regions)
  BY FS_Subset
<1>2. PICK f : /\ IsSum(f, regions, signature, token, SUBSET S)
               /\ EvidenceIn(regions, signature, token, S) = f[S]
  BY <1>1, EvidenceIs
<1> DEFINE w(x) == Worth(regions, signature, token, x)
           Wrong == {k \in Nat : \E s \in SUBSET S : Cardinality(s) = k /\ f[s] # sum[s]}
<1> HIDE DEF Wrong
<1>3. \A s \in SUBSET T : /\ s = {} => sum[s] = 0
                          /\ \A x \in s : sum[s] = sum[s \ {x}] + w(x)
  <2>1. \A s \in SUBSET T : Grows(sum, regions, signature, token, s)
    BY SumGrows
  <2> QED BY <2>1 DEF Grows
<1>4. \A s \in SUBSET S : /\ s = {} => f[s] = 0
                          /\ \A x \in s : f[s] = f[s \ {x}] + w(x)
  <2>1. \A s \in SUBSET S : Grows(f, regions, signature, token, s)
    BY <1>1, <1>2, SumGrows
  <2> QED BY <2>1 DEF Grows
<1> USE DEF Wrong
<1> HIDE DEF w
<1>5. ASSUME Wrong # {} PROVE FALSE
  <2>1. PICK k \in Wrong : \A j \in Wrong : k <= j
    BY <1>5, CopyLoop!NatHasMin
  <2>2. PICK s \in SUBSET S : Cardinality(s) = k /\ f[s] # sum[s]
    BY <2>1
  <2>3. k \in Nat /\ s \in SUBSET T
    BY <2>1
  <2>4. s # {}
    BY <1>3, <1>4, <2>2, <2>3
  <2>5. PICK x \in s : TRUE
    BY <2>4
  <2>6. s \ {x} \in SUBSET S /\ Cardinality(s \ {x}) \in Nat /\ k = Cardinality(s \ {x}) + 1
    BY <1>1, <2>2, <2>4, SmallerSubset
  <2>7. f[s \ {x}] # sum[s \ {x}]
    BY <1>3, <1>4, <2>2, <2>3, SMTT(30)
  <2> DEFINE c == Cardinality(s \ {x})
  <2>8. c \in Wrong
    BY <2>6, <2>7
  <2>9. c \in Nat /\ k = c + 1 /\ k <= c
    BY <2>1, <2>6, <2>8
  <2> HIDE DEF c
  <2> QED BY <2>3, <2>9
<1>6. f[S] = sum[S]
  <2>1. Cardinality(S) \in Nat
    BY <1>1, FS_CardinalityType
  <2> QED BY <1>5, <2>1
<1> QED BY <1>2, <1>6

(* Evidence grows part by part.                                            *)
LEMMA EvidenceAdds ==
  ASSUME NEW regions \in Seq(RegionRecord), NEW signature \in Code, NEW token,
         NEW T \in SUBSET AllParts(regions), IsFiniteSet(T)
  PROVE  /\ EvidenceIn(regions, signature, token, T) \in Int
         /\ T = {} => EvidenceIn(regions, signature, token, T) = 0
         /\ \A x \in T : EvidenceIn(regions, signature, token, T)
              = EvidenceIn(regions, signature, token, T \ {x}) + Worth(regions, signature, token, x)
<1>1. PICK sum : /\ IsSum(sum, regions, signature, token, SUBSET T)
                 /\ EvidenceIn(regions, signature, token, T) = sum[T]
  BY EvidenceIs
<1>2. /\ sum[T] \in Int
      /\ T = {} => sum[T] = 0
      /\ \A x \in T : sum[T] = sum[T \ {x}] + Worth(regions, signature, token, x)
  <2>1. \A s \in SUBSET T : Grows(sum, regions, signature, token, s)
    BY <1>1, SumGrows
  <2> QED BY <2>1 DEF Grows
<1>3. \A x \in T : EvidenceIn(regions, signature, token, T \ {x}) = sum[T \ {x}]
  <2>1. \A S \in SUBSET T : Evidences(sum, regions, signature, token, S)
    BY <1>1, SumIsEvidence
  <2> QED BY <2>1 DEF Evidences
<1> QED BY <1>1, <1>2, <1>3

(* Parts that add nothing may be left out.                                 *)
LEMMA IdleParts ==
  ASSUME NEW regions \in Seq(RegionRecord), NEW signature \in Code, NEW token,
         NEW T \in SUBSET AllParts(regions), IsFiniteSet(T),
         NEW S \in SUBSET T,
         \A x \in T \ S : Worth(regions, signature, token, x) = 0
  PROVE  EvidenceIn(regions, signature, token, T) = EvidenceIn(regions, signature, token, S)
<1> DEFINE E(s) == EvidenceIn(regions, signature, token, s)
           Between == {s \in SUBSET T : S \subseteq s}
           Wrong == {k \in Nat : \E s \in Between : Cardinality(s) = k /\ E(s) # E(S)}
<1>1. ASSUME NEW s \in Between
      PROVE  /\ E(s) \in Int
             /\ \A x \in s : E(s) = E(s \ {x}) + Worth(regions, signature, token, x)
  <2>1. IsFiniteSet(s) /\ s \in SUBSET AllParts(regions)
    BY FS_Subset
  <2> QED BY <2>1, EvidenceAdds
<1> HIDE DEF E
<1>2. ASSUME Wrong # {} PROVE FALSE
  <2>1. PICK k \in Wrong : \A j \in Wrong : k <= j
    BY <1>2, CopyLoop!NatHasMin
  <2>2. PICK s \in Between : Cardinality(s) = k /\ E(s) # E(S)
    BY <2>1
  <2>3. k \in Nat /\ s \in SUBSET T /\ s # S
    BY <2>1, <2>2
  <2>4. PICK x \in s : x \notin S
    BY <2>2, <2>3
  <2>5. s \ {x} \in Between /\ s # {}
    BY <2>4
  <2>6. Cardinality(s \ {x}) \in Nat /\ k = Cardinality(s \ {x}) + 1
    BY <2>2, <2>3, <2>5, SmallerSubset
  <2>7. E(s \ {x}) # E(S)
    <3>1. E(s) = E(s \ {x}) + 0 /\ E(s \ {x}) \in Int
      <4>1. E(s) = E(s \ {x}) + Worth(regions, signature, token, x)
        BY <1>1
      <4>2. Worth(regions, signature, token, x) = 0
        BY <2>3, <2>4
      <4> QED BY <1>1, <2>5, <4>1, <4>2
    <3> QED BY <2>2, <3>1
  <2> DEFINE c == Cardinality(s \ {x})
  <2>8. c \in Wrong
    BY <2>5, <2>6, <2>7
  <2>9. c \in Nat /\ k = c + 1 /\ k <= c
    BY <2>1, <2>6, <2>8
  <2> HIDE DEF c
  <2> QED BY <2>3, <2>9
<1>3. E(T) = E(S)
  <2>1. Cardinality(T) \in Nat /\ T \in Between
    BY FS_CardinalityType
  <2> QED BY <1>2, <2>1
<1> QED BY <1>3 DEF E

-----------------------------------------------------------------------------
(* A prediction's entries: ranked, and each token once.                    *)
Sorted(entries) ==
  \A k, l \in 1 .. Len(entries) :
    k < l => /\ TokenPrecedes(entries[k], entries[l])
             /\ entries[k].token # entries[l].token

LEMMA EntryFacts ==
  ASSUME NEW entry \in TokenScore
  PROVE  entry.score \in Int /\ entry.token \in Nat
<1>1. entry.score \in Score /\ entry.token \in Tokens
  BY DEF TokenScore
<1>2. entry.score \in Int
  BY <1>1 DEF Score
<1>3. entry.token \in Nat
  BY <1>1
<1> QED BY <1>2, <1>3

(* An entry of another token goes in at its place, where there is room.    *)
LEMMA InsertIs ==
  ASSUME NEW s \in Seq(TokenScore), Len(s) < OutputCapacity, Sorted(s),
         NEW item \in TokenScore,
         \A k \in 1 .. Len(s) : s[k].token # item.token
  PROVE  LET new == Ranked!InsertRanked(s, item)
         IN  /\ Sorted(new)
             /\ \A k \in 1 .. Len(new) : new[k] = item \/ \E j \in 1 .. Len(s) : new[k] = s[j]
             /\ \E k \in 1 .. Len(new) : new[k] = item
             /\ \A j \in 1 .. Len(s) : \E k \in 1 .. Len(new) : new[k] = s[j]
<1> DEFINE new == EmissionLoop!InsertRanked(s, item)
           p == EmissionLoop!Position(s, item)
           n == Len(s)
<1>0. new = Ranked!InsertRanked(s, item)
  BY DEF EmissionLoop!InsertRanked, Ranked!InsertRanked, EmissionLoop!Shifted, Ranked!Shifted,
         EmissionLoop!Position, Ranked!Position, EmissionLoop!LengthAfter, Ranked!LengthAfter
<1>1. n \in Nat /\ n < OutputCapacity
  OBVIOUS
<1>2. /\ p \in 1 .. n + 1
      /\ \A q \in 1 .. p - 1 : ~ TokenPrecedes(item, s[q])
      /\ p = n + 1 \/ TokenPrecedes(item, s[p])
  BY EmissionLoop!PositionProperties
<1>3. /\ new \in Seq(TokenScore)
      /\ Len(new) = EmissionLoop!LengthAfter(s)
      /\ \A i \in 1 .. Len(new) :
            new[i] = IF i < p THEN s[i] ELSE IF i = p THEN item ELSE s[i - 1]
  <2>1. Len(s) <= OutputCapacity
    BY <1>1
  <2> HIDE DEF n
  <2> QED BY <2>1, EmissionLoop!InsertRankedEntries, SMTT(30)
<1>4. Len(new) = n + 1
  BY <1>1, <1>3 DEF EmissionLoop!LengthAfter
<1> HIDE DEF new, p, n
<1>5. \A k \in 1 .. n : s[k] \in TokenScore
  BY DEF n
<1>6. \A x, y \in TokenScore : x.token # y.token => TokenPrecedes(x, y) \/ TokenPrecedes(y, x)
  <2> SUFFICES ASSUME NEW x \in TokenScore, NEW y \in TokenScore, x.token # y.token
               PROVE  TokenPrecedes(x, y) \/ TokenPrecedes(y, x)
    OBVIOUS
  <2>1. x.score \in Int /\ y.score \in Int /\ x.token \in Nat /\ y.token \in Nat
    BY EntryFacts
  <2> QED BY <2>1 DEF TokenPrecedes
<1>7. \A x, y, z \in TokenScore :
        TokenPrecedes(x, y) /\ TokenPrecedes(y, z) => TokenPrecedes(x, z)
  <2> SUFFICES ASSUME NEW x \in TokenScore, NEW y \in TokenScore, NEW z \in TokenScore,
                      TokenPrecedes(x, y), TokenPrecedes(y, z)
               PROVE  TokenPrecedes(x, z)
    OBVIOUS
  <2>1. /\ x.score \in Int /\ y.score \in Int /\ z.score \in Int
        /\ x.token \in Nat /\ y.token \in Nat /\ z.token \in Nat
    BY EntryFacts
  <2> QED BY <2>1 DEF TokenPrecedes
<1>8. /\ \A k \in 1 .. n : s[k].token # item.token
      /\ \A k, l \in 1 .. n : k < l => TokenPrecedes(s[k], s[l]) /\ s[k].token # s[l].token
  BY DEF n, Sorted
<1>9. \A q \in 1 .. p - 1 : TokenPrecedes(s[q], item)
  <2> SUFFICES ASSUME NEW q \in 1 .. p - 1 PROVE TokenPrecedes(s[q], item)
    OBVIOUS
  <2>1. q \in 1 .. n
    BY <1>1, <1>2
  <2> QED BY <1>2, <1>5, <1>6, <1>8, <2>1
<1>10. \A q \in 1 .. n : p <= q => TokenPrecedes(item, s[q])
  <2> SUFFICES ASSUME NEW q \in 1 .. n, p <= q PROVE TokenPrecedes(item, s[q])
    OBVIOUS
  <2>1. p \in 1 .. n /\ TokenPrecedes(item, s[p])
    BY <1>1, <1>2
  <2>2. CASE p = q
    BY <2>1, <2>2
  <2>3. CASE p # q
    <3>1. p < q
      BY <2>1, <2>3
    <3>2. TokenPrecedes(s[p], s[q])
      BY <1>8, <2>1, <3>1
    <3> QED BY <1>5, <1>7, <2>1, <3>2
  <2> QED BY <2>2, <2>3
<1>11. Sorted(new)
  <2> SUFFICES ASSUME NEW k \in 1 .. n + 1, NEW l \in 1 .. n + 1, k < l
               PROVE  TokenPrecedes(new[k], new[l]) /\ new[k].token # new[l].token
    BY <1>4 DEF Sorted
  <2>1. CASE l < p
    <3>1. k \in 1 .. n /\ l \in 1 .. n /\ new[k] = s[k] /\ new[l] = s[l]
      BY <1>1, <1>2, <1>3, <1>4, <2>1
    <3> QED BY <1>8, <3>1
  <2>2. CASE l = p
    <3>1. k \in 1 .. n /\ k \in 1 .. p - 1 /\ new[k] = s[k] /\ new[l] = item
      BY <1>1, <1>2, <1>3, <1>4, <2>2
    <3> QED BY <1>8, <1>9, <3>1
  <2>3. CASE p < l
    <3>1. l - 1 \in 1 .. n /\ new[l] = s[l - 1] /\ p <= l - 1
      BY <1>1, <1>2, <1>3, <1>4, <2>3
    <3>2. CASE k < p
      <4>1. k \in 1 .. n /\ new[k] = s[k] /\ k < l - 1
        BY <1>1, <1>2, <1>3, <1>4, <3>1, <3>2
      <4> QED BY <1>8, <3>1, <4>1
    <3>3. CASE k = p
      <4>1. new[k] = item
        BY <1>3, <1>4, <3>3
      <4> QED BY <1>8, <1>10, <3>1, <4>1
    <3>4. CASE p < k
      <4>1. k - 1 \in 1 .. n /\ new[k] = s[k - 1] /\ k - 1 < l - 1
        BY <1>1, <1>2, <1>3, <1>4, <3>4
      <4> QED BY <1>8, <3>1, <4>1
    <3> QED BY <1>2, <3>2, <3>3, <3>4
  <2> QED BY <1>2, <2>1, <2>2, <2>3
<1>12. \A k \in 1 .. Len(new) : new[k] = item \/ \E j \in 1 .. n : new[k] = s[j]
  <2> SUFFICES ASSUME NEW k \in 1 .. n + 1, new[k] # item
               PROVE  \E j \in 1 .. n : new[k] = s[j]
    BY <1>4
  <2>1. CASE k < p
    <3>1. k \in 1 .. n /\ new[k] = s[k]
      BY <1>1, <1>2, <1>3, <1>4, <2>1
    <3> QED BY <3>1
  <2>2. CASE p < k
    <3>1. k - 1 \in 1 .. n /\ new[k] = s[k - 1]
      BY <1>1, <1>2, <1>3, <1>4, <2>2
    <3> QED BY <3>1
  <2>3. k # p
    BY <1>3, <1>4
  <2> QED BY <1>2, <2>1, <2>2, <2>3
<1>13. \E k \in 1 .. Len(new) : new[k] = item
  <2>1. p \in 1 .. Len(new) /\ new[p] = item
    BY <1>2, <1>3, <1>4
  <2> QED BY <2>1
<1>14. \A j \in 1 .. n : \E k \in 1 .. Len(new) : new[k] = s[j]
  <2> SUFFICES ASSUME NEW j \in 1 .. n PROVE \E k \in 1 .. Len(new) : new[k] = s[j]
    OBVIOUS
  <2>1. CASE j < p
    <3>1. j \in 1 .. Len(new) /\ new[j] = s[j]
      BY <1>1, <1>3, <1>4, <2>1
    <3> QED BY <3>1
  <2>2. CASE ~ j < p
    <3>1. j + 1 \in 1 .. Len(new) /\ ~ j + 1 < p /\ j + 1 # p /\ (j + 1) - 1 = j
      BY <1>1, <1>2, <1>4, <2>2
    <3>2. new[j + 1] = s[j]
      BY <1>3, <3>1
    <3> QED BY <3>1, <3>2
  <2> QED BY <2>1, <2>2
<1> QED BY <1>0, <1>11, <1>12, <1>13, <1>14 DEF n

(* Taking an entry out leaves the others in their order.                   *)
LEMMA RemovedIs ==
  ASSUME NEW s \in Seq(TokenScore), NEW i \in 1 .. Len(s), Sorted(s)
  PROVE  LET rest == RemoveAt(s, i)
         IN  /\ rest \in Seq(TokenScore) /\ Len(rest) = Len(s) - 1
             /\ Sorted(rest)
             /\ \A k \in 1 .. Len(rest) : \E j \in 1 .. Len(s) : j # i /\ rest[k] = s[j]
             /\ \A j \in 1 .. Len(s) : j # i => \E k \in 1 .. Len(rest) : rest[k] = s[j]
<1> DEFINE rest == RemoveAt(s, i)
           n == Len(s)
           front == SubSeq(s, 1, i - 1)
           back == SubSeq(s, i + 1, n)
<1>1. n \in Nat /\ i \in Nat /\ 1 <= i /\ i <= n
  OBVIOUS
<1>2. rest \in Seq(TokenScore) /\ Len(rest) = n - 1
  BY RemovedType
<1>3. rest = front \o back
  BY DEF RemoveAt
<1>4. /\ front \in Seq(TokenScore) /\ Len(front) = i - 1
      /\ \A k \in 1 .. i - 1 : front[k] = s[k]
  BY <1>1, SubSeqProperties
<1>5. /\ back \in Seq(TokenScore) /\ Len(back) = n - i
      /\ \A k \in 1 .. n - i : back[k] = s[i + k]
  BY <1>1, SubSeqProperties
<1> HIDE DEF rest, front, back, n
<1>6. \A k \in 1 .. n - 1 : rest[k] = IF k < i THEN s[k] ELSE s[k + 1]
  <2>1. \A k \in 1 .. Len(front) + Len(back) :
          (front \o back)[k] = IF k <= Len(front) THEN front[k] ELSE back[k - Len(front)]
    BY <1>4, <1>5, EmissionLoop!ConcatIs
  <2> SUFFICES ASSUME NEW k \in 1 .. n - 1
               PROVE  rest[k] = IF k < i THEN s[k] ELSE s[k + 1]
    OBVIOUS
  <2>2. rest[k] = IF k <= i - 1 THEN front[k] ELSE back[k - (i - 1)]
    BY <1>1, <1>3, <1>4, <1>5, <2>1, SMTT(30)
  <2>3. CASE k < i
    <3>1. k \in 1 .. i - 1
      BY <1>1, <2>3
    <3> QED BY <1>1, <1>4, <2>2, <2>3, <3>1
  <2>4. CASE ~ k < i
    <3>1. k - (i - 1) \in 1 .. n - i /\ i + (k - (i - 1)) = k + 1 /\ ~ k <= i - 1
      BY <1>1, <2>4
    <3>2. back[k - (i - 1)] = s[k + 1]
      BY <1>5, <3>1
    <3> QED BY <2>2, <2>4, <3>1, <3>2
  <2> QED BY <2>3, <2>4
<1> DEFINE At(k) == IF k < i THEN k ELSE k + 1
<1>7. \A k \in 1 .. n - 1 : At(k) \in 1 .. n /\ At(k) # i /\ rest[k] = s[At(k)]
  BY <1>1, <1>6
<1>8. \A k, l \in 1 .. n - 1 : k < l => At(k) < At(l)
  BY <1>1
<1>9. \A j \in 1 .. n : j # i => \E k \in 1 .. n - 1 : At(k) = j
  <2> SUFFICES ASSUME NEW j \in 1 .. n, j # i PROVE \E k \in 1 .. n - 1 : At(k) = j
    OBVIOUS
  <2>1. CASE j < i
    <3>1. j \in 1 .. n - 1 /\ At(j) = j
      BY <1>1, <2>1
    <3> QED BY <3>1
  <2>2. CASE i < j
    <3>1. j - 1 \in 1 .. n - 1 /\ At(j - 1) = j
      BY <1>1, <2>2
    <3> QED BY <3>1
  <2> QED BY <1>1, <2>1, <2>2
<1> HIDE DEF At
<1>10. \A k, l \in 1 .. n : k < l => TokenPrecedes(s[k], s[l]) /\ s[k].token # s[l].token
  BY DEF n, Sorted
<1>11. Sorted(rest)
  BY <1>2, <1>7, <1>8, <1>10 DEF Sorted
<1>12. \A k \in 1 .. n - 1 : \E j \in 1 .. n : j # i /\ rest[k] = s[j]
  BY <1>7
<1>13. \A j \in 1 .. n : j # i => \E k \in 1 .. n - 1 : rest[k] = s[j]
  BY <1>7, <1>9
<1> QED BY <1>2, <1>11, <1>12, <1>13 DEF rest, n

(* The slot of a held token holds it, and no other slot does.              *)
LEMMA SlotHolds ==
  ASSUME NEW entries \in Seq(TokenScore), NEW token
  PROVE  /\ SlotOf(entries, token) # 0 =>
              /\ SlotOf(entries, token) \in 1 .. Len(entries)
              /\ entries[SlotOf(entries, token)].token = token
         /\ SlotOf(entries, token) = 0 =>
              \A i \in 1 .. Len(entries) : entries[i].token # token
<1> DEFINE I == {i \in 1 .. Len(entries) : entries[i].token = token}
<1>1. SlotOf(entries, token) = IF I # {} THEN Min(I) ELSE 0
  BY DEF SlotOf, SelectInSeq
<1>2. Len(entries) \in Nat /\ I \in SUBSET Nat /\ I \in SUBSET (1 .. Len(entries))
  OBVIOUS
<1>3. CASE I # {}
  <2>0. \A i \in I : i \in 1 .. Len(entries) /\ entries[i].token = token /\ i # 0
    BY <1>2
  <2> HIDE DEF I
  <2>1. PICK x \in I : \A y \in I : x <= y
    BY <1>2, <1>3, CopyLoop!NatHasMin
  <2>2. Min(I) \in I
    BY <2>1 DEF Min
  <2>3. SlotOf(entries, token) = Min(I)
    BY <1>1, <1>3
  <2> QED BY <2>0, <2>2, <2>3
<1>4. CASE I = {}
  BY <1>1, <1>4
<1> QED BY <1>3, <1>4

-----------------------------------------------------------------------------
(* The parts that are emissions, and the token of one of them.             *)
Emitted(regions) ==
  {x \in AllParts(regions) : x[2] \in 1 .. Len(regions[x[1]].emissions)}

TokenOf(regions, x) == regions[x[1]].emissions[x[2]].token

MarginOf(regions, signature, i) == regions[i].radius - MaskedHamming(signature, regions[i])

(* No sum of some of the parts in P leaves the range of a score.           *)
SumsFit(regions, signature, P) ==
  \A token \in Tokens : \A some \in SUBSET P :
    EvidenceIn(regions, signature, token, some) \in Score

(* The prediction, unless it had to let an entry go, holds the tokens of   *)
(* the parts in Q, each with its evidence in Q, and they are ranked.       *)
HoldsToken(regions, signature, entry, Q) ==
  /\ \E x \in Q : TokenOf(regions, x) = entry.token
  /\ entry.score = EvidenceIn(regions, signature, entry.token, Q)

Shows(regions, signature, entries, Q) ==
  /\ Sorted(entries)
  /\ \A k \in 1 .. Len(entries) : HoldsToken(regions, signature, entries[k], Q)
  /\ \A x \in Q : \E k \in 1 .. Len(entries) : entries[k].token = TokenOf(regions, x)

Holds(regions, signature, p, Q) ==
  p.truncated = 0 => Shows(regions, signature, p.entries, Q)

(* An emission adds its score and the margin of its region to its token,   *)
(* and nothing to another.                                                 *)
LEMMA WorthIs ==
  ASSUME NEW regions \in Seq(RegionRecord), NEW signature \in Code,
         NEW x \in Emitted(regions)
  PROVE  /\ regions[x[1]].emissions[x[2]] \in TokenScore
         /\ TokenOf(regions, x) \in Tokens
         /\ MarginOf(regions, signature, x[1]) \in Int
         /\ \A token :
              /\ Worth(regions, signature, token, x) \in Int
              /\ Worth(regions, signature, token, x)
                   = IF token = TokenOf(regions, x)
                     THEN regions[x[1]].emissions[x[2]].score + MarginOf(regions, signature, x[1])
                     ELSE 0
<1> DEFINE i == x[1]
           j == x[2]
           region == regions[i]
           emission == region.emissions[j]
<1>1. x \in AllParts(regions) /\ j \in 1 .. Len(region.emissions)
  BY DEF Emitted
<1>2. region \in RegionRecord
  BY <1>1 DEF AllParts
<1>3. region.emissions \in Seq(TokenScore) /\ region.radius \in Nat
  BY <1>2 DEF RegionRecord, Emissions
<1>4. MaskedHamming(signature, region) \in Nat
  BY <1>2, HammingType
<1> HIDE DEF region
<1>5. emission \in TokenScore
  BY <1>1, <1>3
<1>6. MarginOf(regions, signature, i) \in Int
  <2>1. MarginOf(regions, signature, i) = region.radius - MaskedHamming(signature, region)
    BY DEF MarginOf, region
  <2> QED BY <1>3, <1>4, <2>1
<1>7. emission.score \in Int /\ emission.token \in Tokens
  BY <1>5 DEF TokenScore, Score
<1>8. j <= Len(region.emissions)
  BY <1>1, <1>3
<1>9. \A token : Worth(regions, signature, token, x)
                  = IF token = TokenOf(regions, x)
                    THEN emission.score + MarginOf(regions, signature, i) ELSE 0
  <2> SUFFICES ASSUME NEW token
               PROVE  Worth(regions, signature, token, x)
                        = IF token = TokenOf(regions, x)
                          THEN emission.score + MarginOf(regions, signature, i) ELSE 0
    OBVIOUS
  <2>1. Worth(regions, signature, token, x)
          = IF emission.token = token
            THEN 0 + emission.score + MarginOf(regions, signature, i) ELSE 0
    BY <1>8 DEF Worth, Adding, MarginOf, region
  <2>2. TokenOf(regions, x) = emission.token
    BY DEF TokenOf, region
  <2> HIDE DEF emission
  <2> QED BY <1>6, <1>7, <2>1, <2>2
<1> QED BY <1>5, <1>6, <1>7, <1>9 DEF TokenOf, region

(* Evidence of an emission more.                                           *)
GrowsBy(regions, signature, token, Q, x) ==
  /\ EvidenceIn(regions, signature, token, Q) \in Int
  /\ EvidenceIn(regions, signature, token, {x}) = Worth(regions, signature, token, x)
  /\ EvidenceIn(regions, signature, token, Q \cup {x})
       = EvidenceIn(regions, signature, token, Q) + Worth(regions, signature, token, x)
  /\ (\A y \in Q : TokenOf(regions, y) # token) =>
       EvidenceIn(regions, signature, token, Q) = 0

LEMMA OneMorePart ==
  ASSUME NEW regions \in Seq(RegionRecord), NEW signature \in Code,
         NEW Q \in SUBSET Emitted(regions), IsFiniteSet(Q),
         NEW x \in Emitted(regions), x \notin Q, NEW token
  PROVE  GrowsBy(regions, signature, token, Q, x)
<1> DEFINE E(s) == EvidenceIn(regions, signature, token, s)
           w(y) == Worth(regions, signature, token, y)
           R == Q \cup {x}
           one == {x}
<1>1. Q \in SUBSET AllParts(regions) /\ R \in SUBSET AllParts(regions)
      /\ one \in SUBSET AllParts(regions)
  BY DEF Emitted
<1>2. IsFiniteSet(one) /\ IsFiniteSet(R)
  BY FS_AddElement, FS_Singleton
<1>3. x \in R /\ R \ {x} = Q /\ x \in one /\ one \ {x} = {}
  OBVIOUS
<1> HIDE DEF R, one
<1>4. E(Q) \in Int
  BY <1>1, EvidenceAdds
<1>5. E(R) = E(R \ {x}) + w(x)
  BY <1>1, <1>2, <1>3, EvidenceAdds
<1>6. E(one) = E(one \ {x}) + w(x)
  BY <1>1, <1>2, <1>3, EvidenceAdds
<1> DEFINE none == {}
<1>7. E(none) = 0 /\ none \in SUBSET Q
  <2>1. none \in SUBSET AllParts(regions) /\ IsFiniteSet(none) /\ none = {}
    BY FS_EmptySet
  <2> HIDE DEF none
  <2>2. E(none) = 0
    BY <2>1, EvidenceAdds
  <2> QED BY <2>1, <2>2
<1>8. w(x) \in Int
  BY WorthIs
<1>9. ASSUME \A y \in Q : TokenOf(regions, y) # token
      PROVE  E(Q) = E(none)
  <2>1. \A y \in Q \ none : w(y) = 0
    <3> SUFFICES ASSUME NEW y \in Q PROVE w(y) = 0
      OBVIOUS
    <3> HIDE DEF w
    <3>1. w(y) = IF token = TokenOf(regions, y)
                 THEN regions[y[1]].emissions[y[2]].score + MarginOf(regions, signature, y[1])
                 ELSE 0
      BY WorthIs DEF w
    <3> QED BY <1>9, <3>1
  <2> HIDE DEF none
  <2> QED BY <1>1, <1>7, <2>1, IdleParts
<1>10. E(one) = w(x)
  <2>1. one \ {x} = none
    BY <1>3
  <2> HIDE DEF E, w, none
  <2>2. E(one) = E(none) + w(x)
    BY <1>6, <2>1
  <2> QED BY <1>7, <1>8, <2>2
<1>11. E(R) = E(Q) + w(x)
  BY <1>3, <1>5
<1> HIDE DEF E, w, none
<1> QED BY <1>4, <1>7, <1>9, <1>10, <1>11 DEF E, w, R, one, GrowsBy

(* What holds of the other tokens' entries for Q still holds with x, and   *)
(* the entry of x's token goes in with its evidence.                       *)
Others(regions, signature, rest, Q, x) ==
  /\ Sorted(rest)
  /\ \A k \in 1 .. Len(rest) : /\ rest[k].token # TokenOf(regions, x)
                               /\ HoldsToken(regions, signature, rest[k], Q)
  /\ \A y \in Q : \/ TokenOf(regions, y) = TokenOf(regions, x)
                  \/ \E k \in 1 .. Len(rest) : rest[k].token = TokenOf(regions, y)

LEMMA InsertHolds ==
  ASSUME NEW regions \in Seq(RegionRecord), NEW signature \in Code,
         NEW Q \in SUBSET Emitted(regions), IsFiniteSet(Q),
         NEW x \in Emitted(regions), x \notin Q,
         NEW rest \in Seq(TokenScore), Len(rest) < OutputCapacity,
         Others(regions, signature, rest, Q, x),
         NEW added \in TokenScore, added.token = TokenOf(regions, x),
         added.score = EvidenceIn(regions, signature, TokenOf(regions, x), Q \cup {x})
  PROVE  Shows(regions, signature, Ranked!InsertRanked(rest, added), Q \cup {x})
<1> DEFINE new == Ranked!InsertRanked(rest, added)
           E(t, S) == EvidenceIn(regions, signature, t, S)
           R == Q \cup {x}
<1>0. /\ Sorted(rest)
      /\ \A k \in 1 .. Len(rest) : /\ rest[k].token # TokenOf(regions, x)
                                   /\ HoldsToken(regions, signature, rest[k], Q)
      /\ \A y \in Q : \/ TokenOf(regions, y) = TokenOf(regions, x)
                      \/ \E k \in 1 .. Len(rest) : rest[k].token = TokenOf(regions, y)
  BY DEF Others
<1>1. /\ Sorted(new)
      /\ \A k \in 1 .. Len(new) : new[k] = added \/ \E j \in 1 .. Len(rest) : new[k] = rest[j]
      /\ \E k \in 1 .. Len(new) : new[k] = added
      /\ \A j \in 1 .. Len(rest) : \E k \in 1 .. Len(new) : new[k] = rest[j]
  <2>1. \A k \in 1 .. Len(rest) : rest[k].token # added.token
    BY <1>0
  <2> QED BY <1>0, <2>1, InsertIs
<1>2. \A t : t # TokenOf(regions, x) => E(t, R) = E(t, Q)
  <2> SUFFICES ASSUME NEW t, t # TokenOf(regions, x) PROVE E(t, R) = E(t, Q)
    OBVIOUS
  <2>1. E(t, R) = E(t, Q) + Worth(regions, signature, t, x) /\ E(t, Q) \in Int
    <3>1. GrowsBy(regions, signature, t, Q, x)
      BY OneMorePart
    <3> QED BY <3>1 DEF GrowsBy
  <2>2. Worth(regions, signature, t, x) = 0
    BY WorthIs
  <2> HIDE DEF E
  <2> QED BY <2>1, <2>2
<1> HIDE DEF new, E, R
<1>3. HoldsToken(regions, signature, added, R)
  <2>1. x \in R /\ TokenOf(regions, x) = added.token
    BY DEF R
  <2>2. added.score = EvidenceIn(regions, signature, added.token, R)
    BY DEF R
  <2> QED BY <2>1, <2>2 DEF HoldsToken
<1>4. \A j \in 1 .. Len(rest) : HoldsToken(regions, signature, rest[j], R)
  <2> SUFFICES ASSUME NEW j \in 1 .. Len(rest) PROVE HoldsToken(regions, signature, rest[j], R)
    OBVIOUS
  <2>1. rest[j].token # TokenOf(regions, x) /\ HoldsToken(regions, signature, rest[j], Q)
    BY <1>0
  <2>2. /\ \E y \in Q : TokenOf(regions, y) = rest[j].token
        /\ rest[j].score = EvidenceIn(regions, signature, rest[j].token, Q)
    BY <2>1 DEF HoldsToken
  <2>3. EvidenceIn(regions, signature, rest[j].token, R)
          = EvidenceIn(regions, signature, rest[j].token, Q)
    BY <1>2, <2>1 DEF E
  <2>4. \E y \in R : TokenOf(regions, y) = rest[j].token
    BY <2>2 DEF R
  <2> QED BY <2>2, <2>3, <2>4 DEF HoldsToken
<1>5. \A k \in 1 .. Len(new) : HoldsToken(regions, signature, new[k], R)
  BY <1>1, <1>3, <1>4
<1>6. \A y \in R : \E k \in 1 .. Len(new) : new[k].token = TokenOf(regions, y)
  <2> SUFFICES ASSUME NEW y \in R PROVE \E k \in 1 .. Len(new) : new[k].token = TokenOf(regions, y)
    OBVIOUS
  <2>1. CASE TokenOf(regions, y) = TokenOf(regions, x)
    BY <1>1, <2>1
  <2>2. CASE TokenOf(regions, y) # TokenOf(regions, x)
    <3>1. y \in Q
      BY <2>2 DEF R
    <3>2. PICK j \in 1 .. Len(rest) : rest[j].token = TokenOf(regions, y)
      BY <1>0, <2>2, <3>1
    <3> QED BY <1>1, <3>2
  <2> QED BY <2>1, <2>2
<1> QED BY <1>1, <1>5, <1>6 DEF new, R, Shows

(* One round: an emission is accumulated.                                  *)
LEMMA RoundHolds ==
  ASSUME NEW regions \in Seq(RegionRecord), NEW signature \in Code,
         NEW Q \in SUBSET Emitted(regions), IsFiniteSet(Q),
         NEW x \in Emitted(regions), x \notin Q,
         SumsFit(regions, signature, Q \cup {x}),
         NEW p \in Predictions, Holds(regions, signature, p, Q)
  PROVE  Holds(regions, signature,
               Accumulate(p, WithBonus(regions[x[1]].emissions[x[2]],
                                       MarginOf(regions, signature, x[1]))),
               Q \cup {x})
<1> DEFINE emission == regions[x[1]].emissions[x[2]]
           item == WithBonus(emission, MarginOf(regions, signature, x[1]))
           t == TokenOf(regions, x)
           w == Worth(regions, signature, t, x)
           E(S) == EvidenceIn(regions, signature, t, S)
           R == Q \cup {x}
           entries == p.entries
           slot == SlotOf(entries, t)
           new == Accumulate(p, item)
           added == [token |-> t, score |-> E(R)]
<1>1. /\ emission.score + MarginOf(regions, signature, x[1]) = w /\ w \in Int
      /\ t \in Tokens /\ emission.token = t
  <2>1. t \in Tokens /\ emission.token = t
    BY WorthIs DEF TokenOf
  <2>2. \A token : /\ Worth(regions, signature, token, x) \in Int
                   /\ Worth(regions, signature, token, x)
                        = IF token = TokenOf(regions, x)
                          THEN emission.score + MarginOf(regions, signature, x[1]) ELSE 0
    BY WorthIs
  <2> HIDE DEF emission
  <2> QED BY <2>1, <2>2
<1>2. /\ E(Q) \in Int /\ E({x}) = w /\ E(R) = E(Q) + w
      /\ (\A y \in Q : TokenOf(regions, y) # t) => E(Q) = 0
  <2>1. GrowsBy(regions, signature, t, Q, x)
    BY <1>1, OneMorePart
  <2> HIDE DEF t
  <2> QED BY <2>1 DEF GrowsBy
<1>3. E({x}) \in Score /\ E(R) \in Score
  <2>1. {x} \in SUBSET R /\ R \in SUBSET R
    OBVIOUS
  <2>2. \A some \in SUBSET R : E(some) \in Score
    BY <1>1 DEF SumsFit
  <2> QED BY <2>1, <2>2
<1>4. \A n \in Score : Saturate(n) = n
  BY DEF Saturate, Score
<1>5. item = [token |-> t, score |-> w]
  <2>1. item = [token |-> emission.token,
                score |-> Saturate(emission.score + MarginOf(regions, signature, x[1]))]
    BY DEF WithBonus
  <2>2. Saturate(w) = w
    BY <1>2, <1>3, <1>4
  <2> QED BY <1>1, <2>1, <2>2
<1>6. added \in TokenScore /\ added.token = t /\ added.score = E(R)
  BY <1>1, <1>3 DEF TokenScore
<1>7. /\ entries \in Seq(TokenScore) /\ p.truncated \in Nat
      /\ Len(entries) \in Nat /\ Len(entries) <= OutputCapacity
  BY DEF Predictions
<1>8. item.token = t /\ item.score = w
  BY <1>5
<1> HIDE DEF item
<1>9. new = IF slot # 0
            THEN [entries   |-> Ranked!InsertRanked(
                                  RemoveAt(entries, slot),
                                  [token |-> t, score |-> Saturate(entries[slot].score + w)]),
                  truncated |-> p.truncated]
            ELSE [entries   |-> Ranked!InsertRanked(entries, item),
                  truncated |-> IF Len(entries) < OutputCapacity
                                THEN p.truncated ELSE p.truncated + 1]
  BY <1>8 DEF Accumulate
<1>10. /\ slot # 0 => slot \in 1 .. Len(entries) /\ entries[slot].token = t
       /\ slot = 0 => \A i \in 1 .. Len(entries) : entries[i].token # t
  BY <1>7, SlotHolds
<1> HIDE DEF new, slot, entries, added, E, R, w, t
<1> SUFFICES ASSUME new.truncated = 0
             PROVE  Shows(regions, signature, new.entries, R)
  BY DEF Holds, new, R, item, emission
<1>11. p.truncated = 0 /\ (slot = 0 => Len(entries) < OutputCapacity)
  <2>1. CASE slot # 0
    BY <1>9, <2>1
  <2>2. CASE slot = 0
    <3>1. new.truncated = IF Len(entries) < OutputCapacity THEN p.truncated ELSE p.truncated + 1
      BY <1>9, <2>2
    <3> QED BY <1>7, <2>2, <3>1
  <2> QED BY <2>1, <2>2
<1>12. /\ Sorted(entries)
       /\ \A k \in 1 .. Len(entries) : HoldsToken(regions, signature, entries[k], Q)
       /\ \A y \in Q : \E k \in 1 .. Len(entries) : entries[k].token = TokenOf(regions, y)
  BY <1>11 DEF Holds, Shows, entries
<1>13. CASE slot # 0
  <2> DEFINE rest == RemoveAt(entries, slot)
  <2>1. slot \in 1 .. Len(entries) /\ entries[slot].token = t
    BY <1>10, <1>13
  <2>2. /\ rest \in Seq(TokenScore) /\ Len(rest) = Len(entries) - 1
        /\ Sorted(rest)
        /\ \A k \in 1 .. Len(rest) : \E j \in 1 .. Len(entries) : j # slot /\ rest[k] = entries[j]
        /\ \A j \in 1 .. Len(entries) : j # slot => \E k \in 1 .. Len(rest) : rest[k] = entries[j]
    BY <1>7, <1>12, <2>1, RemovedIs
  <2> HIDE DEF rest
  <2>3. \A j \in 1 .. Len(entries) : j # slot => entries[j].token # t
    <3>1. \A k, l \in 1 .. Len(entries) : k < l => entries[k].token # entries[l].token
      BY <1>12 DEF Sorted
    <3>2. \A j \in 1 .. Len(entries) : j # slot => j < slot \/ slot < j
      BY <1>7, <2>1
    <3> QED BY <2>1, <3>1, <3>2
  <2>4. entries[slot].score = E(Q)
    BY <1>12, <2>1 DEF HoldsToken, E
  <2>5. new.entries = Ranked!InsertRanked(rest, added)
    <3>1. Saturate(entries[slot].score + w) = E(R)
      BY <1>2, <1>3, <1>4, <2>4
    <3> QED BY <1>9, <1>13, <3>1 DEF rest, added
  <2>6. \A k \in 1 .. Len(rest) :
           rest[k].token # t /\ HoldsToken(regions, signature, rest[k], Q)
    <3> SUFFICES ASSUME NEW k \in 1 .. Len(rest)
                 PROVE  rest[k].token # t /\ HoldsToken(regions, signature, rest[k], Q)
      OBVIOUS
    <3>1. PICK j \in 1 .. Len(entries) : j # slot /\ rest[k] = entries[j]
      BY <2>2
    <3> QED BY <1>12, <2>3, <3>1
  <2>7. \A y \in Q : TokenOf(regions, y) = t \/ \E k \in 1 .. Len(rest) : rest[k].token = TokenOf(regions, y)
    <3> SUFFICES ASSUME NEW y \in Q, TokenOf(regions, y) # t
                 PROVE  \E k \in 1 .. Len(rest) : rest[k].token = TokenOf(regions, y)
      OBVIOUS
    <3>1. PICK j \in 1 .. Len(entries) : entries[j].token = TokenOf(regions, y)
      BY <1>12
    <3>2. j # slot
      BY <2>1, <3>1
    <3> QED BY <2>2, <3>1, <3>2, SMTT(30)
  <2>8. Len(rest) < OutputCapacity
    BY <1>7, <2>2
  <2>9. Others(regions, signature, rest, Q, x)
    BY <2>2, <2>6, <2>7 DEF Others, t
  <2>10. Shows(regions, signature, Ranked!InsertRanked(rest, added), Q \cup {x})
    BY <1>6, <2>2, <2>8, <2>9, InsertHolds DEF t, R, E
  <2> QED BY <2>5, <2>10 DEF R
<1>14. CASE slot = 0
  <2>1. \A i \in 1 .. Len(entries) : entries[i].token # t
    BY <1>10, <1>14
  <2>2. \A y \in Q : TokenOf(regions, y) # t
    BY <1>12, <2>1
  <2>3. E(R) = w
    BY <1>1, <1>2, <2>2
  <2>4. item = added
    BY <1>5, <2>3 DEF added
  <2>5. new.entries = Ranked!InsertRanked(entries, added)
    BY <1>9, <1>14, <2>4
  <2>6. Len(entries) < OutputCapacity
    BY <1>11, <1>14
  <2>7. \A y \in Q : TokenOf(regions, y) = t
                       \/ \E k \in 1 .. Len(entries) : entries[k].token = TokenOf(regions, y)
    BY <1>12
  <2>8. \A k \in 1 .. Len(entries) :
           entries[k].token # t /\ HoldsToken(regions, signature, entries[k], Q)
    BY <1>12, <2>1
  <2>9. Others(regions, signature, entries, Q, x)
    BY <1>12, <2>7, <2>8 DEF Others, t
  <2>10. Shows(regions, signature, Ranked!InsertRanked(entries, added), Q \cup {x})
    BY <1>6, <1>7, <2>6, <2>9, InsertHolds DEF t, R, E
  <2> QED BY <2>5, <2>10 DEF R
<1> QED BY <1>13, <1>14

(* The first n emissions of a region, and all emissions of the first n     *)
(* entries of the scratch.                                                 *)
OfRegion(regions, i, n) == {x \in Emitted(regions) : x[1] = i /\ x[2] \in 1 .. n}

OfFirst(regions, kept, n) ==
  {x \in Emitted(regions) : \E b \in 1 .. n : x[1] = kept[b].record_index}

LEMMA RegionHolds ==
  ASSUME NEW regions \in Seq(RegionRecord), NEW signature \in Code,
         NEW i \in DOMAIN regions,
         NEW P \in SUBSET Emitted(regions), IsFiniteSet(P), SumsFit(regions, signature, P),
         NEW Q \in SUBSET P, \A x \in Q : x[1] # i,
         OfRegion(regions, i, Len(regions[i].emissions)) \subseteq P,
         NEW p \in Predictions, Holds(regions, signature, p, Q)
  PROVE  /\ AccumulateRegion(p, regions[i], MarginOf(regions, signature, i)) \in Predictions
         /\ Holds(regions, signature,
                  AccumulateRegion(p, regions[i], MarginOf(regions, signature, i)),
                  Q \cup OfRegion(regions, i, Len(regions[i].emissions)))
<1> DEFINE s == regions[i].emissions
           m == MarginOf(regions, signature, i)
           Some(n) == Q \cup OfRegion(regions, i, n)
           V == [n \in 0 .. Len(s) |-> {v \in Predictions : Holds(regions, signature, v, Some(n))}]
<1>1. regions[i] \in RegionRecord
  OBVIOUS
<1>2. s \in Seq(TokenScore) /\ Len(s) \in Nat
  BY <1>1 DEF RegionRecord, Emissions
<1>3. Some(0) = Q
  BY DEF OfRegion
<1>4. ASSUME NEW n \in 1 .. Len(s)
      PROVE  /\ <<i, n>> \in Emitted(regions) /\ <<i, n>> \notin Some(n - 1)
             /\ Some(n) = Some(n - 1) \cup {<<i, n>>}
             /\ Some(n) \in SUBSET P
  <2>1. n \in Nat \ {0} /\ n - 1 \in Nat
    BY <1>2
  <2>2. <<i, n>> \in Emitted(regions)
    BY <1>2, <2>1 DEF Emitted, AllParts
  <2>3. \A x \in Emitted(regions) : x = <<x[1], x[2]>> /\ x[2] \in Nat
    BY DEF Emitted, AllParts
  <2>4. <<i, n>> \notin OfRegion(regions, i, n - 1) /\ <<i, n>> \notin Q
    BY <2>1 DEF OfRegion
  <2>5. ASSUME NEW x
        PROVE  x \in OfRegion(regions, i, n) <=> x \in OfRegion(regions, i, n - 1) \/ x = <<i, n>>
    <3>1. ASSUME x \in OfRegion(regions, i, n), x # <<i, n>>
          PROVE  x \in OfRegion(regions, i, n - 1)
      <4>1. x \in Emitted(regions) /\ x[1] = i /\ x[2] \in 1 .. n
        BY <3>1 DEF OfRegion
      <4>2. x[2] # n
        BY <2>3, <3>1, <4>1
      <4>3. x[2] \in 1 .. n - 1
        BY <2>1, <4>1, <4>2
      <4> QED BY <4>1, <4>3 DEF OfRegion
    <3>2. ASSUME x \in OfRegion(regions, i, n - 1)
          PROVE  x \in OfRegion(regions, i, n)
      BY <2>1, <3>2 DEF OfRegion
    <3>3. <<i, n>> \in OfRegion(regions, i, n)
      BY <2>1, <2>2 DEF OfRegion
    <3> QED BY <3>1, <3>2, <3>3
  <2>6. OfRegion(regions, i, n) = OfRegion(regions, i, n - 1) \cup {<<i, n>>}
    BY <2>5
  <2>7. OfRegion(regions, i, n) \in SUBSET OfRegion(regions, i, Len(s))
    BY <1>2 DEF OfRegion
  <2> HIDE DEF s
  <2>8. Some(n) \in SUBSET P
    BY <2>7 DEF s
  <2> QED BY <2>2, <2>4, <2>6, <2>8
<1> HIDE DEF Some, s, m
<1>5. p \in V[0]
  BY <1>2, <1>3
<1>6. \A n \in 1 .. Len(s) : \A v \in V[n - 1] : EmissionRound(m, 0, v, s[n]) \in V[n]
  <2> SUFFICES ASSUME NEW n \in 1 .. Len(s), NEW v \in V[n - 1]
               PROVE  EmissionRound(m, 0, v, s[n]) \in V[n]
    OBVIOUS
  <2>1. n \in 0 .. Len(s) /\ n - 1 \in 0 .. Len(s)
    BY <1>2
  <2>2. v \in Predictions /\ Holds(regions, signature, v, Some(n - 1))
    BY <2>1
  <2> DEFINE x == <<i, n>>
             W == Some(n - 1)
  <2>3. /\ x \in Emitted(regions) /\ x \notin W /\ Some(n) = W \cup {x} /\ Some(n) \in SUBSET P
    BY <1>4
  <2>4. x[1] = i /\ x[2] = n
    OBVIOUS
  <2> HIDE DEF x, W, V
  <2>5. W \in SUBSET Emitted(regions) /\ IsFiniteSet(W)
    <3>1. W \in SUBSET P
      BY <2>3
    <3> QED BY <3>1, FS_Subset
  <2>6. SumsFit(regions, signature, W \cup {x})
    <3>1. \A some \in SUBSET (W \cup {x}) : some \in SUBSET P
      BY <2>3
    <3> QED BY <3>1 DEF SumsFit
  <2>7. Holds(regions, signature,
              Accumulate(v, WithBonus(regions[x[1]].emissions[x[2]],
                                      MarginOf(regions, signature, x[1]))), W \cup {x})
    BY <2>2, <2>3, <2>5, <2>6, RoundHolds DEF W
  <2>8. EmissionRound(m, 0, v, s[n]) =
          Accumulate(v, WithBonus(regions[x[1]].emissions[x[2]], MarginOf(regions, signature, x[1])))
    BY <2>4 DEF EmissionRound, s, m
  <2>9. WithBonus(s[n], m) \in TokenScore
    <3>1. s[n] \in TokenScore /\ m \in Int
      BY <1>2, <2>3, <2>4, WorthIs DEF m, s
    <3>2. s[n].token \in Tokens /\ s[n].score \in Int
      BY <3>1 DEF TokenScore, Score
    <3>3. Saturate(s[n].score + m) \in Score
      BY <3>1, <3>2, SaturateType
    <3> QED BY <3>2, <3>3 DEF WithBonus, TokenScore
  <2>10. EmissionRound(m, 0, v, s[n]) \in Predictions
    BY <2>2, <2>9, AccumulateType DEF EmissionRound
  <2>11. Holds(regions, signature, EmissionRound(m, 0, v, s[n]), Some(n))
    BY <2>3, <2>7, <2>8
  <2> QED BY <2>1, <2>10, <2>11 DEF V
<1> HIDE DEF V
<1>7. EmissionLoop!Folded(m, 0, p, s) \in V[Len(s)]
  BY <1>2, <1>5, <1>6, EmissionLoop!FoldKeeps
<1>8. AccumulateRegion(p, regions[i], m) = EmissionLoop!Folded(m, 0, p, s)
  BY RegionLoop DEF s
<1>9. Len(s) \in 0 .. Len(s)
  BY <1>2
<1> QED BY <1>7, <1>8, <1>9 DEF V, Some, s, m

(* The regions of the scratch, each once, one after another.               *)
LEMMA ScratchHolds ==
  ASSUME NEW regions \in Seq(RegionRecord), NEW signature \in Code,
         NEW kept \in Seq(Entries(regions, signature)),
         \A k, l \in 1 .. Len(kept) : k # l => kept[k].record_index # kept[l].record_index,
         IsFiniteSet(OfFirst(regions, kept, Len(kept))),
         SumsFit(regions, signature, OfFirst(regions, kept, Len(kept)))
  PROVE  LET p == ActiveLoop!Folded(regions, 0, EmptyPrediction, kept)
         IN  Holds(regions, signature, p, OfFirst(regions, kept, Len(kept)))
<1> DEFINE Some(n) == OfFirst(regions, kept, n)
           P == Some(Len(kept))
           V == [n \in 0 .. Len(kept) |->
                   {v \in Predictions : Holds(regions, signature, v, Some(n))}]
           index(n) == kept[n].record_index
<1>1. Len(kept) \in Nat
  OBVIOUS
<1>2. ASSUME NEW n \in 1 .. Len(kept)
      PROVE  /\ index(n) \in DOMAIN regions
             /\ kept[n].margin = MarginOf(regions, signature, index(n))
  <2>1. kept[n] \in Entries(regions, signature)
    OBVIOUS
  <2>2. PICK i \in DOMAIN regions : kept[n] = RouteEntry(regions, i, signature)
    BY <2>1 DEF Entries
  <2> QED BY <2>2 DEF RouteEntry, MembershipOf, MarginOf
<1>3. EmptyPrediction \in V[0]
  <2>1. EmptyPrediction \in Predictions
    BY DEF EmptyPrediction, Predictions
  <2>2. Some(0) = {}
    BY DEF OfFirst
  <2>3. Holds(regions, signature, EmptyPrediction, {})
    BY DEF Holds, Shows, Sorted, EmptyPrediction
  <2> HIDE DEF Some
  <2>4. Holds(regions, signature, EmptyPrediction, Some(0))
    BY <2>2, <2>3
  <2>5. 0 \in 0 .. Len(kept)
    BY <1>1
  <2>6. V[0] = {v \in Predictions : Holds(regions, signature, v, Some(0))}
    BY <2>5
  <2> HIDE DEF V
  <2> QED BY <2>1, <2>4, <2>6
<1> HIDE DEF Some
<1>4. \A n \in 1 .. Len(kept) : \A v \in V[n - 1] : ActiveRound(regions, 0, v, kept[n]) \in V[n]
  <2> SUFFICES ASSUME NEW n \in 1 .. Len(kept), NEW v \in V[n - 1]
               PROVE  ActiveRound(regions, 0, v, kept[n]) \in V[n]
    OBVIOUS
  <2> DEFINE i == index(n)
             W == Some(n - 1)
             now == OfRegion(regions, i, Len(regions[i].emissions))
  <2>1. n \in 0 .. Len(kept) /\ n - 1 \in 0 .. Len(kept)
    BY <1>1
  <2>2. v \in Predictions /\ Holds(regions, signature, v, W)
    BY <2>1
  <2>3. i \in DOMAIN regions /\ kept[n].margin = MarginOf(regions, signature, i)
    BY <1>2
  <2>4. now = {x \in Emitted(regions) : x[1] = i}
    BY DEF OfRegion, Emitted
  <2>5. Some(n) = W \cup now
    <3>1. \A x : (\E b \in 1 .. n : x[1] = index(b))
                   <=> (\E b \in 1 .. n - 1 : x[1] = index(b)) \/ x[1] = i
      <4>1. \A b : b \in 1 .. n <=> b \in 1 .. n - 1 \/ b = n
        BY <1>1
      <4> QED BY <4>1
    <3> QED BY <2>4, <3>1 DEF Some, OfFirst
  <2>6. Some(n) \in SUBSET P /\ P \in SUBSET Emitted(regions)
    BY <1>1 DEF Some, OfFirst
  <2>7. \A x \in W : x[1] # i
    <3>1. \A b \in 1 .. n - 1 : index(b) # i
      BY <1>1
    <3> QED BY <3>1 DEF Some, OfFirst
  <2>8. IsFiniteSet(P) /\ SumsFit(regions, signature, P)
    BY DEF Some
  <2> HIDE DEF i, W, V, P, now
  <2>9. W \in SUBSET P /\ now \subseteq P
    BY <2>5, <2>6
  <2>10. /\ AccumulateRegion(v, regions[i], MarginOf(regions, signature, i)) \in Predictions
         /\ Holds(regions, signature,
                  AccumulateRegion(v, regions[i], MarginOf(regions, signature, i)), W \cup now)
    BY <2>2, <2>3, <2>6, <2>7, <2>8, <2>9, RegionHolds DEF now
  <2>11. ActiveRound(regions, 0, v, kept[n])
           = AccumulateRegion(v, regions[i], MarginOf(regions, signature, i))
    BY <2>3 DEF ActiveRound, i
  <2> QED BY <2>1, <2>5, <2>10, <2>11 DEF V
<1> HIDE DEF V
<1>5. ActiveLoop!Folded(regions, 0, EmptyPrediction, kept) \in V[Len(kept)]
  BY <1>3, <1>4, ActiveLoop!FoldKeeps
<1>6. Len(kept) \in 0 .. Len(kept)
  BY <1>1
<1> QED BY <1>5, <1>6 DEF V, Some
-----------------------------------------------------------------------------
(* No region emits more than the longest of them.                          *)
Longest(regions) == Max({0} \cup {Len(regions[j].emissions) : j \in DOMAIN regions})

LEMMA LongestIs ==
  ASSUME NEW regions \in Seq(RegionRecord)
  PROVE  /\ Longest(regions) \in Nat
         /\ \A j \in DOMAIN regions : /\ Len(regions[j].emissions) \in Nat
                                      /\ Len(regions[j].emissions) <= Longest(regions)
<1> DEFINE N == Len(regions)
           length(j) == Len(regions[j].emissions)
           Lengths == {0} \cup {length(j) : j \in DOMAIN regions}
           Bounds(n, m) == \A j \in 1 .. n : length(j) <= m
           Wrong == {n \in 0 .. N : ~ \E m \in Nat : Bounds(n, m)}
           Bound == {m \in Nat : Bounds(N, m)}
<1>1. N \in Nat /\ DOMAIN regions = 1 .. N
  OBVIOUS
<1>2. \A j \in DOMAIN regions : length(j) \in Nat
  <2> SUFFICES ASSUME NEW j \in DOMAIN regions PROVE length(j) \in Nat
    OBVIOUS
  <2>1. regions[j] \in RegionRecord
    OBVIOUS
  <2>2. regions[j].emissions \in Seq(TokenScore)
    BY <2>1 DEF RegionRecord, Emissions
  <2> QED BY <2>2
<1> HIDE DEF N, length
<1>3. Wrong = {}
  <2> SUFFICES ASSUME Wrong # {} PROVE FALSE
    OBVIOUS
  <2>1. PICK n \in Wrong : \A k \in Wrong : n <= k
    <3>1. Wrong \in SUBSET Nat
      BY <1>1
    <3> HIDE DEF Wrong
    <3> QED BY <3>1, CopyLoop!NatHasMin
  <2>2. n \in 0 .. N /\ n \in Nat
    BY <1>1
  <2>3. CASE n = 0
    <3>1. Bounds(n, 0)
      BY <2>3
    <3> QED BY <3>1
  <2>4. CASE n # 0
    <3>1. n \in 1 .. N /\ n - 1 \in 0 .. N /\ n - 1 < n /\ ~ n <= n - 1
      <4> HIDE DEF Wrong
      <4> QED BY <1>1, <2>2, <2>4
    <3>2. n - 1 \notin Wrong
      <4> HIDE DEF Wrong
      <4> QED BY <2>1, <3>1
    <3>3. PICK m \in Nat : Bounds(n - 1, m)
      BY <3>1, <3>2
    <3> DEFINE l == length(n)
    <3>4. l \in Nat /\ \A j \in 1 .. n : length(j) \in Nat
      <4>1. \A j \in 1 .. n : j \in DOMAIN regions
        <5> HIDE DEF Wrong
        <5> QED BY <1>1, <3>1
      <4>2. n \in 1 .. n
        <5> HIDE DEF Wrong
        <5> QED BY <1>1, <3>1
      <4> QED BY <1>2, <4>1, <4>2
    <3>5. m + l \in Nat /\ m <= m + l /\ l <= m + l
      <4> HIDE DEF l
      <4> QED BY <3>3, <3>4
    <3>6. ASSUME NEW j \in 1 .. n PROVE length(j) <= m + l
      <4> HIDE DEF Wrong
      <4>1. length(j) \in Nat
        BY <3>4
      <4>2. j = n \/ j \in 1 .. n - 1
        BY <1>1, <3>1
      <4>3. CASE j = n
        BY <3>5, <4>3
      <4>4. CASE j \in 1 .. n - 1
        <5>1. length(j) <= m
          BY <3>3, <4>4
        <5> HIDE DEF l
        <5> QED BY <3>3, <3>4, <3>5, <4>1, <5>1
      <4> QED BY <4>2, <4>3, <4>4
    <3>7. Bounds(n, m + l)
      BY <3>6
    <3> HIDE DEF l, Bounds
    <3> QED BY <2>1, <3>5, <3>7
  <2> QED BY <2>3, <2>4
<1>4. Bound # {} /\ Bound \in SUBSET Nat
  <2>1. N \in 0 .. N
    BY <1>1
  <2> QED BY <1>3, <2>1
<1>5. PICK m \in Bound : \A k \in Bound : m <= k
  <2> HIDE DEF Bound
  <2> QED BY <1>4, CopyLoop!NatHasMin
<1>6. m \in Nat /\ \A j \in DOMAIN regions : length(j) <= m
  BY <1>1
<1>7. m \in Lengths
  <2> SUFFICES ASSUME m \notin Lengths PROVE FALSE
    OBVIOUS
  <2>1. m # 0 /\ \A j \in DOMAIN regions : length(j) # m
    OBVIOUS
  <2>2. m - 1 \in Nat /\ \A j \in DOMAIN regions : length(j) <= m - 1
    BY <1>2, <1>6, <2>1
  <2>3. m - 1 \in Bound
    BY <1>1, <2>2
  <2> QED BY <1>5, <1>6, <2>3
<1>8. \A y \in Lengths : m >= y /\ y \in Nat
  BY <1>2, <1>6
<1>9. Longest(regions) \in Lengths /\ \A y \in Lengths : Longest(regions) >= y
  BY <1>7, <1>8 DEF Longest, Max, length
<1>10. \A j \in DOMAIN regions : length(j) \in Lengths
  OBVIOUS
<1> HIDE DEF Lengths
<1>11. \A j \in DOMAIN regions : length(j) <= Longest(regions)
  BY <1>8, <1>9, <1>10
<1> QED BY <1>2, <1>8, <1>9, <1>11 DEF length

(* The parts are finitely many, and every emission of a retained region is *)
(* one of them.                                                            *)
PartsAre(regions, signature) ==
  /\ Parts(regions, signature) \in SUBSET AllParts(regions)
  /\ IsFiniteSet(Parts(regions, signature))
  /\ {x \in Parts(regions, signature) : x[2] <= Len(regions[x[1]].emissions)}
       = {x \in Emitted(regions) : x[1] \in Retained(regions, signature)}

LEMMA PartsFinite ==
  ASSUME NEW regions \in Seq(RegionRecord), NEW signature
  PROVE  PartsAre(regions, signature)
<1> DEFINE R == Retained(regions, signature)
           m == Longest(regions)
           places == 1 .. m
<1>1. /\ m \in Nat
      /\ \A j \in DOMAIN regions : Len(regions[j].emissions) \in Nat /\ Len(regions[j].emissions) <= m
  BY LongestIs
<1>2. Parts(regions, signature) = {<<i, k>> : i \in R, k \in places}
  BY DEF Parts, Longest
<1>3. Parts(regions, signature) = R \X places
  BY <1>2
<1>4. R \in SUBSET DOMAIN regions
  BY DEF Retained
<1> HIDE DEF R, m
<1>5. IsFiniteSet(DOMAIN regions)
  <2> DEFINE N == Len(regions)
  <2>1. N \in Nat /\ DOMAIN regions = 1 .. N
    OBVIOUS
  <2> HIDE DEF N
  <2> QED BY <2>1, FS_Interval
<1>6. IsFiniteSet(R)
  BY <1>4, <1>5, FS_Subset
<1>7. IsFiniteSet(places) /\ places \in SUBSET (Nat \ {0})
  BY <1>1, FS_Interval
<1>8. IsFiniteSet(R \X places)
  <2> HIDE DEF places
  <2> QED BY <1>6, <1>7, FS_Product
<1>9. R \X places \in SUBSET AllParts(regions)
  BY <1>4, <1>7 DEF AllParts
<1>10. ASSUME NEW x
       PROVE  x \in R \X places /\ x[2] <= Len(regions[x[1]].emissions)
                <=> x \in Emitted(regions) /\ x[1] \in R
  <2>1. ASSUME x \in R \X places, x[2] <= Len(regions[x[1]].emissions)
        PROVE  x \in Emitted(regions) /\ x[1] \in R
    <3>1. x[1] \in R /\ x[2] \in Nat \ {0} /\ x \in AllParts(regions)
      BY <1>7, <1>9, <2>1
    <3>2. Len(regions[x[1]].emissions) \in Nat
      BY <1>1, <1>4, <3>1
    <3>3. x[2] \in 1 .. Len(regions[x[1]].emissions)
      BY <2>1, <3>1, <3>2
    <3> QED BY <3>1, <3>3 DEF Emitted
  <2>2. ASSUME x \in Emitted(regions), x[1] \in R
        PROVE  x \in R \X places /\ x[2] <= Len(regions[x[1]].emissions)
    <3>1. x \in AllParts(regions) /\ x[2] \in 1 .. Len(regions[x[1]].emissions)
      BY <2>2 DEF Emitted
    <3>2. x = <<x[1], x[2]>> /\ x[1] \in DOMAIN regions
      BY <3>1 DEF AllParts
    <3>3. Len(regions[x[1]].emissions) \in Nat /\ Len(regions[x[1]].emissions) <= m
      BY <1>1, <3>2
    <3>4. x[2] \in places /\ x[2] <= Len(regions[x[1]].emissions)
      BY <1>1, <3>1, <3>3
    <3> QED BY <2>2, <3>2, <3>4
  <2> QED BY <2>1, <2>2
<1>11. {x \in R \X places : x[2] <= Len(regions[x[1]].emissions)}
         = {x \in Emitted(regions) : x[1] \in R}
  <2> HIDE DEF places
  <2> QED BY <1>10
<1> HIDE DEF places
<1> QED BY <1>3, <1>8, <1>9, <1>11 DEF R, PartsAre

-----------------------------------------------------------------------------
(* No two regions of an artifact share an ID.                              *)
Numbered(regions) ==
  \A i, j \in DOMAIN regions : i # j => regions[i].region_id # regions[j].region_id

(* The entries of the regions among the first n of a bucket that cover the *)
(* signature, and of all regions that do.                                  *)
CoveringFirst(regions, signature, bucket, n) ==
  {RouteEntry(regions, bucket[k], signature) :
     k \in {l \in 1 .. n : Covers(regions[bucket[l]], signature)}}

CoveringEntries(regions, signature) ==
  {RouteEntry(regions, i, signature) : i \in {j \in DOMAIN regions : Covers(regions[j], signature)}}

Once(bucket) == \A k, l \in 1 .. Len(bucket) : k # l => bucket[k] # bucket[l]

LEMMA EntryIs ==
  ASSUME NEW regions \in Seq(RegionRecord), NEW i \in DOMAIN regions, NEW signature \in Code
  PROVE  LET e == RouteEntry(regions, i, signature)
         IN  /\ e \in Entries(regions, signature)
             /\ e.record_index = i /\ e.region_id = regions[i].region_id
             /\ e.region_id \in Nat /\ e.depth \in Nat
             /\ e.margin \in Int /\ e.distance \in Int
<1> DEFINE region == regions[i]
<1>1. region \in RegionRecord
  OBVIOUS
<1>2. region.region_id \in Nat /\ region.depth \in Nat /\ region.radius \in Nat
  BY <1>1 DEF RegionRecord
<1>3. MaskedHamming(signature, region) \in Nat
  BY <1>1, HammingType
<1>4. region.radius - MaskedHamming(signature, region) \in Int
  BY <1>2, <1>3
<1>5. RouteEntry(regions, i, signature) \in Entries(regions, signature)
  BY DEF Entries
<1> QED BY <1>2, <1>3, <1>4, <1>5 DEF RouteEntry, MembershipOf

(* The order of the entries is total, since the region IDs decide last.    *)
LEMMA EntriesAreOrdered ==
  ASSUME NEW regions \in Seq(RegionRecord), Numbered(regions), NEW signature \in Code
  PROVE  ScanLoop!StrictTotalOrder(Entries(regions, signature))
<1> DEFINE U == Entries(regions, signature)
           Shape(e) == /\ e.region_id \in Int /\ e.depth \in Int
                       /\ e.margin \in Int /\ e.distance \in Int
<1>1. ASSUME NEW e \in U
      PROVE  /\ Shape(e) /\ e.record_index \in DOMAIN regions
             /\ e = RouteEntry(regions, e.record_index, signature)
             /\ e.region_id = regions[e.record_index].region_id
  <2>1. PICK i \in DOMAIN regions : e = RouteEntry(regions, i, signature)
    BY DEF Entries
  <2>2. /\ RouteEntry(regions, i, signature).record_index = i
        /\ RouteEntry(regions, i, signature).region_id = regions[i].region_id
        /\ Shape(RouteEntry(regions, i, signature))
    BY EntryIs
  <2> QED BY <2>1, <2>2
<1>2. ASSUME NEW x \in U, NEW y \in U, x # y PROVE x.region_id # y.region_id
  BY <1>1, <1>2 DEF Numbered
<1> HIDE DEF U
<1>3. \A x \in U : ~ EntryPrecedes(x, x)
  BY <1>1 DEF EntryPrecedes
<1>4. \A x, y, z \in U : EntryPrecedes(x, y) /\ EntryPrecedes(y, z) => EntryPrecedes(x, z)
  <2> SUFFICES ASSUME NEW x \in U, NEW y \in U, NEW z \in U,
                      EntryPrecedes(x, y), EntryPrecedes(y, z)
               PROVE  EntryPrecedes(x, z)
    OBVIOUS
  <2>1. Shape(x) /\ Shape(y) /\ Shape(z)
    BY <1>1
  <2> QED BY <2>1 DEF EntryPrecedes
<1>5. \A x, y \in U : x = y \/ EntryPrecedes(x, y) \/ EntryPrecedes(y, x)
  <2> SUFFICES ASSUME NEW x \in U, NEW y \in U, x # y
               PROVE  EntryPrecedes(x, y) \/ EntryPrecedes(y, x)
    OBVIOUS
  <2>1. Shape(x) /\ Shape(y) /\ x.region_id # y.region_id
    BY <1>1, <1>2
  <2> QED BY <2>1 DEF EntryPrecedes
<1> QED BY <1>3, <1>4, <1>5 DEF ScanLoop!StrictTotalOrder, U

(* The scan keeps the first of them in that order, as many as there is     *)
(* room for.                                                               *)
LEMMA ScanKeepsTopK ==
  ASSUME NEW regions \in Seq(RegionRecord), Numbered(regions), NEW signature \in Code,
         NEW bucket \in Seq(DOMAIN regions), Once(bucket)
  PROVE  ScanLoop!IsTopK(ScanLoop!Folded(regions, signature, << >>, bucket),
                         CoveringFirst(regions, signature, bucket, Len(bucket)))
<1> DEFINE U == Entries(regions, signature)
           Some(n) == CoveringFirst(regions, signature, bucket, n)
           V == [n \in 0 .. Len(bucket) |-> {kept \in Seq(U) : ScanLoop!IsTopK(kept, Some(n))}]
           entry(n) == RouteEntry(regions, bucket[n], signature)
<1>1. Len(bucket) \in Nat
  OBVIOUS
<1>2. ScanLoop!StrictTotalOrder(U)
  BY EntriesAreOrdered
<1>3. ASSUME NEW n \in 1 .. Len(bucket)
      PROVE  entry(n) \in U /\ entry(n).record_index = bucket[n]
  <2>1. bucket[n] \in DOMAIN regions
    OBVIOUS
  <2> QED BY <2>1, EntryIs
<1>4. \A n \in 0 .. Len(bucket) : Some(n) \in SUBSET U
  <2> SUFFICES ASSUME NEW n \in 0 .. Len(bucket), NEW k \in 1 .. n PROVE entry(k) \in U
    BY DEF CoveringFirst
  <2>1. k \in 1 .. Len(bucket)
    BY <1>1
  <2> HIDE DEF entry, U
  <2> QED BY <1>3, <2>1
<1>5. << >> \in V[0]
  <2>1. Some(0) = {}
    BY DEF CoveringFirst
  <2> HIDE DEF Some
  <2>2. ScanLoop!IsTopK(<< >>, Some(0))
    BY <2>1 DEF ScanLoop!IsTopK, ScanLoop!Ascending, ScanLoop!Elements
  <2>3. 0 \in 0 .. Len(bucket)
    BY <1>1
  <2> QED BY <2>2, <2>3
<1>6. ASSUME NEW n \in 1 .. Len(bucket), Covers(regions[bucket[n]], signature)
      PROVE  /\ entry(n) \notin Some(n - 1)
             /\ Some(n) = Some(n - 1) \cup {entry(n)}
  <2>0. \A k : k \in 1 .. n <=> k \in 1 .. n - 1 \/ k = n
    BY <1>1
  <2>1. ASSUME NEW k \in 1 .. n - 1 PROVE entry(k) # entry(n)
    <3>1. k \in 1 .. Len(bucket) /\ k # n
      BY <1>1
    <3>2. entry(k).record_index = bucket[k] /\ entry(n).record_index = bucket[n]
      BY <1>3, <3>1
    <3>3. bucket[k] # bucket[n]
      BY <3>1 DEF Once
    <3> QED BY <3>2, <3>3
  <2>2. Some(n) = {entry(k) : k \in {l \in 1 .. n : Covers(regions[bucket[l]], signature)}}
    BY DEF CoveringFirst
  <2>3. Some(n - 1) = {entry(k) : k \in {l \in 1 .. n - 1 : Covers(regions[bucket[l]], signature)}}
    BY DEF CoveringFirst
  <2> HIDE DEF entry, Some
  <2>4. entry(n) \notin Some(n - 1)
    BY <2>1, <2>3
  <2>5. Some(n) = Some(n - 1) \cup {entry(n)}
    BY <1>6, <2>0, <2>2, <2>3
  <2> QED BY <2>4, <2>5
<1>7. ASSUME NEW n \in 1 .. Len(bucket), ~ Covers(regions[bucket[n]], signature)
      PROVE  Some(n) = Some(n - 1)
  <2>0. \A k : k \in 1 .. n <=> k \in 1 .. n - 1 \/ k = n
    BY <1>1
  <2>1. {l \in 1 .. n : Covers(regions[bucket[l]], signature)}
          = {l \in 1 .. n - 1 : Covers(regions[bucket[l]], signature)}
    BY <1>7, <2>0
  <2> QED BY <2>1 DEF CoveringFirst
<1> HIDE DEF Some, entry
<1>8. \A n \in 1 .. Len(bucket) : \A kept \in V[n - 1] :
        ScanRound(regions, signature, kept, bucket[n]) \in V[n]
  <2> SUFFICES ASSUME NEW n \in 1 .. Len(bucket), NEW kept \in V[n - 1]
               PROVE  ScanRound(regions, signature, kept, bucket[n]) \in V[n]
    OBVIOUS
  <2>1. n \in 0 .. Len(bucket) /\ n - 1 \in 0 .. Len(bucket) /\ bucket[n] \in DOMAIN regions
    BY <1>1
  <2>2. kept \in Seq(U) /\ ScanLoop!IsTopK(kept, Some(n - 1))
    BY <2>1
  <2>3. V[n] = {k \in Seq(U) : ScanLoop!IsTopK(k, Some(n))}
    BY <2>1
  <2> HIDE DEF V
  <2>4. CASE Covers(regions[bucket[n]], signature)
    <3> DEFINE e == entry(n)
               W == Some(n - 1)
    <3>1. e \in U /\ e \notin W /\ Some(n) = W \cup {e} /\ W \in SUBSET U
      BY <1>3, <1>4, <1>6, <2>1, <2>4
    <3>2. ScanRound(regions, signature, kept, bucket[n]) = Scratch!InsertRanked(kept, e)
      BY <2>4 DEF ScanRound, entry
    <3>3. ScanLoop!InsertRanked(kept, e) = Scratch!InsertRanked(kept, e)
      BY DEF ScanLoop!InsertRanked, Scratch!InsertRanked, ScanLoop!Shifted, Scratch!Shifted,
             ScanLoop!Position, Scratch!Position, ScanLoop!LengthAfter, Scratch!LengthAfter
    <3> HIDE DEF e, W, U
    <3>4. e \in U \ W /\ ScanLoop!StrictTotalOrder(W \cup {e})
      <4>1. W \cup {e} \in SUBSET U
        BY <3>1
      <4> QED BY <1>2, <3>1, <4>1 DEF ScanLoop!StrictTotalOrder
    <3>5. ScanLoop!IsTopK(kept, W)
      BY <2>2 DEF W
    <3>6. ScanLoop!IsTopK(ScanLoop!InsertRanked(kept, e), W \cup {e})
      BY <2>2, <3>1, <3>4, <3>5, ScanLoop!InsertKeepsTopK
    <3>7. Len(kept) <= MaxActive
      BY <3>5 DEF ScanLoop!IsTopK
    <3>8. ScanLoop!InsertRanked(kept, e) \in Seq(U)
      BY <2>2, <3>1, <3>7, ScanLoop!InsertRankedEntries
    <3> QED BY <2>3, <3>1, <3>2, <3>3, <3>6, <3>8
  <2>5. CASE ~ Covers(regions[bucket[n]], signature)
    <3>1. ScanRound(regions, signature, kept, bucket[n]) = kept
      BY <2>5 DEF ScanRound
    <3> QED BY <1>7, <2>2, <2>3, <2>5, <3>1
  <2> QED BY <2>4, <2>5
<1> HIDE DEF V
<1>9. ScanLoop!Folded(regions, signature, << >>, bucket) \in V[Len(bucket)]
  BY <1>5, <1>8, ScanLoop!FoldKeeps
<1>10. Len(bucket) \in 0 .. Len(bucket)
  BY <1>1
<1> QED BY <1>9, <1>10 DEF V, Some

(* The regions whose entries precede the one of region i.                  *)
Ahead(regions, signature, i) ==
  {j \in DOMAIN regions :
     /\ Covers(regions[j], signature)
     /\ EntryPrecedes(RouteEntry(regions, j, signature), RouteEntry(regions, i, signature))}

KeepsRetained(regions, signature, kept) ==
  /\ \A k, l \in 1 .. Len(kept) : k # l => kept[k].record_index # kept[l].record_index
  /\ \A i : i \in Retained(regions, signature)
              <=> \E k \in 1 .. Len(kept) : kept[k].record_index = i

(* A region is among the first in that order exactly when fewer regions    *)
(* precede it than there is room for: what Retained says by counting.      *)
LEMMA TopKIsRetained ==
  ASSUME NEW regions \in Seq(RegionRecord), Numbered(regions), NEW signature \in Code,
         NEW kept \in Seq(Entries(regions, signature)),
         ScanLoop!IsTopK(kept, CoveringEntries(regions, signature))
  PROVE  KeepsRetained(regions, signature, kept)
<1> DEFINE U == Entries(regions, signature)
           all == CoveringEntries(regions, signature)
           entry(i) == RouteEntry(regions, i, signature)
           covers(i) == Covers(regions[i], signature)
           before(x, y) == EntryPrecedes(x, y)
           n == Len(kept)
           index(k) == kept[k].record_index
           ahead(i) == {j \in DOMAIN regions : covers(j) /\ before(entry(j), entry(i))}
<1>1. /\ \A x \in U : ~ before(x, x)
      /\ \A x, y, z \in U : before(x, y) /\ before(y, z) => before(x, z)
  BY EntriesAreOrdered DEF ScanLoop!StrictTotalOrder
<1>2. \A i \in DOMAIN regions : entry(i) \in U /\ entry(i).record_index = i
  BY EntryIs
<1>3. \A x : x \in all <=> \E i \in DOMAIN regions : covers(i) /\ x = entry(i)
  BY DEF CoveringEntries
<1>4. n \in Nat /\ \A k \in 1 .. n : kept[k] \in U
  BY SMTT(30)
<1>5. /\ n <= MaxActive
      /\ \A k, l \in 1 .. n : k < l => before(kept[k], kept[l])
      /\ \A k \in 1 .. n : kept[k] \in all
      /\ \A x \in all : \/ \E k \in 1 .. n : x = kept[k]
                        \/ n = MaxActive /\ \A k \in 1 .. n : before(kept[k], x)
  <2>1. DOMAIN kept = 1 .. n
    OBVIOUS
  <2> QED BY <2>1, Zenon DEF ScanLoop!IsTopK, ScanLoop!Ascending, ScanLoop!Elements
<1>6. ASSUME NEW i PROVE i \in Retained(regions, signature)
        <=> i \in DOMAIN regions /\ covers(i) /\ Cardinality(ahead(i)) < MaxActive
  BY DEF Retained
<1> HIDE DEF U, all, entry, covers, before, n
<1>7. \A k \in 1 .. n : index(k) \in DOMAIN regions /\ covers(index(k)) /\ kept[k] = entry(index(k))
  <2> SUFFICES ASSUME NEW k \in 1 .. n
               PROVE  index(k) \in DOMAIN regions /\ covers(index(k)) /\ kept[k] = entry(index(k))
    OBVIOUS
  <2>1. PICK i \in DOMAIN regions : covers(i) /\ kept[k] = entry(i)
    BY <1>3, <1>5
  <2>2. index(k) = i
    BY <1>2, <2>1
  <2> QED BY <2>1, <2>2
<1>8. ASSUME NEW k \in 1 .. n, NEW l \in 1 .. n, k # l PROVE index(k) # index(l)
  <2>1. k < l \/ l < k
    BY <1>4, <1>8
  <2>2. before(kept[k], kept[l]) \/ before(kept[l], kept[k])
    BY <1>5, <2>1
  <2>3. kept[k] # kept[l]
    BY <1>1, <1>4, <2>2
  <2> QED BY <1>7, <2>3
<1>9. \A i \in DOMAIN regions : IsFiniteSet(ahead(i)) /\ Cardinality(ahead(i)) \in Nat
  <2> SUFFICES ASSUME NEW i \in DOMAIN regions PROVE IsFiniteSet(ahead(i)) /\ Cardinality(ahead(i)) \in Nat
    OBVIOUS
  <2>1. IsFiniteSet(DOMAIN regions)
    <3> DEFINE N == Len(regions)
    <3>1. N \in Nat /\ DOMAIN regions = 1 .. N
      OBVIOUS
    <3> HIDE DEF N
    <3> QED BY <3>1, FS_Interval
  <2>2. ahead(i) \in SUBSET DOMAIN regions
    OBVIOUS
  <2> HIDE DEF ahead
  <2> QED BY <2>1, <2>2, FS_Subset, FS_CardinalityType
<1>10. ASSUME NEW k \in 1 .. n PROVE index(k) \in Retained(regions, signature)
  <2> DEFINE i == index(k)
             earlier == 1 .. k - 1
             first == {index(l) : l \in earlier}
  <2>1. i \in DOMAIN regions /\ covers(i) /\ kept[k] = entry(i)
    BY <1>7
  <2>2. ASSUME NEW j \in ahead(i) PROVE j \in first
    <3>1. j \in DOMAIN regions /\ covers(j) /\ before(entry(j), kept[k])
      BY <2>1
    <3>2. entry(j) \in all /\ entry(j) \in U
      BY <1>2, <1>3, <3>1
    <3>3. ~ before(kept[k], entry(j))
      BY <1>1, <1>4, <3>1, <3>2
    <3>4. PICK l \in 1 .. n : entry(j) = kept[l]
      BY <1>5, <3>2, <3>3
    <3>5. l # k /\ ~ k < l
      BY <1>1, <1>4, <1>5, <3>1, <3>3, <3>4
    <3>6. l \in earlier
      BY <1>4, <3>5
    <3>7. index(l) = j
      BY <1>2, <3>1, <3>4
    <3> QED BY <3>6, <3>7
  <2>3. k - 1 \in Nat /\ k \in Nat
    BY <1>4
  <2>4. IsFiniteSet(earlier) /\ Cardinality(earlier) = k - 1
    <3>1. 1 \in Int /\ k - 1 \in Int /\ (IF 1 > k - 1 THEN 0 ELSE (k - 1) - 1 + 1) = k - 1
      BY <2>3
    <3> QED BY <3>1, FS_Interval
  <2> HIDE DEF earlier, index
  <2>5. IsFiniteSet(first) /\ Cardinality(first) <= Cardinality(earlier)
    <3> DEFINE f == [l \in earlier |-> index(l)]
    <3>1. f \in [earlier -> first] /\ \A x \in first : \E l \in earlier : f[l] = x
      OBVIOUS
    <3>2. f \in Surjection(earlier, first)
      BY <3>1 DEF Surjection
    <3> HIDE DEF f, first
    <3> QED BY <2>4, <3>2, FS_Surjection
  <2> HIDE DEF first, i, ahead
  <2>6. Cardinality(ahead(i)) <= Cardinality(first)
    <3>1. ahead(i) \in SUBSET first
      BY <2>2
    <3> QED BY <2>5, <3>1, FS_Subset
  <2>7. Cardinality(first) \in Nat /\ Cardinality(ahead(i)) \in Nat
    BY <1>9, <2>1, <2>5, FS_CardinalityType
  <2>8. Cardinality(ahead(i)) < MaxActive
    <3> DEFINE c == Cardinality(ahead(i))
               d == Cardinality(first)
    <3>1. c <= d /\ d <= k - 1 /\ c \in Nat /\ d \in Nat
      BY <2>4, <2>5, <2>6, <2>7
    <3> HIDE DEF c, d
    <3>2. c < MaxActive
      BY <1>4, <1>5, <2>3, <3>1
    <3> QED BY <3>2 DEF c
  <2> QED BY <1>6, <2>1, <2>8 DEF i
<1>11. ASSUME NEW i \in Retained(regions, signature)
       PROVE  \E k \in 1 .. n : index(k) = i
  <2>1. i \in DOMAIN regions /\ covers(i) /\ Cardinality(ahead(i)) < MaxActive
    BY <1>6
  <2>2. entry(i) \in all
    BY <1>3, <2>1
  <2>3. ASSUME n = MaxActive, \A k \in 1 .. n : before(kept[k], entry(i))
        PROVE  FALSE
    <3> DEFINE f == [k \in 1 .. n |-> index(k)]
               T == ahead(i)
    <3>1. \A k \in 1 .. n : index(k) \in T
      BY <1>7, <2>3
    <3> HIDE DEF T, index
    <3>2. f \in [1 .. n -> T]
      BY <3>1
    <3>3. f \in Injection(1 .. n, T)
      BY <1>8, <3>2 DEF Injection, IsInjective
    <3> HIDE DEF f
    <3>4. IsFiniteSet(T)
      BY <1>9, <2>1 DEF T
    <3>5. Cardinality(1 .. n) <= Cardinality(T)
      BY <3>3, <3>4, FS_Injection
    <3>6. Cardinality(1 .. n) = n
      <4>1. 1 \in Int /\ n \in Int /\ (IF 1 > n THEN 0 ELSE n - 1 + 1) = n
        BY <1>4
      <4> QED BY <4>1, FS_Interval
    <3> DEFINE c == Cardinality(T)
    <3>7. n <= c /\ c < MaxActive /\ c \in Nat
      BY <1>9, <2>1, <3>5, <3>6 DEF T
    <3> HIDE DEF c
    <3> QED BY <1>4, <2>3, <3>7
  <2>4. PICK k \in 1 .. n : entry(i) = kept[k]
    BY <1>5, <2>2, <2>3
  <2> QED BY <1>2, <2>1, <2>4
<1> QED BY <1>8, <1>10, <1>11 DEF KeepsRetained, n

(* So the scan of the bucket of a compiled artifact keeps exactly the      *)
(* retained regions, each once.                                            *)
LEMMA ScanKeepsRetained ==
  ASSUME NEW regions \in Seq(RegionRecord), Numbered(regions),
         \A i \in DOMAIN regions : regions[i].mask = Bits,
         NEW signature \in Code
  PROVE  KeepsRetained(regions, signature,
           ScanLoop!Folded(regions, signature, << >>,
                           BuildRegionIndex(regions)[signature \cap LowBits]))
<1> DEFINE L == BuildRegionIndex(regions)[signature \cap LowBits]
           kept == ScanLoop!Folded(regions, signature, << >>, L)
<1>1. signature \cap LowBits \in Buckets
  BY DEF Buckets
<1>2. Lists(L, regions, signature \cap LowBits, Len(regions))
  BY <1>1, IndexIs
<1>3. DOMAIN regions = 1 .. Len(regions)
  OBVIOUS
<1> HIDE DEF L
<1>4. L \in Seq(DOMAIN regions) /\ Len(L) \in Nat
  <2>1. L \in Seq(1 .. Len(regions))
    BY <1>2 DEF Lists
  <2> QED BY <1>3, <2>1
<1>5. \A k \in 1 .. Len(L) : L[k] \in DOMAIN regions /\ L[k] \in Nat
  <2>1. L \in Seq(1 .. Len(regions))
    BY <1>2 DEF Lists
  <2> QED BY <1>3, <2>1
<1>6. Once(L)
  <2> SUFFICES ASSUME NEW k \in 1 .. Len(L), NEW l \in 1 .. Len(L), k # l PROVE L[k] # L[l]
    BY DEF Once
  <2>1. k < l \/ l < k
    BY <1>4
  <2>2. L[k] < L[l] \/ L[l] < L[k]
    BY <1>2, <2>1 DEF Lists
  <2> QED BY <1>5, <2>2
<1>7. ASSUME NEW i \in DOMAIN regions, Covers(regions[i], signature)
      PROVE  \E k \in 1 .. Len(L) : L[k] = i
  <2>1. NearBucket(regions[i], signature \cap LowBits)
    BY <1>7, CoveringIsNear
  <2> QED BY <1>2, <1>3, <2>1 DEF Lists
<1>8. CoveringFirst(regions, signature, L, Len(L)) = CoveringEntries(regions, signature)
  <2> DEFINE entry(i) == RouteEntry(regions, i, signature)
             covers(i) == Covers(regions[i], signature)
  <2>1. CoveringFirst(regions, signature, L, Len(L))
          = {entry(L[k]) : k \in {l \in 1 .. Len(L) : covers(L[l])}}
    BY DEF CoveringFirst
  <2>2. CoveringEntries(regions, signature) = {entry(i) : i \in {j \in DOMAIN regions : covers(j)}}
    BY DEF CoveringEntries
  <2> HIDE DEF entry, covers
  <2>3. \A i \in {j \in DOMAIN regions : covers(j)} : \E k \in {l \in 1 .. Len(L) : covers(L[l])} : L[k] = i
    BY <1>7 DEF covers
  <2>4. \A k \in {l \in 1 .. Len(L) : covers(L[l])} : L[k] \in {j \in DOMAIN regions : covers(j)}
    BY <1>5
  <2> QED BY <2>1, <2>2, <2>3, <2>4
<1>9. ScanLoop!IsTopK(kept, CoveringFirst(regions, signature, L, Len(L)))
  BY <1>4, <1>6, ScanKeepsTopK
<1>10. kept \in Seq(Entries(regions, signature))
  BY <1>4, ScanType
<1> HIDE DEF kept
<1>11. KeepsRetained(regions, signature, kept)
  BY <1>8, <1>9, <1>10, TopKIsRetained
<1> QED BY <1>11 DEF kept, L

-----------------------------------------------------------------------------
(* What GraphAnswerIsTheEvidence says of one prediction.                   *)
IsTheEvidence(regions, signature, entries) ==
  /\ {entries[k].token : k \in DOMAIN entries} = EvidenceTokens(regions, signature)
  /\ \A k \in DOMAIN entries :
       entries[k].score = Evidence(regions, signature, entries[k].token)
  /\ \A k, l \in DOMAIN entries : k < l => TokenPrecedes(entries[k], entries[l])

(* The emissions of the retained regions carry all the evidence there is.  *)
LEMMA EvidenceOfEmissions ==
  ASSUME NEW regions \in Seq(RegionRecord), NEW signature \in Code, NEW token
  PROVE  Evidence(regions, signature, token)
           = EvidenceIn(regions, signature, token,
                        {x \in Emitted(regions) : x[1] \in Retained(regions, signature)})
<1> DEFINE T == Parts(regions, signature)
           Q == {x \in T : x[2] <= Len(regions[x[1]].emissions)}
<1>1. T \in SUBSET AllParts(regions) /\ IsFiniteSet(T)
      /\ Q = {x \in Emitted(regions) : x[1] \in Retained(regions, signature)}
  BY PartsFinite DEF PartsAre
<1>2. Evidence(regions, signature, token) = EvidenceIn(regions, signature, token, T)
  BY DEF Evidence, EvidenceIn, Adding
<1>3. \A x \in T \ Q : Worth(regions, signature, token, x) = 0
  BY DEF Worth, Adding
<1>4. Q \in SUBSET T
  OBVIOUS
<1> HIDE DEF T, Q
<1>5. EvidenceIn(regions, signature, token, T) = EvidenceIn(regions, signature, token, Q)
  BY <1>1, <1>3, <1>4, IdleParts
<1> QED BY <1>1, <1>2, <1>5

(* And they name all the tokens.                                           *)
LEMMA TokensOfEmissions ==
  ASSUME NEW regions \in Seq(RegionRecord), NEW signature, NEW token
  PROVE  token \in EvidenceTokens(regions, signature)
           <=> \E x \in {y \in Emitted(regions) : y[1] \in Retained(regions, signature)} :
                 TokenOf(regions, x) = token
<1>1. Retained(regions, signature) \in SUBSET DOMAIN regions
  BY DEF Retained
<1>2. \A i \in DOMAIN regions : DOMAIN regions[i].emissions = 1 .. Len(regions[i].emissions)
  <2> SUFFICES ASSUME NEW i \in DOMAIN regions
               PROVE  DOMAIN regions[i].emissions = 1 .. Len(regions[i].emissions)
    OBVIOUS
  <2>1. regions[i] \in RegionRecord
    OBVIOUS
  <2>2. regions[i].emissions \in Seq(TokenScore)
    BY <2>1 DEF RegionRecord, Emissions
  <2> QED BY <2>2
<1>3. token \in EvidenceTokens(regions, signature)
        <=> \E i \in Retained(regions, signature) : \E k \in DOMAIN regions[i].emissions :
              regions[i].emissions[k].token = token
  BY DEF EvidenceTokens
<1>4. ASSUME NEW i \in Retained(regions, signature), NEW k \in DOMAIN regions[i].emissions,
             regions[i].emissions[k].token = token
      PROVE  \E x \in {y \in Emitted(regions) : y[1] \in Retained(regions, signature)} :
               TokenOf(regions, x) = token
  <2>1. k \in 1 .. Len(regions[i].emissions) /\ i \in DOMAIN regions
    BY <1>1, <1>2
  <2>2. k \in Nat \ {0}
    BY <2>1
  <2>3. <<i, k>> \in Emitted(regions)
    BY <2>1, <2>2 DEF Emitted, AllParts
  <2>4. TokenOf(regions, <<i, k>>) = token
    BY <1>4 DEF TokenOf
  <2> QED BY <2>3, <2>4
<1>5. ASSUME NEW x \in Emitted(regions), x[1] \in Retained(regions, signature),
             TokenOf(regions, x) = token
      PROVE  \E i \in Retained(regions, signature) : \E k \in DOMAIN regions[i].emissions :
               regions[i].emissions[k].token = token
  <2>1. x[2] \in DOMAIN regions[x[1]].emissions
    BY <1>1, <1>2, <1>5 DEF Emitted
  <2> QED BY <1>5, <2>1 DEF TokenOf
<1> QED BY <1>3, <1>4, <1>5

(* A graph prediction of a compiled artifact that let no entry go is the   *)
(* evidence, as long as no sum of it saturates.                            *)
LEMMA GraphIsTheEvidence ==
  ASSUME NEW regions \in Seq(RegionRecord), Numbered(regions),
         \A i \in DOMAIN regions : regions[i].mask = Bits,
         NEW signature \in Code,
         SumsFit(regions, signature, Parts(regions, signature)),
         NEW bucket, bucket = BuildRegionIndex(regions)[signature \cap LowBits],
         bucket \in Seq(DOMAIN regions)
  PROVE  LET p == GraphOf(regions, signature, bucket).prediction
         IN  p.truncated = 0 => IsTheEvidence(regions, signature, p.entries)
<1> DEFINE kept == ScanLoop!Folded(regions, signature, << >>, bucket)
           p == ActiveLoop!Folded(regions, 0, EmptyPrediction, kept)
           T == Parts(regions, signature)
           R == Retained(regions, signature)
           Q == {x \in Emitted(regions) : x[1] \in R}
           first == OfFirst(regions, kept, Len(kept))
<1>1. GraphOf(regions, signature, bucket).prediction = p
  BY DEF GraphOf
<1>2. kept \in Seq(Entries(regions, signature))
  BY ScanType
<1>3. KeepsRetained(regions, signature, kept)
  BY ScanKeepsRetained
<1> HIDE DEF kept
<1>4. p \in Predictions
  BY <1>2, GraphType
<1> HIDE DEF p
<1>5. first = Q
  <2>1. \A i : i \in R <=> \E k \in 1 .. Len(kept) : i = kept[k].record_index
    BY <1>3 DEF KeepsRetained
  <2> HIDE DEF R
  <2> QED BY <2>1 DEF OfFirst
<1>6. IsFiniteSet(Q) /\ Q \in SUBSET T
  <2>1. IsFiniteSet(T) /\ Q = {x \in T : x[2] <= Len(regions[x[1]].emissions)}
    BY PartsFinite DEF PartsAre
  <2>2. Q \in SUBSET T
    BY <2>1
  <2> HIDE DEF Q, T
  <2> QED BY <2>1, <2>2, FS_Subset
<1>7. SumsFit(regions, signature, Q)
  <2>1. SumsFit(regions, signature, T)
    OBVIOUS
  <2>2. \A some \in SUBSET Q : some \in SUBSET T
    BY <1>6
  <2> HIDE DEF Q, T
  <2> QED BY <2>1, <2>2 DEF SumsFit
<1> HIDE DEF Q, T, first
<1>8. Holds(regions, signature, p, Q)
  <2>1. \A k, l \in 1 .. Len(kept) : k # l => kept[k].record_index # kept[l].record_index
    BY <1>3 DEF KeepsRetained
  <2>2. IsFiniteSet(first) /\ SumsFit(regions, signature, first)
    BY <1>5, <1>6, <1>7
  <2>3. Holds(regions, signature, ActiveLoop!Folded(regions, 0, EmptyPrediction, kept),
              OfFirst(regions, kept, Len(kept)))
    BY <1>2, <2>1, <2>2, ScratchHolds DEF first
  <2> QED BY <1>5, <2>3 DEF p, first
<1>9. ASSUME p.truncated = 0 PROVE IsTheEvidence(regions, signature, p.entries)
  <2> DEFINE entries == p.entries
             n == Len(entries)
  <2>1. entries \in Seq(TokenScore)
    BY <1>4 DEF Predictions
  <2>2. DOMAIN entries = 1 .. n
    BY <2>1
  <2>3. Shows(regions, signature, entries, Q)
    BY <1>8, <1>9 DEF Holds
  <2> HIDE DEF entries, n
  <2>4. \A k \in DOMAIN entries : entries[k].score = Evidence(regions, signature, entries[k].token)
    <3> SUFFICES ASSUME NEW k \in DOMAIN entries
                 PROVE  entries[k].score = Evidence(regions, signature, entries[k].token)
      OBVIOUS
    <3>1. HoldsToken(regions, signature, entries[k], Q)
      BY <2>2, <2>3 DEF Shows, n
    <3>2. entries[k].score = EvidenceIn(regions, signature, entries[k].token, Q)
      BY <3>1 DEF HoldsToken
    <3> QED BY <3>2, EvidenceOfEmissions DEF Q
  <2>5. ASSUME NEW token
        PROVE  token \in {entries[k].token : k \in DOMAIN entries}
                 <=> token \in EvidenceTokens(regions, signature)
    <3>1. token \in EvidenceTokens(regions, signature)
            <=> \E x \in Q : TokenOf(regions, x) = token
      BY TokensOfEmissions DEF Q
    <3>2. \A k \in DOMAIN entries : \E x \in Q : TokenOf(regions, x) = entries[k].token
      BY <2>2, <2>3 DEF Shows, HoldsToken, n
    <3>3. \A x \in Q : \E k \in DOMAIN entries : entries[k].token = TokenOf(regions, x)
      BY <2>2, <2>3 DEF Shows, n
    <3> QED BY <3>1, <3>2, <3>3
  <2>6. \A k, l \in DOMAIN entries : k < l => TokenPrecedes(entries[k], entries[l])
    BY <2>2, <2>3 DEF Shows, Sorted, n
  <2> QED BY <2>4, <2>5, <2>6 DEF IsTheEvidence, entries
<1> QED BY <1>1, <1>9

(* Whatever stands in the reused buffers once the graph has answered is    *)
(* the graph prediction of the question, also when it was the empty one.   *)
GraphServed ==
  phase = "idle" /\ source = "Graph" =>
    /\ artifact \in Artifacts
    /\ Asked
    /\ prediction = PredictedGraph(artifact, context).prediction

LEMMA GraphServedInit == Init => GraphServed
BY DEF Init, GraphServed

LEMMA FinishServes ==
  ASSUME IInv, FinishGraph
  PROVE  GraphServed'
<1> DEFINE regions == artifact.regions
           signature == SignatureOf(context)
<1>1. /\ Types /\ Scanned /\ Accumulated /\ phase = "accumulate" /\ active = Len(scratch)
  BY DEF IInv, FinishGraph
<1>2. /\ Asked /\ artifact \in Artifacts /\ position = Len(Bucket)
      /\ Bucket \in Seq(DOMAIN regions)
      /\ scratch \in Seq(Entries(regions, signature))
      /\ scratch = ScanLoop!Folded(regions, signature, << >>, Bucket)
  BY <1>1, RunningFacts, ScratchFacts DEF Asked, Accumulated, Types
<1>3. prediction = ActiveLoop!Folded(regions, 0, EmptyPrediction, scratch)
  <2>1. prediction = AfterActive(regions, scratch, Len(scratch))
    BY <1>1 DEF Accumulated
  <2> QED BY <1>2, <2>1, ActiveRounds
<1>4. PredictedGraph(artifact, context).prediction = prediction
  BY <1>2, <1>3, GraphLoops DEF GraphOf, Bucket
<1>5. (PredictedGraph(artifact, context).prediction)' = PredictedGraph(artifact, context).prediction
  BY DEF FinishGraph
<1> QED BY <1>2, <1>4, <1>5 DEF GraphServed, FinishGraph, Asked

LEMMA GraphServedKept == IInv /\ GraphServed /\ [Next]_vars => GraphServed'
<1> SUFFICES ASSUME IInv, GraphServed, [Next]_vars PROVE GraphServed'
  OBVIOUS
<1>1. ASSUME NEW c \in Questions, RefuseContext(c) PROVE GraphServed'
  BY <1>1 DEF RefuseContext, GraphServed, Asked
<1>2. ASSUME NEW c \in Questions, NEW p \in {"PreferExact", "GraphOnly"}, BeginPredict(c, p)
      PROVE  GraphServed'
  BY <1>2 DEF BeginPredict, GraphServed
<1>3. CASE ServeExact
  BY <1>3 DEF ServeExact, GraphServed
<1>4. CASE BackOff \/ BeginScan \/ ScanRegion \/ BeginAccumulate \/ AccumulateEmission \/ NextActive
  BY <1>4 DEF BackOff, BeginScan, ScanRegion, BeginAccumulate, AccumulateEmission, NextActive,
              GraphServed
<1>5. CASE FinishGraph
  BY <1>5, FinishServes
<1>6. CASE UNCHANGED vars
  BY <1>6 DEF vars, GraphServed, Asked
<1> QED BY <1>1, <1>2, <1>3, <1>4, <1>5, <1>6 DEF Next, PredictStep

(* compile numbers the regions of an artifact (compiler.rs:631).           *)
NumberedRegions == \A a \in Artifacts : Numbered(a.regions)

(* No evidence of a question, nor any part of it, leaves the range of a    *)
(* score: where it does, the code saturates and the order of accumulation  *)
(* may show.                                                               *)
NothingSaturates ==
  \A a \in Artifacts, q \in Questions :
    Len(q) <= MaxContext =>
      SumsFit(a.regions, SignatureOf(q), Parts(a.regions, SignatureOf(q)))

(* The answer of the graph, when the prediction let no entry go, holds     *)
(* every token a retained region emits and no other, each with the sum of  *)
(* its evidence, in order: neither the index, which shows one bucket, nor  *)
(* the bounded scratch, nor the order in which the emissions of many       *)
(* regions move entries up and down the prediction changes it              *)
(* (artifact.rs:698-782).                                                  *)
THEOREM GraphAnswersAreTheEvidence ==
  ASSUME CompiledArtifacts, NumberedRegions, NothingSaturates
  PROVE  Spec => []GraphAnswerIsTheEvidence
<1>1. GraphServed => GraphAnswerIsTheEvidence
  <2> DEFINE regions == artifact.regions
             signature == SignatureOf(context)
  <2>1. SUFFICES ASSUME GraphServed, phase = "idle", source = "Graph", prediction.truncated = 0
                 PROVE  IsTheEvidence(regions, signature, prediction.entries)
    BY DEF GraphAnswerIsTheEvidence, IsTheEvidence
  <2>2. /\ artifact \in Artifacts /\ context \in Questions /\ Len(context) <= MaxContext
        /\ prediction = PredictedGraph(artifact, context).prediction
    BY <2>1 DEF GraphServed, Asked
  <2> DEFINE bucket == artifact.index[BucketOf(context)]
  <2>3. signature \in Code /\ BucketOf(context) \in Buckets
    BY <2>2, QuestionFacts
  <2>4. regions \in Seq(RegionRecord) /\ bucket \in Seq(DOMAIN regions)
    BY <2>2, <2>3, ArtifactFacts
  <2>5. /\ bucket = BuildRegionIndex(regions)[signature \cap LowBits]
        /\ \A i \in DOMAIN regions : regions[i].mask = Bits
    BY <2>2 DEF CompiledArtifacts, BucketOf
  <2>6. Numbered(regions)
    BY <2>2 DEF NumberedRegions
  <2>7. SumsFit(regions, signature, Parts(regions, signature))
    BY <2>2 DEF NothingSaturates
  <2>8. prediction = GraphOf(regions, signature, bucket).prediction
    BY <2>2, GraphLoops
  <2> HIDE DEF regions, signature, bucket
  <2> QED BY <2>1, <2>3, <2>4, <2>5, <2>6, <2>7, <2>8, GraphIsTheEvidence
<1> QED BY <1>1, BuffersStartEmpty, GraphServedInit, GraphServedKept, NextIInv, InitIInv, PTL DEF Spec
=============================================================================
