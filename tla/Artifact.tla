------------------------------ MODULE Artifact ------------------------------
(***************************************************************************)
(* A validated artifact as ArtifactView reads it (artifact.rs), the region *)
(* index the compiler writes into it (compiler.rs), and what one call of   *)
(* predict returns as a function of the artifact, the context and the      *)
(* policy.                                                                 *)
(***************************************************************************)
EXTENDS ExactSection, Membership, Prediction

CONSTANTS
  LowBits,         (* the low byte of word 0, which selects the bucket      *)
  SignatureOf(_),  (* context_signature, opaque and deterministic          *)
  MaxContext       (* MAX_CONTEXT_TOKENS                                   *)

ASSUME LowBitsAssumption == LowBits \subseteq Bits
ASSUME SignatureOfAssumption == \A c \in Contexts : SignatureOf(c) \in Code
ASSUME MaxContextAssumption == MaxContext \in Nat

Emissions == Seq(TokenScore)

ExactRecord  == [hash : Nat, context : Contexts, emissions : Emissions]
RegionRecord ==
  [region_id : Nat, path_id : Nat, depth : Nat, radius : Nat,
   prototype : Code, mask : Code, emissions : Emissions]

Buckets == SUBSET LowBits

(* Mutant: the radius does not include its boundary.                       *)
NearBucketOpen(region, bucket) ==
  LET key == region.prototype \cap LowBits
  IN  Cardinality((bucket \ key) \cup (key \ bucket)) < region.radius

(* The low prototype byte of the region is within its radius of the bucket.*)
NearBucket(region, bucket) ==
  LET key == region.prototype \cap LowBits
  IN  Cardinality((bucket \ key) \cup (key \ bucket)) <= region.radius

(* build_region_index: one loop over the regions pushes each of them into  *)
(* the buckets it is near, so a bucket lists them in ascending order.      *)
BuildRegionIndex(regions) ==
  [bucket \in Buckets |->
     FoldLeftDomain(LAMBDA kept, i :
                      IF NearBucket(regions[i], bucket) THEN Append(kept, i) ELSE kept,
                    << >>, regions)]

(* The bucket of the low byte of the first signature word.                 *)
BucketOf(context) == SignatureOf(context) \cap LowBits

(* The scratch entry of a region that covers the signature, artifact.rs.   *)
RouteEntry(regions, i, signature) ==
  LET m == MembershipOf(regions[i], signature)
  IN  [record_index |-> i, region_id |-> m.region_id, path_id |-> m.path_id,
       depth |-> m.depth, margin |-> m.margin, distance |-> m.distance]

(* artifact_entry_precedes: unlike the route cloud, the distance decides   *)
(* before the region ID.                                                   *)
EntryPrecedes(left, right) ==
  \/ left.margin > right.margin
  \/ /\ left.margin = right.margin
     /\ \/ left.depth > right.depth
        \/ /\ left.depth = right.depth
           /\ \/ left.distance < right.distance
              \/ /\ left.distance = right.distance
                 /\ left.region_id < right.region_id

Scratch == INSTANCE RankedInsert WITH Capacity <- MaxActive, Before <- EntryPrecedes

(* One emission of an active region, raised by the margin of the region.   *)
WithBonus(emission, margin) ==
  [token |-> emission.token, score |-> Saturate(emission.score + margin)]

(* All emissions of one active region, accumulated in record order.        *)
AccumulateRegion(prediction, region, margin) ==
  FoldLeft(LAMBDA p, emission : Accumulate(p, WithBonus(emission, margin)),
           prediction, region.emissions)

(* All emissions of an exact record.                                       *)
CopyExact(record) == FoldLeft(InsertExact, EmptyPrediction, record.emissions)

(* The depth-long suffix predict looks up.                                 *)
SuffixOf(context, depth) == SubSeq(context, Len(context) - depth + 1, Len(context))

Summary(source, depth, matched, retained, scanned) ==
  [source |-> source, exact_context_len |-> depth, regions_matched |-> matched,
   regions_retained |-> retained, regions_scanned |-> scanned]

-----------------------------------------------------------------------------
(* What predict answers, without its loops.                                *)
ExactDepths(artifact, context) ==
  {d \in 1 .. Len(context) : FirstMatch(artifact.exact, SuffixOf(context, d)) # 0}

PredictedExact(artifact, context) ==
  LET depth  == Max(ExactDepths(artifact, context))
      record == artifact.exact[FirstMatch(artifact.exact, SuffixOf(context, depth))]
  IN  [prediction |-> CopyExact(record), summary |-> Summary("Exact", depth, 0, 0, 0)]

PredictedGraph(artifact, context) ==
  LET regions   == artifact.regions
      signature == SignatureOf(context)
      bucket    == artifact.index[BucketOf(context)]
      accepted  == {k \in DOMAIN bucket : Covers(regions[bucket[k]], signature)}
      scratch   == FoldLeft(
                     LAMBDA kept, i :
                       IF Covers(regions[i], signature)
                       THEN Scratch!InsertRanked(kept, RouteEntry(regions, i, signature))
                       ELSE kept,
                     << >>, bucket)
      prediction == FoldLeft(
                     LAMBDA p, e : AccumulateRegion(p, regions[e.record_index], e.margin),
                     EmptyPrediction, scratch)
  IN  [prediction |-> prediction,
       summary    |-> Summary(IF prediction.entries # << >> THEN "Graph" ELSE "Novel",
                              0, Cardinality(accepted), Len(scratch), Len(bucket))]

Predicted(artifact, context, policy) ==
  IF policy = "PreferExact" /\ ExactDepths(artifact, context) # {}
  THEN PredictedExact(artifact, context)
  ELSE PredictedGraph(artifact, context)
=============================================================================
