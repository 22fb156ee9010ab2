---------------------------- MODULE Compatibility ---------------------------
(***************************************************************************)
(* Evidence of a prediction in the terms of the target runtime             *)
(* (compatibility.rs): a witness and a ranked copy of the answer, taken    *)
(* from the caller's prediction and checked later, after other questions   *)
(* went through the same buffers.                                          *)
(*                                                                         *)
(* Identities are "own" or "other" to the artifact the caller holds.  Of   *)
(* a witness the depth is left out, which nothing reads, and of both       *)
(* records the widened flag, which the caller states each time.            *)
(***************************************************************************)
EXTENDS ArtifactPredict

CONSTANT TargetCapacity   (* CAPACITY of the CompatibilityPrediction       *)

ASSUME TargetCapacityAssumption == TargetCapacity \in Nat

VARIABLE evidence   (* what the caller keeps: a witness, a copy, and of    *)
                    (* which question, for the properties                  *)

NoEvidence == [question |-> << >>]

-----------------------------------------------------------------------------
(* R4Status::from_source.                                                  *)
Status(src) == IF src = "Exact" THEN "ExactContext" ELSE src

(* CompatibilityWitness::new; region 0 is none.                            *)
WitnessError(status, region) ==
  CASE status = "Graph" /\ region = 0 -> "MissingRegionWitness"
    [] status \in {"ExactContext", "Novel"} /\ region # 0 -> "UnexpectedRegionWitness"
    [] status = "Contradictory" -> "ContradictoryPrediction"
    [] OTHER -> "Ok"

(* Mutant: an empty prediction verifies.                                   *)
VerifiedEmpty(witness, manifest, p, src) ==
  IF witness.artifact_id # manifest.artifact_id THEN "WitnessIdentityMismatch"
  ELSE IF witness.status # Status(src) THEN "WitnessStatusMismatch"
  ELSE IF p.entries # << >> /\ Head(p.entries).token # witness.token
       THEN "WitnessTokenMismatch"
  ELSE "Ok"

(* verify against a manifest, a prediction and its source.                 *)
Verified(witness, manifest, p, src) ==
  IF witness.artifact_id # manifest.artifact_id THEN "WitnessIdentityMismatch"
  ELSE IF witness.status # Status(src) THEN "WitnessStatusMismatch"
  ELSE IF p.entries = << >> THEN "MissingPrediction"
  ELSE IF Head(p.entries).token # witness.token THEN "WitnessTokenMismatch"
  ELSE "Ok"

(* The pushes of every entry of a prediction; what is over the capacity is *)
(* refused.                                                                *)
Copied(p, src) ==
  [status  |-> Status(src),
   entries |-> SubSeq(p.entries, 1, IF Len(p.entries) < TargetCapacity
                                    THEN Len(p.entries) ELSE TargetCapacity)]

MatchesRuntime(copy, p, src) == copy.status = Status(src) /\ copy.entries = p.entries

(* The identities of a manifest, and of the artifact itself, from which    *)
(* from_artifact copies them.                                              *)
Manifest == [artifact_id : {"own", "other"}, source_id : {"own", "other"},
             tokenizer_id : {"own", "other"}]

FromArtifact == [artifact_id |-> "own", source_id |-> "own", tokenizer_id |-> "own"]

(* validate_artifact: the first identity that differs.                     *)
ManifestError(manifest) ==
  IF manifest.artifact_id # FromArtifact.artifact_id THEN "Artifact"
  ELSE IF manifest.source_id # FromArtifact.source_id THEN "Source"
  ELSE IF manifest.tokenizer_id # FromArtifact.tokenizer_id THEN "Tokenizer"
  ELSE "Ok"

-----------------------------------------------------------------------------
InitCompatibility == Init /\ evidence = NoEvidence

(* The caller takes evidence of the answer it holds; a graph answer's      *)
(* witness names the region that ranks first in the scratch.               *)
TakeEvidence ==
  LET region == IF source = "Graph" THEN scratch[1].region_id ELSE 0
      token == IF prediction.entries = << >> THEN 0 ELSE Head(prediction.entries).token
  IN  /\ phase = "idle" /\ context # << >>
      /\ evidence = NoEvidence
      /\ WitnessError(Status(source), region) = "Ok"
      /\ evidence' = [question |-> <<context, policy>>,
                      witness |-> [artifact_id |-> FromArtifact.artifact_id, status |-> Status(source),
                                   region_id |-> region, token |-> token],
                      copy |-> Copied(prediction, source),
                      full |-> Len(prediction.entries) > TargetCapacity]
      /\ UNCHANGED vars

CompatibilityNext == (Next /\ UNCHANGED evidence) \/ TakeEvidence

CompatibilitySpec ==
  InitCompatibility /\ [][CompatibilityNext]_<<vars, evidence>> /\ WF_vars(PredictStep)

-----------------------------------------------------------------------------
(* Evidence replays: whatever was asked in between, refused questions      *)
(* included, asking the same question again gives an answer the witness    *)
(* verifies against under every manifest that validates the artifact, and  *)
(* under one that names another artifact it never verifies; the copy       *)
(* matches unless it was cut.  Of a novel answer no witness ever verifies  *)
(* (verify, validate_artifact and matches_runtime of compatibility.rs).    *)
EvidenceReplays ==
  phase = "idle" /\ evidence # NoEvidence /\ evidence.question = <<context, policy>> =>
    /\ \A manifest \in Manifest :
         LET verdict == Verified(evidence.witness, manifest, prediction, source)
         IN  IF ManifestError(manifest) = "Artifact"
             THEN verdict = "WitnessIdentityMismatch"
             ELSE verdict = IF source = "Novel" THEN "MissingPrediction" ELSE "Ok"
    /\ MatchesRuntime(evidence.copy, prediction, source) <=> ~ evidence.full
=============================================================================
