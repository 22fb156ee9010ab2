--------------------------- MODULE ArtifactPredict --------------------------
(***************************************************************************)
(* ArtifactView::predict (artifact.rs) as its caller's storage sees it:    *)
(* suffix backoff over the exact records, then the scan of one index       *)
(* bucket into reused scratch, then the accumulation of the active regions *)
(* into the reused prediction.  One step is one iteration of a loop; the   *)
(* lookup of one suffix is one step, as ExactLookup shows it may be.       *)
(***************************************************************************)
EXTENDS Artifact

CONSTANTS
  Artifacts,  (* the validated artifacts a caller may hold                 *)
  Questions   (* the contexts a caller may ask about, overlong ones too    *)

(* What parse establishes of a view: records of the format, and an index   *)
(* whose entries are regions (validate_records, validate_index).           *)
ASSUME ArtifactsAssumption ==
  \A a \in Artifacts :
    /\ a.exact \in Seq(ExactRecord)
    /\ a.regions \in Seq(RegionRecord)
    /\ a.index \in [Buckets -> Seq(DOMAIN a.regions)]
ASSUME QuestionsAssumption == \A q \in Questions : q \in Seq(Tokens)
ASSUME ContextsAssumption ==
  \A q \in Questions : Len(q) <= MaxContext =>
    \A d \in 0 .. Len(q) : SuffixOf(q, d) \in Contexts

VARIABLES
  artifact,    (* the artifact the view borrows                            *)
  phase,       (* "idle", "backoff", "scan" or "accumulate"                *)
  context,     (* the context asked about                                  *)
  policy,      (* ExactPolicy                                              *)
  depth,       (* suffix length the backoff looks up next                  *)
  position,    (* bucket entries the scan has finished                     *)
  matched,     (* regions that covered the signature                       *)
  scratch,     (* the initialized entries of ArtifactPredictScratch        *)
  active,      (* scratch entries accumulated                              *)
  emitted,     (* emissions of the next active region accumulated          *)
  prediction,  (* the Prediction: entries and truncated                    *)
  source,      (* the Prediction's source                                  *)
  answer       (* the last result: a summary, or the error                 *)

vars == <<artifact, phase, context, policy, depth, position, matched, scratch,
          active, emitted, prediction, source, answer>>

(* The error, in the place of the summary the call does not return.        *)
ContextTooLong == Summary("ContextTooLong", 0, 0, 0, 0)

Bucket == artifact.index[BucketOf(context)]

Init ==
  /\ artifact \in Artifacts
  /\ phase = "idle"
  /\ context = << >>
  /\ policy = "PreferExact"
  /\ depth = 0
  /\ position = 0
  /\ matched = 0
  /\ scratch = << >>
  /\ active = 0
  /\ emitted = 0
  /\ prediction = EmptyPrediction
  /\ source = "Novel"
  /\ answer = Summary("Novel", 0, 0, 0, 0)

(* The length test comes before the buffers are cleared: an overlong       *)
(* question leaves the previous prediction in place.                       *)
RefuseContext(c) ==
  /\ phase = "idle"
  /\ Len(c) > MaxContext
  /\ answer' = ContextTooLong
  /\ UNCHANGED <<artifact, phase, context, policy, depth, position, matched,
                 scratch, active, emitted, prediction, source>>

(* Mutants: the policy is ignored, or the reused scratch is not cleared.   *)
BeginPredictIgnoresPolicy(c, p) ==
  /\ phase = "idle"
  /\ Len(c) <= MaxContext
  /\ context' = c
  /\ policy' = p
  /\ prediction' = EmptyPrediction
  /\ source' = "Novel"
  /\ scratch' = << >>
  /\ depth' = Len(c)
  /\ phase' = "backoff"
  /\ position' = 0
  /\ matched' = 0
  /\ active' = 0
  /\ emitted' = 0
  /\ UNCHANGED <<artifact, answer>>

BeginPredictKeepsScratch(c, p) ==
  /\ phase = "idle"
  /\ Len(c) <= MaxContext
  /\ context' = c
  /\ policy' = p
  /\ prediction' = EmptyPrediction
  /\ source' = "Novel"
  /\ depth' = IF p = "PreferExact" THEN Len(c) ELSE 0
  /\ phase' = "backoff"
  /\ position' = 0
  /\ matched' = 0
  /\ active' = 0
  /\ emitted' = 0
  /\ UNCHANGED <<artifact, scratch, answer>>

BeginPredict(c, p) ==
  /\ phase = "idle"
  /\ Len(c) <= MaxContext
  /\ context' = c
  /\ policy' = p
  /\ prediction' = EmptyPrediction
  /\ source' = "Novel"
  /\ scratch' = << >>
  /\ depth' = IF p = "PreferExact" THEN Len(c) ELSE 0
  /\ phase' = "backoff"
  /\ position' = 0
  /\ matched' = 0
  /\ active' = 0
  /\ emitted' = 0
  /\ UNCHANGED <<artifact, answer>>

(* The record of the current suffix, 0 for none.                           *)
SuffixRecord == FirstMatch(artifact.exact, SuffixOf(context, depth))

ServeExact ==
  /\ phase = "backoff"
  /\ depth > 0
  /\ SuffixRecord # 0
  /\ prediction' = CopyExact(artifact.exact[SuffixRecord])
  /\ source' = "Exact"
  /\ answer' = Summary("Exact", depth, 0, 0, 0)
  /\ phase' = "idle"
  /\ UNCHANGED <<artifact, context, policy, depth, position, matched, scratch,
                 active, emitted>>

BackOff ==
  /\ phase = "backoff"
  /\ depth > 0
  /\ SuffixRecord = 0
  /\ depth' = depth - 1
  /\ UNCHANGED <<artifact, phase, context, policy, position, matched, scratch,
                 active, emitted, prediction, source, answer>>

BeginScan ==
  /\ phase = "backoff"
  /\ depth = 0
  /\ phase' = "scan"
  /\ UNCHANGED <<artifact, context, policy, depth, position, matched, scratch,
                 active, emitted, prediction, source, answer>>

ScanRegion ==
  LET i == Bucket[position + 1]
      signature == SignatureOf(context)
  IN  /\ phase = "scan"
      /\ position < Len(Bucket)
      /\ position' = position + 1
      /\ IF Covers(artifact.regions[i], signature)
         THEN /\ matched' = matched + 1
              /\ scratch' = Scratch!InsertRanked(
                              scratch, RouteEntry(artifact.regions, i, signature))
         ELSE UNCHANGED <<matched, scratch>>
      /\ UNCHANGED <<artifact, phase, context, policy, depth, active,
                     emitted, prediction, source, answer>>

BeginAccumulate ==
  /\ phase = "scan"
  /\ position = Len(Bucket)
  /\ phase' = "accumulate"
  /\ UNCHANGED <<artifact, context, policy, depth, position, matched, scratch,
                 active, emitted, prediction, source, answer>>

(* The region whose emissions are being accumulated.                       *)
ActiveRegion == artifact.regions[scratch[active + 1].record_index]

AccumulateEmission ==
  /\ phase = "accumulate"
  /\ active < Len(scratch)
  /\ emitted < Len(ActiveRegion.emissions)
  /\ emitted' = emitted + 1
  /\ prediction' = Accumulate(prediction,
                     WithBonus(ActiveRegion.emissions[emitted + 1],
                               scratch[active + 1].margin))
  /\ UNCHANGED <<artifact, phase, context, policy, depth, position, matched,
                 scratch, active, source, answer>>

NextActive ==
  /\ phase = "accumulate"
  /\ active < Len(scratch)
  /\ emitted = Len(ActiveRegion.emissions)
  /\ active' = active + 1
  /\ emitted' = 0
  /\ UNCHANGED <<artifact, phase, context, policy, depth, position, matched,
                 scratch, prediction, source, answer>>

FinishGraph ==
  LET served == IF prediction.entries # << >> THEN "Graph" ELSE "Novel"
  IN  /\ phase = "accumulate"
      /\ active = Len(scratch)
      /\ source' = served
      /\ answer' = Summary(served, 0, matched, Len(scratch), Len(Bucket))
      /\ phase' = "idle"
      /\ UNCHANGED <<artifact, context, policy, depth, position, matched,
                     scratch, active, emitted, prediction>>

PredictStep ==
  \/ ServeExact \/ BackOff \/ BeginScan \/ ScanRegion
  \/ BeginAccumulate \/ AccumulateEmission \/ NextActive \/ FinishGraph

Next ==
  \/ \E c \in Questions : RefuseContext(c)
  \/ \E c \in Questions, p \in {"PreferExact", "GraphOnly"} : BeginPredict(c, p)
  \/ PredictStep

(* A prediction is one sequential call: once begun it runs to its return.  *)
Spec == Init /\ [][Next]_vars /\ WF_vars(PredictStep)

-----------------------------------------------------------------------------
(* The evidence for a token: what every retained region adds to it, by the *)
(* definition of the route and with no buffer in between.                  *)
Retained(regions, signature) ==
  {i \in DOMAIN regions :
     /\ Covers(regions[i], signature)
     /\ Cardinality({j \in DOMAIN regions :
          /\ Covers(regions[j], signature)
          /\ EntryPrecedes(RouteEntry(regions, j, signature),
                           RouteEntry(regions, i, signature))}) < MaxActive}

Parts(regions, signature) ==
  {<<i, k>> : i \in Retained(regions, signature),
              k \in 1 .. Max({0} \cup {Len(regions[j].emissions) : j \in DOMAIN regions})}

Evidence(regions, signature, token) ==
  FoldSet(LAMBDA part, sum :
            IF /\ part[2] <= Len(regions[part[1]].emissions)
               /\ regions[part[1]].emissions[part[2]].token = token
            THEN sum + regions[part[1]].emissions[part[2]].score
                     + (regions[part[1]].radius - MaskedHamming(signature, regions[part[1]]))
            ELSE sum,
          0, Parts(regions, signature))

EvidenceTokens(regions, signature) ==
  UNION {{regions[i].emissions[k].token : k \in DOMAIN regions[i].emissions} :
           i \in Retained(regions, signature)}

(* The whole answer of a graph prediction, when nothing was truncated: a   *)
(* token stands in it exactly when a retained region emits it, its score   *)
(* is the sum of the evidence whatever the order of accumulation, and the  *)
(* entries are ranked.  Retained regions are chosen here from ALL regions  *)
(* of the artifact, so the bucket the code scans must not lose one.        *)
GraphAnswerIsTheEvidence ==
  LET regions == artifact.regions
      signature == SignatureOf(context)
      entries == prediction.entries
  IN  (phase = "idle" /\ source = "Graph" /\ prediction.truncated = 0) =>
        /\ {entries[k].token : k \in DOMAIN entries} = EvidenceTokens(regions, signature)
        /\ \A k \in DOMAIN entries :
             entries[k].score = Evidence(regions, signature, entries[k].token)
        /\ \A k, l \in DOMAIN entries : k < l => TokenPrecedes(entries[k], entries[l])

(* What the retained regions say of a token, the best region first.        *)
Sayings(regions, signature, token) ==
  LET Entry(i) == RouteEntry(regions, i, signature)
      Rank(i) == Cardinality({j \in Retained(regions, signature) :
                                EntryPrecedes(Entry(j), Entry(i))}) + 1
      OfRank(r) == CHOOSE i \in Retained(regions, signature) : Rank(i) = r
      Said(i) == [k \in DOMAIN regions[i].emissions |->
                    WithBonus(regions[i].emissions[k], Entry(i).margin)]
  IN  SelectSeq(FlattenSeq([r \in 1 .. Cardinality(Retained(regions, signature)) |->
                              Said(OfRank(r))]),
                LAMBDA said : said.token = token)

(* Also where sums saturate and entries are let go, each score of a graph  *)
(* answer is the saturating sum of the latest things said of its token,    *)
(* from some saying to the last, and of all of them when nothing was let   *)
(* go: a token that comes in again starts from zero, neither with what it  *)
(* had collected nor with a score of the entry it replaces, and a score    *)
(* clamped on the way goes on from the clamp (accumulate,                  *)
(* artifact.rs:236-268).                                                   *)
ScoresSumTheLatest ==
  LET signature == SignatureOf(context)
      entries == prediction.entries
      Sum(said) == FoldLeft(LAMBDA sum, s : Saturate(sum + s.score), 0, said)
      Latest(token, n) ==
        LET said == Sayings(artifact.regions, signature, token)
        IN  SubSeq(said, Len(said) - n + 1, Len(said))
      All(token) == Len(Sayings(artifact.regions, signature, token))
  IN  phase = "idle" /\ source = "Graph" =>
        \A k \in DOMAIN entries :
          LET token == entries[k].token
          IN  \E n \in 1 .. All(token) :
                /\ entries[k].score = Sum(Latest(token, n))
                /\ prediction.truncated = 0 => n = All(token)

(* The compiler's index loses no region: every region whose radius covers  *)
(* the signature stands in the one bucket the prediction scans.            *)
IndexLosesNoRegion ==
  phase = "accumulate" =>
    matched = Cardinality({i \in DOMAIN artifact.regions :
                             Covers(artifact.regions[i], SignatureOf(context))})

(* The longest stored suffix serves, and the graph is asked only when no   *)
(* suffix is stored or the policy ignores them.                            *)
LongestSuffixServes ==
  phase = "idle" /\ answer # ContextTooLong /\ context # << >> =>
    IF policy = "PreferExact" /\ ExactDepths(artifact, context) # {}
    THEN source = "Exact" /\ answer.exact_context_len = Max(ExactDepths(artifact, context))
    ELSE source # "Exact" /\ answer.exact_context_len = 0

(* A returned prediction is a function of the artifact, the context and    *)
(* the policy alone: no earlier question shows in the reused scratch and   *)
(* prediction.  After a refusal the buffers still answer the question      *)
(* before it.                                                              *)
AnswersDependOnQuestionOnly ==
  phase = "idle" /\ context # << >> =>
    LET expected == Predicted(artifact, context, policy)
    IN  /\ prediction = expected.prediction
        /\ source = expected.summary.source
        /\ answer # ContextTooLong => answer = expected.summary
=============================================================================
