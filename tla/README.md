# Verification of uor-semantic

TLA+ models of this repository's semantic runtime, TLC configurations that check
them on small instances, and TLAPS proofs of the results that should hold for
every instance. `PROJECT.json` is the machine-readable index: components, runs,
mutants, the map from every definition to the source lines it models, findings,
hazards and theorems. Source paths below are relative to `src/crates/`.

## 1. The system

uor-semantic compiles observations of a teacher language model into a static
artifact and answers token predictions from it without heap allocation. The
library is sequential: there are no threads, locks or callbacks. What makes it
hard is fixed-capacity, caller-owned buffers that are reused between calls,
indices and ranges computed at one time and trusted at another, hand-written
bounded algorithms (ranked insertion, binary search, a bytecode interpreter,
parent climbs), saturating arithmetic, and results that must not depend on
arrival order. Concurrency exists only between processes that share files.

| Component | State | Operations | What makes it correct | Modelled |
|---|---|---|---|---|
| Reference router (`uor-semantic/src/router.rs`, `cloud.rs`, `region.rs`, `census.rs`) | the caller's `RouteCloud` and `OperationCensus`, reused | `CandidateSet::new`, `ReferenceRouter::route` | retains the top-ranked memberships in any arrival order, counts honestly, work within the declared budget | yes |
| Paths and addresses (`path.rs`, `address.rs`) | `SemanticPath`, `SemanticAddressBundle` | `push`, `prefix`, `insert` | ranked, no path twice, weaker duplicates refused | yes |
| Exact lookup (`artifact.rs` `find_exact`) | bounds of a binary search over the EXACT section | `find_exact` | finds a stored context through hash collisions, and only that | yes |
| Artifact prediction (`artifact.rs` `predict`) | `ArtifactPredictScratch`, `Prediction`, reused | `predict` | longest stored suffix, else the summed evidence of the retained regions; nothing of earlier questions | yes |
| Generation (`generation.rs`) | `GenerationState` window, output, counters | `seed`, `push`, `generate_greedy_into` | newest tokens in the window, greedy output, honest stop reason | yes |
| R4G1 graph (`r4g1.rs` `R4G1Graph::parse`, `route`) | borrowed sections; `R4G1RouteCandidates`, reused | `parse`, `route` | what validation accepts never leaves its bounds; the chosen shortlist is retained completely | semantic part |
| R4G1 prediction (`r4g1.rs` `predict_top_k`) | `R4G1Predictions`, reused | `predict_top_k` | root base plus the residuals of the refinement chain | yes |
| R4G1 framing (`r4g1.rs` `R4G1Identity`, `R4G1Structure`; `r4g1_export.rs` `emit_container`) | none | `parse`, layout | the reader accepts every layout of the writer | without magic, version and digests |
| Score accumulator (`scoring.rs`) | score and seen IDs | `accumulate` | each contribution once, honest capacity | yes |
| Compiler (`uor-semantic-compiler/src/compiler.rs`) | working tables, then one file | `compile_observations`, `write_artifact` | independent of corpus order, no training context novel, exact records findable, paths a tree, the file reads back | yes |
| Artifact container (`artifact.rs` `ArtifactView::parse`) | borrowed sections | `parse`, accessors | accepts what the compiler writes and reads each record's own emissions | without magic, version, identities and digest |
| R4G1 export (`r4g1_export.rs`) | none | `export_r4g1`, `replay_r4g1` | the container routes and scores as the artifact says; the replay tells equal edges from others | without the identities in HEAD |
| Parity (`parity.rs`) | report counters | `evaluate`, `evaluate_graph_only`, `evaluate_rollouts` | each lane counts its own answers; each rollout is judged alone | yes |
| Observations and rollouts (`observation.rs`, `rollout.rs`) | none | `parse` | bounds, identities and EOS positions of a corpus | what is accepted, not the text |
| Compatibility evidence (`compatibility.rs`) | fixed-size witness, copy and manifest | `new`, `push`, `verify`, `matches_runtime`, `validate_artifact` | evidence of an answer verifies whenever the question is asked again | without formats, store and certificate IDs |
| CLI lifecycle (`uor-semantic-cli/src/lib.rs`) | files of a work directory, child processes | `model build`, `compile_source`, `download` | never overwrites or mixes work it has not verified; reports are about the artifact beside them | these three commands |
| SHA-256, registry, conformance, xtask, scripts | - | - | a bit-level function, constants, tests, automation | no (section 7) |

Interactions are calls: the compiler writes the artifact (exact records,
regions, index) that `ArtifactView` validates and `predict` reads; generation
calls `predict` in a loop and feeds its output back; the exporter turns an
artifact into an R4G1 container that `R4G1Graph` validates, routes and predicts
from, and replays it against the artifact; parity measures an artifact with a
corpus, and calls generation for every rollout; compatibility evidence is taken
of a prediction and verified against a later one. All three rankings (memberships, token scores, artifact route entries)
use the same insertion scheme.

## 2. Modules

| Module | Models | State and actions against the code |
|---|---|---|
| `RankedInsert` | the ranked insertion scheme of `cloud.rs` `insert_ranked`, shared by `Prediction` and the scratch | operators over any strict order and capacity |
| `Membership` | codes, regions, `masked_hamming`, membership and its order, the summary | operators |
| `Router` | `route`, one region per step, and `CandidateSet::new` | `cloud`, `census` are the caller's buffers; `BeginRoute` = the two `clear`s, `SkipRegion`/`AcceptRegion` = one turn of the loop, `FinishRoute` = the summary |
| `RoutePromise` | what `route` promises | asked in one step, answered in one step with the top K |
| `AddressBundle` | `SemanticPath` and `SemanticAddressBundle` | `Push`, `Prefix`, `NewPath` build the path a caller holds, `Insert*` are the exits of `insert` |
| `ExactSection`, `ExactLookup` | the EXACT section and `find_exact` | one turn of either loop per step: `SearchRight`, `SearchLeft`, `SkipCollision`, ... |
| `Prediction` | `Prediction::insert_exact`, `accumulate` and its order | operators; scores are clamped to `ScoreMin .. ScoreMax` as `saturating_add` clamps to 32 bits |
| `Artifact` | the sections `predict` reads, `build_region_index` of the compiler, and `predict` as a function | operators; each loop over a sequence is a left fold of its turn |
| `ArtifactPredict` | `predict` step by step | `BackOff`/`ServeExact` = exact loop, `ScanRegion` = bucket scan, `AccumulateEmission` = accumulation; `RefuseContext` leaves the buffers as they were, as the early return does |
| `Compatibility` | witness, copy and manifest over `ArtifactPredict` | `TakeEvidence` = the caller keeps a witness and a copy of the answer it holds; `Verified`, `MatchesRuntime`, `ManifestError` are the checks made later |
| `Generation` | generation state and greedy loop | `WriteToken` is one turn of the loop, `StopNovel`/`StopFull` its exits |
| `Rollouts` | `RolloutCorpus::parse` and `evaluate_rollouts` over `Generation` | `BeginEvaluation` = the parser's and the identity's verdict, `BeginRollout` = fresh state, seed and call, `Compare` = the counters, `Report` = the return |
| `R4G1Graph` | what `R4G1Graph::parse` accepts: HEAD, ROUT, NODE, EDGE, reverse index; what `route` and `predict_top_k` read of it and promise | operators; offsets stay byte offsets, because the code reads overlapping windows |
| `R4G1Route` | `parse`, then `route`/`route_table` any number of times | one operation or one shortlist entry per step |
| `R4G1Predict` | `predict_top_k` over an accepted graph | one entry or one climb per step; `candidates` is what the route retained |
| `Compiler` | `compile_observations` | one seed, one pass over all observations or one path per step (`Seed`, `Pass`, `DerivePath`); a sort is `OrderOf`, which puts each element behind as many as precede it; `Canonicalize`, `AssignMemberships`, `WriteArtifact` are one call each; the result is an artifact of module `Artifact`, as the parser reads it |
| `ArtifactContainer` | `write_artifact`, `ArtifactView::parse` and the accessors | operators: `Pack` lays records, shared emissions and index positions out, `FileAccepted` is the parser, `View` what the accessors read |
| `ScoreAccumulator` | `ScoreAccumulator::accumulate` | operators over a ledger of contribution IDs |
| `R4G1Framing` | `emit_container`, `R4G1Identity::parse`, `validate_structure` | operators over section tables |
| `R4G1Export` | `export_r4g1` and `replay_r4g1` over a compiled artifact | `ExportR4G1` and `ReplayR4G1` are one call each, on the graph exported or on one somebody altered (`Altered`); the container is a graph of `R4G1Graph` in a carrier of `R4G1Framing` |
| `Parity` | `evaluate`, `evaluate_graph_only`, `model_parity` | `MeasureOne` is one observation, `Judge` the thresholds |
| `Pipeline` | compilation, then export and replay, or parity | the interleaving of the three; they share the artifact alone, so a behaviour takes one of them |
| `ModelBuild` | `model build`, `compile_source` and `download` as processes over one work directory | `work`, `source`, `pinned` are the files; `Preflight` = the checks, `Download`/`FetchFile`/`PinConfig`/`EndDownload` = `download` and the external `hf`, `Read`/`Open`/`Fill` = one output computed, truncated and filled, `Stop` = a failure or a kill |

Each stateful module has an `MC` module that gives its constants values. The
operators named in comments as a mutant are wrong versions of a definition, each
a plausible slip; replacing the definition by its mutant must break the property
named in `PROJECT.json`, so no property holds by the shape of the model alone.

## 3. Runs

| Run | Instance | Shows |
|---|---|---|
| `router` | 3-bit codes, slices of up to 4 of 5 regions that hit every tie of the order, cloud of 2, at most 3 candidates | top K in any arrival order, counts, work bound, and `RoutePromise` implemented |
| `address_bundle` | depth 2, 3 entries, 3 margins | ranked, weaker duplicates refused |
| `exact_lookup` | all ascending tables of up to 4 records over 6 kinds, 2 colliding pairs | first match found, or none exists; returns |
| `artifact_predict` | all lists of 0, 1 or 3 of 4 regions and 6 of 4 overlapping ones, 2 exact sections, 5 questions in any sequence, 3 active regions, 2 outputs, scores of at most 6, a copy of 1 | answers are the summed evidence, and where sums are clamped or tokens push each other out each score is the saturating sum of the latest things said of its token; the longest suffix serves, the index loses nothing, buffers carry nothing over, and evidence kept of an answer verifies when the question is asked again |
| `generation` | 3 artifacts as compiled, window of 2, history of at most 5 tokens, 9 rollout files of which 6 are refused, each for a reason of its own | window, counters, tokens and reason to stop of every call, each rollout judged by its own greedy continuation |
| `r4g1_route` | every program of up to 3 operations over 8 operand choices, 5 tables | accepted programs stay in bounds, routes retain exactly the chosen shortlist |
| `r4g1_predict` | every set of up to 3 refinement edges to deeper nodes over 4 nodes, 4 root priors, 6 candidate lists | chain sums, or what of them came since a token last entered the output; return |
| `compiler` | every sequence of up to 3 of 6 observations, with repeats, one conflict and one context too long, and 4 longer corpora; 7 configurations, depth 3, at most 12 memberships; frontier of 2, 2 contributions per ledger, 1 predictive edge per source; 2 held-out corpora | canonical form, passes never worsen the fit, paths are a tree, the file reads back, training contexts are never novel; the export fails only at its limits, its graph routes and adds up as the artifact says, its predictive edges are the best, the replay decides; the exact lane is perfect on its corpus and the lanes keep apart |
| `model_build` | 4 invocations of different revisions, corpora and reports in any order, one at a time, each stopping anywhere | finished outputs stay, work of different runs never mixes, builds capture the revision they claim, reports are consistent |

Bounds are small where the code's cases are few: a ranked insertion, a binary
search and a parent climb each show all their cases (empty, full, first, last,
tie, skipped level, second parent) within three or four elements, every capacity
is exceeded by the inputs, and reused buffers need two calls in a row, which all
runs of the runtime have without a bound on the number of calls. Only `Generation` caps a
history (`MaxHistory`); it counts tokens pushed since the start, long enough for
the window to wrap more than once. `MaxRunning` of `ModelBuild` is the number of
invocations alive at once, 1 in its runs: they are about crashes and reruns.

The limits of the formats are constants of `compiler`, small enough that its
corpora reach them: one of the longer corpora fills a level of paths and the
bytes of a file, one has three transitions between the same two nodes, one has
three regions around one, and one has a token past `i32::MAX`. What it does not
reach is saturation of a residual: scores of compiled corpora are far from the
ends of the range, and `ResidualsAddUp` speaks of the sums the runtime promises
without it. A behaviour of `Pipeline` takes the export or the parity evaluation
and not both, since neither changes what the other reads. `InOrder` of
`Compiler` stands for the sorts of the code; where the sort is stable and keys may
tie, the position is part of the order.

Types are checked in the runs whose types can go wrong by an index or a length
(`router`, `exact_lookup`, `r4g1_route`, `compiler`); those of `AddressBundle`,
`ModelBuild` and `ArtifactPredict` are proved with their invariants. `Altered` lists what a replay may be given besides the export: an
edge removed, doubled or with another score, another or a disordered prior, a
depth that HEAD denies.

### Violations

Three runs check what a comment or document says and find the code doing
something else (`findings` in `PROJECT.json` quotes both).

* `address_duplicate`: `insert` looks for a duplicate only up to the insertion
  point; a held path offered with a higher margin is inserted a second time.
* `r4g1_cycle`: edges say nothing about depth to the validator, so a refinement
  cycle between nodes of one depth is accepted and `predict_top_k` climbs it
  without end.
* `model_download`: a snapshot is reused as verified when three files exist and
  the metadata of `config.json` names the revision; after a download over
  another revision that stopped early, the weights are still the old ones.

Nine more divergences are in the models and have no run of their own:

* `r4g1.rs:1315` reads `emission_len` as a number of entries that line 1502
  validated as a number of bytes, so a validated node may fail at prediction.
* A `LEAF` of length zero behind an empty table is accepted (`r4g1.rs:1454`) and
  its route fails with the error documented for partial node IDs.
* A root entry displaced by the output capacity takes its base score with it; a
  later residual of that token counts from zero (`r4g1.rs:554`, against the
  comment at 1181): `ScoresAreChainSums` states what a score is then.
* The existence checks of `model build` (`lib.rs:1205`) and its writes are far
  apart: with `MaxRunning = 2` in `MCModelBuild.cfg`, `FinishedOutputsStay` fails
  because two builds pass the checks before either writes (against CP-02).
* The exporter takes the score of a parent that says nothing of a token for zero
  (`r4g1_export.rs:490`), and the runtime then adds the child's full score to
  what the levels above answered. So a chain gives the score of the artifact
  only where no region above is silent, against "each refinement node stores a
  parent-relative residual" (`r4g1_export.rs:6`). `ResidualsAddUp` states
  the sum that does hold.
* A compiled artifact with more children under a region than the frontier of the
  exported HEAD is refused by the reader when the exporter checks its own output
  (`r4g1.rs:1521`): `ExportFailsOnlyAtItsLimits` names the case.
* The replay recomputes the expected edges with the root prior of the container
  (`r4g1_export.rs:185`), so another prior with matching scores replays as
  complete, although the comment above calls it a certificate over the source
  artifact's evidence. `ReplayDecides` states what it decides.
* `parse_rollout` takes `-` for a sequence that has an EOS, and the position of
  an EOS that is not the first (`rollout.rs:254`; the field is documented as "no
  value when the budget ended first"). Such a rollout can be reproduced exactly
  and still count as an EOS mismatch, and `eos_samples`, "Rollouts whose teacher
  sequence included EOS", misses it; `RolloutsJudgedAlone` says when.
* `exact_top1_matches`, "Exact-context top-1 matches" (`parity.rs:43`), also
  counts right answers of the graph where no exact context was found.
  `LanesKeepApart` has the equality that follows without exact records.

A witness names no question. Asking something else in between does it no harm
(`EvidenceReplays`), but it also verifies against the answer to any other
question with the same source and first token; after a question that was refused
for its length the buffers still hold the answer before it, and that answer
verifies.

The passing run `r4g1_predict` therefore assumes what the exporter guarantees
and the validator does not: refinement edges lead to deeper nodes and residual
ranges fit.

## 4. Fairness

Each operation is a synchronous call of one thread, so once begun its next step
is always taken: weak fairness of the step relation of the call (`RouteStep`,
`FindStep`, `PredictStep`, `GenerateStep`, `EvaluationStep`). Nothing obliges a caller to call, so
the actions that begin a call have no fairness. Return is checked where it is
not plain: the binary search of `find_exact` (`LookupReturns`) and the climbs of
`predict_top_k` (`PredictReturns`); the greedy loop counts up to the length of its
output. Deadlock is checked in the runs of the
runtime: a caller may always call again. A compilation, an evaluation and a set of
invocations come to an end, so `compiler`, `generation` and the runs of
`MCModelBuild` switch it off; the properties of these runs are
safety and need no fairness.

## 5. Proofs

Eight modules hold the proofs, one per component that has them.

* `RankedInsert_proofs`: `InsertKeepsTopK` and `TopKUnique`. For every strict
  total order on a set and every capacity, inserting into the sorted top K of a
  set gives the sorted top K of the set with one more member, and that list is
  unique. The core is `InsertAtEntries`, which describes the shifted list entry
  by entry. The module also has the facts about left folds that all later proofs
  use (`FoldEmpty`, `FoldNext`, `FoldAll`, `FoldKeeps`, `FoldStays`). A fold of
  the community modules is a recursive function on the subsets of an interval;
  that it exists (`FoldExists`) and does not depend on what lies past the prefix
  (`FoldsAgree`) is shown by a least counterexample (`NatHasMin`), in place of an
  induction theorem.
* `Router_proofs`: `RouterTypes`, `RouterCloudIsTopK`, `RouterCountsMatches`,
  `RouterWorkIsBounded`, `RouterImplementsPromise`. The inductive invariant
  `IInv` says that while a route runs, the cloud is the top K of the regions
  accepted before the cursor, `matched` is their number, and the census is
  bounded by the part of the budget the cursor has passed; the last is what
  makes `WithinBudget` inductive. The refinement maps the running router to a
  promise that has been asked and not answered.
* `AddressBundle_proofs`: `BundleTypes`, `BundleIsCanonical`, `WeakerIsRefused`.
  The comparison loop is shown to be a strict total order on paths
  (`PathBeforeTotal` picks the first slot that differs); an insertion that meets
  no held path up to its position then stands strictly between its neighbours,
  and an entry with the same path behind it must have a lower margin. Types and
  order are inductive together. That the paths are distinct is not provable: it
  does not hold (section 3).
* `ExactLookup_proofs`: `LookupTypes`, `LookupIsExactAndComplete`. The invariant
  adds to the bounds of the search that all hashes left of `low` are smaller and
  all from `high` on are larger, that a walk back stays in the run of equal
  hashes, and that every record skipped in the run does not answer.
* `R4G1Route_proofs`: `RouteTypes`, `ProgramNeverLeavesItsBounds`,
  `ShortlistStaysInTable`, `ShortlistIsRetained`, for every graph, signature and
  capacity. The
  conjunct that makes the bounds inductive is that the program counter is always
  ahead of the operations executed (`steps < pc`) and at most one past the
  program: jumps only go forward, `validate_rout` has checked where they land,
  and a test skips at most to the end. So an accepted program is never cut off
  by its step budget, and the errors `route` repeats from validation are not
  reachable. `AcceptedProgram` is what validation gives; `FetchFacts` is what
  every fetch finds. `ShortlistIsRetained` compares the steps of a route with
  `Routed`, which knows no steps: because jumps go forward, the range a program
  chooses is a function defined from its end (`ChoiceIs`); each operation
  executed leaves the range chosen from the program counter as it is, and each
  entry read adds what `Routed` has at its position (`EntryIs`). The invariant is
  `Retaining`. `Routed` picks its entries by a recursion of its own (`Picked`),
  since the prover has no facts about `SelectSeq`.
* `Compatibility_proofs`: prediction and the evidence of it.
  `BuffersStartEmpty` is the inductive invariant: while a call runs, each reused
  buffer is the fold of the turns the call has made so far, from an empty one
  (`BackingOff`, `Scanned`, `NotAccumulated`, `Accumulated`), whatever the
  buffers held before and whatever was refused in between. From it follow
  `AnswersAreTheirQuestions` and `SuffixesComeFirst`. `BucketsHoldAllTheyCover`
  assumes `CompiledArtifacts`: masks are full and the index is
  `build_region_index` of the regions, as `compile` writes them; the reader does
  not check either, and an artifact with another index does lose regions. The
  proof needs that the low byte of a signature is no farther from the low byte
  of a prototype than the whole is, and that a scan of a bucket counts what the
  table holds. `GraphAnswersAreTheEvidence` assumes in addition
  `NumberedRegions`, that no two regions share an ID (`compile` numbers them,
  `compiler.rs:631`), and `NothingSaturates`, that the evidence of a question,
  and any part of it, fits a score: where a sum saturates, the order of
  accumulation may show. It goes from the bottom up. The sum over a finite set of
  emissions does not depend on the order `FoldSet` takes them in (`EvidenceAdds`,
  over the function the fold recurses with). `Holds` is the invariant of the
  accumulation: while no entry was let go, the entries are ranked, no token
  stands twice, and each has the evidence of the emissions so far; moving an
  entry up or down keeps it (`RoundHolds`). The scan keeps the top K of the
  covering regions (`ScanKeepsTopK`), and to be among the first K is to have fewer
  than K ahead, which is how `Retained` says it (`TopKIsRetained`).
  `EvidenceAlwaysReplays` assumes `AnswersAreServed`:
  records have emissions, as `compile` writes them, and an output has room for
  one; a record without a token to serve has no first token to witness.
* `ModelBuild_proofs`: `OneOwner` is the inductive invariant: at any time all
  outputs of the work directory are the first ones of the plan of one
  invocation, each computed from that invocation's earlier outputs, all but the
  last complete, and each invocation that waits, runs or is done agrees with
  the directory about how far its plan is. `OutputsAreFinal`,
  `WorkHasOneOwner` and `DoneStaysConsistent` follow, for every set of
  invocations and every sequence of starts, failures and kills. They assume
  `MaxRunning = 1`: nothing in the code keeps two builds of one directory apart
  (hazard at `lib.rs:1205`), and with two the property is false.
  `CapturesAreOfTheirRevision` adds `SourceInv` on the files of the source
  directory and assumes `DownloadsAgree`, that a download asks for no other
  revision than the other invocations: without it the property is false too, as
  the run `model_download` shows.
* `Pipeline_proofs`: the compiler, and parity over what it compiles, for every
  corpus, configuration and limit of the formats, with no assumption but the
  `ASSUME`s.
  - `CorpusOrderIsForgotten`: a list of n elements of a finite strict order,
    each behind as many as precede it, ascends (`RanksAreMet`, `OrderIs`), and
    the loop of `canonicalize` keeps the first of each run of equal contexts
    (`KeptOf`).
  - `PathsAreATree`: the child counts bound the slots in use below each path
    derived so far, and a path once there keeps its place (`Tree`).
  - `WhatIsWrittenIsRead`: what a concatenation of parts holds at the offset of
    a part is that part, so every record, bucket and route that `Pack` lays out
    is the one the accessors read, and no check of the parser can fail on them.
  - `TrainingIsCovered`: each observation belongs to a region whose radius
    reaches it (`Placed`), such a region has members and therefore emissions,
    the bucket of the signature holds it, and neither the top K of one active
    region nor the accumulation with room for one output can come out empty.
  - `LanesStayApart` and `ExactLaneAnswersAll`: the invariant `Measuring` says
    what one observation adds to each counter (`Grown`) and that sums keep the
    lanes apart; `Perfect` that on its own corpus the record found first is the
    observation's own, since `Canonicalize` left no two contexts alike.
  - `ReplayDecidesAll`: `is_complete` compares four counts, and the theorem says
    that they mean equality, edge by edge. The expected edges are at most one
    for two nodes (`ExpectedAre`), because the loops of `PredictiveEdges` keep
    one total per pair of regions, whose paths differ; the replay
    finds at most one expected edge for each that the graph states, so with as
    many stated as expected and as many found, none is stated twice
    (`ReplayCounts`, a pigeonhole). That an export replays rests on the order of
    the EDGE section: it lists each edge of a set once (`ListsTheExpected`), and
    the root prior it writes is the one read back (`PriorIsStated`). The
    invariant `Replaying` keeps both for graphs assembled by others (`Altered`).
  - `GraphRoutesAsTheArtifact`: the exporter writes the prototype and the mask of
    every region into windows of two words, one list of windows behind the other,
    and each node points at its own (`PairsAreFound`, `WindowsAre`, `WordsAre`);
    the one leaf of its program chooses the shortlist of all regions
    (`LeafIsChosen`, `AllAreListed`). So a node is as far from a context as its
    region is, padding counts for nothing (`NodeIsAsFar`), and the router of the
    graph retains what the artifact's scan covers.
  - `PipelineTypes`, where an exit of the exporter or the replay is a refused
    layout or a named limit (`Reported`).

Assumptions are those of the `ASSUME`s of the modules, and those named above:
capacities are naturals, the sets are finite, sections are ones the parser
accepts. TLC evaluates the `ASSUME`s in the runs; the instances of
`artifact_predict` and `model_build` satisfy the named ones, but for the
overlapping regions of `artifact_predict`, whose sums do saturate.

Model-checked only:

* liveness (`LookupReturns`, `PredictReturns`): fairness and
  ENABLED are outside the prover;
* `PassesNeverWorsen` of `Compiler`: the bound is a sum of medians over
  clusterings, for which there is no lemma yet;
* `CallsReportTheirSteps`, `RolloutsJudgedAlone`,
  `ScoresAreChainSums` and `ScoresSumTheLatest`: each compares a loop with a closed
  definition by sums or histories that the theorems above do not need;
* three properties of `R4G1Export`. `PredictiveEdgesAreTheBest` and
  `ResidualsAddUp` compare sums that saturate at the width of a score with sums
  that do not: they hold while no score is at its limit, which the runs
  guarantee and the constants do not. `ExportFailsOnlyAtItsLimits` follows every
  written table through the validator.

## 6. Plan

Done: the compiler (`PathsFormATree`, `CanonicalForgetsOrder`,
`WrittenIsReadBack`, `TrainingIsNeverNovel`), parity over it, prediction with its
evidence and index, the answer of the graph as the evidence of the regions it
retains, the work directory, what a route over a graph retains, what
an exported graph routes to, and what a replay decides. Left, in this order:

1. The export: `ExportFailsOnlyAtItsLimits` from the layout (`Laid` gives tables
   that `CarrierAccepted` takes, for every list of ascending sections).
2. `ScoresAreChainSums` of `R4G1Predict`, with the sums of `EvidenceAdds`.

## 7. Not modelled, and why

* Byte decoding (magic, version, reserved bytes, endianness, digests): the
  modules start from decoded records. Where the byte layout decides behaviour
  (sections of both containers, ROUT tables, EMIT ranges, prototype windows)
  offsets and lengths are kept.
* The identities of HEAD, the hashes over a container and its CERT section, which
  the exporter does not write: routing and scoring read none of them. EXCT is
  written and accepted (`Exct`, `ExctAccepted`), and nothing reads it either.
* The formats, store and certificate IDs of a compatibility manifest, which no
  check of an answer reads.
* SHA-256, BLAKE3, signatures and hashes of contexts: constants of the modules,
  with collisions in the instances.
* Formatting, printing, argument parsing, and the commands of the CLI that keep
  no state between steps.
* The model registry, the conformance suites, xtask and the capture scripts:
  tables, tests and automation around the system.
