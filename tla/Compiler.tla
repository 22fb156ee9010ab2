------------------------------ MODULE Compiler ------------------------------
(***************************************************************************)
(* Compilation of an observation corpus into an artifact (compiler.rs):    *)
(* canonical observations, seeded prototypes, passes of assignment and     *)
(* majority vote, memberships, paths, and the records.  One step chooses   *)
(* one seed, runs one pass or derives one path.                            *)
(*                                                                         *)
(* Masks of compiled regions are full, so distances are plain Hamming      *)
(* distances between signatures.  The target of an observation is its best *)
(* emission, so it says nothing of its own.  Of the limits, which only     *)
(* large corpora meet, the one on memberships is modelled.                 *)
(***************************************************************************)
EXTENDS ArtifactContainer

CONSTANTS
  Corpora,         (* observation sequences as the parser gives them, or empty *)
  Configs,         (* compiler configurations                              *)
  MaxRouteDepth,   (* MAX_ROUTE_DEPTH                                      *)
  MaxMemberships   (* MAX_REGION_MEMBERSHIPS                               *)

Observation == [context : Contexts, emissions : Emissions]

Config ==
  [max_regions : Nat, iterations : Nat, overlap_margin : Nat,
   max_region_emissions : Nat, include_exact : BOOLEAN]

(* parse_observation: a context and at least one emission per line, the    *)
(* emissions of different tokens, best first.                              *)
ASSUME CorporaAssumption ==
  \A corpus \in Corpora :
    /\ corpus \in Seq(Observation)
    /\ \A o \in ToSet(corpus) :
         /\ o.context # << >> /\ o.emissions # << >>
         /\ \A p \in 1 .. Len(o.emissions) - 1 :
              TokenPrecedes(o.emissions[p], o.emissions[p + 1])
         /\ IsInjective([p \in DOMAIN o.emissions |-> o.emissions[p].token])
ASSUME ContextsAreTokens == Contexts \subseteq Seq(Tokens)
ASSUME ConfigsAssumption == Configs \subseteq Config
ASSUME DepthAssumption == MaxRouteDepth \in Nat /\ MaxRouteDepth > 1
ASSUME MembershipsAssumption == MaxMemberships \in Nat

VARIABLES
  corpus, config,  (* the input                                            *)
  phase,           (* where the compilation is                             *)
  observations,    (* the canonical observations                           *)
  prototypes,      (* the prototypes so far                                *)
  passes,          (* passes run                                           *)
  members,         (* the observations of each region                      *)
  paths,           (* the paths so far                                     *)
  children,        (* child_counts                                         *)
  result           (* the artifact, or the error                           *)

vars == <<corpus, config, phase, observations, prototypes, passes, members,
          paths, children, result>>

-----------------------------------------------------------------------------
(* The elements of a finite set in a strict order: each one stands behind  *)
(* as many as precede it.  SetToSortSeq would enumerate the permutations.  *)
OrderOf(set, preceding) ==
  [k \in 1 .. Cardinality(set) |->
     CHOOSE x \in set : Cardinality(preceding[x]) = k - 1]

InOrder(set, Before(_, _)) ==
  OrderOf(set, [x \in set |-> {y \in set : Before(y, x)}])

(* Vec<u32>::cmp.                                                          *)
ContextBefore(left, right) ==
  \E n \in 0 .. Len(left) :
    /\ n < Len(right)
    /\ SubSeq(left, 1, n) = SubSeq(right, 1, n)
    /\ n = Len(left) \/ left[n + 1] < right[n + 1]

(* The stable sort by context.                                             *)
SortedByContext(obs) ==
  LET order == InOrder(DOMAIN obs,
                 LAMBDA i, j :
                 \/ ContextBefore(obs[i].context, obs[j].context)
                 \/ /\ obs[i].context = obs[j].context
                    /\ i < j)
  IN  [k \in DOMAIN order |-> obs[order[k]]]

(* Mutant: repeated observations are dropped before the sort.              *)
CanonicalUnsorted(obs) ==
  FoldLeft(LAMBDA kept, o :
             IF kept.error # "none" THEN kept
             ELSE IF Len(o.context) > MaxContext
                  THEN [kept EXCEPT !.error = "FormatLimit"]
             ELSE IF kept.obs # << >> /\ Last(kept.obs).context = o.context
                  THEN IF Last(kept.obs) = o THEN kept
                       ELSE [kept EXCEPT !.error = "ConflictingContext"]
             ELSE [kept EXCEPT !.obs = Append(@, o)],
           [obs |-> << >>, error |-> "none"], obs)

(* canonical_observations: equal neighbours are kept once, and neighbours  *)
(* that differ under one context are an error.                             *)
Canonical(obs) ==
  FoldLeft(LAMBDA kept, o :
             IF kept.error # "none" THEN kept
             ELSE IF Len(o.context) > MaxContext
                  THEN [kept EXCEPT !.error = "FormatLimit"]
             ELSE IF kept.obs # << >> /\ Last(kept.obs).context = o.context
                  THEN IF Last(kept.obs) = o THEN kept
                       ELSE [kept EXCEPT !.error = "ConflictingContext"]
             ELSE [kept EXCEPT !.obs = Append(@, o)],
           [obs |-> << >>, error |-> "none"], SortedByContext(obs))

-----------------------------------------------------------------------------
Distance(left, right) == Cardinality((left \ right) \cup (right \ left))

SignatureAt(i) == SignatureOf(observations[i].context)

Smaller(m, n) == IF m <= n THEN m ELSE n
(* Mutant: as many regions as configured, however few the observations.    *)
RegionCountConfigured == config.max_regions

RegionCount == Smaller(config.max_regions, Len(observations))

(* nearest_distance.                                                       *)
NearestDistance(i, among) ==
  Min({Distance(SignatureAt(i), among[c]) : c \in DOMAIN among})

(* The first observation farthest from every prototype.                    *)
Farthest ==
  LET far == Max({NearestDistance(i, prototypes) : i \in DOMAIN observations})
  IN  Min({i \in DOMAIN observations : NearestDistance(i, prototypes) = far})

(* assign_all: the first prototype at the nearest distance.                *)
Assigned(i, among) ==
  Min({c \in DOMAIN among : Distance(SignatureAt(i), among[c]) = NearestDistance(i, among)})

(* Mutant: only the bits all members have.                                 *)
UnanimousBits(group) == {b \in Bits : \A i \in group : b \in SignatureAt(i)}

(* The bits half of the members have or more.                              *)
MajorityBits(group) ==
  {b \in Bits : 2 * Cardinality({i \in group : b \in SignatureAt(i)}) >= Cardinality(group)}

(* A region nothing is assigned to keeps its prototype.                    *)
AfterPass ==
  [c \in DOMAIN prototypes |->
     LET group == {i \in DOMAIN observations : Assigned(i, prototypes) = c}
     IN  IF group = {} THEN prototypes[c] ELSE MajorityBits(group)]

(* assign_memberships: every prototype within the margin of the nearest.   *)
MembersOf(c) ==
  {i \in DOMAIN observations :
     Distance(SignatureAt(i), prototypes[c])
       <= NearestDistance(i, prototypes) + config.overlap_margin}

-----------------------------------------------------------------------------
(* derive_paths: the parent of a region is the first of the nearest        *)
(* earlier ones that can have children.                                    *)
ParentOf(c) ==
  LET room == {p \in 1 .. c - 1 : Len(paths[p]) < MaxRouteDepth}
      To(p) == Distance(prototypes[c], prototypes[p])
  IN  Min({p \in room : \A q \in room : To(p) <= To(q)})

(* i64 division truncates towards zero.                                    *)
Quotient(sum, count) == IF sum < 0 THEN -((-sum) \div count) ELSE sum \div count

(* Of each token, the average score of the members that emit it.           *)
AverageEmissions(group) ==
  LET emitted == UNION {{<<i, p>> : p \in DOMAIN observations[i].emissions} : i \in group}
      At(e) == observations[e[1]].emissions[e[2]]
      Of(token) == {e \in emitted : At(e).token = token}
  IN  {[token |-> token,
        score |-> Quotient(MapThenSumSet(LAMBDA e : At(e).score, Of(token)),
                           Cardinality(Of(token)))] :
         token \in {At(e).token : e \in emitted}}

(* The best of them, as many as a region stores.                           *)
RegionEmissions(group) ==
  LET ranked == InOrder(AverageEmissions(group), TokenPrecedes)
  IN  SubSeq(ranked, 1, Smaller(Len(ranked), config.max_region_emissions))

(* Mutant: the radius is the margin alone.                                 *)
RadiusIsMargin(c) == Smaller(config.overlap_margin, Cardinality(Bits))

(* The radius reaches the farthest member and the margin beyond.           *)
Radius(c) ==
  Smaller(Max({0} \cup {Distance(SignatureAt(i), prototypes[c]) : i \in members[c]})
            + config.overlap_margin,
          Cardinality(Bits))

(* compile_regions.                                                        *)
RegionAt(c) ==
  [region_id |-> c, path_id |-> c, depth |-> Len(paths[c]), radius |-> Radius(c),
   path |-> paths[c], prototype |-> prototypes[c], mask |-> Bits,
   emissions |-> RegionEmissions(members[c])]

(* Mutant: one record per hash.                                            *)
ExactOnePerHash ==
  LET Hash(i) == HashOf(observations[i].context)
      order == InOrder({i \in DOMAIN observations : \A j \in 1 .. i - 1 : Hash(j) # Hash(i)},
                            LAMBDA i, j : Hash(i) < Hash(j))
  IN  [k \in DOMAIN order |->
         [hash |-> Hash(order[k]), context |-> observations[order[k]].context,
          emissions |-> observations[order[k]].emissions]]

(* compile_exact: one record per observation, by hash and then by context. *)
ExactRecords ==
  LET Hash(i) == HashOf(observations[i].context)
      order == InOrder(DOMAIN observations,
                 LAMBDA i, j : Hash(i) < Hash(j) \/ (Hash(i) = Hash(j) /\ i < j))
  IN  [k \in DOMAIN order |->
         [hash |-> Hash(order[k]), context |-> observations[order[k]].context,
          emissions |-> observations[order[k]].emissions]]

Compiled ==
  LET regions == [c \in DOMAIN prototypes |-> RegionAt(c)]
  IN  [exact   |-> IF config.include_exact THEN ExactRecords ELSE << >>,
       regions |-> regions,
       index   |-> BuildRegionIndex(regions)]

NoArtifact == [exact |-> << >>, regions |-> << >>, index |-> << >>]

-----------------------------------------------------------------------------
Init ==
  /\ corpus \in Corpora
  /\ config \in Configs
  /\ phase = "corpus"
  /\ observations = << >>
  /\ prototypes = << >>
  /\ passes = 0
  /\ members = << >>
  /\ paths = << >>
  /\ children = << >>
  /\ result = [artifact |-> NoArtifact, error |-> "none"]

Fail(error) ==
  /\ phase' = "failed"
  /\ result' = [result EXCEPT !.error = error]

BadConfig ==
  config.max_regions = 0 \/ config.iterations = 0 \/ config.max_region_emissions = 0

(* validate_config first, then the corpus.                                 *)
Refusal(canonical) ==
  IF BadConfig THEN "InvalidConfiguration"
  ELSE IF canonical.error # "none" THEN canonical.error
  ELSE IF canonical.obs = << >> THEN "EmptyCorpus" ELSE "none"

Canonicalize ==
  LET canonical == Canonical(corpus)
  IN  /\ phase = "corpus"
      /\ IF Refusal(canonical) # "none"
         THEN Fail(Refusal(canonical)) /\ UNCHANGED observations
         ELSE /\ observations' = canonical.obs
              /\ phase' = "seed"
              /\ UNCHANGED result
      /\ UNCHANGED <<corpus, config, prototypes, passes, members, paths, children>>

(* induce_prototypes: the first signature, then the farthest ones.         *)
Seed ==
  /\ phase = "seed"
  /\ Len(prototypes) < RegionCount
  /\ prototypes' = Append(prototypes,
                     SignatureAt(IF prototypes = << >> THEN 1 ELSE Farthest))
  /\ UNCHANGED <<corpus, config, phase, observations, passes, members, paths,
                 children, result>>

Pass ==
  /\ phase = "seed"
  /\ Len(prototypes) = RegionCount
  /\ passes < config.iterations
  /\ prototypes' = AfterPass
  /\ passes' = passes + 1
  /\ UNCHANGED <<corpus, config, phase, observations, members, paths, children, result>>

AssignMemberships ==
  LET assigned == [c \in DOMAIN prototypes |-> MembersOf(c)]
  IN  /\ phase = "seed"
      /\ Len(prototypes) = RegionCount
      /\ passes = config.iterations
      /\ IF MapThenSumSet(LAMBDA c : Cardinality(assigned[c]), DOMAIN assigned)
              > MaxMemberships
         THEN Fail("FormatLimit") /\ UNCHANGED <<members, children>>
         ELSE /\ members' = assigned
              /\ children' = [c \in DOMAIN prototypes |-> 0]
              /\ phase' = "paths"
              /\ UNCHANGED result
      /\ UNCHANGED <<corpus, config, observations, prototypes, passes, paths>>

(* Mutant: the children of a region are not counted.                       *)
DerivePathUncounted ==
  LET c == Len(paths) + 1
  IN  /\ phase = "paths"
      /\ c <= Len(prototypes)
      /\ paths' = Append(paths,
           IF c = 1 THEN <<0>> ELSE Append(paths[ParentOf(c)], children[ParentOf(c)] + 1))
      /\ UNCHANGED <<corpus, config, phase, observations, prototypes, passes,
                     members, children, result>>

DerivePath ==
  LET c == Len(paths) + 1
  IN  /\ phase = "paths"
      /\ c <= Len(prototypes)
      /\ IF c = 1
         THEN paths' = << <<0>> >> /\ UNCHANGED children
         ELSE /\ paths' = Append(paths, Append(paths[ParentOf(c)], children[ParentOf(c)] + 1))
              /\ children' = [children EXCEPT ![ParentOf(c)] = @ + 1]
      /\ UNCHANGED <<corpus, config, phase, observations, prototypes, passes,
                     members, result>>

(* write_artifact, and the parse of what was written.                      *)
WriteArtifact ==
  LET file == Pack(Compiled)
  IN  /\ phase = "paths"
      /\ Len(paths) = Len(prototypes)
      /\ IF ~ WithinLimits(file) THEN Fail("FormatLimit")
         ELSE IF ~ FileAccepted(file, MaxRouteDepth) THEN Fail("SelfValidation")
         ELSE /\ result' = [result EXCEPT !.artifact = View(file)]
              /\ phase' = "done"
      /\ UNCHANGED <<corpus, config, observations, prototypes, passes, members, paths, children>>

Next == Canonicalize \/ Seed \/ Pass \/ AssignMemberships \/ DerivePath \/ WriteArtifact

Spec == Init /\ [][Next]_vars

-----------------------------------------------------------------------------
(* Every variable has its type: compile, compiler.rs:111.                  *)
TypeOK ==
  /\ corpus \in Corpora /\ config \in Configs
  /\ phase \in {"corpus", "seed", "paths", "done", "failed"}
  /\ observations \in Seq(Observation)
  /\ prototypes \in Seq(Code) /\ Len(prototypes) <= Len(observations)
  /\ passes \in 0 .. config.iterations
  /\ members \in Seq(SUBSET DOMAIN observations)
  /\ paths \in Seq(Seq(Nat)) /\ Len(paths) <= Len(prototypes)
  /\ children \in Seq(Nat)
  /\ result.error \in
       {"none", "InvalidConfiguration", "EmptyCorpus", "ConflictingContext", "FormatLimit",
        "SelfValidation"}
  /\ (result.error # "none") = (phase = "failed")

(* The order of the corpus and its repetitions do not matter: the          *)
(* canonical observations are the different ones in the order of their     *)
(* contexts, whatever order the corpus lists them in, and two observations *)
(* that differ under one context always make a conflict, however far apart *)
(* they stand (canonical_observations, compiler.rs:185).                   *)
CanonicalForgetsOrder ==
  LET different == ToSet(corpus)
      conflict == \E a, b \in different : a.context = b.context /\ a # b
      accepted == phase \notin {"corpus", "failed"}
  IN  /\ accepted => /\ ~ conflict
                     /\ ToSet(observations) = different
                     /\ \A i, j \in DOMAIN observations :
                          i < j => ContextBefore(observations[i].context,
                                                 observations[j].context)
      /\ result.error = "ConflictingContext" => conflict

TotalDistance(among) ==
  MapThenSumSet(LAMBDA i : NearestDistance(i, among), DOMAIN observations)

(* A pass never moves the prototypes farther from the observations: the    *)
(* sum of nearest distances does not grow, ties in the vote and regions    *)
(* left empty included (induce_prototypes, compiler.rs:226).               *)
PassesNeverWorsen ==
  [][passes' = passes + 1 => TotalDistance(prototypes') <= TotalDistance(prototypes)]_vars

(* The paths form a tree: no two regions share a path, none is deeper than *)
(* the format's limit, and every path but the root's extends the path of   *)
(* an earlier region by one slot (derive_paths, compiler.rs:330).          *)
PathsFormATree ==
  /\ IsInjective(paths)
  /\ \A c \in DOMAIN paths :
       /\ Len(paths[c]) \in 1 .. MaxRouteDepth
       /\ c > 1 => \E p \in 1 .. c - 1 : Front(paths[c]) = paths[p]

(* No context of the corpus is novel to the artifact compiled from it: its *)
(* nearest region covers it, the region index does not lose that region,   *)
(* and the region has something to say (compile_regions, compiler.rs:420,  *)
(* and predict in artifact.rs:629).                                        *)
TrainingIsNeverNovel ==
  phase = "done" /\ MaxActive > 0 /\ OutputCapacity > 0 =>
    \A i \in DOMAIN observations :
      PredictedGraph(result.artifact, observations[i].context).summary.source = "Graph"

(* What the file holds is what was compiled: the shared emission table,    *)
(* the positions of the index and the section offsets give back every      *)
(* record with its own emissions and every bucket with its own regions,    *)
(* and parse refuses nothing the writer let pass (write_artifact,          *)
(* compiler.rs:516, and ArtifactView::parse, artifact.rs:461).             *)
WrittenIsReadBack ==
  /\ result.error # "SelfValidation"
  /\ phase = "done" => result.artifact = Compiled
=============================================================================
