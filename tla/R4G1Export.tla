----------------------------- MODULE R4G1Export -----------------------------
(***************************************************************************)
(* The export of a compiled artifact as an R4G1 container, and the replay  *)
(* of its predictive edges against the artifact (r4g1_export.rs).  Region  *)
(* c becomes node c under a root node 0; refinement edges follow the paths *)
(* of the regions, predictive edges the exact records whose best token     *)
(* leads to another exact context.                                         *)
(*                                                                         *)
(* A signature is one word of bits and one word of padding, where the code *)
(* has four and one.  Left out: the identities and hashes in HEAD, and the *)
(* limits that 4096 regions cannot reach.                                  *)
(***************************************************************************)
EXTENDS Compiler, ScoreAccumulator

CONSTANTS
  MaxFrontier,     (* max_frontier of the emitted HEAD                     *)
  MaxPredictive,   (* MAX_PREDICTIVE_EDGES_PER_SOURCE                      *)
  MaxExportToken,  (* i32::MAX                                             *)
  KeyBytes         (* the bits of the four low bytes of word 0 of a        *)
                   (* signature, each byte from its lowest bit up          *)

ASSUME ExportAssumption ==
  MaxFrontier \in Nat /\ MaxPredictive \in Nat /\ MaxExportToken \in Nat
ASSUME KeyBytesAssumption ==
  /\ KeyBytes \in [1 .. 4 -> Seq(Bits)]
  /\ IsInjective(FlattenSeq(KeyBytes))
  /\ ToSet(KeyBytes[1]) = LowBits

VARIABLES
  exported,   (* what export_r4g1 returned: a graph or an error            *)
  replayed,   (* the graph replay_r4g1 was given                           *)
  report      (* what replay_r4g1 returned: the report or an error         *)

exportVars == <<exported, replayed, report>>

Graph == INSTANCE R4G1Graph WITH WordBits <- Bits
Carrier == INSTANCE R4G1Framing

SignatureWords == 2
Padded(code) == <<code, {}>>   (* context_signature_r4g1 of a context       *)

-----------------------------------------------------------------------------
Regions == result.artifact.regions
Exact == result.artifact.exact

(* average_score: an empty sum is 0.                                       *)
AverageScore(sum, count) == IF count = 0 THEN 0 ELSE Quotient(sum, count)

(* The score a list of emissions gives a token, 0 when it has none.        *)
ScoreIn(emissions, token) ==
  LET slot == SlotOf(emissions, token)
  IN  IF slot = 0 THEN 0 ELSE emissions[slot].score

(* Of every token of a list of emissions the average score, in the order   *)
(* of the tokens.                                                          *)
Averages(all) ==
  LET Of(token) == {p \in DOMAIN all : all[p].token = token}
      Entry(token) ==
        [token |-> token,
         score |-> AverageScore(MapThenSumSet(LAMBDA p : all[p].score, Of(token)),
                                Cardinality(Of(token)))]
  IN  InOrder({Entry(all[p].token) : p \in DOMAIN all},
                   LAMBDA a, b : a.token < b.token)

(* The root prior: the averages over the regions that emit a token.        *)
RootPrior == Averages(FlattenSeq([c \in DOMAIN Regions |-> Regions[c].emissions]))

(* deterministic_parent: the first earlier region whose path is the front  *)
(* of the region's path; a path of one slot hangs from the root node.      *)
ParentCandidates(c) ==
  {q \in 1 .. c - 1 : Regions[q].path = Front(Regions[c].path)}

(* Mutant: a region hangs from the region before it.                       *)
ParentNodeBefore(c) == c - 1

ParentNode(c) == IF Len(Regions[c].path) <= 1 THEN 0 ELSE Min(ParentCandidates(c))

Orphans ==
  {c \in DOMAIN Regions : Len(Regions[c].path) > 1 /\ ParentCandidates(c) = {}}

(* What the region says of a token beyond what its parent says, or the     *)
(* root prior for a region below the root node.                            *)
ResidualOf(c, entry, prior) ==
  LET above == IF ParentNode(c) = 0 THEN prior ELSE Regions[ParentNode(c)].emissions
  IN  [entry EXCEPT !.score = Saturate(@ - ScoreIn(above, entry.token))]

-----------------------------------------------------------------------------
(* nearest_region: the first of the nearest regions that cover the         *)
(* context, or of all when none does.                                      *)
NearestRegion(context) ==
  LET To(c) == MaskedHamming(SignatureOf(context), Regions[c])
      covering == {c \in DOMAIN Regions : Covers(Regions[c], SignatureOf(context))}
      pool == IF covering # {} THEN covering ELSE DOMAIN Regions
  IN  Min({c \in pool : \A d \in pool : To(c) <= To(d)})

(* The exact records that have emissions, and the ones whose context is    *)
(* that of record k followed by its best token.                            *)
Evidence == {k \in DOMAIN Exact : Exact[k].emissions # << >>}
Successors(k) ==
  {l \in Evidence :
     Exact[l].context = Append(Exact[k].context, Head(Exact[k].emissions).token)}

Pair(k) ==
  <<NearestRegion(Exact[k].context), NearestRegion(Exact[Min(Successors(k))].context)>>

(* One source record: its residual against the prior goes into the ledger  *)
(* of its pair of nodes.                                                   *)
TakeEvidence(ledgers, k, prior) ==
  IF Successors(k) = {} THEN ledgers
  ELSE LET best == Head(Exact[k].emissions)
           held == IF Pair(k) \in DOMAIN ledgers THEN ledgers[Pair(k)] ELSE EmptyLedger
           residual == Saturate(best.score - ScoreIn(prior, best.token))
       IN  [pair \in DOMAIN ledgers \cup {Pair(k)} |->
              IF pair = Pair(k) THEN Accumulated(held, k, residual) ELSE ledgers[pair]]

Ledgers(prior) ==
  FoldLeft(LAMBDA ledgers, k : TakeEvidence(ledgers, k, prior),
           << >>, InOrder(Evidence, <))

(* Mutant: the best edges of all are kept, whatever their source.          *)
BestOfAll(edges) ==
  {e \in edges :
     Cardinality({f \in edges : f.score > e.score \/ (f.score = e.score /\ f.dst < e.dst)})
       < MaxPredictive}

(* Of each source node the edges of the best score, lower nodes first.     *)
BestOfSource(edges) ==
  {e \in edges :
     Cardinality({f \in edges : /\ f.src = e.src
                                /\ \/ f.score > e.score
                                   \/ f.score = e.score /\ f.dst < e.dst}) < MaxPredictive}

(* build_predictive_edges.                                                 *)
PredictiveEdges(ledgers) ==
  BestOfSource({[src |-> pair[1], dst |-> pair[2], kind |-> 2, flags |-> 0, reserved |-> 0,
                 score |-> AverageScore(ledgers[pair].score, Len(ledgers[pair].tracked))] :
                  pair \in DOMAIN ledgers})

RefinementEdges ==
  {[src |-> ParentNode(c), dst |-> c, kind |-> 0, flags |-> 0, reserved |-> 0, score |-> 0] :
     c \in DOMAIN Regions}

-----------------------------------------------------------------------------
(* The reverse index: the zero-based edges by destination, source, kind.   *)
ReverseIndex(edges) ==
  InOrder(0 .. Len(edges) - 1,
    LAMBDA i, j : \/ edges[i + 1].dst < edges[j + 1].dst
                  \/ edges[i + 1].dst = edges[j + 1].dst /\ i < j)

(* The zero-based start of a run of positions, and its length.             *)
RunOf(positions) ==
  [start |-> IF positions = {} THEN 0 ELSE Min(positions) - 1, len |-> Cardinality(positions)]

(* The emissions of node n stand behind the root prior and the emissions   *)
(* of the nodes before it, eight bytes each.                               *)
EmissionStart(n, prior) ==
  IF n = 0 THEN 0
  ELSE 16 + 8 * (Len(prior)
                   + MapThenSumSet(LAMBDA c : Len(Regions[c].emissions), 1 .. n - 1))

NodeRecord(n, edges, reverse, prior) ==
  LET below == RunOf({p \in DOMAIN edges : edges[p].src = n /\ edges[p].kind = 0})
      forward == RunOf({p \in DOMAIN reverse : edges[reverse[p] + 1].dst = n})
      base == 1 + Len(Regions)
  IN  [child_start |-> below.start, child_len |-> below.len,
       forward_start |-> forward.start, forward_len |-> forward.len,
       emission_start |-> EmissionStart(n, prior),
       emission_len |-> IF n = 0 THEN 0 ELSE Len(Regions[n].emissions),
       prototype_word_start |-> base + SignatureWords * n,
       mask_word_start |-> base + SignatureWords * (Len(Regions) + 1 + n),
       radius |-> IF n = 0 THEN 0 ELSE Regions[n].radius,
       depth |-> IF n = 0 THEN 0 ELSE Regions[n].depth,
       flags |-> 0]

(* Mutant: the padding stands in front.                                    *)
StoredBehindPadding(code) == <<{}, code>>

(* The bytes of a prototype or a mask at the front of its window.          *)
Stored(code) == <<code, {}>>

(* One leaf over the whole shortlist of all regions, then HALT; behind the *)
(* operations the shortlist, and the windows of the nodes, of which the    *)
(* root's are empty.                                                       *)
RoutSection ==
  LET count == Len(Regions)
      Windows(codes) == FlattenSeq(<<Stored({})>> \o [c \in DOMAIN codes |-> Stored(codes[c])])
  IN  [ops |-> <<[op |-> "Leaf", start |-> 0, len |-> 4 * count], [op |-> "Halt"]>>,
       table_bytes |-> 8 * (count + 2 * SignatureWords * (count + 1)),
       id_at |-> [o \in {4 * (k - 1) : k \in 1 .. count} |-> o \div 4 + 1],
       words |-> [w \in 1 .. count + 1 |-> {}]
                   \o Windows([c \in DOMAIN Regions |-> Regions[c].prototype])
                   \o Windows([c \in DOMAIN Regions |-> Regions[c].mask])]

EmitEntries(prior) ==
  prior \o FlattenSeq([c \in DOMAIN Regions |->
             [k \in DOMAIN Regions[c].emissions |->
                ResidualOf(c, Regions[c].emissions[k], prior)]])

EmitSection(prior) ==
  LET entries == EmitEntries(prior)
  IN  [supported |-> TRUE, remainder |-> 16 + 8 * Len(entries), root_count |-> Len(prior),
       at |-> [o \in {16 + 8 * (k - 1) : k \in DOMAIN entries} |->
                 entries[(o - 16) \div 8 + 1]]]

(* The key of an exact record: of the signature, which stands at byte 16   *)
(* of the record, as many low bytes as the context has tokens, four at     *)
(* most.                                                                   *)
ExctLevels == 5

ByteOf(signature, bits) ==
  MapThenSumSet(LAMBDA j : 2 ^ (j - 1), {j \in DOMAIN bits : bits[j] \in signature})

RouteKey(context) ==
  [k \in 1 .. Smaller(Len(context), ExctLevels - 1) |->
     ByteOf(SignatureOf(context), KeyBytes[k])]

(* Of the records under one key, each token's average against the prior.   *)
ExctTable(key, prior) ==
  LET under == SelectSeq(Exact, LAMBDA record : RouteKey(record.context) = key)
      all == FlattenSeq([k \in DOMAIN under |-> under[k].emissions])
      means == Averages(all)
  IN  [key |-> key, total |-> Max({1, Len(all)}),
       entries |-> [k \in DOMAIN means |->
                      [means[k] EXCEPT !.score = Saturate(@ - ScoreIn(prior, means[k].token))]]]

(* build_exct: the tables of each level in the order of their keys.        *)
Exct(prior) ==
  LET keys == {RouteKey(Exact[k].context) : k \in DOMAIN Exact}
      AtLevel(level) == InOrder({key \in keys : Len(key) = level - 1}, ContextBefore)
  IN  [level \in 1 .. ExctLevels |->
         [k \in DOMAIN AtLevel(level) |-> ExctTable(AtLevel(level)[k], prior)]]

ExctBytes(exct) ==
  LET tables == FlattenSeq(exct)
  IN  12 + 4 * Len(exct)
        + MapThenSumSet(LAMBDA k : 9 + Len(tables[k].key) + 8 * Len(tables[k].entries),
                        DOMAIN tables)

(* validate_exct: five levels, each with keys of its length.               *)
ExctAccepted(exct) ==
  /\ Len(exct) = 5
  /\ \A level \in DOMAIN exct : \A k \in DOMAIN exct[level] :
       Len(exct[level][k].key) = level - 1

(* The graph with a root prior and a set of predictive edges.              *)
Assembled(prior, predictive) ==
  LET edges == InOrder(RefinementEdges \cup predictive, Graph!EdgeBefore)
      reverse == ReverseIndex(edges)
      longest == Max({1} \cup {Len(Regions[c].emissions) : c \in DOMAIN Regions})
      deepest == Max({0} \cup {Regions[c].depth : c \in DOMAIN Regions})
  IN  [head |-> [signature_words |-> SignatureWords, max_frontier |-> MaxFrontier,
                 max_emissions |-> longest, max_program_steps |-> 2,
                 depth_count |-> deepest + 1],
       nodes |-> [n \in 1 .. Len(Regions) + 1 |-> NodeRecord(n - 1, edges, reverse, prior)],
       edges |-> edges, reverse |-> reverse,
       rout |-> RoutSection, emit |-> EmitSection(prior)]

-----------------------------------------------------------------------------
(* The sections of the container in their order, with their lengths.       *)
SectionsOf(graph, exct) ==
  << [id |-> 1, length |-> 224], [id |-> 2, length |-> 1],
     [id |-> 3, length |-> 30 * Len(graph.nodes)], [id |-> 4, length |-> 20 * Len(graph.edges)],
     [id |-> 5, length |-> 8 * Len(graph.rout.words)],
     [id |-> 6, length |-> 4 + graph.emit.remainder],
     [id |-> 7, length |-> ExctBytes(exct)], [id |-> 8, length |-> 32] >>

(* R4G1Graph::parse of the emitted bytes.                                  *)
ContainerAccepted(graph, exct) ==
  LET laid == Carrier!Laid(SectionsOf(graph, exct))
  IN  /\ Carrier!CarrierAccepted(laid.table, laid.total)
      /\ Graph!GraphAccepted(graph)
      /\ ExctAccepted(exct)

NoGraph == [nodes |-> << >>]
Refused(error) == [graph |-> NoGraph, error |-> error]

(* export_r4g1 of the artifact.                                            *)
Exported ==
  LET ledgers == Ledgers(RootPrior)
      graph == Assembled(RootPrior, PredictiveEdges(ledgers))
  IN  IF \E c \in DOMAIN Regions : \E e \in ToSet(Regions[c].emissions) :
           e.token > MaxExportToken
      THEN Refused("TokenOutOfRange")
      ELSE IF Orphans # {} \/ \E pair \in DOMAIN ledgers : ledgers[pair].full
      THEN Refused("FormatLimit")
      ELSE IF ~ ContainerAccepted(graph, Exct(RootPrior)) THEN Refused("Structural")
      ELSE [graph |-> graph, error |-> "none"]

-----------------------------------------------------------------------------
(* replay_root_scores: the prior as the container states it.               *)
StatedPrior(graph) == [k \in 1 .. graph.emit.root_count |-> graph.emit.at[16 + 8 * (k - 1)]]

PriorAccepted(prior) ==
  \A k \in 1 .. Len(prior) - 1 : prior[k].token < prior[k + 1].token

(* The predictive edges of a graph, in the order of its edge section.      *)
PredictiveOf(graph) ==
  LET at == InOrder({p \in DOMAIN graph.edges : graph.edges[p].kind = 2}, <)
  IN  [k \in DOMAIN at |-> graph.edges[at[k]]]

(* The first edge of the graph between the ends of an expected one.        *)
Found(graph, edge) ==
  SelectInSeq(graph.edges,
              LAMBDA e : e.kind = edge.kind /\ e.src = edge.src /\ e.dst = edge.dst)

(* replay_r4g1, whose expected edges are recomputed from the artifact and  *)
(* the prior the container states.                                         *)
Replayed(graph) ==
  LET prior == StatedPrior(graph)
      expected == PredictiveEdges(Ledgers(prior))
      matched == {e \in expected : Found(graph, e) # 0}
      agreeing == {e \in matched : graph.edges[Found(graph, e)].score = e.score}
  IN  IF ~ Graph!GraphAccepted(graph) THEN [error |-> "Structural"]
      ELSE IF ~ PriorAccepted(prior) THEN [error |-> "InvalidRootPrior"]
      ELSE [error |-> "none", expected |-> Cardinality(expected),
            emitted |-> Len(PredictiveOf(graph)), matched |-> Cardinality(matched),
            score_matches |-> Cardinality(agreeing)]

(* Mutant: the edges of the graph that nothing expects are not counted.    *)
CompleteOneWay(r) == r.expected = r.matched /\ r.expected = r.score_matches

(* is_complete.                                                            *)
Complete(r) ==
  r.expected = r.emitted /\ r.expected = r.matched /\ r.expected = r.score_matches

(* What else a caller may hand to the replay: a graph somebody else        *)
(* assembled, with an edge more or less, another score, the same edge      *)
(* twice, another prior, a prior out of order, or depths that HEAD denies. *)
Altered(graph) ==
  LET prior == StatedPrior(graph)
      predictive == ToSet(PredictiveOf(graph))
      Without(e) == predictive \ {e}
      Twin(e) == [e EXCEPT !.reserved = 1]
  IN       {Assembled(prior, Without(e) \cup {[e EXCEPT !.score = @ - 1]}) : e \in predictive}
      \cup {Assembled(prior, Without(e)) : e \in predictive}
      \cup {Assembled(prior, predictive \cup {Twin(e)}) : e \in predictive}
      \cup {Assembled(prior, Without(e) \cup {Twin(f)}) : e \in predictive, f \in predictive}
      \cup {Assembled([prior EXCEPT ![1].score = @ + 1], predictive)}
      \cup {Assembled(Reverse(prior), predictive)}
      \cup {[graph EXCEPT !.head.depth_count = 0]}

-----------------------------------------------------------------------------
InitExport ==
  /\ exported = Refused("none")
  /\ replayed = NoGraph
  /\ report = [error |-> "none"]

ExportR4G1 ==
  /\ phase = "done"
  /\ exported = Refused("none")
  /\ exported' = Exported
  /\ UNCHANGED <<vars, replayed, report>>

ReplayR4G1(graph) ==
  /\ replayed = NoGraph
  /\ replayed' = graph
  /\ report' = Replayed(graph)
  /\ UNCHANGED <<vars, exported>>

Replay ==
  /\ exported.graph # NoGraph
  /\ \E graph \in {exported.graph} \cup Altered(exported.graph) : ReplayR4G1(graph)

ExportNext == ExportR4G1 \/ Replay
-----------------------------------------------------------------------------
(* Every valid artifact can be exported but for limits of the target: a    *)
(* node with more children than max_frontier, a pair of nodes with more    *)
(* evidence than the ledger holds, a token past i32.  The container the    *)
(* exporter lays out is never refused for anything else: ranges, order,    *)
(* reverse index and section table are what the reader expects             *)
(* (export_r4g1, r4g1_export.rs:308).                                      *)
ExportFailsOnlyAtItsLimits ==
  LET crowded == \/ \E c \in DOMAIN children : children[c] > MaxFrontier
                 \/ MaxFrontier = 0
      evidenced(pair) == {k \in Evidence : Successors(k) # {} /\ Pair(k) = pair}
  IN  /\ exported.error = "Structural" => crowded
      /\ exported.error = "FormatLimit" =>
           \E c, d \in DOMAIN Regions : Cardinality(evidenced(<<c, d>>)) > MaxEvidence
      /\ exported.error = "TokenOutOfRange" =>
           \E o \in ToSet(observations) : \E e \in ToSet(o.emissions) : e.token > MaxExportToken
      /\ exported.graph # NoGraph => ~ crowded

(* Routing over the exported graph finds, for every signature, the regions *)
(* of the artifact that cover it, and only those, in their order: the node *)
(* windows point at the words the shortlist's nodes were compiled from     *)
(* (export_r4g1, r4g1_export.rs:597).                                      *)
RoutesToCoveringRegions ==
  exported.graph # NoGraph =>
    \A code \in Code :
      LET covering == {c \in DOMAIN Regions : Covers(Regions[c], code)}
      IN  Graph!Routed(exported.graph, Padded(code))
            = Graph!Picked([c \in DOMAIN Regions |-> c], covering)

(* The regions above region c, itself included, on the paths' own terms.   *)
OnPathOf(c) ==
  {a \in DOMAIN Regions : IsPrefix(Regions[a].path, Regions[c].path)}

(* What the runtime adds up along the chain of a region is what the region *)
(* says: its own score for a token it emits, what the region above answers *)
(* for one it does not, and the root prior at the top.  Where a region     *)
(* above is silent on a token, its answer comes on top of the region's own *)
(* score: the exporter takes the score of a silent parent for zero         *)
(* (export_r4g1, r4g1_export.rs:490, and predict_top_k, r4g1.rs:1210).     *)
ResidualsAddUp ==
  exported.graph # NoGraph =>
    \A c \in DOMAIN Regions : \A token \in Tokens :
      LET Answer(n) == Graph!PromisedFrom(exported.graph, {n}, token)
          Emits(a) == SlotOf(Regions[a].emissions, token) # 0
          silent == {a \in OnPathOf(c) : ~ Emits(a)}
          deepest == CHOOSE a \in silent : \A b \in silent : Regions[b].depth <= Regions[a].depth
          below == IF silent = {} THEN 0 ELSE Answer(deepest)
      IN  /\ Emits(c) => Answer(c) = ScoreIn(Regions[c].emissions, token) + below
          /\ ~ Emits(c) /\ Len(Regions[c].path) > 1 =>
               \E a \in OnPathOf(c) :
                 Regions[a].depth = Regions[c].depth - 1 /\ Answer(c) = Answer(a)
          /\ ~ Emits(c) /\ Len(Regions[c].path) = 1 => Answer(c) = ScoreIn(RootPrior, token)

(* A transition is a pair of exact records, the second of which continues  *)
(* the context of the first by its best token.  Every predictive edge is   *)
(* the mean of the transitions between its nodes, and a transition without *)
(* an edge has a full set of better edges at its source                    *)
(* (build_predictive_edges, r4g1_export.rs:901).                           *)
PredictiveEdgesAreTheBest ==
  exported.graph # NoGraph =>
    LET edges == ToSet(PredictiveOf(exported.graph))
        transitions == {k \in Evidence : Successors(k) # {}}
        From(pair) == {k \in transitions : Pair(k) = pair}
        Mean(pair) ==
          Quotient(MapThenSumSet(LAMBDA k : Head(Exact[k].emissions).score
                                   - ScoreIn(RootPrior, Head(Exact[k].emissions).token),
                                 From(pair)),
                   Cardinality(From(pair)))
        Edges(n) == {e \in edges : e.src = n}
    IN  /\ \A e \in edges : From(<<e.src, e.dst>>) # {} /\ e.score = Mean(<<e.src, e.dst>>)
        /\ \A k \in transitions :
             \/ \E e \in edges : <<e.src, e.dst>> = Pair(k)
             \/ /\ Cardinality(Edges(Pair(k)[1])) = MaxPredictive
                /\ \A e \in Edges(Pair(k)[1]) : e.score >= Mean(Pair(k))

(* The replay is complete exactly when the predictive edges of the graph   *)
(* are, one for one and with their scores, those of the artifact under the *)
(* prior the container states, whoever assembled the graph; and what was   *)
(* exported always replays (replay_r4g1, r4g1_export.rs:182).              *)
ReplayDecides ==
  LET Key(e) == <<e.src, e.dst, e.score>>
      stated == [k \in DOMAIN PredictiveOf(replayed) |-> Key(PredictiveOf(replayed)[k])]
      expected == {Key(e) : e \in PredictiveEdges(Ledgers(StatedPrior(replayed)))}
  IN  replayed # NoGraph =>
        /\ report.error = "none" =>
             (Complete(report) <=> IsInjective(stated) /\ ToSet(stated) = expected)
        /\ replayed = exported.graph => report.error = "none" /\ Complete(report)
=============================================================================
