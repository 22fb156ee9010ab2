----------------------------- MODULE MCPipeline -----------------------------
(***************************************************************************)
(* A small instance of Pipeline: contexts of one or two of three tokens,   *)
(* four-bit signatures of which two bits select the bucket, and every      *)
(* corpus of up to three of six observations, repeated and in any order,   *)
(* two of which conflict and one of which has too long a context.  Four    *)
(* corpora more reach the limits of the formats: one that fills a path     *)
(* level, one with three transitions between the same nodes, one with      *)
(* three regions around one, and one with a token past the export's range. *)
(***************************************************************************)
EXTENDS Pipeline

MCBits == {0, 1, 2, 3}
MCLowBits == {0, 1}
MCKeyBytes == << <<0, 1>>, <<2>>, <<3>>, << >> >>
MCTokens == 1 .. 4
MCScoreMin == -20
MCContexts == UNION {[1 .. n -> 1 .. 3] : n \in 0 .. 3}

(* Contexts collide, and the hashes run against the contexts.              *)
MCHashOf(c) == IF c = << >> THEN 0 ELSE 4 - c[Len(c)]
MCSignatureOf(c) ==
  CASE c \in {<<1>>, <<3>>}        -> {0, 1, 2}
    [] c \in {<<2>>, <<3, 1>>}     -> {3}
    [] c = <<1, 1>>                -> {0, 1}
    [] c = <<2, 1>>                -> {1, 3}
    [] c = <<2, 3>>                -> {2}
    [] c = <<3, 2>>                -> {1}
    [] c = <<3, 3>>                -> {0}
    [] OTHER                       -> {}

O(c, emissions) == [context |-> c, emissions |-> emissions]
E(token, score) == [token |-> token, score |-> score]

MCObservations ==
  { O(<<1>>, <<E(1, 7), E(2, 4)>>),
    O(<<1>>, <<E(2, 7), E(1, 4)>>),
    O(<<2>>, <<E(2, 3), E(3, -4)>>),
    O(<<1, 1>>, <<E(3, 5), E(1, -3)>>),
    O(<<2, 1>>, <<E(1, 4)>>),
    O(<<1, 2, 2>>, <<E(2, 1)>>) }

MCLong ==
  << O(<<2, 2>>, <<E(1, 2), E(2, 1)>>), O(<<2, 1>>, <<E(1, 4)>>),
     O(<<1, 1>>, <<E(3, 5), E(1, -3)>>), O(<<2>>, <<E(2, 3), E(3, -4)>>),
     O(<<1>>, <<E(1, 7), E(2, 4)>>), O(<<1, 2>>, <<E(2, 2), E(3, 2)>>) >>

(* Three contexts, two of them in one region, that continue each other.    *)
MCContinued ==
  << O(<<1>>, <<E(1, 7), E(2, 4)>>), O(<<3>>, <<E(1, 2)>>), O(<<2>>, <<E(2, 3)>>),
     O(<<1, 1>>, <<E(2, 5)>>), O(<<3, 1>>, <<E(3, 1), E(1, -2)>>), O(<<2, 2>>, <<E(1, -4)>>) >>

(* Three signatures around one, and a token the target format has no room  *)
(* for.                                                                    *)
MCStar ==
  << O(<<1, 2>>, <<E(1, 2)>>), O(<<2, 3>>, <<E(2, 1)>>),
     O(<<3, 2>>, <<E(2, 4)>>), O(<<3, 3>>, <<E(1, 3)>>) >>
MCWideToken == << O(<<1>>, <<E(4, 3)>>), O(<<2>>, <<E(1, 3)>>) >>

MCCorpora ==
  UNION {[1 .. n -> MCObservations] : n \in 0 .. 3}
    \cup {MCLong, MCContinued, MCStar, MCWideToken}

C(regions, iterations, margin, emissions, exact) ==
  [max_regions |-> regions, iterations |-> iterations, overlap_margin |-> margin,
   max_region_emissions |-> emissions, include_exact |-> exact]

MCConfigs ==
  { C(6, 1, 0, 1, TRUE), C(2, 2, 1, 2, TRUE), C(1, 1, 0, 2, FALSE), C(5, 1, 2, 3, FALSE),
    C(3, 2, 0, 2, TRUE), C(1, 1, 1, 3, TRUE), C(0, 1, 0, 1, TRUE) }

(* A corpus the compiler never saw, some contexts of which it did, or none. *)
MCHeldOut ==
  { << >>, << O(<<3, 1>>, <<E(3, 9), E(1, 2)>>), O(<<1, 2>>, <<E(2, 1)>>),
              O(<<1, 1>>, <<E(1, 6), E(3, 5)>>) >> }

T(exact, graph, coverage, recall) ==
  [exact_top1 |-> exact, graph_top1 |-> graph, graph_coverage |-> coverage,
   graph_top_k_recall |-> recall]

MCThresholds == {T(10000, 0, 0, 0), T(0, 5000, 10000, 3333)}

MCLimits == [exact |-> 6, regions |-> 8, emissions |-> 16, entries |-> 40, bytes |-> 3000]
=============================================================================
