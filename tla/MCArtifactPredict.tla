-------------------------- MODULE MCArtifactPredict -------------------------
(***************************************************************************)
(* A small instance of Compatibility: two token kinds in contexts of up  *)
(* to two, three-bit signatures of which two bits select the bucket, and   *)
(* artifacts as the compiler writes them, over every list of three of four *)
(* regions and two exact sections, and six lists of four that overlap.     *)
(* Three regions may be active and two tokens fit the prediction, so both  *)
(* overflow, and scores end at six; a copy holds one.                      *)
(***************************************************************************)
EXTENDS Compatibility

MCBits == {0, 1, 2}
MCLowBits == {0, 1}
MCTokens == {1, 2, 3}
MCScoreMin == -20
MCContexts == UNION {[1 .. n -> {1, 2}] : n \in 0 .. 2}
MCQuestions == {<<1>>, <<2>>, <<2, 1>>, <<1, 1>>, <<1, 1, 1>>}

(* <<1>> and <<2, 1>> collide, and so do <<2>> and <<1, 2>>.               *)
MCHashOf(c) == IF c = << >> THEN 0 ELSE c[Len(c)]
MCSignatureOf(c) == {i - 1 : i \in {j \in 1 .. Len(c) : c[j] = 1}}
                      \cup (IF Len(c) = 2 THEN {2} ELSE {})

E(token, score) == [token |-> token, score |-> score]
Exact(c, emissions) == [hash |-> MCHashOf(c), context |-> c, emissions |-> emissions]

MCExactSections ==
  { << Exact(<<1>>, <<E(2, 5), E(1, 3), E(3, 0)>>) >>,
    << Exact(<<1>>, <<E(1, 2)>>), Exact(<<2, 1>>, <<E(3, 1)>>), Exact(<<1, 2>>, <<E(2, 1)>>) >> }

(* radius, depth, prototype, emissions: the mask of a compiled region is full. *)
MCRegionData ==
  { [radius |-> 1, depth |-> 1, prototype |-> {},     emissions |-> <<E(1, 2), E(2, 0)>>],
    [radius |-> 2, depth |-> 2, prototype |-> {0},    emissions |-> <<E(2, 3)>>],
    [radius |-> 0, depth |-> 2, prototype |-> {1, 2}, emissions |-> <<E(3, 4), E(1, -2)>>],
    [radius |-> 2, depth |-> 1, prototype |-> {0, 2}, emissions |-> <<E(1, 1), E(3, -1)>>] }

(* Three different regions in any order, one region, or none.              *)
MCRegionLists ==
  {data \in UNION {[1 .. n -> MCRegionData] : n \in {0, 1, 3}} : IsInjective(data)}

Numbered(data) ==
  [i \in DOMAIN data |->
     [region_id |-> i, path_id |-> i, depth |-> data[i].depth, radius |-> data[i].radius,
      prototype |-> data[i].prototype, mask |-> MCBits, emissions |-> data[i].emissions]]

(* Regions that cover most signatures: what the ones of more margin say is *)
(* little, so that later tokens push earlier ones out of the output, come  *)
(* back, and meet the end of the range.                                    *)
MCOverlapping ==
  { [radius |-> 3, depth |-> 1, prototype |-> {},     emissions |-> <<E(1, -1), E(2, -2)>>],
    [radius |-> 3, depth |-> 2, prototype |-> {0},    emissions |-> <<E(3, 1), E(1, 3)>>],
    [radius |-> 3, depth |-> 1, prototype |-> {1, 2}, emissions |-> <<E(2, 4), E(1, 3)>>],
    [radius |-> 2, depth |-> 2, prototype |-> {0, 2}, emissions |-> <<E(1, -4), E(3, 2)>>] }

MCOverlappingArtifacts ==
  {[exact |-> << >>, regions |-> Numbered(data), index |-> BuildRegionIndex(Numbered(data))] :
     data \in {d \in [1 .. 4 -> MCOverlapping] : IsInjective(d) /\ d[1].radius = 2}}

MCArtifacts ==
  {[exact |-> exact, regions |-> Numbered(data), index |-> BuildRegionIndex(Numbered(data))] :
     exact \in MCExactSections,
     data \in MCRegionLists}
    \cup MCOverlappingArtifacts
=============================================================================
