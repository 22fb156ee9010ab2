---------------------------- MODULE MCGeneration ----------------------------
(***************************************************************************)
(* Generation over artifacts as the compiler writes them: what they serve  *)
(* is what module Artifact predicts.  The generation state holds two       *)
(* tokens, so every run of three drops one.  The rollout files hold what   *)
(* the artifacts generate and what they do not, and among the rejected     *)
(* ones a prompt, a sequence and a position that are out of bounds.        *)
(***************************************************************************)
EXTENDS Rollouts

MCBits == {0, 1, 2}
MCLowBits == {0, 1}
MCTokens == {1, 2, 3}
MCContexts == UNION {[1 .. n -> MCTokens] : n \in 0 .. 2}
MCHashOf(c) == IF c = << >> THEN 0 ELSE c[Len(c)]
MCSignatureOf(c) == {i - 1 : i \in {j \in 1 .. Len(c) : c[j] = 1}}
                      \cup (IF Len(c) = 2 THEN {2} ELSE {})

A == INSTANCE Artifact WITH
       Bits <- MCBits, LowBits <- MCLowBits, MaxActive <- 2, Contexts <- MCContexts,
       HashOf <- MCHashOf, SignatureOf <- MCSignatureOf, MaxContext <- 2,
       OutputCapacity <- 2, ScoreMin <- -20, ScoreMax <- 20

E(token, score) == [token |-> token, score |-> score]
Exact(c, emissions) == [hash |-> MCHashOf(c), context |-> c, emissions |-> emissions]
Region(i, radius, prototype, emissions) ==
  [region_id |-> i, path_id |-> i, depth |-> 1, radius |-> radius,
   prototype |-> prototype, mask |-> MCBits, emissions |-> emissions]

Built(exact, regions) ==
  [exact |-> exact, regions |-> regions, index |-> A!BuildRegionIndex(regions)]

MCBuilt ==
  << Built(<< Exact(<<1>>, <<E(2, 5)>>), Exact(<<2, 1>>, <<E(3, 1)>>) >>,
          << Region(1, 1, {2}, <<E(1, 2), E(3, 0)>>) >>),
    Built(<< Exact(<<2, 3>>, <<E(1, 4), E(2, 1)>>), Exact(<<3>>, <<E(3, 1)>>) >>,
          << Region(1, 2, {0, 1}, <<E(3, 2)>>), Region(2, 0, {}, <<E(2, 1)>>) >>),
    Built(<< >>, << Region(1, 2, {0, 2}, <<E(1, 1), E(2, 0)>>),
                    Region(2, 1, {1, 2}, <<E(2, 3)>>) >>) >>

(* What each of them serves for every context of the state.                *)
ServedBy(built) ==
  [c \in MCContexts |->
     LET p == A!Predicted(built, c, "PreferExact")
     IN  [source |-> p.summary.source,
          tokens |-> [k \in DOMAIN p.prediction.entries |-> p.prediction.entries[k].token]]]

MCArtifacts == {ServedBy(MCBuilt[i]) : i \in DOMAIN MCBuilt}

MCPrompts == {<<1>>, <<2, 1>>, <<3, 2, 3>>}

R(prompt, generated, eos) == [prompt |-> prompt, generated |-> generated, eos_position |-> eos]
F(max_context, max_tokens, rollouts) ==
  [max_context |-> max_context, max_tokens |-> max_tokens, eos_token |-> 3, rollouts |-> rollouts]

(* Each of the first three files holds what one artifact generates, with a *)
(* position that is the first EOS, a later one or none, and other tokens.  *)
MCRolloutFiles ==
  { F(2, 3, << R(<<1>>, <<2, 1>>, NoEos), R(<<1>>, <<2, 1, 3>>, 2),
               R(<<2, 1>>, <<3, 1, 2>>, NoEos), R(<<2, 1>>, <<3, 2>>, 0) >>),
    F(2, 2, << R(<<1>>, <<3, 3>>, 1), R(<<1>>, <<3>>, 0), R(<<2, 2>>, <<1>>, NoEos) >>),
    F(2, 3, << R(<<1>>, <<1, 2, 1>>, NoEos), R(<<2>>, <<1, 3>>, 1) >>),
    F(2, 2, << R(<<1>>, <<2, 1, 3>>, 2) >>), F(2, 2, << R(<<1, 1, 1>>, <<2>>, NoEos) >>),
    F(2, 2, << R(<<1>>, <<2, 3>>, 0) >>), F(3, 2, << R(<<1>>, <<2>>, NoEos) >>),
    F(2, 4, << R(<<1>>, <<2>>, NoEos) >>), F(2, 2, << >>) }
=============================================================================
