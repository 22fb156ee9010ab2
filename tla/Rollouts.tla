------------------------------ MODULE Rollouts ------------------------------
(***************************************************************************)
(* The evaluation of greedy generation against recorded rollouts of the    *)
(* teacher: which rollout files the parser accepts (rollout.rs), and the   *)
(* loop of evaluate_rollouts (parity.rs), which generates for each rollout *)
(* from a state of its own with as much room as the teacher used.          *)
(*                                                                         *)
(* The identities the file must share with the artifact are one truth      *)
(* value.  An evaluation takes place of the caller's own generations, so   *)
(* the state of Generation serves as the evaluation's.                     *)
(***************************************************************************)
EXTENDS Generation

CONSTANTS
  RolloutFiles,       (* rollout files with all their metadata             *)
  MaxContextTokens,   (* MAX_CONTEXT_TOKENS                                *)
  MaxRolloutTokens    (* MAX_ROLLOUT_TOKENS                                *)

(* A position is zero-based, and NoEos where the file has "-".             *)
NoEos == -1
Rollout == [prompt : Seq(Tokens), generated : Seq(Tokens), eos_position : Nat \cup {NoEos}]
RolloutFile == [max_context : Nat, max_tokens : Nat, eos_token : Nat, rollouts : Seq(Rollout)]

ASSUME RolloutFilesAssumption == RolloutFiles \subseteq RolloutFile
ASSUME RolloutLimitsAssumption == MaxContextTokens \in Nat /\ MaxRolloutTokens \in Nat

VARIABLES
  file,        (* the corpus under evaluation                              *)
  evaluation,  (* "none", "next", "generating", "done" or the error        *)
  scored,      (* rollouts compared                                        *)
  parity       (* the RolloutParityReport                                  *)

rolloutVars == <<file, evaluation, scored, parity>>

NoFile == [max_context |-> 0, max_tokens |-> 0, eos_token |-> 0, rollouts |-> << >>]
NoParity == [sequence_exact_matches |-> 0, eos_position_matches |-> 0, eos_samples |-> 0]

-----------------------------------------------------------------------------
(* parse_rollout: the recorded position, if any, must be one of EOS; that  *)
(* it is the first, or that none means there is none, is not asked.        *)
RolloutAccepted(r, f) ==
  /\ Len(r.prompt) \in 1 .. f.max_context
  /\ Len(r.generated) \in 1 .. f.max_tokens
  /\ r.eos_position # NoEos =>
       /\ r.eos_position < Len(r.generated)
       /\ r.generated[r.eos_position + 1] = f.eos_token

(* RolloutCorpus::parse.                                                   *)
FileAccepted(f) ==
  /\ f.max_context \in 1 .. MaxContextTokens
  /\ f.max_tokens \in 1 .. MaxRolloutTokens
  /\ f.rollouts # << >>
  /\ \A i \in DOMAIN f.rollouts : RolloutAccepted(f.rollouts[i], f)

(* eos_position: the first EOS.                                            *)
EosPosition(tokens, eos) ==
  IF Contains(tokens, eos) THEN SelectInSeq(tokens, LAMBDA t : t = eos) - 1 ELSE NoEos

-----------------------------------------------------------------------------
InitRollouts ==
  /\ Init
  /\ file = NoFile
  /\ evaluation = "none"
  /\ scored = 0
  /\ parity = NoParity

(* The command parses the file, and evaluate_rollouts tests its identity.  *)
BeginEvaluation(f, same_identity) ==
  /\ evaluation = "none" /\ history = << >> /\ ~ generating
  /\ file' = f
  /\ evaluation' = IF ~ FileAccepted(f) THEN "Malformed"
                   ELSE IF ~ same_identity THEN "IdentityMismatch" ELSE "next"
  /\ UNCHANGED <<vars, scored, parity>>

Current == file.rollouts[scored + 1]

(* Mutant: the room is that of the longest rollout.                        *)
BeginRolloutWide ==
  /\ evaluation = "next" /\ scored < Len(file.rollouts)
  /\ evaluation' = "generating"
  /\ state' = Seeded(Current.prompt) /\ history' = Current.prompt
  /\ generating' = TRUE
  /\ room' = file.max_tokens
  /\ output' = << >> /\ exact_steps' = 0 /\ graph_steps' = 0
  /\ UNCHANGED <<artifact, stop, file, scored, parity>>

(* A fresh state, the prompt, and the call of generate_greedy_into.        *)
BeginRollout ==
  /\ evaluation = "next" /\ scored < Len(file.rollouts)
  /\ evaluation' = "generating"
  /\ state' = Seeded(Current.prompt) /\ history' = Current.prompt
  /\ generating' = TRUE
  /\ room' = Len(Current.generated)
  /\ output' = << >> /\ exact_steps' = 0 /\ graph_steps' = 0
  /\ UNCHANGED <<artifact, stop, file, scored, parity>>

One(condition) == IF condition THEN 1 ELSE 0

Compare ==
  /\ evaluation = "generating" /\ ~ generating
  /\ evaluation' = "next"
  /\ scored' = scored + 1
  /\ parity' =
       [sequence_exact_matches |-> parity.sequence_exact_matches + One(output = Current.generated),
        eos_position_matches |-> parity.eos_position_matches
          + One(EosPosition(output, file.eos_token) = Current.eos_position),
        eos_samples |-> parity.eos_samples + One(Current.eos_position # NoEos)]
  /\ UNCHANGED <<vars, file>>

Report ==
  /\ evaluation = "next" /\ scored = Len(file.rollouts)
  /\ evaluation' = "done"
  /\ UNCHANGED <<vars, file, scored, parity>>

EvaluationStep ==
  \/ BeginRollout
  \/ evaluation = "generating" /\ GenerateStep /\ UNCHANGED rolloutVars
  \/ Compare
  \/ Report

RolloutsNext ==
  \/ evaluation = "none" /\ Next /\ UNCHANGED rolloutVars
  \/ \E f \in RolloutFiles : \E same_identity \in BOOLEAN : BeginEvaluation(f, same_identity)
  \/ EvaluationStep

(* The evaluation is one sequential call, like the generations it makes.   *)
RolloutsSpec ==
  /\ InitRollouts /\ [][RolloutsNext]_<<vars, rolloutVars>>
  /\ WF_<<vars, rolloutVars>>(evaluation = "none" /\ GenerateStep /\ UNCHANGED rolloutVars)
  /\ WF_<<vars, rolloutVars>>(EvaluationStep)

-----------------------------------------------------------------------------
(* The greedy continuation of a prompt, n tokens long or up to where the   *)
(* artifact serves nothing, without a state that rolls.                    *)
Continuation(prompt, n) ==
  LET grown[k \in 0 .. n] ==
        IF k = 0 THEN prompt
        ELSE LET served == artifact[LastTokens(grown[k - 1], ContextCapacity)]
             IN  IF Len(grown[k - 1]) < Len(prompt) + k - 1 \/ served.tokens = << >>
                 THEN grown[k - 1] ELSE Append(grown[k - 1], Head(served.tokens))
  IN  SubSeq(grown[n], Len(prompt) + 1, Len(grown[n]))

(* Each rollout is judged by itself, whatever was generated for the ones   *)
(* before it: it counts as reproduced exactly when the teacher's tokens    *)
(* are the greedy continuation of its prompt, and its EOS as met exactly   *)
(* when the continuation has it where the file says.  The two agree where  *)
(* the file is truthful; the parser also takes a position that is not the  *)
(* first EOS, or none although there is one, and such a rollout can be     *)
(* reproduced and still miss its EOS (evaluate_rollouts, parity.rs:385,    *)
(* and parse_rollout, rollout.rs:210).                                     *)
RolloutsJudgedAlone ==
  LET judged == 1 .. scored
      Continued(i) == Continuation(file.rollouts[i].prompt, Len(file.rollouts[i].generated))
      reproduced == {i \in judged : Continued(i) = file.rollouts[i].generated}
      met == {i \in judged :
                EosPosition(Continued(i), file.eos_token) = file.rollouts[i].eos_position}
      Truthful(r) == r.eos_position = EosPosition(r.generated, file.eos_token)
  IN  /\ parity.sequence_exact_matches = Cardinality(reproduced)
      /\ parity.eos_position_matches = Cardinality(met)
      /\ \A i \in reproduced : i \in met <=> Truthful(file.rollouts[i])
=============================================================================
