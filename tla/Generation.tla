----------------------------- MODULE Generation -----------------------------
(***************************************************************************)
(* Greedy generation over one artifact (generation.rs): the rolling        *)
(* context GenerationState and the loop of generate_greedy_into.  An       *)
(* artifact is the function from contexts to what predict answers: the     *)
(* source of the summary and the tokens of the prediction in their order.  *)
(***************************************************************************)
EXTENDS Integers, SequencesExt

CONSTANTS
  Tokens,           (* token IDs                                           *)
  ContextCapacity,  (* CONTEXT, the capacity of the generation state       *)
  Artifacts,        (* the artifacts a caller may generate from            *)
  Prompts,          (* the prompts a caller may seed                       *)
  MaxHistory        (* bound on the tokens that pass through the state     *)

Context == BoundedSeq(Tokens, ContextCapacity)

(* GenerationState::new refuses a capacity above MAX_CONTEXT_TOKENS, so    *)
(* predict never refuses the state's context as too long.                  *)
ASSUME ContextCapacityAssumption == ContextCapacity \in Nat
ASSUME ArtifactsAssumption ==
  \A a \in Artifacts :
    /\ a = [c \in Context |-> a[c]]
    /\ \A c \in Context :
         a[c] \in [source : {"Exact", "Graph", "Novel"}, tokens : Seq(Tokens)]
ASSUME PromptsAssumption == \A p \in Prompts : p \in Seq(Tokens)

VARIABLES
  artifact,     (* the artifact the caller generates from                  *)
  state,        (* the initialized tokens of the GenerationState           *)
  generating,   (* a call of generate_greedy_into is under way             *)
  room,         (* the length of the caller's output slice                 *)
  output,       (* the tokens written to it                                *)
  exact_steps,
  graph_steps,
  stop,         (* the stop reason of the last call, "None" before any     *)
  history       (* every token since the last seed, for the properties     *)

vars == <<artifact, state, generating, room, output, exact_steps, graph_steps,
          stop, history>>

(* push: append below capacity, else drop the oldest token; a state of     *)
(* capacity zero stays empty.                                              *)
Pushed(tokens, token) ==
  IF ContextCapacity = 0 THEN tokens
  ELSE IF Len(tokens) < ContextCapacity THEN Append(tokens, token)
       ELSE Append(Tail(tokens), token)

(* seed: the pushes of the last ContextCapacity tokens of the prompt.      *)
Seeded(prompt) ==
  LET start == IF Len(prompt) > ContextCapacity THEN Len(prompt) - ContextCapacity ELSE 0
  IN  IF ContextCapacity = 0 THEN << >> ELSE SubSeq(prompt, start + 1, Len(prompt))

Init ==
  /\ artifact \in Artifacts
  /\ state = << >>
  /\ generating = FALSE
  /\ room = 0
  /\ output = << >>
  /\ exact_steps = 0
  /\ graph_steps = 0
  /\ stop = "None"
  /\ history = << >>

Seed(prompt) ==
  /\ ~ generating
  /\ state' = Seeded(prompt)
  /\ history' = prompt
  /\ UNCHANGED <<artifact, generating, room, output, exact_steps, graph_steps, stop>>

(* The caller pushes a token of its own.                                   *)
Push(token) ==
  /\ ~ generating
  /\ Len(history) < MaxHistory
  /\ state' = Pushed(state, token)
  /\ history' = Append(history, token)
  /\ UNCHANGED <<artifact, generating, room, output, exact_steps, graph_steps, stop>>

(* generate_greedy_into on an output slice of length n; the state carries  *)
(* over from the calls before.                                             *)
Begin(n) ==
  /\ ~ generating
  /\ Len(history) + n <= MaxHistory
  /\ generating' = TRUE
  /\ room' = n
  /\ output' = << >>
  /\ exact_steps' = 0
  /\ graph_steps' = 0
  /\ UNCHANGED <<artifact, state, stop, history>>

Served == artifact[state]

(* The prediction has a first token and a source that counts it.           *)
HasNext == Served.tokens # << >> /\ Served.source # "Novel"

WriteToken ==
  LET next == Head(Served.tokens)
  IN  /\ generating
      /\ Len(output) < room
      /\ HasNext
      /\ exact_steps' = IF Served.source = "Exact" THEN exact_steps + 1 ELSE exact_steps
      /\ graph_steps' = IF Served.source = "Graph" THEN graph_steps + 1 ELSE graph_steps
      /\ output' = Append(output, next)
      /\ state' = Pushed(state, next)
      /\ history' = Append(history, next)
      /\ UNCHANGED <<artifact, generating, room, stop>>

(* Mutant: the loop is left and the return behind it reports a full output. *)
StopNovelAsFull ==
  /\ generating
  /\ Len(output) < room
  /\ ~ HasNext
  /\ generating' = FALSE
  /\ stop' = "OutputFull"
  /\ UNCHANGED <<artifact, state, room, output, exact_steps, graph_steps, history>>

StopNovel ==
  /\ generating
  /\ Len(output) < room
  /\ ~ HasNext
  /\ generating' = FALSE
  /\ stop' = "Novel"
  /\ UNCHANGED <<artifact, state, room, output, exact_steps, graph_steps, history>>

StopFull ==
  /\ generating
  /\ Len(output) = room
  /\ generating' = FALSE
  /\ stop' = "OutputFull"
  /\ UNCHANGED <<artifact, state, room, output, exact_steps, graph_steps, history>>

GenerateStep == WriteToken \/ StopNovel \/ StopFull

Next ==
  \/ \E prompt \in Prompts : Seed(prompt)
  \/ \E token \in Tokens : Push(token)
  \/ \E n \in 0 .. MaxHistory : Begin(n)
  \/ GenerateStep

(* A generation is one sequential call: once begun it runs to its return.  *)
Spec == Init /\ [][Next]_vars /\ WF_vars(GenerateStep)

-----------------------------------------------------------------------------
(* The last n tokens of a sequence, or all of it when it is shorter.       *)
LastTokens(tokens, n) ==
  SubSeq(tokens, (IF Len(tokens) > n THEN Len(tokens) - n ELSE 0) + 1, Len(tokens))

(* What a call returns can be worked out afterwards from the tokens since  *)
(* the seed alone: each token written is the first one served for the      *)
(* tokens before it, the two counters are the numbers of steps served by   *)
(* exact records and by the graph, and the reason to stop is a full output *)
(* exactly when there is no room left, else that nothing is served for     *)
(* what stands there now.  The rolling context it leaves is the newest     *)
(* ContextCapacity of these tokens, whatever was seeded, pushed and        *)
(* generated before (generate_greedy_into, generation.rs:140-194).         *)
CallsReportTheirSteps ==
  [][generating /\ ~ generating' =>
       LET Answer(n) == artifact[LastTokens(SubSeq(history, 1, n), ContextCapacity)]
           before == Len(history) - Len(output)
           Steps(source) == {k \in DOMAIN output : Answer(before + k - 1).source = source}
           last == Answer(Len(history))
       IN  /\ state' = LastTokens(history, ContextCapacity)
           /\ \A k \in DOMAIN output :
                /\ output[k] = Head(Answer(before + k - 1).tokens)
                /\ output[k] = history[before + k]
           /\ exact_steps' = Cardinality(Steps("Exact"))
           /\ graph_steps' = Cardinality(Steps("Graph"))
           /\ exact_steps' + graph_steps' = Len(output')
           /\ stop' = IF Len(output') = room THEN "OutputFull" ELSE "Novel"
           /\ stop' = "Novel" => last.tokens = << >> \/ last.source = "Novel"]_vars
=============================================================================
