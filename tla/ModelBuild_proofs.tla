--------------------------- MODULE ModelBuild_proofs ---------------------------
(***************************************************************************)
(* What one run at a time keeps true of a work directory, for every set of *)
(* invocations and every request: MaxRunning = 1 is the hypothesis of the  *)
(* theorems, because nothing in the code makes two runs exclude each       *)
(* other.                                                                  *)
(***************************************************************************)
EXTENDS ModelBuild, FiniteSetTheorems, TLAPS

Stages ==
  {"asked", "admitted", "fetching", "reading", "opening", "filling", "done", "stopped"}

TypeOK ==
  /\ stage \in [Runs -> Stages]
  /\ written \in [Runs -> Nat]
  /\ held \in [Runs -> Contents \cup {Absent}]
  /\ source \in [SourceFiles -> Revisions \cup {Absent}]
  /\ pinned \in Revisions \cup {Absent}
  /\ source_dir \in BOOLEAN
  /\ work \in [Outputs -> Contents \cup {Absent, Partial}]

OneRuns == \A r, s \in Running : r = s

-----------------------------------------------------------------------------
(* What v has to be as the output x of the request q, in a work directory  *)
(* w that holds the outputs it is derived from.                            *)
Right(w, q, x, v) ==
  /\ x = "observations" =>
       v \in Captures /\ v.corpus = q.corpus /\ v.revision = q.revision
  /\ x = "rollouts" => v \in Captures /\ v.corpus = q.corpus
  /\ x \in {"held_out_observations", "held_out_rollouts"} =>
       v \in Captures /\ v.corpus = q.held_out
  /\ x = "artifact" => v \in Artifacts /\ v.compiled = w["observations"]
  /\ x \in {"parity", "held_out_parity", "rollout_parity"} =>
       v \in Reports /\ v.artifact = w["artifact"]
  /\ x = "parity" => v.measured = w["observations"]
  /\ x = "held_out_parity" => v.measured = w["held_out_observations"]
  /\ x = "rollout_parity" =>
       v.measured = w[IF q.held_out = NoCorpus THEN "rollouts" ELSE "held_out_rollouts"]

(* The outputs Right looks at in w.                                        *)
Reads(q, x) ==
  CASE x = "artifact" -> {"observations"}
    [] x = "parity" -> {"artifact", "observations"}
    [] x = "held_out_parity" -> {"artifact", "held_out_observations"}
    [] x = "rollout_parity" ->
         {"artifact", IF q.held_out = NoCorpus THEN "rollouts" ELSE "held_out_rollouts"}
    [] OTHER -> {}

(* The script that captures x writes its rollouts next.                    *)
RolloutsNext(q, x) == q.rollouts /\ x \in {"observations", "held_out_observations"}

RunInv(r) ==
  LET plan == Plan(Asks(r))
  IN  /\ written[r] <= Len(plan)
      /\ stage[r] \in {"asked", "admitted", "fetching"} => written[r] = 0
      /\ stage[r] \in {"opening", "filling"} =>
           /\ written[r] < Len(plan)
           /\ held[r] \in Contents
           /\ Right(work, Asks(r), plan[written[r] + 1], held[r])
      /\ stage[r] = "reading" /\ written[r] > 0 =>
           /\ held[r] = work[plan[written[r]]]
           /\ ~ RolloutsNext(Asks(r), plan[written[r]])
      /\ stage[r] = "done" => written[r] = Len(plan)

(* The run o wrote everything there is: the first n outputs of its plan.   *)
Owns(o, n) ==
  LET plan == Plan(Asks(o))
  IN  /\ n \in {written[o], written[o] + 1}
      /\ n <= Len(plan)
      /\ \A x \in Outputs : work[x] # Absent <=> \E i \in 1 .. n : plan[i] = x
      /\ \A i \in 1 .. written[o] :
           work[plan[i]] \in Contents /\ Right(work, Asks(o), plan[i], work[plan[i]])
      /\ n = written[o] + 1 =>
           work[plan[n]] = Partial /\ stage[o] \in {"filling", "stopped"}
      /\ stage[o] = "filling" => n = written[o] + 1
      /\ \A s \in Runs \ {o} :
           /\ written[s] = 0 /\ stage[s] # "filling"
           /\ n > 0 /\ s \in Running => Asks(s).kind = "download"

WorkInv ==
  /\ \A r \in Runs : RunInv(r)
  /\ \E o \in Runs : \E n \in Nat : Owns(o, n)

IInv == TypeOK /\ OneRuns /\ WorkInv

-----------------------------------------------------------------------------
PlanFacts(q, plan) ==
  /\ plan \in Seq(Outputs)
  /\ \A i, j \in 1 .. Len(plan) : plan[i] = plan[j] => i = j
  /\ q.kind # "download" => Len(plan) > 0 /\ plan[1] = "observations"
  /\ q.kind = "download" => Len(plan) = 0
  /\ \A i \in 1 .. Len(plan) :
       /\ RolloutsNext(q, plan[i]) =>
            /\ i < Len(plan)
            /\ plan[i] = "observations" => plan[i + 1] = "rollouts"
            /\ plan[i] = "held_out_observations" => plan[i + 1] = "held_out_rollouts"
       /\ plan[i] \in {"rollouts", "held_out_rollouts"} => i > 1 /\ RolloutsNext(q, plan[i - 1])
       /\ q.kind # "build" /\ plan[i] = "parity" => i > 1 /\ plan[i - 1] = "artifact"
       /\ plan[i] = "held_out_observations" => q.held_out # NoCorpus
       /\ \A y \in Reads(q, plan[i]) : \E j \in 1 .. i - 1 : plan[j] = y

Leaves(q, plan) ==
  /\ \E i \in 1 .. Len(plan) : plan[i] = "artifact"
  /\ \E i \in 1 .. Len(plan) : plan[i] = "parity"
  /\ q.held_out # NoCorpus => \E i \in 1 .. Len(plan) : plan[i] = "held_out_parity"
  /\ q.kind = "build" /\ q.rollouts => \E i \in 1 .. Len(plan) : plan[i] = "rollout_parity"

LEMMA PlanIsOrdered ==
  ASSUME NEW q \in Request
  PROVE  PlanFacts(q, Plan(q))
<1>1. q.rollouts \in BOOLEAN /\ q.kind \in {"build", "compile_source", "download"}
  BY DEF Request
<1>2. CASE q.kind = "download"
  BY <1>2 DEF Plan, PlanFacts
<1>3. CASE q.kind = "compile_source"
  <2>1. CASE q.rollouts
    <3>1. Plan(q) = <<"observations", "rollouts", "artifact", "parity">>
      BY <1>3, <2>1 DEF Plan, CompilePlan
    <3> QED
      BY <1>3, <2>1, <3>1 DEF PlanFacts, Outputs, RolloutsNext, Reads
  <2>2. CASE ~ q.rollouts
    <3>1. Plan(q) = <<"observations", "artifact", "parity">>
      BY <1>3, <2>2 DEF Plan, CompilePlan
    <3> QED
      BY <1>3, <2>2, <3>1 DEF PlanFacts, Outputs, RolloutsNext, Reads
  <2> QED
    BY <1>1, <2>1, <2>2
<1>4. CASE q.kind = "build"
  <2>1. CASE ~ q.rollouts /\ q.held_out = NoCorpus
    <3>1. Plan(q) = <<"observations", "artifact", "parity">>
      BY <1>4, <2>1 DEF Plan, BuildPlan
    <3> QED
      BY <1>4, <2>1, <3>1 DEF PlanFacts, Outputs, RolloutsNext, Reads
  <2>2. CASE ~ q.rollouts /\ q.held_out # NoCorpus
    <3>1. Plan(q) =
            <<"observations", "held_out_observations", "artifact", "parity", "held_out_parity">>
      BY <1>4, <2>2 DEF Plan, BuildPlan
    <3> QED
      BY <1>4, <2>2, <3>1 DEF PlanFacts, Outputs, RolloutsNext, Reads
  <2>3. CASE q.rollouts /\ q.held_out = NoCorpus
    <3>1. Plan(q) = <<"observations", "rollouts", "artifact", "parity", "rollout_parity">>
      BY <1>4, <2>3 DEF Plan, BuildPlan
    <3> QED
      BY <1>4, <2>3, <3>1 DEF PlanFacts, Outputs, RolloutsNext, Reads
  <2>4. CASE q.rollouts /\ q.held_out # NoCorpus
    <3>1. Plan(q) =
            <<"observations", "rollouts", "held_out_observations", "held_out_rollouts",
              "artifact", "parity", "held_out_parity", "rollout_parity">>
      BY <1>4, <2>4 DEF Plan, BuildPlan
    <3> QED
      BY <1>4, <2>4, <3>1 DEF PlanFacts, Outputs, RolloutsNext, Reads
  <2> QED
    BY <1>1, <2>1, <2>2, <2>3, <2>4
<1> QED
  BY <1>1, <1>2, <1>3, <1>4

LEMMA PlanLeaves ==
  ASSUME NEW q \in Request, q.kind # "download", q.kind # "build" => q.held_out = NoCorpus
  PROVE  Leaves(q, Plan(q))
<1>1. q.rollouts \in BOOLEAN /\ q.kind \in {"build", "compile_source"}
  BY DEF Request
<1>2. CASE q.kind = "compile_source"
  BY <1>1, <1>2 DEF Plan, CompilePlan, Leaves
<1>3. CASE q.kind = "build"
  BY <1>1, <1>3 DEF Plan, BuildPlan, Leaves
<1> QED
  BY <1>1, <1>2, <1>3

(* What a request asks for, and the facts about its plan.                  *)
LEMMA AskedFor ==
  ASSUME NEW r \in Runs
  PROVE  Asks(r) \in Request /\ PlanFacts(Asks(r), Plan(Asks(r)))
BY RequestAssumption, PlanIsOrdered DEF Asks

NextFacts(q, plan, k) ==
  /\ Len(plan) \in Nat /\ plan[k + 1] \in Outputs
  /\ q.kind # "download" /\ plan[1] = "observations"
  /\ \A i \in 1 .. k : plan[i] \in Outputs /\ plan[i] # plan[k + 1]
  /\ plan[k + 1] \in {"rollouts", "held_out_rollouts"} => k > 0 /\ RolloutsNext(q, plan[k])
  /\ q.kind # "build" /\ plan[k + 1] = "parity" => k > 0 /\ plan[k] = "artifact"
  /\ plan[k + 1] = "held_out_observations" => q.held_out # NoCorpus
  /\ \A y \in Reads(q, plan[k + 1]) : \E j \in 1 .. k : plan[j] = y

(* The same facts at the output that follows the first k.                  *)
LEMMA PlanNext ==
  ASSUME NEW q \in Request, NEW k \in Nat, k < Len(Plan(q))
  PROVE  NextFacts(q, Plan(q), k)
<1> DEFINE plan == Plan(q)
<1>1. PlanFacts(q, plan)
  BY PlanIsOrdered
<1> HIDE DEF plan
<1>2. Len(plan) \in Nat /\ plan \in Seq(Outputs)
  BY <1>1 DEF PlanFacts
<1>3. k + 1 \in 1 .. Len(plan) /\ (k + 1) - 1 = k
  BY <1>2 DEF plan
<1>4. plan[k + 1] \in Outputs /\ \A i \in 1 .. k : plan[i] \in Outputs
  BY <1>2, <1>3
<1>5. \A i \in 1 .. k : plan[i] # plan[k + 1]
  <2>1. \A i \in 1 .. k : i \in 1 .. Len(plan) /\ i # k + 1
    BY <1>2, <1>3
  <2> QED
    BY <2>1, <1>1, <1>3 DEF PlanFacts
<1>6. /\ plan[k + 1] \in {"rollouts", "held_out_rollouts"} =>
           k + 1 > 1 /\ RolloutsNext(q, plan[(k + 1) - 1])
      /\ q.kind # "build" /\ plan[k + 1] = "parity" => k + 1 > 1 /\ plan[(k + 1) - 1] = "artifact"
      /\ plan[k + 1] = "held_out_observations" => q.held_out # NoCorpus
      /\ \A y \in Reads(q, plan[k + 1]) : \E j \in 1 .. (k + 1) - 1 : plan[j] = y
  BY <1>1, <1>3 DEF PlanFacts
<1>7. q.kind # "download" /\ plan[1] = "observations"
  BY <1>1, <1>3 DEF PlanFacts
<1> QED
  BY <1>2, <1>3, <1>4, <1>5, <1>6, <1>7 DEF plan, NextFacts

LEMMA RightKept ==
  ASSUME NEW w1, NEW w2, NEW q, NEW x, NEW v, Right(w1, q, x, v),
         \A y \in Reads(q, x) : w2[y] = w1[y]
  PROVE  Right(w2, q, x, v)
<1>1. CASE x = "artifact"
  BY <1>1 DEF Right, Reads
<1>2. CASE x = "parity"
  BY <1>2 DEF Right, Reads
<1>3. CASE x = "held_out_parity"
  BY <1>3 DEF Right, Reads
<1>4. CASE x = "rollout_parity"
  BY <1>4 DEF Right, Reads
<1>5. CASE x \notin {"artifact", "parity", "held_out_parity", "rollout_parity"}
  BY <1>5 DEF Right
<1> QED
  BY <1>1, <1>2, <1>3, <1>4, <1>5

(* A run that may write next, and is not the owner, found nothing there.   *)
LEMMA OutputIsOpen ==
  ASSUME IInv, NEW r \in Runs, stage[r] \in {"opening", "filling"},
         NEW o \in Runs, NEW n \in Nat, Owns(o, n)
  PROVE  /\ Asks(r).kind # "download"
         /\ Output(r) = Plan(Asks(r))[written[r] + 1]
         /\ Output(r) \in Outputs
         /\ r # o => n = 0 /\ written[r] = 0
         /\ stage[r] = "filling" => r = o /\ n = written[r] + 1 /\ work[Output(r)] = Partial
         /\ stage[r] = "opening" => work[Output(r)] = Absent /\ (r = o => n = written[r])
<1> DEFINE plan == Plan(Asks(r))
<1>1. /\ written[r] \in Nat /\ written[r] < Len(plan) /\ written[o] \in Nat
      /\ PlanFacts(Asks(r), plan) /\ Len(plan) \in Nat
  <2>1. PlanFacts(Asks(r), plan)
    BY AskedFor
  <2>2. Len(plan) \in Nat
    BY <2>1 DEF PlanFacts
  <2>3. written[r] \in Nat /\ written[o] \in Nat
    BY DEF IInv, TypeOK
  <2>4. written[r] < Len(plan)
    BY DEF IInv, WorkInv, RunInv
  <2> QED
    BY <2>1, <2>2, <2>3, <2>4
<1>2. Asks(r).kind # "download"
  BY <1>1 DEF PlanFacts
<1>3. plan[written[r] + 1] \in Outputs
  BY <1>1 DEF PlanFacts
<1>4. r # o => n = 0 /\ written[r] = 0
  <2>1. r \in Running
    BY DEF Running
  <2> QED
    BY <1>2, <2>1 DEF Owns
<1>5. stage[r] = "filling" => r = o /\ n = written[r] + 1 /\ work[plan[n]] = Partial
  BY DEF Owns
<1>6. ASSUME stage[r] = "opening"
      PROVE  work[plan[written[r] + 1]] = Absent /\ (r = o => n = written[r])
  <2>1. r = o => n = written[r]
    BY <1>6 DEF Owns
  <2>2. n \in {0, written[r]}
    BY <2>1, <1>4
  <2>3. \A i \in 1 .. n : plan[i] # plan[written[r] + 1]
    BY <1>1, <2>2 DEF PlanFacts
  <2>4. CASE r = o
    <3>1. work[plan[written[r] + 1]] # Absent <=> \E i \in 1 .. n : plan[i] = plan[written[r] + 1]
      BY <1>3, <2>4 DEF Owns
    <3> QED
      BY <2>1, <2>3, <3>1
  <2>5. CASE r # o
    BY <1>3, <1>4, <2>5 DEF Owns
  <2> QED
    BY <2>1, <2>4, <2>5
<1> QED
  BY <1>2, <1>3, <1>4, <1>5, <1>6 DEF Output

(* What a run needs for its next output, it wrote itself.                  *)
LEMMA SourcesReady ==
  ASSUME IInv, NEW r \in Runs, written[r] < Len(Plan(Asks(r))),
         NEW y \in Reads(Asks(r), Plan(Asks(r))[written[r] + 1])
  PROVE  /\ \E j \in 1 .. written[r] : Plan(Asks(r))[j] = y
         /\ work[y] \in Contents
         /\ Right(work, Asks(r), y, work[y])
<1> DEFINE plan == Plan(Asks(r))
<1>1. written[r] \in Nat /\ Len(plan) \in Nat
  BY AskedFor DEF IInv, TypeOK, PlanFacts
<1>0. NextFacts(Asks(r), plan, written[r])
  BY <1>1, AskedFor, PlanNext
<1>2. PICK j \in 1 .. written[r] : plan[j] = y
  BY <1>0 DEF NextFacts
<1>3. PICK o \in Runs, n \in Nat : Owns(o, n)
  BY DEF IInv, WorkInv
<1>4. r = o
  BY <1>1, <1>2, <1>3 DEF Owns
<1>5. work[plan[j]] \in Contents /\ Right(work, Asks(r), plan[j], work[plan[j]])
  BY <1>2, <1>3, <1>4 DEF Owns
<1> QED
  BY <1>2, <1>5

(* What Read computes is what the output has to be.                        *)
LEMMA FromIsRight ==
  ASSUME IInv, NEW r \in Runs, stage[r] = "reading", ~ AllWritten(r)
  PROVE  /\ written[r] < Len(Plan(Asks(r)))
         /\ From(r) \in Contents
         /\ Right(work, Asks(r), Output(r), From(r))
<1> DEFINE plan == Plan(Asks(r))
           q == Asks(r)
<1>1. written[r] \in Nat /\ Len(plan) \in Nat /\ written[r] < Len(plan)
  BY AskedFor DEF IInv, TypeOK, PlanFacts, WorkInv, RunInv, AllWritten
<1>0. NextFacts(q, plan, written[r])
  BY <1>1, AskedFor, PlanNext
<1>2. Output(r) = plan[written[r] + 1] /\ Output(r) \in Outputs
  BY <1>1, AskedFor DEF Output, PlanFacts
<1>3. q \in Request /\ source \in [SourceFiles -> Revisions \cup {Absent}]
  BY AskedFor DEF IInv, TypeOK
<1>4. ASSUME NEW c \in Corpora
      PROVE  /\ Capture(r, c) \in Captures
             /\ Capture(r, c).corpus = c /\ Capture(r, c).revision = q.revision
  BY <1>3, <1>4 DEF Capture, Captures, Request
<1>5. CASE Output(r) = "observations"
  <2>1. From(r) = Capture(r, q.corpus)
    BY <1>5 DEF From
  <2> QED
    BY <1>1, <1>3, <1>4, <1>5, <2>1 DEF Right, Contents, Request
<1>6. CASE Output(r) \in {"rollouts", "held_out_rollouts"}
  <2>1. written[r] > 0 /\ RolloutsNext(q, plan[written[r]])
    BY <1>0, <1>2, <1>6 DEF NextFacts
  <2> QED
    BY <2>1 DEF IInv, WorkInv, RunInv
<1>7. CASE Output(r) = "held_out_observations"
  <2>1. From(r) = Capture(r, q.held_out)
    BY <1>7 DEF From
  <2>2. q.held_out # NoCorpus
    BY <1>0, <1>2, <1>7 DEF NextFacts
  <2> QED
    BY <1>1, <1>3, <1>4, <1>7, <2>1, <2>2 DEF Right, Contents, Request
<1>8. ASSUME NEW y \in Reads(q, Output(r))
      PROVE  work[y] \in Contents /\ Right(work, q, y, work[y])
  BY <1>1, <1>2, <1>8, SourcesReady
<1>9. CASE Output(r) = "artifact"
  <2>1. From(r) = [compiled |-> work["observations"]]
    BY <1>9 DEF From
  <2>2. work["observations"] \in Captures
    BY <1>8, <1>9 DEF Reads, Right
  <2> QED
    BY <1>1, <1>9, <2>1, <2>2 DEF Right, Artifacts, Contents
<1>10. CASE Output(r) = "parity"
  <2>1. From(r) = [artifact |-> IF q.kind = "build" THEN work["artifact"] ELSE held[r],
                   measured |-> work["observations"]]
    BY <1>10 DEF From
  <2>2. work["observations"] \in Captures /\ work["artifact"] \in Artifacts
    BY <1>8, <1>10 DEF Reads, Right
  <2>3. q.kind # "build" => held[r] = work["artifact"]
    <3>1. q.kind # "build" => written[r] > 0 /\ plan[written[r]] = "artifact"
      BY <1>0, <1>2, <1>10 DEF NextFacts
    <3> QED
      BY <3>1 DEF IInv, WorkInv, RunInv
  <2>4. From(r) = [artifact |-> work["artifact"], measured |-> work["observations"]]
    BY <2>1, <2>3
  <2> QED
    BY <1>1, <1>10, <2>2, <2>4 DEF Right, Reports, Contents
<1>11. CASE Output(r) = "held_out_parity"
  <2>1. From(r) = [artifact |-> work["artifact"], measured |-> work["held_out_observations"]]
    BY <1>11 DEF From
  <2>2. work["held_out_observations"] \in Captures /\ work["artifact"] \in Artifacts
    BY <1>8, <1>11 DEF Reads, Right
  <2> QED
    BY <1>1, <1>11, <2>1, <2>2 DEF Right, Reports, Contents
<1>12. CASE Output(r) = "rollout_parity"
  <2> DEFINE m == work[IF q.held_out = NoCorpus THEN "rollouts" ELSE "held_out_rollouts"]
  <2>1. From(r) = [artifact |-> work["artifact"], measured |-> m]
    BY <1>12 DEF From
  <2>2. m \in Captures /\ work["artifact"] \in Artifacts
    BY <1>8, <1>12 DEF Reads, Right
  <2> QED
    BY <1>1, <1>12, <2>1, <2>2 DEF Right, Reports, Contents
<1> QED
  BY <1>2, <1>5, <1>6, <1>7, <1>9, <1>10, <1>11, <1>12 DEF Outputs

-----------------------------------------------------------------------------
(* A run starts only when no other one is under way.                       *)
LEMMA StartsAlone ==
  ASSUME IInv, MaxRunning = 1, NEW r \in Runs, Preflight(r)
  PROVE  Running = {}
<1> SUFFICES ASSUME NEW s \in Running
             PROVE  FALSE
  OBVIOUS
<1>1. Running = {s}
  BY DEF IInv, OneRuns
<1>2. Cardinality(Running) = 1
  BY <1>1, FS_Singleton
<1> QED
  BY <1>2 DEF Preflight

(* Every other step is one of the run that is under way.                   *)
LEMMA OthersWait ==
  ASSUME IInv, MaxRunning = 1, NEW r \in Runs, Advance(r) \/ Stop(r)
  PROVE  /\ \A s \in Running : s = r
         /\ stage' = [stage EXCEPT ![r] = stage'[r]]
         /\ \A s \in Runs \ {r} : stage'[s] = stage[s] /\ s \notin Running
         /\ \A s \in Runs \ {r} : written'[s] = written[s]
<1>1. stage \in [Runs -> Stages] /\ written \in [Runs -> Nat]
  BY DEF IInv, TypeOK
<1>2. CASE Preflight(r)
  BY <1>1, <1>2, StartsAlone DEF Preflight
<1>3. CASE ~ Preflight(r)
  <2>1. r \in Running
    BY <1>3 DEF Advance, Stop, Download, FetchFile, PinConfig, EndDownload, Read, Open, Fill,
                Finish, Running
  <2>2. \A s \in Running : s = r
    BY <2>1 DEF IInv, OneRuns
  <2>3. stage' = [stage EXCEPT ![r] = stage'[r]]
    BY <1>1, <1>3
    DEF Advance, Stop, Download, FetchFile, PinConfig, EndDownload, Read, Open, Fill, Finish
  <2>4. \A s \in Runs \ {r} : written'[s] = written[s]
    BY <1>1, <1>3
    DEF Advance, Stop, Download, FetchFile, PinConfig, EndDownload, Read, Open, Fill, Finish
  <2> QED
    BY <1>1, <2>2, <2>3, <2>4
<1> QED
  BY <1>2, <1>3

LEMMA OneRunsKept ==
  ASSUME IInv, MaxRunning = 1, [Next]_vars
  PROVE  OneRuns'
<1>1. CASE UNCHANGED vars
  BY <1>1 DEF vars, IInv, OneRuns, Running
<1>2. ASSUME NEW r \in Runs, Advance(r) \/ Stop(r)
      PROVE  OneRuns'
  BY <1>2, OthersWait DEF OneRuns, Running
<1> QED
  BY <1>1, <1>2 DEF Next

LEMMA TypeKept ==
  ASSUME IInv, [Next]_vars
  PROVE  TypeOK'
<1> USE DEF TypeOK
<1>1. CASE UNCHANGED vars
  BY <1>1 DEF vars, IInv
<1>2. ASSUME NEW r \in Runs, Advance(r) \/ Stop(r)
      PROVE  TypeOK'
  <2>1. CASE Preflight(r)
    BY <2>1 DEF Preflight, IInv, Stages
  <2>2. CASE Download(r)
    BY <2>2 DEF Download, IInv, Stages
  <2>3. CASE \E f \in SourceFiles : FetchFile(r, f)
    BY <2>3, AskedFor DEF FetchFile, IInv, Request
  <2>4. CASE PinConfig(r)
    BY <2>4, AskedFor DEF PinConfig, IInv, Request
  <2>5. CASE EndDownload(r)
    BY <2>5 DEF EndDownload, IInv, Stages
  <2>6. CASE Read(r)
    BY <2>6, FromIsRight DEF Read, IInv, Stages
  <2>7. CASE Open(r)
    BY <2>7 DEF Open, IInv, Stages
  <2>8. CASE Fill(r)
    <3>1. held[r] \in Contents
      BY <2>8 DEF Fill, IInv, WorkInv, RunInv
    <3>2. written' \in [Runs -> Nat]
      BY <2>8 DEF Fill, IInv
    <3>3. work' \in [Outputs -> Contents \cup {Absent, Partial}]
      BY <2>8, <3>1 DEF Fill, IInv
    <3>4. stage' \in [Runs -> Stages]
      BY <2>8 DEF Fill, IInv, Stages
    <3> QED
      BY <2>8, <3>2, <3>3, <3>4 DEF Fill, IInv
  <2>9. CASE Finish(r)
    BY <2>9 DEF Finish, IInv, Stages
  <2>10. CASE Stop(r)
    BY <2>10 DEF Stop, IInv, Stages
  <2> QED
    BY <1>2, <2>1, <2>2, <2>3, <2>4, <2>5, <2>6, <2>7, <2>8, <2>9, <2>10 DEF Advance
<1> QED
  BY <1>1, <1>2 DEF Next

-----------------------------------------------------------------------------
(* Opening an output truncates a file that was not there, and filling it   *)
(* leaves alone everything its own content is derived from.                *)
LEMMA EarlierOutputsStay ==
  ASSUME IInv, NEW r \in Runs, Open(r) \/ Fill(r), NEW i \in 1 .. written[r]
  PROVE  /\ work'[Plan(Asks(r))[i]] = work[Plan(Asks(r))[i]]
         /\ \A v : Right(work, Asks(r), Plan(Asks(r))[i], v) =>
                   Right(work', Asks(r), Plan(Asks(r))[i], v)
<1> DEFINE plan == Plan(Asks(r))
           q == Asks(r)
<1>1. written[r] \in Nat /\ written[r] < Len(plan) /\ PlanFacts(q, plan)
  BY AskedFor DEF Open, Fill, IInv, TypeOK, WorkInv, RunInv
<1>2. NextFacts(q, plan, written[r])
  BY <1>1, AskedFor, PlanNext
<1>3. \A j \in 1 .. written[r] : work'[plan[j]] = work[plan[j]]
  BY <1>2 DEF NextFacts, Open, Fill, IInv, TypeOK, Output
<1>4. i \in 1 .. Len(plan) /\ \A j \in 1 .. i - 1 : j \in 1 .. written[r]
  BY <1>1, <1>2 DEF NextFacts
<1>5. \A y \in Reads(q, plan[i]) : \E j \in 1 .. written[r] : plan[j] = y
  BY <1>1, <1>4 DEF PlanFacts
<1>6. \A y \in Reads(q, plan[i]) : work'[y] = work[y]
  BY <1>3, <1>5
<1> QED
  BY <1>3, <1>6, RightKept

LEMMA NextOutputKept ==
  ASSUME IInv, NEW r \in Runs, Open(r) \/ Fill(r)
  PROVE  Right(work', Asks(r), Output(r), held[r])
<1> DEFINE plan == Plan(Asks(r))
           q == Asks(r)
<1>1. /\ written[r] \in Nat /\ written[r] < Len(plan)
      /\ Right(work, q, Output(r), held[r])
  BY DEF Open, Fill, IInv, TypeOK, WorkInv, RunInv, Output
<1>2. NextFacts(q, plan, written[r])
  BY <1>1, AskedFor, PlanNext
<1>3. \A y \in Reads(q, Output(r)) : \E j \in 1 .. written[r] : plan[j] = y
  BY <1>2 DEF NextFacts, Output
<1>4. \A y \in Reads(q, Output(r)) : work'[y] = work[y]
  BY <1>3, EarlierOutputsStay
<1> QED
  BY <1>1, <1>4, RightKept

(* A step that opens and fills nothing leaves the owner what it was.       *)
LEMMA OwnerKept ==
  ASSUME IInv, NEW r \in Runs, NEW o \in Runs, NEW n \in Nat, Owns(o, n),
         work' = work, written' = written,
         stage' = [stage EXCEPT ![r] = stage'[r]],
         stage'[r] # "filling", stage[r] # "stopped",
         stage[r] = "filling" => stage'[r] = "stopped",
         r # o /\ n > 0 /\ r \in Running' => Asks(r).kind = "download"
  PROVE  Owns(o, n)'
<1>1. stage \in [Runs -> Stages]
  BY DEF IInv, TypeOK
<1>2. \A s \in Runs \ {r} : stage'[s] = stage[s]
  BY <1>1
<1>3. ASSUME NEW s \in Runs \ {o}
      PROVE  /\ written'[s] = 0 /\ stage'[s] # "filling"
             /\ n > 0 /\ s \in Running' => Asks(s).kind = "download"
  <2>1. s # r /\ s \in Running' => s \in Running
    BY <1>2 DEF Running
  <2> QED
    BY <1>2, <2>1 DEF Owns
<1>4. /\ stage'[o] = "filling" => stage[o] = "filling"
      /\ stage[o] \in {"filling", "stopped"} => stage'[o] \in {"filling", "stopped"}
  BY <1>2
<1> QED
  BY <1>3, <1>4 DEF Owns, Asks

LEMMA OwnerKeptByOpen ==
  ASSUME IInv, MaxRunning = 1, NEW r \in Runs, Open(r),
         NEW o \in Runs, NEW n \in Nat, Owns(o, n)
  PROVE  Owns(r, written[r] + 1)'
<1> DEFINE plan == Plan(Asks(r))
           k == written[r]
<1>1. /\ k \in Nat /\ k < Len(plan) /\ Len(plan) \in Nat /\ stage[r] = "opening"
      /\ Output(r) = plan[k + 1]
      /\ stage \in [Runs -> Stages] /\ work \in [Outputs -> Contents \cup {Absent, Partial}]
  BY AskedFor DEF Open, IInv, TypeOK, WorkInv, RunInv, PlanFacts, Output
<1>2. /\ Output(r) \in Outputs /\ work[Output(r)] = Absent
      /\ (r # o => n = 0 /\ k = 0) /\ (r = o => n = k)
  BY <1>1, OutputIsOpen
<1>3. /\ written' = written /\ stage' = [stage EXCEPT ![r] = "filling"]
      /\ work' = [work EXCEPT ![Output(r)] = Partial]
  BY DEF Open
<1>4. \A x \in Outputs : work[x] # Absent <=> \E i \in 1 .. k : plan[i] = x
  <2>1. CASE r = o
    BY <2>1, <1>2 DEF Owns
  <2>2. CASE r # o
    BY <2>2, <1>2 DEF Owns
  <2> QED
    BY <2>1, <2>2
<1>5. ASSUME NEW x \in Outputs
      PROVE  work'[x] # Absent <=> \E i \in 1 .. k + 1 : plan[i] = x
  <2>1. CASE x = Output(r)
    BY <2>1, <1>1, <1>3, FileAssumption
  <2>2. CASE x # Output(r)
    <3>1. work'[x] = work[x]
      BY <1>1, <1>3, <2>2
    <3>2. (\E i \in 1 .. k + 1 : plan[i] = x) <=> \E i \in 1 .. k : plan[i] = x
      BY <1>1, <2>2
    <3> QED
      BY <3>1, <3>2, <1>4
  <2> QED
    BY <2>1, <2>2
<1>6. ASSUME NEW i \in 1 .. k
      PROVE  work'[plan[i]] \in Contents /\ Right(work', Asks(r), plan[i], work'[plan[i]])
  <2>1. r = o
    BY <1>1, <1>2
  <2>2. work[plan[i]] \in Contents /\ Right(work, Asks(r), plan[i], work[plan[i]])
    BY <2>1 DEF Owns
  <2> QED
    BY <2>2, EarlierOutputsStay
<1>7. ASSUME NEW s \in Runs \ {r}
      PROVE  written'[s] = 0 /\ stage'[s] # "filling" /\ s \notin Running'
  <2>1. stage'[s] = stage[s] /\ s \notin Running /\ written'[s] = written[s]
    BY <1>1, OthersWait DEF Advance
  <2>2. s # o => written[s] = 0
    BY DEF Owns
  <2>3. s = o => written[s] = 0
    BY <1>2 DEF Owns, IInv, TypeOK
  <2> QED
    BY <2>1, <2>2, <2>3 DEF Running
<1>8. work'[plan[k + 1]] = Partial /\ stage'[r] = "filling" /\ written'[r] = k
  BY <1>1, <1>2, <1>3
<1> QED
  BY <1>1, <1>5, <1>6, <1>7, <1>8 DEF Owns, Asks

LEMMA OwnerKeptByFill ==
  ASSUME IInv, MaxRunning = 1, NEW r \in Runs, Fill(r),
         NEW o \in Runs, NEW n \in Nat, Owns(o, n)
  PROVE  Owns(o, n)'
<1> DEFINE plan == Plan(Asks(r))
           k == written[r]
<1>1. /\ k \in Nat /\ k < Len(plan) /\ Len(plan) \in Nat /\ stage[r] = "filling"
      /\ Output(r) = plan[k + 1] /\ held[r] \in Contents
      /\ written \in [Runs -> Nat]
      /\ stage \in [Runs -> Stages] /\ work \in [Outputs -> Contents \cup {Absent, Partial}]
  BY AskedFor DEF Fill, IInv, TypeOK, WorkInv, RunInv, PlanFacts, Output
<1>2. Output(r) \in Outputs /\ work[Output(r)] = Partial /\ r = o /\ n = k + 1
  BY <1>1, OutputIsOpen
<1>3. /\ written' = [written EXCEPT ![r] = k + 1]
      /\ work' = [work EXCEPT ![Output(r)] = held[r]]
      /\ stage'[r] \in {"opening", "reading"}
  BY <1>1 DEF Fill
<1>4. \A x \in Outputs : work'[x] # Absent <=> work[x] # Absent
  BY <1>1, <1>2, <1>3, FileAssumption
<1>5. ASSUME NEW i \in 1 .. k + 1
      PROVE  work'[plan[i]] \in Contents /\ Right(work', Asks(r), plan[i], work'[plan[i]])
  <2>1. CASE i = k + 1
    <3>1. work'[plan[i]] = held[r]
      BY <1>1, <1>2, <1>3, <2>1
    <3> QED
      BY <1>1, <2>1, <3>1, NextOutputKept
  <2>2. CASE i # k + 1
    <3>1. i \in 1 .. k
      BY <1>1, <2>2
    <3>2. work[plan[i]] \in Contents /\ Right(work, Asks(r), plan[i], work[plan[i]])
      BY <1>2, <3>1 DEF Owns
    <3> QED
      BY <3>1, <3>2, EarlierOutputsStay
  <2> QED
    BY <2>1, <2>2
<1>6. ASSUME NEW s \in Runs \ {r}
      PROVE  written'[s] = 0 /\ stage'[s] # "filling" /\ s \notin Running'
  <2>1. stage'[s] = stage[s] /\ s \notin Running /\ written'[s] = written[s]
    BY <1>1, OthersWait DEF Advance
  <2> QED
    BY <2>1, <1>2 DEF Owns, Running
<1>7. written'[r] = k + 1
  BY <1>1, <1>3
<1>8. \A x \in Outputs : work[x] # Absent <=> \E i \in 1 .. k + 1 : plan[i] = x
  BY <1>2 DEF Owns
<1>9. \A x \in Outputs : work'[x] # Absent <=> \E i \in 1 .. n : plan[i] = x
  BY <1>2, <1>4, <1>8
<1>10. written'[o] = n /\ n <= Len(plan) /\ n # written'[o] + 1 /\ stage'[o] # "filling"
  BY <1>1, <1>2, <1>3, <1>7
<1>11. \A i \in 1 .. written'[o] :
         work'[plan[i]] \in Contents /\ Right(work', Asks(o), plan[i], work'[plan[i]])
  BY <1>2, <1>5, <1>7
<1>12. plan = Plan(Asks(o))
  BY <1>2
<1> HIDE DEF plan, k
<1> QED
  BY <1>2, <1>6, <1>9, <1>10, <1>11, <1>12 DEF Owns, Asks

(* A directory with any output in it refuses the next build.               *)
LEMMA ExistingWorkRefuses ==
  ASSUME IInv, NEW r \in Runs, Preflight(r), Asks(r).kind # "download",
         NEW o \in Runs, NEW n \in Nat, Owns(o, n), n > 0
  PROVE  stage'[r] = "stopped"
<1>1. /\ PlanFacts(Asks(o), Plan(Asks(o))) /\ PlanFacts(Asks(r), Plan(Asks(r)))
      /\ Asks(r) \in Request /\ stage \in [Runs -> Stages]
  BY AskedFor DEF IInv, TypeOK
<1>2. Plan(Asks(o))[1] = "observations"
  BY <1>1 DEF PlanFacts, Owns
<1>3. work["observations"] # Absent
  BY <1>2 DEF Owns, Outputs
<1>4. "observations" \in Planned(r)
  <2>1. Plan(Asks(r))[1] = "observations" /\ 1 \in DOMAIN Plan(Asks(r))
    BY <1>1 DEF PlanFacts
  <2> QED
    BY <2>1 DEF Planned
<1>5. MeetsExistingWork(r)
  BY <1>3, <1>4 DEF MeetsExistingWork
<1>6. Asks(r).kind \in {"build", "compile_source"}
  BY <1>1 DEF Request
<1>7. Refused(r)
  BY <1>5, <1>6 DEF Refused
<1> QED
  BY <1>1, <1>7 DEF Preflight

LEMMA OwnerStays ==
  ASSUME IInv, MaxRunning = 1, NEW r \in Runs, Advance(r) \/ Stop(r)
  PROVE  (\E o \in Runs : \E n \in Nat : Owns(o, n))'
<1>1. PICK o \in Runs, n \in Nat : Owns(o, n)
  BY DEF IInv, WorkInv
<1>2. stage' = [stage EXCEPT ![r] = stage'[r]] /\ stage \in [Runs -> Stages]
  BY OthersWait DEF IInv, TypeOK
<1>3. r # o /\ n > 0 /\ r \in Running => Asks(r).kind = "download"
  BY <1>1 DEF Owns
<1>4. CASE Preflight(r)
  <2>1. /\ work' = work /\ written' = written /\ stage'[r] # "filling"
        /\ stage[r] \notin {"stopped", "filling"}
    BY <1>2, <1>4 DEF Preflight
  <2>2. n > 0 /\ r \in Running' => Asks(r).kind = "download"
    BY <1>1, <1>4, ExistingWorkRefuses DEF Running
  <2> QED
    BY <1>1, <1>2, <2>1, <2>2, OwnerKept
<1>5. CASE \/ Download(r) \/ (\E f \in SourceFiles : FetchFile(r, f)) \/ PinConfig(r)
           \/ EndDownload(r) \/ Read(r) \/ Finish(r) \/ Stop(r)
  <2>1. /\ work' = work /\ written' = written /\ stage'[r] # "filling"
        /\ stage[r] # "stopped" /\ r \in Running
        /\ stage[r] = "filling" => stage'[r] = "stopped"
    BY <1>2, <1>5
    DEF Download, FetchFile, PinConfig, EndDownload, Read, Finish, Stop, Running
  <2> QED
    BY <1>1, <1>2, <1>3, <2>1, OwnerKept
<1>6. CASE Open(r)
  <2>1. Owns(r, written[r] + 1)'
    BY <1>1, <1>6, OwnerKeptByOpen
  <2>2. written[r] + 1 \in Nat /\ written'[r] = written[r]
    BY <1>6 DEF Open, IInv, TypeOK
  <2> QED
    BY <2>1, <2>2
<1>7. CASE Fill(r)
  BY <1>1, <1>7, OwnerKeptByFill
<1> QED
  BY <1>4, <1>5, <1>6, <1>7 DEF Advance

(* A run that is not under way keeps its part whatever the work becomes.   *)
LEMMA WaitingRunsKept ==
  ASSUME IInv, MaxRunning = 1, NEW r \in Runs, Advance(r) \/ Stop(r), NEW s \in Runs \ {r}
  PROVE  RunInv(s)'
<1>1. stage'[s] = stage[s] /\ s \notin Running /\ written'[s] = written[s]
  BY OthersWait
<1>2. stage[s] \in {"asked", "done", "stopped"}
  BY <1>1 DEF Running
<1>3. RunInv(s)
  BY DEF IInv, WorkInv
<1> QED
  BY <1>1, <1>2, <1>3 DEF RunInv, Asks

LEMMA FillKeepsRun ==
  ASSUME IInv, NEW r \in Runs, Fill(r)
  PROVE  RunInv(r)'
<1> DEFINE plan == Plan(Asks(r))
           q == Asks(r)
           k == written[r]
<1>1. /\ k \in Nat /\ k < Len(plan) /\ Len(plan) \in Nat
      /\ Output(r) = plan[k + 1] /\ Output(r) \in Outputs
      /\ held[r] \in Contents /\ held' = held /\ written'[r] = k + 1
      /\ work'[Output(r)] = held[r]
      /\ stage'[r] = IF RolloutsNext(q, Output(r)) THEN "opening" ELSE "reading"
  <2>1. stage[r] = "filling"
    BY DEF Fill
  <2>2. k < Len(plan) /\ held[r] \in Contents
    BY <2>1 DEF IInv, WorkInv, RunInv
  <2>3. NextFacts(q, plan, k) /\ k \in Nat
    BY <2>2, AskedFor, PlanNext DEF IInv, TypeOK
  <2>4. Len(plan) \in Nat /\ Output(r) = plan[k + 1] /\ Output(r) \in Outputs
    BY <2>3 DEF NextFacts, Output
  <2>5. held' = held /\ written'[r] = k + 1 /\ work'[Output(r)] = held[r]
    BY <2>4 DEF Fill, IInv, TypeOK
  <2>6. stage'[r] = IF RolloutsNext(q, Output(r)) THEN "opening" ELSE "reading"
    BY DEF Fill, IInv, TypeOK, RolloutsNext
  <2> QED
    BY <2>2, <2>3, <2>4, <2>5, <2>6
<1>2. Right(work', q, Output(r), held[r])
  BY NextOutputKept
<1>3. CASE RolloutsNext(q, Output(r))
  <2>1. /\ k + 1 < Len(plan)
        /\ Output(r) = "observations" => plan[(k + 1) + 1] = "rollouts"
        /\ Output(r) = "held_out_observations" => plan[(k + 1) + 1] = "held_out_rollouts"
    <3>1. k + 1 \in 1 .. Len(plan)
      BY <1>1
    <3> QED
      BY <1>1, <1>3, <3>1, AskedFor DEF PlanFacts
  <2>2. Right(work', q, plan[(k + 1) + 1], held[r])
    BY <1>2, <1>3, <2>1 DEF RolloutsNext, Right
  <2>3. stage'[r] = "opening"
    BY <1>1, <1>3
  <2> QED
    BY <1>1, <2>1, <2>2, <2>3 DEF RunInv, Asks
<1>4. CASE ~ RolloutsNext(q, Output(r))
  <2>1. stage'[r] = "reading" /\ written'[r] <= Len(plan) /\ plan[written'[r]] = Output(r)
    BY <1>1, <1>4
  <2> QED
    BY <1>1, <1>4, <2>1 DEF RunInv, Asks
<1> QED
  BY <1>3, <1>4

LEMMA RunKept ==
  ASSUME IInv, NEW r \in Runs, Advance(r) \/ Stop(r)
  PROVE  RunInv(r)'
<1>1. /\ stage \in [Runs -> Stages] /\ held \in [Runs -> Contents \cup {Absent}]
      /\ written[r] \in Nat
      /\ RunInv(r)
  BY DEF IInv, TypeOK, WorkInv
<1>2. CASE Preflight(r)
  BY <1>1, <1>2 DEF Preflight, RunInv, Asks
<1>3. CASE Download(r)
  BY <1>1, <1>3 DEF Download, RunInv, Asks
<1>4. CASE \E f \in SourceFiles : FetchFile(r, f)
  BY <1>1, <1>4 DEF FetchFile, RunInv, Asks
<1>5. CASE PinConfig(r)
  BY <1>1, <1>5 DEF PinConfig, RunInv, Asks
<1>6. CASE EndDownload(r)
  BY <1>1, <1>6 DEF EndDownload, RunInv, Asks
<1>7. CASE Read(r)
  <2>1. /\ written[r] < Len(Plan(Asks(r)))
        /\ From(r) \in Contents
        /\ Right(work, Asks(r), Plan(Asks(r))[written[r] + 1], From(r))
    BY <1>7, FromIsRight DEF Read, Output
  <2>2. /\ held'[r] = From(r) /\ stage'[r] = "opening"
        /\ work' = work /\ written' = written
    BY <1>1, <1>7 DEF Read
  <2> QED
    BY <1>1, <2>1, <2>2 DEF RunInv, Asks
<1>8. CASE Open(r)
  <2>1. /\ stage'[r] = "filling" /\ held' = held /\ written' = written
        /\ written[r] < Len(Plan(Asks(r))) /\ held[r] \in Contents
    BY <1>1, <1>8 DEF Open, RunInv
  <2>2. Right(work', Asks(r), Plan(Asks(r))[written[r] + 1], held[r])
    BY <1>8, NextOutputKept DEF Output
  <2> QED
    BY <1>1, <2>1, <2>2 DEF RunInv, Asks
<1>9. CASE Fill(r)
  BY <1>9, FillKeepsRun
<1>10. CASE Finish(r)
  BY <1>1, <1>10 DEF Finish, RunInv, Asks, AllWritten
<1>11. CASE Stop(r)
  BY <1>1, <1>11 DEF Stop, RunInv, Asks
<1> QED
  BY <1>2, <1>3, <1>4, <1>5, <1>6, <1>7, <1>8, <1>9, <1>10, <1>11 DEF Advance

-----------------------------------------------------------------------------
LEMMA InitIInv ==
  ASSUME Runs # {}, Init
  PROVE  IInv
<1>1. TypeOK /\ OneRuns
  BY DEF Init, TypeOK, Stages, OneRuns, Running
<1>2. ASSUME NEW r \in Runs
      PROVE  Owns(r, 0) /\ RunInv(r)
  <2>1. Len(Plan(Asks(r))) \in Nat
    BY AskedFor DEF PlanFacts
  <2> QED
    BY <2>1 DEF Init, Owns, RunInv, Running
<1> QED
  BY <1>1, <1>2 DEF IInv, WorkInv

LEMMA NextIInv ==
  ASSUME MaxRunning = 1, IInv, [Next]_vars
  PROVE  IInv'
<1>1. TypeOK' /\ OneRuns'
  BY TypeKept, OneRunsKept
<1>2. CASE UNCHANGED vars
  BY <1>1, <1>2 DEF vars, IInv, WorkInv, RunInv, Owns, Running, Asks
<1>3. ASSUME NEW r \in Runs, Advance(r) \/ Stop(r)
      PROVE  WorkInv'
  BY <1>3, WaitingRunsKept, RunKept, OwnerStays DEF WorkInv
<1> QED
  BY <1>1, <1>2, <1>3 DEF IInv, Next

(* With one run at a time, no step leaves the types, no two runs are under *)
(* way, and all there is in the directory was written by a single run, in  *)
(* the order of its plan and from its own earlier outputs (lib.rs:1091).   *)
THEOREM OneOwner ==
  ASSUME Runs # {}, MaxRunning = 1
  PROVE  Spec => []IInv
<1>1. Init => IInv
  BY InitIInv
<1>2. IInv /\ [Next]_vars => IInv'
  BY NextIInv
<1> QED
  BY <1>1, <1>2, PTL DEF Spec

(* CP-02: an output that was written is never written again, by the run    *)
(* that wrote it or by any later one.                                      *)
THEOREM OutputsAreFinal ==
  ASSUME Runs # {}, MaxRunning = 1
  PROVE  Spec => FinishedOutputsStay
<1> DEFINE Step == \A o \in Outputs : work[o] \notin {Absent, Partial} => work'[o] = work[o]
<1>1. ASSUME IInv, [Next]_vars
      PROVE  Step
  <2>1. CASE work' = work
    BY <2>1
  <2>2. ASSUME NEW r \in Runs, Open(r) \/ Fill(r)
        PROVE  Step
    <3>1. stage[r] \in {"opening", "filling"}
      BY <2>2 DEF Open, Fill
    <3>2. PICK o \in Runs, n \in Nat : Owns(o, n)
      BY <1>1 DEF IInv, WorkInv
    <3>3. work[Output(r)] \in {Absent, Partial}
      BY <1>1, <3>1, <3>2, OutputIsOpen
    <3>4. \A o2 \in Outputs : o2 # Output(r) => work'[o2] = work[o2]
      BY <1>1, <2>2 DEF Open, Fill, IInv, TypeOK
    <3> QED
      BY <3>3, <3>4
  <2>3. work' = work \/ \E r \in Runs : Open(r) \/ Fill(r)
    BY <1>1
    DEF Next, Advance, vars, Preflight, Download, FetchFile, PinConfig, EndDownload, Read, Finish,
        Stop
  <2> QED
    BY <2>1, <2>2, <2>3
<1>2. IInv /\ [Next]_vars => [Step]_vars
  BY <1>1
<1>3. Spec => []IInv
  BY OneOwner
<1>4. Spec => [][Step]_vars
  BY <1>2, <1>3, PTL DEF Spec
<1> QED
  BY <1>4 DEF FinishedOutputsStay

LEMMA OwnedIsOneRuns ==
  ASSUME IInv
  PROVE  WorkIsOneRuns
<1>1. PICK o \in Runs, n \in Nat : Owns(o, n)
  BY DEF IInv, WorkInv
<1> DEFINE plan == Plan(Asks(o))
<1>2. /\ PlanFacts(Asks(o), plan) /\ Len(plan) \in Nat /\ plan \in Seq(Outputs)
      /\ written[o] \in Nat /\ n \in 0 .. Len(plan)
  <2>1. PlanFacts(Asks(o), plan)
    BY AskedFor
  <2>2. Len(plan) \in Nat /\ plan \in Seq(Outputs)
    BY <2>1 DEF PlanFacts
  <2>3. written[o] \in Nat /\ n <= Len(plan)
    BY <1>1 DEF IInv, TypeOK, Owns
  <2> QED
    BY <2>1, <2>2, <2>3
<1>3. {x \in Outputs : work[x] # Absent} = {plan[i] : i \in 1 .. n}
  <2>1. \A i \in 1 .. n : plan[i] \in Outputs
    BY <1>2
  <2>2. \A x \in Outputs : work[x] # Absent <=> \E i \in 1 .. n : plan[i] = x
    BY <1>1 DEF Owns
  <2> QED
    BY <2>1, <2>2
<1>4. \A i \in 1 .. n - 1 : work[plan[i]] # Partial
  <2>1. \A i \in 1 .. n - 1 : i \in 1 .. written[o]
    BY <1>1, <1>2 DEF Owns
  <2> QED
    BY <1>1, <2>1, FileAssumption DEF Owns
<1>5. ASSUME n > 0, work["observations"] # Partial
      PROVE  /\ work["observations"].corpus = Asks(o).corpus
             /\ work["observations"].revision = Asks(o).revision
  <2>1. plan[1] = "observations"
    BY <1>2, <1>5 DEF PlanFacts
  <2>2. 1 \in 1 .. written[o]
    BY <1>1, <1>2, <1>5, <2>1 DEF Owns
  <2>3. Right(work, Asks(o), plan[1], work[plan[1]])
    BY <1>1, <2>2 DEF Owns
  <2> QED
    BY <2>1, <2>3 DEF Right
<1> QED
  BY <1>2, <1>3, <1>4, <1>5 DEF WorkIsOneRuns

(* Whatever stopped where, the outputs in the directory are the first ones *)
(* of one request's plan.                                                  *)
THEOREM WorkHasOneOwner ==
  ASSUME Runs # {}, MaxRunning = 1
  PROVE  Spec => []WorkIsOneRuns
BY OneOwner, OwnedIsOneRuns, PTL

LEMMA OwnedIsConsistent ==
  ASSUME IInv
  PROVE  DoneIsConsistent
<1> SUFFICES ASSUME NEW r \in Runs, stage[r] = "done", Asks(r).kind # "download"
             PROVE  LET q == Asks(r)
                        Measures(report, corpus) ==
                          /\ work[report].artifact = work["artifact"]
                          /\ work[report].measured.corpus = corpus
                        last == IF q.held_out = NoCorpus THEN q.corpus ELSE q.held_out
                    IN  /\ work["observations"].corpus = q.corpus
                        /\ work["observations"].revision = q.revision
                        /\ work["artifact"].compiled = work["observations"]
                        /\ Measures("parity", q.corpus)
                        /\ q.held_out # NoCorpus => Measures("held_out_parity", q.held_out)
                        /\ q.kind = "build" /\ q.rollouts => Measures("rollout_parity", last)
  BY DEF DoneIsConsistent
<1> DEFINE q == Asks(r)
           plan == Plan(q)
<1>1. PICK o \in Runs, n \in Nat : Owns(o, n)
  BY DEF IInv, WorkInv
<1>2. /\ q \in Request /\ PlanFacts(q, plan)
      /\ q.kind # "build" => q.held_out = NoCorpus
  BY AskedFor, RequestAssumption DEF Asks
<1>3. Len(plan) \in Nat /\ Len(plan) > 0 /\ plan[1] = "observations"
  BY <1>2 DEF PlanFacts
<1>4. written[r] = Len(plan)
  BY DEF IInv, WorkInv, RunInv
<1>5. r = o
  BY <1>1, <1>3, <1>4 DEF Owns
<1>6. \A i \in 1 .. Len(plan) : Right(work, q, plan[i], work[plan[i]])
  BY <1>1, <1>4, <1>5 DEF Owns
<1>7. ASSUME NEW i \in 1 .. Len(plan), NEW y \in Reads(q, plan[i])
      PROVE  Right(work, q, y, work[y])
  <2>1. PICK j \in 1 .. i - 1 : plan[j] = y
    BY <1>2 DEF PlanFacts
  <2> QED
    BY <1>3, <1>6, <2>1
<1>8. Leaves(q, plan)
  BY <1>2, PlanLeaves
<1> HIDE DEF plan, q
<1>9. /\ work["observations"] \in Captures
      /\ work["observations"].corpus = q.corpus /\ work["observations"].revision = q.revision
  BY <1>3, <1>6 DEF Right
<1>10. work["artifact"].compiled = work["observations"]
  BY <1>6, <1>8 DEF Leaves, Right
<1>11. /\ work["parity"].artifact = work["artifact"]
       /\ work["parity"].measured.corpus = q.corpus
  BY <1>6, <1>8, <1>9 DEF Leaves, Right
<1>12. ASSUME q.held_out # NoCorpus
       PROVE  /\ work["held_out_parity"].artifact = work["artifact"]
              /\ work["held_out_parity"].measured.corpus = q.held_out
  <2>1. PICK i \in 1 .. Len(plan) : plan[i] = "held_out_parity"
    BY <1>8, <1>12 DEF Leaves
  <2>2. /\ work["held_out_parity"].artifact = work["artifact"]
        /\ work["held_out_parity"].measured = work["held_out_observations"]
    BY <1>6, <2>1 DEF Right
  <2>3. "held_out_observations" \in Reads(q, plan[i])
    BY <2>1 DEF Reads
  <2> QED
    BY <1>7, <2>2, <2>3 DEF Right
<1>13. ASSUME q.kind = "build", q.rollouts
       PROVE  /\ work["rollout_parity"].artifact = work["artifact"]
              /\ work["rollout_parity"].measured.corpus =
                   IF q.held_out = NoCorpus THEN q.corpus ELSE q.held_out
  <2> DEFINE m == IF q.held_out = NoCorpus THEN "rollouts" ELSE "held_out_rollouts"
  <2>1. PICK i \in 1 .. Len(plan) : plan[i] = "rollout_parity"
    BY <1>8, <1>13 DEF Leaves
  <2>2. /\ work["rollout_parity"].artifact = work["artifact"]
        /\ work["rollout_parity"].measured = work[m]
    BY <1>6, <2>1 DEF Right
  <2>3. m \in Reads(q, plan[i])
    BY <2>1 DEF Reads
  <2>4. Right(work, q, m, work[m])
    BY <1>7, <2>3
  <2> QED
    BY <2>2, <2>4 DEF Right
<1> QED
  BY <1>9, <1>10, <1>11, <1>12, <1>13 DEF q

(* What a run that succeeded leaves is compiled from its own observations  *)
(* and measured on the corpora its reports are about.                      *)
THEOREM DoneStaysConsistent ==
  ASSUME Runs # {}, MaxRunning = 1
  PROVE  Spec => []DoneIsConsistent
BY OneOwner, OwnedIsConsistent, PTL

-----------------------------------------------------------------------------
(* The source directory holds files of one revision as long as a download  *)
(* asks for no other revision than the other runs do.  A download over a   *)
(* directory of another revision breaks this (MCModelBuildDownload).       *)
DownloadsAgree ==
  \A r, s \in Runs : Asks(r).kind = "download" => Asks(s).revision = Asks(r).revision

OfRevision(files, revision) == \A f \in SourceFiles : files[f] \in {Absent, revision}

SourceInv ==
  /\ ~ source_dir => pinned = Absent /\ \A f \in SourceFiles : source[f] = Absent
  /\ pinned # Absent => OfRevision(source, pinned) /\ \E s \in Runs : pinned = Asks(s).revision
  /\ \A f \in SourceFiles : source[f] # Absent => \E s \in Runs : source[f] = Asks(s).revision
  /\ \A r \in Runs :
       /\ stage[r] = "admitted" =>
            /\ Asks(r).kind \in {"build", "download"}
            /\ Asks(r).kind = "build" => ~ source_dir \/ Verified(Asks(r).revision)
       /\ stage[r] = "fetching" =>
            /\ source_dir /\ OfRevision(source, Asks(r).revision)
            /\ pinned \in {Absent, Asks(r).revision}
       /\ Asks(r).kind = "build" =>
            /\ stage[r] \in {"reading", "opening", "filling"} =>
                 OfRevision(source, Asks(r).revision)
            /\ stage[r] \in {"opening", "filling"} /\ written[r] = 0 =>
                 OfRevision(held[r].source, Asks(r).revision)

LEMMA InitSourceInv ==
  ASSUME Init
  PROVE  SourceInv
BY DEF Init, SourceInv

LEMMA SourceInvKept ==
  ASSUME MaxRunning = 1, DownloadsAgree, IInv, SourceInv, NEW r \in Runs, Advance(r) \/ Stop(r)
  PROVE  SourceInv'
<1> DEFINE rev == Asks(r).revision
<1> DEFINE Kept ==
        /\ ~ source_dir' => pinned' = Absent /\ \A f \in SourceFiles : source'[f] = Absent
        /\ pinned' # Absent =>
             OfRevision(source', pinned') /\ \E s \in Runs : pinned' = Asks(s).revision
        /\ \A f \in SourceFiles : source'[f] # Absent => \E s \in Runs : source'[f] = Asks(s).revision
        /\ stage'[r] = "admitted" =>
             /\ Asks(r).kind \in {"build", "download"}
             /\ Asks(r).kind = "build" => ~ source_dir' \/ Verified(rev)'
        /\ stage'[r] = "fetching" =>
             source_dir' /\ OfRevision(source', rev) /\ pinned' \in {Absent, rev}
        /\ Asks(r).kind = "build" =>
             /\ stage'[r] \in {"reading", "opening", "filling"} => OfRevision(source', rev)
             /\ stage'[r] \in {"opening", "filling"} /\ written'[r] = 0 =>
                  OfRevision(held'[r].source, rev)
<1>1. /\ stage \in [Runs -> Stages] /\ source \in [SourceFiles -> Revisions \cup {Absent}]
      /\ held \in [Runs -> Contents \cup {Absent}]
      /\ rev \in Revisions /\ rev # Absent
      /\ Asks(r).kind \in {"build", "compile_source", "download"}
  BY AskedFor, FileAssumption DEF IInv, TypeOK, Request
<1>2. ASSUME NEW s \in Runs \ {r}
      PROVE  stage'[s] = stage[s] /\ stage'[s] \in {"asked", "done", "stopped"}
  BY <1>1, <1>2, OthersWait DEF Running, Stages
<1>3. SUFFICES Kept
  BY <1>2 DEF SourceInv, OfRevision, Asks
<1>4. CASE Preflight(r)
  <2>1. /\ source' = source /\ pinned' = pinned /\ source_dir' = source_dir
    BY <1>4 DEF Preflight
  <2>2. stage'[r] = IF Refused(r) THEN "stopped"
                    ELSE IF Asks(r).kind = "compile_source" THEN "reading" ELSE "admitted"
    BY <1>1, <1>4 DEF Preflight
  <2>3. Asks(r).kind = "build" /\ ~ Refused(r) => ~ source_dir \/ Verified(rev)
    BY DEF Refused
  <2> QED
    BY <1>1, <2>1, <2>2, <2>3 DEF SourceInv, Verified, Asks
<1>5. CASE Download(r)
  <2>1. /\ source' = source /\ pinned' = pinned /\ stage[r] = "admitted"
        /\ Verified(rev) => stage'[r] = "reading" /\ source_dir' = source_dir
        /\ ~ Verified(rev) => stage'[r] = "fetching" /\ source_dir' = TRUE
    BY <1>1, <1>5 DEF Download
  <2>2. Verified(rev) => OfRevision(source, rev)
    BY <1>1 DEF Verified, SourceInv
  <2>3. ~ Verified(rev) => OfRevision(source, rev) /\ pinned \in {Absent, rev}
    <3>1. CASE Asks(r).kind = "download"
      BY <1>1, <3>1 DEF SourceInv, DownloadsAgree, OfRevision
    <3>2. CASE Asks(r).kind = "build"
      BY <2>1, <3>2 DEF SourceInv, OfRevision
    <3> QED
      BY <2>1, <3>1, <3>2 DEF SourceInv
  <2> QED
    BY <1>1, <2>1, <2>2, <2>3 DEF SourceInv
<1>6. ASSUME NEW f \in SourceFiles, FetchFile(r, f)
      PROVE  Kept
  <2>1. /\ source' = [source EXCEPT ![f] = rev] /\ pinned' = pinned /\ source_dir' = source_dir
        /\ stage' = stage /\ stage[r] = "fetching"
    BY <1>6 DEF FetchFile
  <2>2. source_dir /\ OfRevision(source, rev) /\ pinned \in {Absent, rev}
    BY <2>1 DEF SourceInv
  <2>3. \A g \in SourceFiles : source'[g] = (IF g = f THEN rev ELSE source[g])
    BY <1>1, <2>1
  <2>4. OfRevision(source', rev)
    BY <2>2, <2>3 DEF OfRevision
  <2> QED
    BY <1>1, <2>1, <2>2, <2>3, <2>4 DEF SourceInv
<1>7. CASE PinConfig(r)
  <2>1. /\ pinned' = rev /\ source' = source /\ source_dir' = source_dir
        /\ stage' = stage /\ stage[r] = "fetching"
    BY <1>7 DEF PinConfig
  <2>2. source_dir /\ OfRevision(source, rev)
    BY <2>1 DEF SourceInv
  <2> QED
    BY <1>1, <2>1, <2>2 DEF SourceInv
<1>8. CASE EndDownload(r)
  <2>1. /\ pinned' = pinned /\ source' = source /\ source_dir' = source_dir
        /\ stage'[r] = "reading" /\ stage[r] = "fetching"
    BY <1>1, <1>8 DEF EndDownload
  <2> QED
    BY <1>1, <2>1 DEF SourceInv
<1>9. CASE Read(r)
  <2>1. /\ pinned' = pinned /\ source' = source /\ source_dir' = source_dir
        /\ stage'[r] = "opening" /\ stage[r] = "reading" /\ held'[r] = From(r)
        /\ written' = written
    BY <1>1, <1>9 DEF Read
  <2>2. written[r] = 0 => From(r).source = source
    <3>1. written[r] = 0 => Output(r) = "observations"
      <4>1. written[r] < Len(Plan(Asks(r)))
        BY <1>9, FromIsRight DEF Read
      <4>2. /\ Asks(r).kind # "download" => Plan(Asks(r))[1] = "observations"
            /\ Asks(r).kind = "download" => Len(Plan(Asks(r))) = 0
        BY AskedFor DEF PlanFacts
      <4> QED
        BY <4>1, <4>2 DEF Output
    <3>2. Output(r) = "observations" => From(r) = Capture(r, Asks(r).corpus)
      BY DEF From
    <3> QED
      BY <3>1, <3>2 DEF Capture
  <2> QED
    BY <1>1, <2>1, <2>2 DEF SourceInv
<1>10. CASE Open(r)
  <2>1. /\ pinned' = pinned /\ source' = source /\ source_dir' = source_dir
        /\ stage'[r] = "filling" /\ stage[r] = "opening" /\ held' = held /\ written' = written
    BY <1>1, <1>10 DEF Open
  <2> QED
    BY <1>1, <2>1 DEF SourceInv
<1>11. CASE Fill(r)
  <2>1. /\ pinned' = pinned /\ source' = source /\ source_dir' = source_dir
        /\ stage'[r] \in {"opening", "reading"} /\ stage[r] = "filling"
    BY <1>1, <1>11 DEF Fill
  <2>2. written'[r] # 0
    BY <1>11 DEF Fill, IInv, TypeOK
  <2> QED
    BY <1>1, <2>1, <2>2 DEF SourceInv
<1>12. CASE Finish(r) \/ Stop(r)
  <2>1. /\ pinned' = pinned /\ source' = source /\ source_dir' = source_dir
        /\ stage'[r] \in {"done", "stopped"}
    BY <1>1, <1>12 DEF Finish, Stop
  <2> QED
    BY <1>1, <2>1 DEF SourceInv
<1> QED
  BY <1>4, <1>5, <1>6, <1>7, <1>8, <1>9, <1>10, <1>11, <1>12 DEF Advance

(* A build captures its observations from the revision it asked for.       *)
THEOREM CapturesAreOfTheirRevision ==
  ASSUME Runs # {}, MaxRunning = 1, DownloadsAgree
  PROVE  Spec => []BuildsCaptureTheirRevision
<1>1. Init => SourceInv
  BY InitSourceInv
<1>2. IInv /\ SourceInv /\ [Next]_vars => SourceInv'
  <2> SUFFICES ASSUME IInv, SourceInv, [Next]_vars
               PROVE  SourceInv'
    OBVIOUS
  <2>1. CASE UNCHANGED vars
    BY <2>1 DEF vars, SourceInv, OfRevision, Verified, Asks
  <2>2. ASSUME NEW r \in Runs, Advance(r) \/ Stop(r)
        PROVE  SourceInv'
    BY <2>2, SourceInvKept
  <2> QED
    BY <2>1, <2>2 DEF Next
<1>3. SourceInv => BuildsCaptureTheirRevision
  BY DEF SourceInv, OfRevision, BuildsCaptureTheirRevision
<1>4. Spec => []IInv
  BY OneOwner
<1> QED
  BY <1>1, <1>2, <1>3, <1>4, PTL DEF Spec
=============================================================================
