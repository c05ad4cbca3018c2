------------------------ MODULE BenchmarkRunnerProofs ------------------------
(***************************************************************************)
(* What BenchmarkRunPlan guarantees for every iteration count, thread      *)
(* request and hardware concurrency; and the safety of BenchmarkRunner for *)
(* every set of configurations, every hardware concurrency and every       *)
(* number of workers: IInv is inductive, the safety properties follow from *)
(* it, and BenchmarkRun is implemented.                                    *)
(***************************************************************************)
EXTENDS BenchmarkRunnerInv, TLAPS

------------------------------------------------------------------------------
(* Arithmetic the split formulas rest on. *)

\* Integer division: the identity behind baseIterations_ and remainderIterations_.
LEMMA DivisionIdentity ==
  ASSUME NEW n \in Nat, NEW d \in Nat \ {0}
  PROVE  /\ n \div d \in Nat
         /\ n % d \in 0 .. d - 1
         /\ n = d * (n \div d) + (n % d)
  BY SMT

\* A product of naturals is a natural.
LEMMA ProductNat ==
  ASSUME NEW a \in Nat, NEW b \in Nat
  PROVE  a * b \in Nat
  BY SMT

\* Multiplying by a natural preserves the order.
LEMMA ProductMonotone ==
  ASSUME NEW a \in Nat, NEW b \in Nat, NEW c \in Nat, a <= b
  PROVE  a * c <= b * c
<1>1. (b - a) * c \in Nat
  BY ProductNat
<1>2. (b - a) * c = b * c - a * c
  BY SMT
<1> QED
  BY <1>1, <1>2, ProductNat

\* The next multiple.
LEMMA ProductSuccessor ==
  ASSUME NEW a \in Nat, NEW c \in Nat
  PROVE  (a + 1) * c = a * c + c
  BY SMT

------------------------------------------------------------------------------
(* The plans runSingle builds. *)

(***************************************************************************)
(* BenchmarkRunPlan::balanced always makes a well-formed plan of the run's *)
(* iterations: the effective count is never 0, so the division is defined. *)
(***************************************************************************)
THEOREM BalancedWellFormed ==
  ASSUME NEW iterations \in Nat, NEW requested \in Nat
  PROVE  /\ WellFormed(Balanced(iterations, requested))
         /\ Balanced(iterations, requested).iterations = iterations
<1> DEFINE resolved  == ResolveThreadRequest(requested)
           effective == Smaller(resolved, Larger(iterations, 1))
<1>1. resolved \in Nat \ {0}
  BY HardwareAssumption DEF ResolveThreadRequest, Larger
<1>2. effective \in Nat \ {0} /\ effective <= resolved
  BY <1>1 DEF Smaller, Larger
<1>3. /\ iterations \div effective \in Nat
      /\ iterations % effective \in 0 .. effective - 1
      /\ iterations = effective * (iterations \div effective) + (iterations % effective)
  BY <1>2, DivisionIdentity
<1> HIDE DEF resolved, effective
<1>4. Balanced(iterations, requested) =
        [ iterations |-> iterations, requested |-> resolved, effective |-> effective,
          base |-> iterations \div effective, remainder |-> iterations % effective ]
  BY DEF Balanced, resolved, effective
<1> QED
  BY <1>1, <1>2, <1>3, <1>4 DEF WellFormed, PlanType

(***************************************************************************)
(* The downgrade to a single worker (asSingleWorker) keeps a plan          *)
(* well-formed, of the same iterations, with one slot.                     *)
(***************************************************************************)
THEOREM SingleWorkerWellFormed ==
  ASSUME NEW p, WellFormed(p)
  PROVE  /\ WellFormed(AsSingleWorker(p))
         /\ AsSingleWorker(p).iterations = p.iterations
         /\ AsSingleWorker(p).effective = 1
<1>1. p.iterations \in Nat /\ p.requested \in Nat \ {0}
  BY DEF WellFormed, PlanType
<1>2. p.iterations = 1 * p.iterations + 0
  BY <1>1
<1> QED
  BY <1>1, <1>2 DEF WellFormed, PlanType, AsSingleWorker

------------------------------------------------------------------------------
(* The slots of a well-formed plan. *)

\* A slot's begin and count are natural numbers.
LEMMA SlotTypes ==
  ASSUME NEW p, WellFormed(p), NEW s \in Nat
  PROVE  SlotBegin(p, s) \in Nat /\ SlotCount(p, s) \in Nat
<1>1. p.base \in Nat /\ p.remainder \in Nat
  BY DEF WellFormed, PlanType
<1>2. s * p.base \in Nat
  BY <1>1, ProductNat
<1> QED
  BY <1>1, <1>2 DEF SlotBegin, SlotCount, Smaller

\* The first slot starts at iteration 0.
LEMMA FirstSlot ==
  ASSUME NEW p, WellFormed(p)
  PROVE  SlotBegin(p, 0) = 0
<1>1. p.base \in Nat /\ p.remainder \in Nat
  BY DEF WellFormed, PlanType
<1> QED
  BY <1>1 DEF SlotBegin, Smaller

\* Slots are contiguous: the next one begins where this one ends.
LEMMA SlotsContiguous ==
  ASSUME NEW p, WellFormed(p), NEW s \in Nat
  PROVE  SlotBegin(p, s + 1) = SlotBegin(p, s) + SlotCount(p, s)
<1>1. p.base \in Nat /\ p.remainder \in Nat
  BY DEF WellFormed, PlanType
<1>2. (s + 1) * p.base = s * p.base + p.base
  BY <1>1, ProductSuccessor
<1>3. Smaller(s + 1, p.remainder)
        = Smaller(s, p.remainder) + (IF s < p.remainder THEN 1 ELSE 0)
  BY <1>1 DEF Smaller
<1>4. s * p.base \in Nat /\ Smaller(s, p.remainder) \in Nat
  BY <1>1, ProductNat DEF Smaller
<1> QED
  BY <1>1, <1>2, <1>3, <1>4 DEF SlotBegin, SlotCount

\* The slots end where the run ends.
LEMMA LastSlot ==
  ASSUME NEW p, WellFormed(p)
  PROVE  SlotBegin(p, p.effective) = p.iterations
<1>1. Smaller(p.effective, p.remainder) = p.remainder
  BY DEF WellFormed, PlanType, Smaller
<1> QED
  BY <1>1 DEF SlotBegin, WellFormed

\* Later slots begin later: a slot ends before any later slot begins.
LEMMA SlotsOrdered ==
  ASSUME NEW p, WellFormed(p), NEW s \in Nat, NEW t \in Nat, s < t
  PROVE  SlotBegin(p, s) + SlotCount(p, s) <= SlotBegin(p, t)
<1>1. p.base \in Nat /\ p.remainder \in Nat
  BY DEF WellFormed, PlanType
<1>2. (s + 1) * p.base <= t * p.base
  BY <1>1, ProductMonotone
<1>3. Smaller(s + 1, p.remainder) <= Smaller(t, p.remainder)
  BY <1>1 DEF Smaller
<1>4. /\ (s + 1) * p.base \in Nat /\ t * p.base \in Nat
      /\ Smaller(s + 1, p.remainder) \in Nat /\ Smaller(t, p.remainder) \in Nat
  BY <1>1, ProductNat DEF Smaller
<1>5. SlotBegin(p, s + 1) <= SlotBegin(p, t)
  BY <1>2, <1>3, <1>4 DEF SlotBegin
<1> QED
  BY <1>5, SlotsContiguous

(***************************************************************************)
(* The split is a partition: every iteration of the run is scheduled in    *)
(* exactly one slot (slotBegin / slotCount).  The witness for iteration i  *)
(* is found by dividing inside the longer slots, or inside the rest.       *)
(***************************************************************************)
THEOREM SlotsPartition ==
  ASSUME NEW p, WellFormed(p)
  PROVE  Partition(p)
<1> DEFINE e == p.effective
           b == p.base
           r == p.remainder
           n == p.iterations
<1>1. /\ e \in Nat \ {0} /\ b \in Nat /\ r \in Nat /\ n \in Nat
      /\ n = e * b + r /\ r < e
  BY DEF WellFormed, PlanType
<1>2. ASSUME NEW s \in Slots(p)
      PROVE  SlotBegin(p, s) + SlotCount(p, s) <= n
  <2>1. s \in Nat /\ s < e
    BY <1>1 DEF Slots
  <2> QED
    BY <1>1, <2>1, SlotsOrdered, LastSlot
<1>3. ASSUME NEW s \in Slots(p)
      PROVE  SlotIterations(p, s) \subseteq 0 .. n - 1
  <2>1. s \in Nat
    BY <1>1 DEF Slots
  <2>2. SlotBegin(p, s) \in Nat /\ SlotCount(p, s) \in Nat
    BY <2>1, SlotTypes
  <2> QED
    BY <1>1, <1>2, <2>2 DEF SlotIterations
<1>4. ASSUME NEW s \in Slots(p), NEW t \in Slots(p), s # t
      PROVE  SlotIterations(p, s) \cap SlotIterations(p, t) = {}
  <2>1. s \in Nat /\ t \in Nat
    BY <1>1 DEF Slots
  <2>2. /\ SlotBegin(p, s) \in Nat /\ SlotCount(p, s) \in Nat
        /\ SlotBegin(p, t) \in Nat /\ SlotCount(p, t) \in Nat
    BY <2>1, SlotTypes
  <2>3. \/ SlotBegin(p, s) + SlotCount(p, s) <= SlotBegin(p, t)
        \/ SlotBegin(p, t) + SlotCount(p, t) <= SlotBegin(p, s)
    BY <1>4, <2>1, SlotsOrdered
  <2> QED
    BY <2>2, <2>3 DEF SlotIterations
<1>5. ASSUME NEW i \in 0 .. n - 1
      PROVE  \E s \in Slots(p) : i \in SlotIterations(p, s)
  <2>1. i \in Nat /\ i < n
    BY <1>1
  <2>2. CASE i < r * (b + 1)
    <3> DEFINE s == i \div (b + 1)
    <3>0. b + 1 \in Nat \ {0} /\ b = (b + 1) - 1
      BY <1>1
    <3>1. /\ s \in Nat /\ i % (b + 1) \in 0 .. b
          /\ i = (b + 1) * s + (i % (b + 1))
      BY <3>0, <2>1, DivisionIdentity, Zenon
    <3> HIDE DEF s
    <3>2. s < r
      <4>1. CASE r <= s
        <5>1. r * (b + 1) <= s * (b + 1)
          BY <1>1, <3>1, <4>1, ProductMonotone
        <5>2. s * (b + 1) = (b + 1) * s
          BY <1>1, <3>1, SMT
        <5> QED
          BY <1>1, <2>1, <2>2, <3>1, <5>1, <5>2
      <4> QED
        BY <1>1, <3>1, <4>1
    <3>3. SlotBegin(p, s) = (b + 1) * s
      BY <1>1, <3>1, <3>2, SMT DEF SlotBegin, Smaller
    <3>4. SlotCount(p, s) = b + 1
      BY <1>1, <3>1, <3>2 DEF SlotCount
    <3>5. i \in SlotIterations(p, s)
      BY <1>1, <2>1, <3>1, <3>3, <3>4, SlotTypes DEF SlotIterations
    <3>6. s \in Slots(p)
      BY <1>1, <3>1, <3>2 DEF Slots
    <3> QED
      BY <3>5, <3>6
  <2>3. CASE r * (b + 1) <= i
    <3>1. r * (b + 1) = r * b + r /\ r * b \in Nat /\ e * b \in Nat
      BY <1>1, ProductNat, SMT
    <3>2. i - r \in Nat /\ r * b <= i - r /\ i - r < e * b
      BY <1>1, <2>1, <2>3, <3>1
    <3>3. b # 0
      BY <1>1, <3>2
    <3> DEFINE s == (i - r) \div b
    <3>4. /\ s \in Nat /\ (i - r) % b \in 0 .. b - 1
          /\ i - r = b * s + ((i - r) % b)
      BY <1>1, <3>2, <3>3, DivisionIdentity
    <3> HIDE DEF s
    <3>5. b * s = s * b /\ s * b \in Nat
      BY <1>1, <3>4, ProductNat, SMT
    <3>6. s < e
      <4>1. CASE e <= s
        <5>1. e * b <= s * b
          BY <1>1, <3>4, <4>1, ProductMonotone
        <5> QED
          BY <1>1, <3>1, <3>2, <3>4, <3>5, <5>1
      <4> QED
        BY <1>1, <3>4, <4>1
    <3>7. r <= s
      <4>1. CASE s < r
        <5>1. (s + 1) * b <= r * b
          BY <1>1, <3>4, <4>1, ProductMonotone
        <5>2. (s + 1) * b = s * b + b
          BY <1>1, <3>4, ProductSuccessor
        <5> QED
          BY <1>1, <3>1, <3>2, <3>4, <3>5, <5>1, <5>2
      <4> QED
        BY <1>1, <3>4, <4>1
    <3>8. SlotBegin(p, s) = s * b + r /\ SlotCount(p, s) = b
      <4>0. s \in Nat /\ r \in Nat /\ b \in Nat
        BY <1>1, <3>4
      <4>1. Smaller(s, r) = r /\ ~ (s < r)
        BY <4>0, <3>7 DEF Smaller
      <4> QED
        BY <4>0, <4>1 DEF SlotBegin, SlotCount
    <3>9. i \in SlotIterations(p, s)
      BY <1>1, <2>1, <3>4, <3>5, <3>8 DEF SlotIterations
    <3> QED
      BY <1>1, <3>4, <3>6, <3>9 DEF Slots
  <2>4. r * (b + 1) \in Nat
    BY <1>1, ProductNat
  <2> QED
    BY <2>1, <2>2, <2>3, <2>4
<1> QED
  BY <1>3, <1>4, <1>5 DEF Partition

(***************************************************************************)
(* largestSlotCount is the exact worst case over the slots.                *)
(***************************************************************************)
THEOREM LargestIsTight ==
  ASSUME NEW p, WellFormed(p)
  PROVE  TightLargest(p)
  BY DEF WellFormed, PlanType, TightLargest, SlotCount, LargestSlotCount, Slots

------------------------------------------------------------------------------
(* What the type invariant says of the plan and of its slots. *)

\* The plan's numbers, and the bound on its slots.
LEMMA PlanNumbers ==
  ASSUME TypeOK
  PROVE  /\ WellFormed(plan)
         /\ plan.effective \in Nat \ {0} /\ plan.effective <= MaxWorkers
         /\ plan.iterations \in Nat
         /\ MaxWorkers \in Nat \ {0}
         /\ Slots(plan) \subseteq Workers
  BY RunnerAssumption DEF TypeOK, WellFormed, PlanType, Slots, Workers

\* The numbers of a slot.
LEMMA SlotNumbers ==
  ASSUME TypeOK, NEW s \in Nat
  PROVE  SlotBegin(plan, s) \in Nat /\ SlotCount(plan, s) \in Nat
  BY PlanNumbers, SlotTypes

\* The configurations' plan fits the workers there are.
LEMMA PlanFits ==
  ASSUME NEW n \in IterationCounts, NEW t \in ThreadRequests
  PROVE  /\ WellFormed(Balanced(n, t))
         /\ Balanced(n, t).iterations = n
         /\ Balanced(n, t).effective <= MaxWorkers
<1>1. n \in Nat /\ t \in Nat /\ ResolveThreadRequest(t) <= MaxWorkers
  BY RunnerAssumption
<1>2. WellFormed(Balanced(n, t)) /\ Balanced(n, t).iterations = n
  BY <1>1, BalancedWellFormed
<1>3. Balanced(n, t).requested = ResolveThreadRequest(t)
  BY DEF Balanced
<1>4. Balanced(n, t).effective <= ResolveThreadRequest(t)
  BY <1>2, <1>3 DEF WellFormed
<1>5. /\ Balanced(n, t).effective \in Nat
      /\ ResolveThreadRequest(t) \in Nat /\ MaxWorkers \in Nat
  BY <1>2, <1>3, RunnerAssumption DEF WellFormed, PlanType
<1> QED
  BY <1>1, <1>2, <1>4, <1>5

------------------------------------------------------------------------------
(* The initial states. *)

\* Nothing is planned, started or recorded yet.
LEMMA InitIInv == Init => IInv
<1> SUFFICES ASSUME Init PROVE IInv
  OBVIOUS
<1> USE RunnerAssumption
<1>1. WellFormed(plan) /\ plan.effective = 1
  BY DEF Init, DefaultPlan, WellFormed, PlanType
<1>2. TypeOK
  BY <1>1 DEF Init, TypeOK, Workers, EmptyCollector, CollectorType, NoResult, ResultType,
              None, ExceptionType, Steps, MainSteps
<1>3. \A s \in Workers : WorkerInv(s)
  BY DEF Init, WorkerInv, NotSetUp, NothingRecorded, EmptyCollector
<1>4. PlanInv /\ MainInv /\ ThrownInv
  BY DEF Init, PlanInv, MainInv, ThrownInv, Started
<1> QED
  BY <1>2, <1>3, <1>4 DEF IInv

------------------------------------------------------------------------------
(* The steps of a worker. *)

(***************************************************************************)
(* What every worker action does: it belongs to a worker that is started   *)
(* and not done, leaves the main thread and the other workers alone, and   *)
(* keeps the types and its own worker's invariant.                         *)
(***************************************************************************)
OwnStep(s) ==
  /\ UNCHANGED <<config, mainVars>>
  /\ wpc[s] \notin {"idle", "done"} /\ wpc'[s] # "idle"
  /\ \A t \in Workers \ {s} :
       /\ wpc'[t] = wpc[t] /\ next'[t] = next[t] /\ caught'[t] = caught[t]
       /\ setups'[t] = setups[t] /\ teardowns'[t] = teardowns[t]
       /\ collectors'[t] = collectors[t] /\ failures'[t] = failures[t]
  /\ TypeOK'
  /\ WorkerInv(s)'

\* Creating a worker's scenario changes that worker's place only.
LEMMA CreateOwnStep ==
  ASSUME IInv, NEW s \in Workers, WorkerCreate(s) \/ WorkerCreateThrows(s)
  PROVE  OwnStep(s)
<1> USE DEF IInv
<1>1. UNCHANGED <<config, mainVars>>
  BY DEF WorkerCreate, WorkerCreateThrows
<1>2. TypeOK'
  BY <1>1 DEF TypeOK, mainVars, WorkerCreate, WorkerCreateThrows, MoveTo, Steps
<1>3. WorkerInv(s)'
  <2>1. NotSetUp(s) /\ NothingRecorded(s)
    BY DEF WorkerInv, WorkerCreate, WorkerCreateThrows
  <2>2. CASE WorkerCreate(s)
    BY <2>1, <2>2 DEF WorkerInv, WorkerCreate, MoveTo, TypeOK, NotSetUp, NothingRecorded
  <2>3. CASE WorkerCreateThrows(s)
    BY <2>1, <2>3 DEF WorkerInv, WorkerCreateThrows, MoveTo, TypeOK, NotSetUp, Failed
  <2> QED
    BY <2>2, <2>3
<1> QED
  BY <1>1, <1>2, <1>3 DEF OwnStep, WorkerCreate, WorkerCreateThrows, MoveTo, TypeOK

\* Setting a scenario up measures its worker's first setup.
LEMMA SetupOwnStep ==
  ASSUME IInv, NEW s \in Workers, Setup(s)
  PROVE  OwnStep(s)
<1> USE DEF IInv
<1>1. UNCHANGED <<config, mainVars>>
  BY DEF Setup
<1>2. TypeOK'
  <2>1. setups[s] = 0 /\ collectors[s] \in CollectorType
    BY DEF WorkerInv, NotSetUp, Setup, TypeOK
  <2>2. RecordSetup(collectors[s]) \in CollectorType
    BY <2>1 DEF RecordSetup, CollectorType, Larger
  <2> QED
    BY <1>1, <2>1, <2>2 DEF TypeOK, mainVars, Setup, MoveTo
<1>3. WorkerInv(s)'
  BY DEF WorkerInv, Setup, MoveTo, TypeOK, CollectorType, NotSetUp, NothingRecorded, Working,
         RecordSetup
<1> QED
  BY <1>1, <1>2, <1>3 DEF OwnStep, Setup, MoveTo, TypeOK

\* Preparing puts a worker at the first iteration of its slot.
LEMMA PrepareOwnStep ==
  ASSUME IInv, NEW s \in Workers, Prepare(s)
  PROVE  OwnStep(s)
<1> USE DEF IInv
<1>1. UNCHANGED <<config, mainVars>>
  BY DEF Prepare
<1>2. SlotBegin(plan, s) \in Nat /\ SlotCount(plan, s) \in Nat
  BY SlotNumbers, RunnerAssumption DEF Workers
<1>3. TypeOK'
  BY <1>1, <1>2 DEF TypeOK, mainVars, Prepare, MoveTo
<1>4. plan' = plan
  BY <1>1 DEF mainVars
<1>5. WorkerInv(s)'
  BY <1>2, <1>4 DEF WorkerInv, Prepare, MoveTo, TypeOK, NothingRecorded, Working, SlotEnd
<1> QED
  BY <1>1, <1>3, <1>5 DEF OwnStep, Prepare, MoveTo, TypeOK

\* An iteration adds its timings to its worker's own collector.
LEMMA IterationOwnStep ==
  ASSUME IInv, NEW s \in Workers, RunIteration(s)
  PROVE  OwnStep(s)
<1> USE DEF IInv
<1>1. UNCHANGED <<config, mainVars>>
  BY DEF RunIteration
<1>2. plan' = plan
  BY <1>1 DEF mainVars
<1>3. SlotBegin(plan, s) \in Nat /\ SlotCount(plan, s) \in Nat
  BY SlotNumbers, RunnerAssumption DEF Workers
<1>4. TypeOK'
  <2>1. RecordTimings(collectors[s]) \in CollectorType
    BY DEF RecordTimings, CollectorType, TypeOK
  <2> QED
    BY <1>1, <2>1 DEF TypeOK, mainVars, RunIteration, MoveTo
<1>5. WorkerInv(s)'
  <2>1. /\ Working(s)
        /\ SlotBegin(plan, s) <= next[s] /\ next[s] < SlotEnd(s)
        /\ collectors[s].timings = next[s] - SlotBegin(plan, s)
        /\ collectors[s].outcomes = next[s] - SlotBegin(plan, s)
    BY DEF WorkerInv, RunIteration
  <2> QED
    BY <1>2, <1>3, <2>1
       DEF WorkerInv, RunIteration, MoveTo, TypeOK, CollectorType, Working, RecordTimings, SlotEnd
<1> QED
  BY <1>1, <1>4, <1>5 DEF OwnStep, RunIteration, MoveTo, TypeOK

\* Recording an outcome makes up for the timings recorded before it.
LEMMA RecordOwnStep ==
  ASSUME IInv, NEW s \in Workers, RecordIteration(s)
  PROVE  OwnStep(s)
<1> USE DEF IInv
<1>1. UNCHANGED <<config, mainVars>>
  BY DEF RecordIteration
<1>2. plan' = plan
  BY <1>1 DEF mainVars
<1>3. SlotBegin(plan, s) \in Nat /\ SlotCount(plan, s) \in Nat
  BY SlotNumbers, RunnerAssumption DEF Workers
<1>4. TypeOK'
  <2>1. RecordOutcome(collectors[s]) \in CollectorType
    BY DEF RecordOutcome, CollectorType, TypeOK
  <2> QED
    BY <1>1, <2>1 DEF TypeOK, mainVars, RecordIteration, MoveTo
<1>5. WorkerInv(s)'
  <2>1. /\ Working(s)
        /\ SlotBegin(plan, s) <= next[s] /\ next[s] < SlotEnd(s)
        /\ collectors[s].timings = next[s] + 1 - SlotBegin(plan, s)
        /\ collectors[s].outcomes = next[s] - SlotBegin(plan, s)
    BY DEF WorkerInv, RecordIteration
  <2> QED
    BY <1>2, <1>3, <2>1
       DEF WorkerInv, RecordIteration, MoveTo, TypeOK, CollectorType, Working, RecordOutcome, SlotEnd
<1> QED
  BY <1>1, <1>4, <1>5 DEF OwnStep, RecordIteration, MoveTo, TypeOK

\* A worker tears down only after its whole slot.
LEMMA TeardownOwnStep ==
  ASSUME IInv, NEW s \in Workers, Teardown(s)
  PROVE  OwnStep(s)
<1> USE DEF IInv
<1>1. UNCHANGED <<config, mainVars>>
  BY DEF Teardown
<1>2. plan' = plan
  BY <1>1 DEF mainVars
<1>3. SlotBegin(plan, s) \in Nat /\ SlotCount(plan, s) \in Nat
  BY SlotNumbers, RunnerAssumption DEF Workers
<1>4. /\ Working(s) /\ next[s] = SlotEnd(s)
      /\ collectors[s].timings = next[s] - SlotBegin(plan, s)
      /\ collectors[s].outcomes = next[s] - SlotBegin(plan, s)
  BY DEF WorkerInv, Teardown
<1>5. TypeOK'
  BY <1>1, <1>4 DEF TypeOK, mainVars, Teardown, MoveTo, Working
<1>6. WorkerInv(s)'
  BY <1>2, <1>3, <1>4 DEF WorkerInv, Teardown, MoveTo, TypeOK, Working, SlotRecorded, SlotEnd
<1> QED
  BY <1>1, <1>5, <1>6 DEF OwnStep, Teardown, MoveTo, TypeOK

\* A call that throws leaves a scenario that was set up, and torn down at most once.
LEMMA ThrowsOwnStep ==
  ASSUME IInv, NEW s \in Workers, NEW step \in LifecycleSteps, CallThrows(s, step)
  PROVE  OwnStep(s)
<1> USE DEF IInv
<1>1. UNCHANGED <<config, mainVars>>
  BY DEF CallThrows
<1>2. /\ step # "none" /\ step \in Steps
      /\ wpc[s] \in {"setup", "prepare", "loop", "record"}
      /\ step = "setup" <=> wpc[s] = "setup"
  BY DEF CallThrows, Calling, LifecycleSteps, Steps
<1>3. /\ failures[s] = "none" /\ teardowns[s] = 0
      /\ setups[s] = IF step = "setup" THEN 0 ELSE 1
  BY <1>2 DEF WorkerInv, NotSetUp, Working
<1>4. setups'[s] = 1 /\ teardowns'[s] \in 0 .. 1
  BY <1>3 DEF CallThrows, TypeOK
<1>5. TypeOK'
  <2>1. /\ setups' \in [ Workers -> 0 .. 1 ]
        /\ teardowns' \in [ Workers -> 0 .. 2 ]
    BY <1>3 DEF CallThrows, TypeOK
  <2>2. caught' \in [ Workers -> Steps \cup {"none"} ]
    BY <1>2 DEF CallThrows, TypeOK
  <2> QED
    BY <1>1, <2>1, <2>2 DEF CallThrows, TypeOK, mainVars, MoveTo
<1>6. WorkerInv(s)'
  BY <1>2, <1>3, <1>4 DEF WorkerInv, CallThrows, MoveTo, TypeOK
<1> QED
  BY <1>1, <1>2, <1>5, <1>6 DEF OwnStep, CallThrows, MoveTo, TypeOK

\* A worker that caught an exception cleans up, then leaves its failure for the join.
LEMMA CleanupOwnStep ==
  ASSUME IInv, NEW s \in Workers, Cleanup(s)
  PROVE  OwnStep(s)
<1> USE DEF IInv
<1>1. UNCHANGED <<config, mainVars>>
  BY DEF Cleanup
<1>2. /\ caught[s] # "none" /\ failures[s] = "none"
      /\ setups[s] = 1 /\ teardowns[s] <= 1
  BY DEF WorkerInv, Cleanup
<1>3. TypeOK'
  BY <1>1, <1>2 DEF TypeOK, mainVars, Cleanup, MoveTo
<1>4. WorkerInv(s)'
  BY <1>2 DEF WorkerInv, Cleanup, MoveTo, TypeOK, Failed
<1> QED
  BY <1>1, <1>3, <1>4 DEF OwnStep, Cleanup, MoveTo, TypeOK

\* Such a step disturbs neither the other workers nor what the main thread knows.
LEMMA OwnStepIInv ==
  ASSUME IInv, NEW s \in Workers, OwnStep(s)
  PROVE  IInv'
<1> USE DEF IInv
<1>1. /\ config' = config /\ plan' = plan /\ mpc' = mpc /\ cursor' = cursor /\ pool' = pool
      /\ thrown' = thrown /\ merged' = merged /\ result' = result
  BY DEF OwnStep, mainVars
<1>2. TypeOK'
  BY DEF OwnStep
<1>3. ASSUME NEW t \in Workers
      PROVE  WorkerInv(t)'
  <2>1. CASE t = s
    BY <2>1 DEF OwnStep
  <2>2. CASE t # s
    BY <1>1, <2>2 DEF OwnStep, WorkerInv, NotSetUp, NothingRecorded, Working, SlotRecorded,
                      Failed, SlotEnd
  <2> QED
    BY <2>1, <2>2
<1>4. \A t \in Workers : /\ (wpc'[t] = "idle" <=> wpc[t] = "idle")
                         /\ wpc[t] = "done" => wpc'[t] = "done" /\ failures'[t] = failures[t]
  BY DEF OwnStep
<1>5. PlanInv'
  BY <1>1 DEF PlanInv
<1>6. Slots(plan) \subseteq Workers /\ plan.effective \in Nat \ {0} /\ MaxWorkers \in Nat
  BY PlanNumbers
<1>7. MainInv'
  BY <1>1, <1>4, <1>6 DEF MainInv, Started, AllDone, NoFailure, Slots, Workers, OwnStep
<1>8. ThrownInv'
  BY <1>1, <1>4, <1>6 DEF MainInv, ThrownInv, Started, NoFailure, OwnStep, Workers, TypeOK,
                          ExceptionType
<1> QED
  BY <1>2, <1>3, <1>5, <1>7, <1>8

\* Whatever a worker does next keeps the invariant of the runner.
LEMMA WorkerStep ==
  ASSUME IInv, NEW s \in Workers, Worker(s)
  PROVE  IInv'
<1>1. OwnStep(s)
  BY CreateOwnStep, SetupOwnStep, PrepareOwnStep, IterationOwnStep, RecordOwnStep,
     TeardownOwnStep, ThrowsOwnStep, CleanupOwnStep DEF Worker
<1> QED
  BY <1>1, OwnStepIInv

------------------------------------------------------------------------------
(* The steps of the main thread. *)

\* A step of the main thread that keeps the plan keeps every worker's invariant.
LEMMA WorkersUndisturbed ==
  ASSUME IInv, UNCHANGED <<plan, workerVars>>
  PROVE  \A s \in Workers : WorkerInv(s)'
  BY DEF IInv, workerVars, WorkerInv, NotSetUp, NothingRecorded, Working, SlotRecorded,
         Failed, SlotEnd

\* A call of the main thread's own throws: no worker is running.
LEMMA MainThrowsStep ==
  ASSUME IInv, NEW step \in MainSteps, MainThrows(step)
  PROVE  IInv'
<1> USE DEF IInv
<1>1. UNCHANGED <<config, plan, cursor, pool, merged, result, workerVars>>
  BY DEF MainThrows
<1>2. 0 \in Workers
  BY RunnerAssumption DEF Workers
<1>3. /\ \A s \in Workers : wpc[s] \in {"idle", "done"}
      /\ step \in {"create", "probe", "validate"} => Started({})
  BY DEF MainThrows, MainCalls, MainInv, Started, AllDone
<1>4. TypeOK'
  BY <1>1, <1>2 DEF TypeOK, workerVars, MainThrows, ExceptionType
<1>5. \A s \in Workers : WorkerInv(s)'
  BY <1>1, WorkersUndisturbed
<1>6. PlanInv' /\ MainInv'
  BY <1>1, <1>3 DEF PlanInv, MainInv, MainThrows, workerVars
<1>7. ThrownInv'
  BY <1>1, <1>3 DEF ThrownInv, MainThrows, Started, workerVars
<1> QED
  BY <1>4, <1>5, <1>6, <1>7

\* Creating worker 0's scenario, planning and validating.
LEMMA PlanningStep ==
  ASSUME IInv, CreateScenario \/ MakePlan \/ ValidateRun
  PROVE  IInv'
<1> USE DEF IInv
<1>1. Started({})
  BY DEF MainInv, CreateScenario, MakePlan, ValidateRun
<1>2. \A s \in Workers : wpc[s] = "idle"
  BY <1>1 DEF Started
<1>3. CASE CreateScenario
  <2>1. TypeOK'
    BY <1>3 DEF CreateScenario, TypeOK, workerVars
  <2>2. \A s \in Workers : WorkerInv(s)'
    BY <1>3, WorkersUndisturbed DEF CreateScenario
  <2>3. PlanInv' /\ MainInv' /\ ThrownInv'
    BY <1>1, <1>3 DEF CreateScenario, PlanInv, MainInv, ThrownInv, Started, workerVars
  <2> QED
    BY <2>1, <2>2, <2>3
<1>4. CASE MakePlan
  <2> DEFINE balanced == Balanced(config.iterations, config.threads)
  <2>1. config.iterations \in IterationCounts /\ config.threads \in ThreadRequests
    BY DEF TypeOK
  <2>2. /\ WellFormed(balanced) /\ balanced.iterations = config.iterations
        /\ balanced.effective <= MaxWorkers
    BY <2>1, PlanFits
  <2>3. /\ WellFormed(AsSingleWorker(balanced))
        /\ AsSingleWorker(balanced).iterations = config.iterations
        /\ AsSingleWorker(balanced).effective = 1
    BY <2>2, SingleWorkerWellFormed
  <2>4. plan' = balanced \/ plan' = AsSingleWorker(balanced)
    BY <1>4 DEF MakePlan
  <2>5. /\ WellFormed(plan') /\ plan'.iterations = config.iterations
        /\ plan'.effective <= MaxWorkers
    <3>1. CASE plan' = balanced
      BY <2>2, <3>1
    <3>2. CASE plan' = AsSingleWorker(balanced)
      BY <2>3, <3>2, RunnerAssumption
    <3> QED
      BY <2>4, <3>1, <3>2
  <2>6. TypeOK'
    BY <1>4, <2>5 DEF MakePlan, TypeOK, workerVars
  <2>7. \A s \in Workers : WorkerInv(s)'
    BY <1>2, <1>4 DEF MakePlan, workerVars, WorkerInv, NotSetUp, NothingRecorded
  <2>8. PlanInv' /\ MainInv' /\ ThrownInv'
    BY <1>1, <1>4, <2>5 DEF MakePlan, PlanInv, MainInv, ThrownInv, Started, workerVars
  <2> QED
    BY <2>6, <2>7, <2>8
<1>5. CASE ValidateRun
  <2>1. TypeOK'
    BY <1>5, RunnerAssumption DEF ValidateRun, TypeOK, workerVars
  <2>2. \A s \in Workers : WorkerInv(s)'
    BY <1>5, WorkersUndisturbed DEF ValidateRun
  <2>3. PlanInv' /\ ThrownInv'
    BY <1>5 DEF ValidateRun, PlanInv, ThrownInv
  <2>4. MainInv'
    BY <1>1, <1>5, PlanNumbers DEF ValidateRun, MainInv, Started, workerVars
  <2> QED
    BY <2>1, <2>2, <2>3, <2>4
<1> QED
  BY <1>3, <1>4, <1>5

\* Starting the pooled workers, and giving up when one cannot be started.
LEMMA SpawnStep ==
  ASSUME IInv,
         \/ SpawnWorker \/ SpawnThrows \/ AbortJoin \/ AbortRethrow \/ StartWorker0
  PROVE  IInv'
<1> USE DEF IInv
<1>1. /\ plan.effective \in Nat \ {0} /\ plan.effective <= MaxWorkers /\ MaxWorkers \in Nat
      /\ Workers = 0 .. MaxWorkers - 1
  BY PlanNumbers DEF Workers
<1>2. CASE SpawnWorker
  <2>1. /\ cursor \in 1 .. plan.effective - 1 /\ pool = cursor - 1
        /\ Started(1 .. cursor - 1)
    BY <1>1, <1>2 DEF SpawnWorker, MainInv
  <2>2. TypeOK'
    <3>1. cursor' \in 0 .. MaxWorkers + 1 /\ pool' \in Workers
      BY <1>1, <1>2, <2>1 DEF SpawnWorker
    <3>2. wpc' \in [ Workers -> { "idle", "create", "setup", "prepare", "loop", "record",
                                 "cleanup", "done" } ]
      BY <1>2 DEF SpawnWorker, TypeOK
    <3> QED
      BY <1>2, <3>1, <3>2 DEF SpawnWorker, TypeOK
  <2>3. wpc[cursor] = "idle"
    BY <1>1, <2>1 DEF Started
  <2>4. \A s \in Workers : WorkerInv(s)'
    BY <1>2, <2>3 DEF SpawnWorker, TypeOK, WorkerInv, NotSetUp, NothingRecorded, Working,
                      SlotRecorded, Failed, SlotEnd
  <2>5. PlanInv' /\ ThrownInv'
    BY <1>2 DEF SpawnWorker, PlanInv, ThrownInv
  <2>6. MainInv'
    BY <1>1, <1>2, <2>1 DEF SpawnWorker, MainInv, Started, TypeOK
  <2> QED
    BY <2>2, <2>4, <2>5, <2>6
<1>3. CASE SpawnThrows
  <2>1. /\ cursor \in 1 .. plan.effective - 1 /\ pool = cursor - 1
        /\ Started(1 .. cursor - 1)
    BY <1>1, <1>3 DEF SpawnThrows, MainInv
  <2>2. TypeOK'
    BY <1>1, <1>3 DEF SpawnThrows, TypeOK, workerVars, ExceptionType
  <2>3. \A s \in Workers : WorkerInv(s)'
    BY <1>3, WorkersUndisturbed DEF SpawnThrows
  <2>4. PlanInv' /\ ThrownInv'
    BY <1>3 DEF SpawnThrows, PlanInv, ThrownInv
  <2>5. MainInv'
    BY <1>1, <1>3, <2>1 DEF SpawnThrows, MainInv, Started, AllDone, workerVars
  <2> QED
    BY <2>2, <2>3, <2>4, <2>5
<1>4. CASE AbortJoin
  <2>1. /\ thrown = [ by |-> "main", slot |-> 0, step |-> "spawn" ]
        /\ pool < plan.effective /\ pool \in Nat
        /\ cursor \in 1 .. pool
        /\ Started(1 .. pool) /\ AllDone(1 .. cursor - 1) /\ wpc[cursor] = "done"
    BY <1>1, <1>4 DEF AbortJoin, MainInv, TypeOK
  <2>2. TypeOK'
    <3>1. cursor' \in 0 .. MaxWorkers + 1
      BY <1>1, <1>4, <2>1 DEF AbortJoin
    <3> QED
      BY <1>4, <3>1 DEF AbortJoin, TypeOK, workerVars
  <2>3. \A s \in Workers : WorkerInv(s)'
    BY <1>4, WorkersUndisturbed DEF AbortJoin
  <2>4. PlanInv' /\ ThrownInv'
    BY <1>4 DEF AbortJoin, PlanInv, ThrownInv
  <2>5. MainInv'
    BY <1>1, <1>4, <2>1 DEF AbortJoin, MainInv, Started, AllDone, workerVars
  <2> QED
    BY <2>2, <2>3, <2>4, <2>5
<1>5. CASE AbortRethrow
  <2>1. /\ thrown = [ by |-> "main", slot |-> 0, step |-> "spawn" ]
        /\ pool \in Nat /\ cursor = pool + 1
        /\ Started(1 .. pool) /\ AllDone(1 .. cursor - 1)
    BY <1>1, <1>5 DEF AbortRethrow, MainInv, TypeOK
  <2>2. TypeOK'
    BY <1>5 DEF AbortRethrow, TypeOK, workerVars
  <2>3. \A s \in Workers : WorkerInv(s)'
    BY <1>5, WorkersUndisturbed DEF AbortRethrow
  <2>4. PlanInv' /\ ThrownInv'
    BY <1>5, <2>1 DEF AbortRethrow, PlanInv, ThrownInv
  <2>5. \A s \in Workers : wpc[s] \in {"idle", "done"}
    BY <2>1 DEF Started, AllDone
  <2>6. MainInv'
    BY <1>5, <2>5 DEF AbortRethrow, MainInv, workerVars
  <2> QED
    BY <2>2, <2>3, <2>4, <2>6
<1>6. CASE StartWorker0
  <2>1. cursor = plan.effective /\ Started(1 .. plan.effective - 1)
    BY <1>6 DEF StartWorker0, MainInv
  <2>2. 0 \in Workers /\ wpc[0] = "idle"
    BY <1>1, <2>1 DEF Started
  <2>3. TypeOK'
    BY <1>6, <2>2 DEF StartWorker0, TypeOK
  <2>4. \A s \in Workers : WorkerInv(s)'
    BY <1>6, <2>2 DEF StartWorker0, TypeOK, WorkerInv, NotSetUp, NothingRecorded, Working,
                      SlotRecorded, Failed, SlotEnd
  <2>5. PlanInv' /\ ThrownInv'
    BY <1>6 DEF StartWorker0, PlanInv, ThrownInv
  <2>6. MainInv'
    BY <1>1, <1>6, <2>1, <2>2 DEF StartWorker0, MainInv, Started, Slots, TypeOK
  <2> QED
    BY <2>3, <2>4, <2>5, <2>6
<1> QED
  BY <1>2, <1>3, <1>4, <1>5, <1>6

\* Waiting for worker 0 and for the pool.
LEMMA JoinStep ==
  ASSUME IInv, FinishWorker0 \/ JoinWorker
  PROVE  IInv'
<1> USE DEF IInv
<1>1. /\ plan.effective \in Nat \ {0} /\ plan.effective <= MaxWorkers /\ MaxWorkers \in Nat
      /\ Workers = 0 .. MaxWorkers - 1
  BY PlanNumbers DEF Workers
<1>2. UNCHANGED <<config, plan, pool, thrown, merged, result, workerVars>>
  BY DEF FinishWorker0, JoinWorker
<1>3. \A s \in Workers : WorkerInv(s)'
  BY <1>2, WorkersUndisturbed
<1>4. PlanInv' /\ ThrownInv'
  BY <1>2 DEF FinishWorker0, JoinWorker, PlanInv, ThrownInv
<1>5. /\ mpc' = "join" /\ cursor' \in 1 .. plan.effective
      /\ Started(Slots(plan)) /\ AllDone(0 .. cursor' - 1)
  <2>1. CASE FinishWorker0
    BY <1>1, <2>1 DEF FinishWorker0, MainInv, AllDone
  <2>2. CASE JoinWorker
    BY <1>1, <2>2 DEF JoinWorker, MainInv, AllDone
  <2> QED
    BY <2>1, <2>2
<1>6. TypeOK'
  BY <1>1, <1>2, <1>5 DEF TypeOK, workerVars
<1>7. MainInv'
  BY <1>2, <1>5 DEF MainInv, Started, AllDone, workerVars
<1> QED
  BY <1>3, <1>4, <1>6, <1>7

\* Looking for a failure, in slot order.
LEMMA ScanStep ==
  ASSUME IInv, StartScan \/ ScanSlot \/ RethrowFailure
  PROVE  IInv'
<1> USE DEF IInv
<1>1. /\ plan.effective \in Nat \ {0} /\ plan.effective <= MaxWorkers /\ MaxWorkers \in Nat
      /\ Workers = 0 .. MaxWorkers - 1
      /\ Slots(plan) = 0 .. plan.effective - 1
  BY PlanNumbers DEF Workers, Slots
<1>2. UNCHANGED <<config, plan, pool, merged, result, workerVars>>
  BY DEF StartScan, ScanSlot, RethrowFailure
<1>3. \A s \in Workers : WorkerInv(s)'
  BY <1>2, WorkersUndisturbed
<1>4. CASE StartScan \/ ScanSlot
  <2>1. /\ mpc' = "scan" /\ cursor' \in 0 .. plan.effective /\ thrown' = thrown
        /\ Started(Slots(plan)) /\ AllDone(Slots(plan)) /\ NoFailure(0 .. cursor' - 1)
    <3>1. CASE StartScan
      BY <1>1, <3>1 DEF StartScan, MainInv, AllDone, NoFailure
    <3>2. CASE ScanSlot
      BY <1>1, <3>2 DEF ScanSlot, MainInv, NoFailure
    <3> QED
      BY <1>4, <3>1, <3>2
  <2>2. TypeOK'
    BY <1>1, <1>2, <2>1 DEF TypeOK, workerVars
  <2>3. PlanInv' /\ ThrownInv'
    BY <1>2, <1>4, <2>1 DEF StartScan, ScanSlot, PlanInv, ThrownInv
  <2>4. MainInv'
    BY <1>2, <2>1 DEF MainInv, Started, AllDone, NoFailure, workerVars
  <2> QED
    BY <1>3, <2>2, <2>3, <2>4
<1>5. CASE RethrowFailure
  <2>1. /\ cursor \in 0 .. plan.effective - 1 /\ failures[cursor] # "none"
        /\ Started(Slots(plan)) /\ AllDone(Slots(plan)) /\ NoFailure(0 .. cursor - 1)
    BY <1>1, <1>5 DEF RethrowFailure, MainInv
  <2>2. TypeOK'
    BY <1>1, <1>2, <1>5, <2>1 DEF RethrowFailure, TypeOK, workerVars, ExceptionType
  <2>3. PlanInv' /\ MainInv'
    BY <1>2, <1>5, <2>1 DEF RethrowFailure, PlanInv, MainInv, Started, AllDone, workerVars
  <2>4. ThrownInv'
    BY <1>2, <1>5, <2>1 DEF RethrowFailure, ThrownInv, NoFailure, workerVars
  <2> QED
    BY <1>3, <2>2, <2>3, <2>4
<1> QED
  BY <1>4, <1>5

\* Behind a failure-free slot stands a worker that recorded the whole of it.
LEMMA DoneSlot ==
  ASSUME IInv, AllDone(Slots(plan)), NoFailure(Slots(plan)), NEW s \in Slots(plan)
  PROVE  SlotRecorded(s) /\ SlotBegin(plan, s + 1) = SlotBegin(plan, s) + SlotCount(plan, s)
<1>1. s \in Workers /\ s \in Nat /\ WellFormed(plan)
  BY PlanNumbers DEF IInv, Slots
<1>2. SlotRecorded(s)
  BY <1>1 DEF IInv, AllDone, NoFailure, WorkerInv, Failed
<1>3. SlotBegin(plan, s + 1) = SlotBegin(plan, s) + SlotCount(plan, s)
  BY <1>1, SlotsContiguous
<1> QED
  BY <1>2, <1>3

\* Merging the collectors and computing the result.
LEMMA MergeStep ==
  ASSUME IInv, StartMerge \/ MergeSlot \/ ComputeResult
  PROVE  IInv'
<1> USE DEF IInv
<1>1. /\ plan.effective \in Nat \ {0} /\ plan.effective <= MaxWorkers /\ MaxWorkers \in Nat
      /\ Workers = 0 .. MaxWorkers - 1
      /\ Slots(plan) = 0 .. plan.effective - 1
      /\ WellFormed(plan)
  BY PlanNumbers DEF Workers, Slots
<1>2. Started(Slots(plan)) /\ AllDone(Slots(plan)) /\ NoFailure(Slots(plan))
  BY <1>1 DEF StartMerge, MergeSlot, ComputeResult, MainInv
<1>3. CASE StartMerge
  <2>1. SlotRecorded(0) /\ SlotBegin(plan, 1) = SlotCount(plan, 0)
    <3>1. 0 \in Slots(plan) /\ 0 + 1 = 1
      BY <1>1
    <3>2. SlotRecorded(0) /\ SlotBegin(plan, 1) = SlotBegin(plan, 0) + SlotCount(plan, 0)
      BY <1>2, <3>1, DoneSlot
    <3>3. SlotBegin(plan, 0) = 0 /\ SlotCount(plan, 0) \in Nat
      BY <1>1, FirstSlot, SlotNumbers
    <3> QED
      BY <3>2, <3>3
  <2>2. TypeOK'
    BY <1>1, <1>3 DEF StartMerge, TypeOK, workerVars
  <2>3. \A s \in Workers : WorkerInv(s)'
    BY <1>3, WorkersUndisturbed DEF StartMerge
  <2>4. PlanInv' /\ ThrownInv'
    BY <1>3 DEF StartMerge, PlanInv, ThrownInv
  <2>5. MainInv'
    BY <1>1, <1>2, <1>3, <2>1 DEF StartMerge, MainInv, Started, AllDone, NoFailure,
                                  SlotRecorded, workerVars
  <2> QED
    BY <2>2, <2>3, <2>4, <2>5
<1>4. CASE MergeSlot
  <2>1. /\ cursor \in 1 .. plan.effective - 1
        /\ merged.timings = SlotBegin(plan, cursor)
        /\ merged.outcomes = SlotBegin(plan, cursor)
    BY <1>1, <1>4 DEF MergeSlot, MainInv
  <2>2. /\ SlotRecorded(cursor)
        /\ SlotBegin(plan, cursor + 1) = SlotBegin(plan, cursor) + SlotCount(plan, cursor)
    BY <1>1, <1>2, <2>1, DoneSlot
  <2>3. collectors[cursor] \in CollectorType /\ merged \in CollectorType
    BY <1>1, <2>1 DEF TypeOK
  <2>4. /\ merged' \in CollectorType
        /\ merged'.timings = SlotBegin(plan, cursor + 1)
        /\ merged'.outcomes = SlotBegin(plan, cursor + 1)
    BY <1>4, <2>1, <2>2, <2>3 DEF MergeSlot, MergeFrom, CollectorType, SlotRecorded
  <2>5. TypeOK'
    BY <1>1, <1>4, <2>1, <2>4 DEF MergeSlot, TypeOK, workerVars
  <2>6. \A s \in Workers : WorkerInv(s)'
    BY <1>4, WorkersUndisturbed DEF MergeSlot
  <2>7. PlanInv' /\ ThrownInv'
    BY <1>4 DEF MergeSlot, PlanInv, ThrownInv
  <2>8. MainInv'
    BY <1>1, <1>2, <1>4, <2>1, <2>4 DEF MergeSlot, MainInv, Started, AllDone, NoFailure,
                                        workerVars
  <2> QED
    BY <2>5, <2>6, <2>7, <2>8
<1>5. CASE ComputeResult
  <2>1. /\ merged.timings = config.iterations
        /\ merged.outcomes = config.iterations
    <3>1. SlotBegin(plan, plan.effective) = plan.iterations
      BY <1>1, LastSlot
    <3> QED
      BY <1>5, <3>1 DEF ComputeResult, MainInv, PlanInv
  <2>2. TypeOK'
    <3>1. plan.requested \in Nat
      BY <1>1 DEF WellFormed, PlanType
    <3> QED
      BY <1>1, <1>5, <3>1 DEF ComputeResult, TypeOK, CollectorType, ResultType, workerVars
  <2>3. \A s \in Workers : WorkerInv(s)'
    BY <1>5, WorkersUndisturbed DEF ComputeResult
  <2>4. PlanInv' /\ ThrownInv'
    BY <1>5 DEF ComputeResult, PlanInv, ThrownInv
  <2>5. MainInv'
    BY <1>2, <1>5, <2>1 DEF ComputeResult, MainInv, Started, AllDone, NoFailure, workerVars
  <2> QED
    BY <2>2, <2>3, <2>4, <2>5
<1> QED
  BY <1>3, <1>4, <1>5

------------------------------------------------------------------------------
(* The theorems. *)

(***************************************************************************)
(* In every reachable state of runSingle each collector holds exactly the  *)
(* iterations its worker has run, and the main thread knows of the workers *)
(* what its place in the code lets it assume.                              *)
(***************************************************************************)
THEOREM RunnerInvariant == SafeSpec => []IInv
<1>1. Init => IInv
  BY InitIInv
<1>2. IInv /\ [Next]_vars => IInv'
  <2> SUFFICES ASSUME IInv, [Next]_vars PROVE IInv'
    OBVIOUS
  <2>1. CASE Main
    BY <2>1, MainThrowsStep, PlanningStep, SpawnStep, JoinStep, ScanStep, MergeStep DEF Main
  <2>2. CASE \E s \in Workers : Worker(s)
    BY <2>2, WorkerStep
  <2>3. CASE UNCHANGED vars
    <3>1. UNCHANGED <<config, plan, mpc, cursor, pool, thrown, merged, result, workerVars>>
      BY <2>3 DEF vars, mainVars
    <3>2. \A s \in Workers : WorkerInv(s)'
      BY <3>1, WorkersUndisturbed
    <3>3. TypeOK'
      BY <3>1 DEF IInv, TypeOK, workerVars
    <3>4. PlanInv' /\ MainInv' /\ ThrownInv'
      BY <3>1 DEF IInv, PlanInv, MainInv, ThrownInv, Started, AllDone, NoFailure, workerVars
    <3> QED
      BY <3>2, <3>3, <3>4 DEF IInv
  <2> QED
    BY <2>1, <2>2, <2>3 DEF Next, Done
<1> QED
  BY <1>1, <1>2, PTL DEF SafeSpec

\* The variables keep their types, and no scenario is torn down a third time.
THEOREM TypeCorrect == SafeSpec => []TypeOK
<1>1. IInv => TypeOK
  BY DEF IInv
<1> QED
  BY <1>1, RunnerInvariant, PTL

\* Each iteration is scheduled in exactly one slot of the plan the run holds.
THEOREM IterationsPartitioned == SafeSpec => []PlanPartition
<1>1. IInv => PlanPartition
  BY SlotsPartition DEF IInv, TypeOK, PlanPartition
<1> QED
  BY <1>1, RunnerInvariant, PTL

\* A result is never partial (runSingle's "without a partial result").
THEOREM ResultComplete == SafeSpec => []CompleteResult
<1>1. IInv => CompleteResult
  <2> SUFFICES ASSUME IInv, mpc = "returned"
               PROVE  /\ result.timings = config.iterations
                      /\ result.outcomes = config.iterations
                      /\ \A s \in Workers : failures[s] = "none"
    BY DEF CompleteResult
  <2>1. /\ result.timings = config.iterations /\ result.outcomes = config.iterations
        /\ Started(Slots(plan)) /\ NoFailure(Slots(plan))
    BY DEF IInv, MainInv
  <2>2. \A s \in Workers : wpc[s] = "idle" => failures[s] = "none"
    BY DEF IInv, WorkerInv, NotSetUp
  <2> QED
    BY <2>1, <2>2 DEF Started, NoFailure
<1> QED
  BY <1>1, RunnerInvariant, PTL

\* No worker runs once the main thread reads the workers' results or leaves runSingle.
THEOREM JoinBeforeRead == SafeSpec => []JoinedBeforeRead
<1>1. IInv => JoinedBeforeRead
  BY DEF IInv, MainInv, JoinedBeforeRead, Started, AllDone
<1> QED
  BY <1>1, RunnerInvariant, PTL

\* The failure of the lowest failing slot is the one rethrown.
THEOREM FirstFailure == SafeSpec => []FirstFailureRethrown
<1>1. IInv => FirstFailureRethrown
  BY DEF IInv, ThrownInv, FirstFailureRethrown, NoFailure
<1> QED
  BY <1>1, RunnerInvariant, PTL

\* A rejected configuration does no work.
THEOREM RejectionBeforeWork == SafeSpec => []RejectedBeforeWork
<1>1. IInv => RejectedBeforeWork
  BY DEF IInv, ThrownInv, RejectedBeforeWork, Started, WorkerInv, NotSetUp
<1> QED
  BY <1>1, RunnerInvariant, PTL

\* Every scenario that was set up is torn down; exactly once behind a result.
THEOREM EveryLifecycleClosed == SafeSpec => []LifecyclesClosed
<1>1. IInv => LifecyclesClosed
  <2> SUFFICES ASSUME IInv PROVE LifecyclesClosed
    OBVIOUS
  <2>1. ASSUME Ended, NEW s \in Workers
        PROVE  setups[s] <= teardowns[s]
    <3>1. wpc[s] \in {"idle", "done"}
      BY <2>1 DEF IInv, MainInv, Ended, Started, AllDone
    <3> QED
      BY <3>1 DEF IInv, WorkerInv, NotSetUp, SlotRecorded, Failed
  <2>2. ASSUME mpc = "returned", NEW s \in Slots(plan)
        PROVE  setups[s] = 1 /\ teardowns[s] = 1
    <3>1. AllDone(Slots(plan)) /\ NoFailure(Slots(plan))
      BY <2>2 DEF IInv, MainInv
    <3> QED
      BY <2>2, <3>1, DoneSlot DEF SlotRecorded
  <2> QED
    BY <2>1, <2>2 DEF LifecyclesClosed
<1> QED
  BY <1>1, RunnerInvariant, PTL

------------------------------------------------------------------------------
(***************************************************************************)
(* BenchmarkRunner implements BenchmarkRun, its fairness apart: a worker's *)
(* first step is a Start, its last one a Finish, leaving runSingle is a    *)
(* Return or a Throw, and every other step is invisible to the caller.     *)
(***************************************************************************)


\* The values the abstract variables have.
StartedSet == { s \in Workers : wpc[s] # "idle" }
RunningSet == { s \in Workers : wpc[s] \notin {"idle", "done"} }
FailedSet  == { s \in Workers : failures[s] # "none" }
Outcome    == IF Ended THEN mpc ELSE "pending"

\* What the caller cannot see of a step that only moves on inside runSingle.
Invisible ==
  /\ config' = config /\ result' = result
  /\ StartedSet' = StartedSet /\ RunningSet' = RunningSet /\ FailedSet' = FailedSet
  /\ Outcome' = Outcome

\* An invisible step stutters in the abstract run.
LEMMA InvisibleStutters ==
  ASSUME Invisible
  PROVE  UNCHANGED Run!vars
  BY DEF Invisible, StartedSet, RunningSet, FailedSet, Outcome, Run!vars

\* The workers' sets depend on the workers' variables alone.
LEMMA SameWorkers ==
  ASSUME UNCHANGED workerVars
  PROVE  StartedSet' = StartedSet /\ RunningSet' = RunningSet /\ FailedSet' = FailedSet
  BY DEF workerVars, StartedSet, RunningSet, FailedSet

\* A worker is started by the main thread.
LEMMA StartMaps ==
  ASSUME IInv, SpawnWorker \/ StartWorker0
  PROVE  Run!Next
<1>1. /\ plan.effective \in Nat \ {0} /\ plan.effective <= MaxWorkers /\ MaxWorkers \in Nat
      /\ Workers = 0 .. MaxWorkers - 1
  BY PlanNumbers DEF Workers, IInv
<1>2. PICK w \in Workers : /\ wpc[w] = "idle"
                           /\ \E step \in {"create", "setup"} :
                                wpc' = [ wpc EXCEPT ![w] = step ]
  <2>1. CASE SpawnWorker
    <3>1. cursor \in 1 .. plan.effective - 1 /\ Started(1 .. cursor - 1)
      BY <1>1, <2>1 DEF SpawnWorker, IInv, MainInv
    <3>2. cursor \in Workers /\ wpc[cursor] = "idle"
      BY <1>1, <3>1 DEF Started
    <3> QED
      BY <2>1, <3>2 DEF SpawnWorker
  <2>2. CASE StartWorker0
    <3>1. Started(1 .. cursor - 1)
      BY <2>2 DEF StartWorker0, IInv, MainInv
    <3>2. 0 \in Workers /\ wpc[0] = "idle"
      BY <1>1, <3>1 DEF Started
    <3> QED
      BY <2>2, <3>2 DEF StartWorker0
  <2> QED
    BY <2>1, <2>2
<1>3. wpc \in [ Workers -> { "idle", "create", "setup", "prepare", "loop", "record",
                             "cleanup", "done" } ]
  BY DEF IInv, TypeOK
<1>4. w \notin StartedSet
  BY <1>2 DEF StartedSet
<1>5. StartedSet' = StartedSet \cup {w} /\ RunningSet' = RunningSet \cup {w}
  BY <1>2, <1>3 DEF StartedSet, RunningSet
<1>6. /\ FailedSet' = FailedSet /\ config' = config /\ result' = result
      /\ Outcome = "pending" /\ Outcome' = "pending"
  BY DEF SpawnWorker, StartWorker0, FailedSet, Outcome, Ended
<1>7. Run!Start(w)
  BY <1>4, <1>5, <1>6 DEF Run!Start, StartedSet, RunningSet, FailedSet, Outcome
<1> QED
  BY <1>7 DEF Run!Next

\* A worker finishes, with or without a failure, or moves on inside its lifecycle.
LEMMA WorkerMaps ==
  ASSUME IInv, NEW s \in Workers, Worker(s)
  PROVE  Run!Next \/ UNCHANGED Run!vars
<1>1. /\ UNCHANGED <<config, mainVars>>
      /\ wpc[s] \notin {"idle", "done"} /\ wpc'[s] # "idle"
      /\ \A t \in Workers \ {s} : wpc'[t] = wpc[t] /\ failures'[t] = failures[t]
  BY CreateOwnStep, SetupOwnStep, PrepareOwnStep, IterationOwnStep, RecordOwnStep,
     TeardownOwnStep, ThrowsOwnStep, CleanupOwnStep DEF Worker, OwnStep
<1>2. config' = config /\ result' = result /\ Outcome' = Outcome
  BY <1>1 DEF mainVars, Outcome, Ended
<1>3. StartedSet' = StartedSet
  BY <1>1 DEF StartedSet
<1>4. failures[s] = "none"
  BY <1>1 DEF IInv, TypeOK, WorkerInv, NotSetUp, Working
<1>5. CASE wpc'[s] # "done"
  <2>1. failures' = failures
    BY <1>5 DEF Worker, WorkerCreate, WorkerCreateThrows, Setup, Prepare, RunIteration,
                RecordIteration, Teardown, CallThrows, Cleanup, MoveTo, IInv, TypeOK
  <2>2. RunningSet' = RunningSet /\ FailedSet' = FailedSet
    BY <1>1, <1>5, <2>1 DEF RunningSet, FailedSet
  <2> QED
    BY <1>2, <1>3, <2>2, InvisibleStutters DEF Invisible
<1>6. CASE wpc'[s] = "done"
  <2>1. RunningSet' = RunningSet \ {s} /\ s \in RunningSet
    BY <1>1, <1>6 DEF RunningSet
  <2>2. FailedSet' \in {FailedSet, FailedSet \cup {s}}
    BY <1>1, <1>4 DEF FailedSet
  <2>3. Run!Finish(s)
    BY <1>2, <1>3, <2>1, <2>2 DEF Run!Finish, StartedSet, RunningSet, FailedSet, Outcome
  <2> QED
    BY <2>3 DEF Run!Next
<1> QED
  BY <1>5, <1>6

\* Leaving runSingle with an exception.
LEMMA ThrowMaps ==
  ASSUME IInv, IInv', mpc \notin {"returned", "thrown"}, mpc' = "thrown",
         config' = config, result' = result, UNCHANGED workerVars
  PROVE  Run!Next
<1>1. StartedSet' = StartedSet /\ RunningSet' = RunningSet /\ FailedSet' = FailedSet
  BY SameWorkers
<1>2. RunningSet' = {}
  BY DEF IInv, MainInv, RunningSet
<1>3. Run!Throw
  BY <1>1, <1>2 DEF Run!Throw, StartedSet, RunningSet, FailedSet, Ended
<1> QED
  BY <1>3 DEF Run!Next

\* Returning the result.
LEMMA ReturnMaps ==
  ASSUME IInv, IInv', ComputeResult
  PROVE  Run!Next
<1>1. StartedSet' = StartedSet /\ RunningSet' = RunningSet /\ FailedSet' = FailedSet
  BY SameWorkers DEF ComputeResult
<1>2. /\ Started(Slots(plan)) /\ AllDone(Slots(plan)) /\ NoFailure(Slots(plan))
      /\ Slots(plan) \subseteq Workers /\ 0 \in Slots(plan)
  BY PlanNumbers DEF IInv, MainInv, ComputeResult, Slots
<1>3. RunningSet = {} /\ StartedSet # {}
  BY <1>2 DEF RunningSet, StartedSet, Started, AllDone
<1>4. FailedSet = {}
  BY <1>2 DEF FailedSet, Started, NoFailure, IInv, WorkerInv, NotSetUp
<1>5. result'.outcomes = config.iterations /\ config' = config
  BY DEF ComputeResult, IInv, MainInv
<1>6. Run!Return
  BY <1>1, <1>3, <1>4, <1>5
     DEF Run!Return, ComputeResult, StartedSet, RunningSet, FailedSet, Ended
<1> QED
  BY <1>6 DEF Run!Next

\* The main thread.
LEMMA MainMaps ==
  ASSUME IInv, IInv', Main
  PROVE  Run!Next \/ UNCHANGED Run!vars
<1>1. CASE SpawnWorker \/ StartWorker0
  BY <1>1, StartMaps
<1>2. CASE ComputeResult
  BY <1>2, ReturnMaps
<1>3. CASE (\E step \in MainSteps : MainThrows(step)) \/ AbortRethrow \/ RethrowFailure
  <2>1. /\ mpc \notin {"returned", "thrown"} /\ mpc' = "thrown"
        /\ config' = config /\ result' = result /\ UNCHANGED workerVars
    BY <1>3 DEF MainThrows, MainCalls, AbortRethrow, RethrowFailure
  <2> QED
    BY <2>1, ThrowMaps
<1>4. CASE \/ CreateScenario \/ MakePlan \/ ValidateRun \/ SpawnThrows \/ AbortJoin
           \/ FinishWorker0 \/ JoinWorker \/ StartScan \/ ScanSlot \/ StartMerge \/ MergeSlot
  <2>1. /\ config' = config /\ result' = result /\ UNCHANGED workerVars
        /\ mpc \notin {"returned", "thrown"} /\ mpc' \notin {"returned", "thrown"}
    BY <1>4 DEF CreateScenario, MakePlan, ValidateRun, SpawnThrows, AbortJoin,
                FinishWorker0, JoinWorker, StartScan, ScanSlot, StartMerge, MergeSlot
  <2>2. Outcome' = Outcome
    BY <2>1 DEF Outcome, Ended
  <2> QED
    BY <2>1, <2>2, SameWorkers, InvisibleStutters DEF Invisible
<1> QED
  BY <1>1, <1>2, <1>3, <1>4 DEF Main

(***************************************************************************)
(* For its caller a run is all or nothing: whatever the workers do and in  *)
(* whatever order, runSingle takes only the steps BenchmarkRun allows.     *)
(***************************************************************************)
THEOREM RunnerImplementsRun == SafeSpec => Run!SafeSpec
<1>1. Init => Run!Init
  BY DEF Init, Run!Init, Ended, NoResult
<1>2. IInv /\ IInv' /\ [Next]_vars => [Run!Next]_(Run!vars)
  <2> SUFFICES ASSUME IInv, IInv', [Next]_vars
               PROVE  Run!Next \/ UNCHANGED Run!vars
    OBVIOUS
  <2>1. CASE Main
    BY <2>1, MainMaps
  <2>2. CASE \E s \in Workers : Worker(s)
    BY <2>2, WorkerMaps
  <2>3. CASE UNCHANGED vars
    <3>1. UNCHANGED <<config, mpc, result, workerVars>>
      BY <2>3 DEF vars, mainVars
    <3>2. Outcome' = Outcome
      BY <3>1 DEF Outcome, Ended
    <3> QED
      BY <3>1, <3>2, SameWorkers, InvisibleStutters DEF Invisible
  <2> QED
    BY <2>1, <2>2, <2>3 DEF Next, Done
<1> QED
  BY <1>1, <1>2, RunnerInvariant, PTL DEF SafeSpec, Run!SafeSpec
==============================================================================
