--------------------------- MODULE IdentityVerify ----------------------------
(***************************************************************************)
(* IdentityVerifyScenario (identity_verify_scenario.cpp) through one       *)
(* worker's lifecycle: keys are derived once, each iteration constructs    *)
(* labelled samples of several signers, aggregates and verifies each, and  *)
(* compares the verdict with the label.                                    *)
(*                                                                         *)
(* The identity algorithm is external.  It may refuse to sign, to          *)
(* aggregate or to verify; when it is sound it accepts an aggregate of     *)
(* signers exactly if it is genuine, otherwise it answers as it likes.     *)
(* A message is "signed", what the signers signed, or "altered"; a sample's *)
(* session is shared by all that is done with it and left out.  Shares are *)
(* quarters, whose product with a count is exact in the code's double.     *)
(***************************************************************************)
EXTENDS Integers, Sequences, FiniteSets

CONSTANTS
  UserCounts,     \* values of numUsers
  SampleCounts,   \* values of samplesPerIteration
  NegativeShares, \* values of negativeSamples, in quarters
  Iterations      \* iterations of the worker's slot

\* Shares are fractions of the samples, as NegativeSampleConfig says; a command line may
\* give a negative ratio, whose cast to a count is undefined and not modelled.
ASSUME IdentityAssumption ==
  /\ UserCounts \subseteq Nat /\ SampleCounts \subseteq Nat /\ Iterations \in Nat
  /\ NegativeShares \subseteq [ forgery : 0 .. 4, tampered : 0 .. 4, impersonation : 0 .. 4 ]
  /\ \A shares \in NegativeShares :
       shares.forgery + shares.tampered + shares.impersonation \in 0 .. 4

Stages   == {"generateKeys", "sign", "aggregate", "aggregateVerify"}
Messages == {"keyGeneration", "signing", "verification", "tags"}

Collector == INSTANCE MetricsCollector

Kinds    == {"positive", "forgery", "tampered", "impersonation"}
Order    == <<"positive", "forgery", "tampered", "impersonation">>
Outcomes == {"trueAccept", "falseAccept", "trueReject", "falseReject"}

VARIABLES
  config,       \* numUsers, samplesPerIteration, negativeSamples
  algorithm,    \* its tier and whether it is sound
  pc,           \* where the lifecycle is
  iteration,    \* iterations recorded
  users,        \* users with a key pair: 0 .. users - 1
  forgerKey,    \* forgerPriv was derived
  isOnline,     \* isOnline_
  quota,        \* samples still to construct, per kind
  samples,      \* testSamples
  pending,      \* indices of samples not verified yet: shuffled, so in any order
  last,         \* lastTA_, lastFA_, lastTR_, lastFR_
  lastTimings, lastSizes,
  collector, report,
  constructed,  \* samples of the recorded iterations, per label (history)
  abandoned     \* samples given up when the forger would not sign (history)

envVars    == <<config, algorithm>>
setupVars  == <<users, forgerKey, isOnline>>
sampleVars == <<quota, samples, pending>>
lastVars   == <<last, lastTimings, lastSizes>>
history    == <<constructed, abandoned>>
vars == <<envVars, pc, iteration, setupVars, sampleVars, lastVars, collector, report, history>>

Forger == -1

NoQuota    == [ k \in Kinds |-> 0 ]
NoOutcomes == [ o \in Outcomes |-> 0 ]
NoReport   == [ kind |-> "none", identity |-> Collector!FillIdentity(Collector!Fresh, 0) ]

InitIdentity ==
  /\ config \in [ users : UserCounts, samples : SampleCounts, shares : NegativeShares ]
  /\ algorithm \in [ online : BOOLEAN, sound : BOOLEAN ]
  /\ pc = "setup" /\ iteration = 0
  /\ users = 0 /\ forgerKey = FALSE /\ isOnline = FALSE
  /\ quota = NoQuota /\ samples = <<>> /\ pending = {}
  /\ last = NoOutcomes
  /\ lastTimings = Collector!NoTimings /\ lastSizes = Collector!NoSizes
  /\ collector = Collector!Fresh /\ report = NoReport
  /\ constructed = [ label \in BOOLEAN |-> 0 ] /\ abandoned = 0

------------------------------------------------------------------------------
(* Setup. *)

Calls(n) == Collector!Measured(n, n)

\* Forgeries are wanted and there is a user to impersonate.
ForgerWanted == config.users >= 2 /\ config.shares.forgery > 0

(***************************************************************************)
(* The tier is established, every user's keys are derived, and the forger's *)
(* key once; failing to derive that one is not an error.  The runner       *)
(* records the setup metrics after the call.                               *)
(***************************************************************************)
SetupIdentity ==
  /\ pc = "setup"
  /\ isOnline' = algorithm.online
  /\ users' = config.users
  /\ forgerKey' \in IF ForgerWanted THEN BOOLEAN ELSE {FALSE}
  /\ LET derivations == config.users + (IF ForgerWanted THEN 1 ELSE 0)
     IN  collector' = Collector!RecordSetupMessageSizes(
           Collector!RecordSetupTimings(collector,
             [ Collector!NoTimings EXCEPT !["generateKeys"] = Calls(derivations) ]),
           [ Collector!NoSizes EXCEPT !["keyGeneration"] = Calls(config.users) ])
  /\ pc' = "loop"
  /\ UNCHANGED <<envVars, iteration, sampleVars, lastVars, report, history>>

------------------------------------------------------------------------------
(* generateTestSamples. *)

\* A share of the samples, cut to an integer.
Share(quarters) == (config.samples * quarters) \div 4

\* Mutated form of InitialQuota: a single user impersonates itself.
InitialQuotaSelf ==
  [ k \in Kinds |->
      CASE k = "positive"      -> Share(4 - config.shares.forgery - config.shares.tampered
                                          - config.shares.impersonation)
        [] k = "forgery"       -> IF forgerKey THEN Share(config.shares.forgery) ELSE 0
        [] k = "tampered"      -> Share(config.shares.tampered)
        [] k = "impersonation" -> IF config.users >= 1
                                  THEN Share(config.shares.impersonation) ELSE 0 ]

\* Samples to construct; forgeries need the forger's key, both they and
\* impersonations a second user.
InitialQuota ==
  [ k \in Kinds |->
      CASE k = "positive"      -> Share(4 - config.shares.forgery - config.shares.tampered
                                          - config.shares.impersonation)
        [] k = "forgery"       -> IF forgerKey /\ config.users >= 2
                                  THEN Share(config.shares.forgery) ELSE 0
        [] k = "tampered"      -> Share(config.shares.tampered)
        [] k = "impersonation" -> IF config.users >= 2
                                  THEN Share(config.shares.impersonation) ELSE 0 ]

\* Mutated form of StartIteration: the last metrics are not cleared.
StartIterationKeepsLast ==
  /\ pc = "loop" /\ iteration < Iterations
  /\ last' = NoOutcomes
  /\ quota' = InitialQuota /\ samples' = <<>> /\ pending' = {}
  /\ abandoned' = 0
  /\ pc' = "generate"
  /\ UNCHANGED <<envVars, iteration, setupVars, lastTimings, lastSizes, collector, report,
                 constructed>>

\* runIteration clears what the last one left.
StartIteration ==
  /\ pc = "loop" /\ iteration < Iterations
  /\ last' = NoOutcomes
  /\ lastTimings' = Collector!NoTimings /\ lastSizes' = Collector!NoSizes
  /\ quota' = InitialQuota /\ samples' = <<>> /\ pending' = {}
  /\ abandoned' = 0
  /\ pc' = "generate"
  /\ UNCHANGED <<envVars, iteration, setupVars, collector, report, constructed>>

\* Kinds are constructed one after the other.
Constructing(k) ==
  /\ pc = "generate" /\ quota[k] > 0
  /\ \E i \in 1 .. 4 : Order[i] = k /\ \A j \in 1 .. i - 1 : quota[Order[j]] = 0

Signature(key, message) == [ key |-> key, message |-> message ]
Legit(n) == [ i \in 1 .. n |-> Signature(i - 1, "signed") ]

\* The signers of a sample of numUsers: the last one is the victim of a forgery
\* by the external key, or of an impersonation by user 0.
Signatures(k) ==
  CASE k \in {"positive", "tampered"} -> Legit(users)
    [] k = "forgery"       -> Append(Legit(users - 1), Signature(Forger, "signed"))
    [] k = "impersonation" -> Append(Legit(users - 1), Signature(0, "signed"))

\* Mutated form of Sample: a tampered sample is verified with the message signed.
SampleNotTampered(k) ==
  [ signatures   |-> Signatures(k),
    userIds      |-> [ i \in 1 .. config.users |-> i - 1 ],
    message      |-> "signed",
    shouldAccept |-> k = "positive" ]

Sample(k) ==
  [ signatures   |-> Signatures(k),
    userIds      |-> [ i \in 1 .. config.users |-> i - 1 ],
    message      |-> IF k = "tampered" THEN "altered" ELSE "signed",
    shouldAccept |-> k = "positive" ]

\* Signing calls are timed whether they return; those that do are messages.
Signed(calls, returned) ==
  /\ lastTimings' = [ lastTimings EXCEPT !["sign"] = Collector!Add(@, Calls(calls)) ]
  /\ lastSizes' = [ lastSizes EXCEPT !["signing"] = Collector!Add(@, Calls(returned)) ]

Construct(k) ==
  /\ Constructing(k)
  /\ quota' = [ quota EXCEPT ![k] = @ - 1 ]
  /\ samples' = Append(samples, Sample(k))
  /\ Signed(config.users, config.users)
  /\ UNCHANGED <<envVars, pc, iteration, setupVars, pending, last, collector, report, history>>

\* The forged or impersonating signature is refused: the sample is given up.
Abandon(k) ==
  /\ Constructing(k) /\ k \in {"forgery", "impersonation"}
  /\ quota' = [ quota EXCEPT ![k] = @ - 1 ]
  /\ Signed(config.users, config.users - 1)
  /\ abandoned' = abandoned + 1
  /\ UNCHANGED <<envVars, pc, iteration, setupVars, samples, pending, last, collector, report,
                 constructed>>

Shuffle ==
  /\ pc = "generate" /\ \A k \in Kinds : quota[k] = 0
  /\ pending' = DOMAIN samples
  /\ pc' = "verify"
  /\ UNCHANGED <<envVars, iteration, setupVars, quota, samples, lastVars, collector, report,
                 history>>

------------------------------------------------------------------------------
(* Verification. *)

\* Every signer signed the message that is verified, with the key of the user named.
Genuine(sample) ==
  sample.signatures = [ i \in 1 .. config.users |-> Signature(sample.userIds[i], sample.message) ]

\* What the algorithm makes of a sample: it does not aggregate it, or verifies it.
Answers(sample) ==
  IF algorithm.sound /\ config.users > 0
  THEN IF Genuine(sample) THEN {"accepted"}
       ELSE {"aggregate throws", "aggregate empty", "rejected"}
  ELSE {"aggregate throws", "aggregate empty", "accepted", "rejected"}

\* A sample that does not aggregate counts as rejected.
Outcome(sample, answer) ==
  CASE answer = "accepted" /\   sample.shouldAccept -> "trueAccept"
    [] answer = "accepted" /\ ~ sample.shouldAccept -> "falseAccept"
    [] answer # "accepted" /\ ~ sample.shouldAccept -> "trueReject"
    [] answer # "accepted" /\   sample.shouldAccept -> "falseReject"

Aggregates(answer) == answer \in {"accepted", "rejected"}

\* Aggregation is timed always, verification and its message follow an aggregate.
Verified(answer) ==
  LET one  == Calls(1)
      sent == IF Aggregates(answer) THEN one ELSE Collector!NoMetric
  IN  /\ lastTimings' = [ lastTimings EXCEPT !["aggregate"] = Collector!Add(@, one),
                                             !["aggregateVerify"] = Collector!Add(@, sent) ]
      /\ lastSizes' = [ lastSizes EXCEPT !["verification"] = Collector!Add(@, sent) ]

\* Mutated form of VerifySample: a sample that does not aggregate is passed over.
VerifySampleSkips(i) ==
  /\ pc = "verify" /\ i \in pending
  /\ \E answer \in Answers(samples[i]) :
       /\ last' = IF Aggregates(answer)
                  THEN [ last EXCEPT ![Outcome(samples[i], answer)] = @ + 1 ] ELSE last
       /\ Verified(answer)
  /\ pending' = pending \ {i}
  /\ UNCHANGED <<envVars, pc, iteration, setupVars, quota, samples, collector, report, history>>

VerifySample(i) ==
  /\ pc = "verify" /\ i \in pending
  /\ \E answer \in Answers(samples[i]) :
       /\ last' = [ last EXCEPT ![Outcome(samples[i], answer)] = @ + 1 ]
       /\ Verified(answer)
  /\ pending' = pending \ {i}
  /\ UNCHANGED <<envVars, pc, iteration, setupVars, quota, samples, collector, report, history>>

\* runIteration returns and the runner records its timings and messages.
IterationDone ==
  /\ pc = "verify" /\ pending = {}
  /\ collector' = Collector!RecordMessageSizes(
                    Collector!RecordTimings(collector, lastTimings), lastSizes)
  /\ pc' = "record"
  /\ UNCHANGED <<envVars, iteration, setupVars, sampleVars, lastVars, report, history>>

------------------------------------------------------------------------------
(* Recording, the result, failures. *)

\* recordIdentityOutcome called n times.
Repeated(c, n, accepted, truth) ==
  LET times[i \in 0 .. n] ==
        IF i = 0 THEN c ELSE Collector!RecordIdentityOutcome(times[i - 1], accepted, truth)
  IN  times[n]

RecordOutcomes ==
  /\ pc = "record"
  /\ collector' = Repeated(Repeated(Repeated(Repeated(collector,
                    last["trueAccept"],  TRUE,  TRUE),
                    last["falseAccept"], TRUE,  FALSE),
                    last["trueReject"],  FALSE, FALSE),
                    last["falseReject"], FALSE, TRUE)
  /\ iteration' = iteration + 1
  /\ constructed' = [ label \in BOOLEAN |-> constructed[label]
                        + Cardinality({ i \in DOMAIN samples : samples[i].shouldAccept = label }) ]
  /\ pc' = "loop"
  /\ UNCHANGED <<envVars, setupVars, sampleVars, lastVars, report, abandoned>>

\* teardown: keys, samples and last results go, the tier stays.
DropContext ==
  /\ users' = 0 /\ forgerKey' = FALSE
  /\ quota' = NoQuota /\ samples' = <<>> /\ pending' = {}
  /\ last' = NoOutcomes
  /\ lastTimings' = Collector!NoTimings /\ lastSizes' = Collector!NoSizes

TeardownIdentity ==
  /\ pc = "loop" /\ iteration = Iterations
  /\ DropContext /\ UNCHANGED isOnline
  /\ pc' = "compute"
  /\ UNCHANGED <<envVars, iteration, collector, report, history>>

\* computeResult is called on worker 0's scenario, which was torn down.
IdentityResult ==
  /\ pc = "compute"
  /\ report' = [ kind     |-> IF isOnline THEN "Online" ELSE "Offline",
                 identity |-> Collector!FillIdentity(collector, Iterations) ]
  /\ pc' = "returned"
  /\ UNCHANGED <<envVars, iteration, setupVars, sampleVars, lastVars, collector, history>>

\* Setup, a legitimate signer, the making of a session, or the verifier throws; the runner tears down and
\* the run has no result.
IdentityThrows ==
  /\ \/ pc = "setup"
     \/ \E k \in Kinds : Constructing(k) /\ (config.users > 0 \/ isOnline)
     \/ pc = "verify" /\ pending # {}
  /\ DropContext /\ UNCHANGED isOnline
  /\ pc' = "failed"
  /\ UNCHANGED <<envVars, iteration, collector, report, history>>

NextIdentity ==
  \/ SetupIdentity
  \/ StartIteration
  \/ \E k \in Kinds : Construct(k) \/ Abandon(k)
  \/ Shuffle
  \/ \E i \in pending : VerifySample(i)
  \/ IterationDone \/ RecordOutcomes
  \/ TeardownIdentity \/ IdentityResult
  \/ IdentityThrows

SpecIdentity == InitIdentity /\ [][NextIdentity]_vars

------------------------------------------------------------------------------
(* Properties. *)

(***************************************************************************)
(* A label is the truth: a sample should be accepted exactly if every      *)
(* signer named signed, with their own key, the message that is verified,  *)
(* for any number of users (IdentitySampleLabel, "Ground truth: should the *)
(* aggregate be accepted?").  Without users there is nothing to tell apart.*)
(***************************************************************************)
LabelsTrue ==
  config.users > 0 =>
    \A i \in DOMAIN samples : samples[i].shouldAccept <=> Genuine(samples[i])

(***************************************************************************)
(* Every sample of a recorded iteration has exactly one outcome, on the    *)
(* side of its own label, and those of an iteration that failed half way   *)
(* through have none.                                                      *)
(***************************************************************************)
OutcomesPerLabel ==
  LET counted == collector.counts
  IN  pc \in {"loop", "compute", "returned"} =>
        /\ counted["trueAccepts"] + counted["falseRejects"] = constructed[TRUE]
        /\ counted["falseAccepts"] + counted["trueRejects"] = constructed[FALSE]

(***************************************************************************)
(* With a sound algorithm the benchmark finds no error: a sample is        *)
(* accepted exactly if it should be.  The report's accuracy is that of the *)
(* algorithm, not of the samples' construction or of the accounting.       *)
(***************************************************************************)
SoundIsAccurate ==
  pc = "returned" /\ algorithm.sound /\ config.users > 0 =>
    /\ collector.counts["falseAccepts"] = 0 /\ collector.counts["falseRejects"] = 0
    /\ report.identity.accuracyRate[1] = report.identity.samples

(***************************************************************************)
(* The traffic of an iteration fits its samples: numUsers signatures for   *)
(* each, one less for a sample given up, an aggregation for each, and one  *)
(* message for each verification.  The samples are those configured, but   *)
(* for three at most that cutting the shares to integers leaves out, and   *)
(* for kinds that want for users or keys.                                  *)
(***************************************************************************)
TrafficMatchesSamples ==
  pc = "record" =>
    /\ lastTimings["sign"].count = config.users * (Len(samples) + abandoned)
    /\ lastSizes["signing"].count = lastTimings["sign"].count - abandoned
    /\ lastTimings["aggregate"].count = Len(samples)
    /\ lastSizes["verification"].count = lastTimings["aggregateVerify"].count
    /\ Len(samples) + abandoned <= config.samples
    /\ config.users >= 2 /\ (forgerKey \/ config.shares.forgery = 0) =>
         Len(samples) + abandoned > config.samples - 4

==============================================================================
