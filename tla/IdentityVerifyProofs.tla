------------------------- MODULE IdentityVerifyProofs -------------------------
(***************************************************************************)
(* Theorems about a worker of the identity verification benchmark, for any *)
(* numbers of users, samples and iterations and any shares: its labels are *)
(* true, each sample has one outcome, a sound algorithm is found accurate, *)
(* and the traffic fits the samples.                                       *)
(***************************************************************************)
EXTENDS IdentityVerifyInv, SequenceTheorems, FiniteSetTheorems, WellFoundedInduction, TLAPS

------------------------------------------------------------------------------
(* Induction, sequences and sums. *)

\* Induction over the natural numbers, for a set.
LEMMA SetInduction ==
  ASSUME NEW S, 0 \in S, \A n \in Nat : n \in S => n + 1 \in S
  PROVE  Nat \subseteq S
<1> SUFFICES ASSUME Nat \ S # {} PROVE FALSE
  OBVIOUS
<1> DEFINE below == { pair \in Nat \X Nat : pair[1] < pair[2] }
<1>1. PICK least \in Nat \ S : \A y \in Nat \ S : <<y, least>> \notin below
  <2>1. IsWellFoundedOn(below, Nat)
    BY NatLessThanWellFounded DEF OpToRel
  <2> HIDE DEF below
  <2> QED
    BY <2>1, WFMin, Zenon
<1>2. least - 1 \in Nat /\ (least - 1) + 1 = least
  BY <1>1
<1>3. least - 1 \notin S
  BY <1>1, <1>2
<1>4. <<least - 1, least>> \in Nat \X Nat /\ least - 1 < least
  BY <1>2
<1> QED
  BY <1>1, <1>2, <1>3, <1>4

\* A function on the first natural numbers is a sequence of that length.
LEMMA LengthOfMap ==
  ASSUME NEW S, NEW k \in Nat, NEW s \in [ 1 .. k -> S ]
  PROVE  s \in Seq(S) /\ Len(s) = k
<1>1. s \in Seq(S)
  BY SeqDef
<1>2. Len(s) \in Nat /\ DOMAIN s = 1 .. Len(s)
  BY <1>1, LenProperties
<1>3. 1 .. Len(s) = 1 .. k
  BY <1>2
<1>4. CASE k < Len(s)
  <2>1. Len(s) \in 1 .. Len(s) /\ Len(s) \notin 1 .. k
    BY <1>2, <1>4
  <2> QED
    BY <1>3, <2>1
<1>5. CASE Len(s) < k
  <2>1. k \in 1 .. k /\ k \notin 1 .. Len(s)
    BY <1>2, <1>5
  <2> QED
    BY <1>3, <2>1
<1> QED
  BY <1>1, <1>2, <1>4, <1>5

------------------------------------------------------------------------------
(* The collector's recorders. *)

\* The counter an outcome goes to, beside the samples.
CounterOf(accepted, truth) ==
  CASE   accepted /\   truth -> "trueAccepts"
    []   accepted /\ ~ truth -> "falseAccepts"
    [] ~ accepted /\ ~ truth -> "trueRejects"
    [] ~ accepted /\   truth -> "falseRejects"

\* d has the counters of c, and n more samples of one outcome.
HasMore(d, c, n, accepted, truth) ==
  /\ d \in TallyType
  /\ \A k \in Collector!Counters :
       d.counts[k] = c.counts[k] + (IF k \in {"samples", CounterOf(accepted, truth)} THEN n ELSE 0)

\* recordIdentityOutcome counts one.
LEMMA OneOutcome ==
  ASSUME NEW c \in TallyType, NEW accepted \in BOOLEAN, NEW truth \in BOOLEAN
  PROVE  HasMore(Collector!RecordIdentityOutcome(c, accepted, truth), c, 1, accepted, truth)
<1> DEFINE names  == {"samples", CounterOf(accepted, truth)}
           counts == [ k \in Collector!Counters |-> c.counts[k] + (IF k \in names THEN 1 ELSE 0) ]
           d      == [ c EXCEPT !.counts = counts ]
<1>1. Collector!RecordIdentityOutcome(c, accepted, truth) = d
  BY DEF Collector!RecordIdentityOutcome, Collector!Increment, CounterOf
<1>2. c.counts \in [ Collector!Counters -> Nat ]
  BY DEF TallyType
<1>3. counts \in [ Collector!Counters -> Nat ]
  <2> HIDE DEF names
  <2> QED
    BY <1>2
<1>4. \A k \in Collector!Counters : counts[k] = c.counts[k] + (IF k \in names THEN 1 ELSE 0)
  BY Zenon
<1> HIDE DEF counts
<1>5. d.counts = counts /\ d \in TallyType
  BY <1>3 DEF TallyType
<1> HIDE DEF d, names
<1>6. \A k \in Collector!Counters : d.counts[k] = c.counts[k] + (IF k \in names THEN 1 ELSE 0)
  BY <1>4, <1>5
<1> QED
  BY <1>1, <1>5, <1>6 DEF HasMore, names

\* times is the function Repeated defines by recursion, up to n.
Times(times, c, n, accepted, truth) ==
  times = [ i \in 0 .. n |->
              IF i = 0 THEN c
              ELSE Collector!RecordIdentityOutcome(times[i - 1], accepted, truth) ]

\* There is such a function.
LEMMA TimesExists ==
  ASSUME NEW c, NEW n \in Nat, NEW accepted, NEW truth
  PROVE  \E times : Times(times, c, n, accepted, truth)
<1> DEFINE S == { k \in Nat : \E f : Times(f, c, k, accepted, truth) }
<1>1. 0 \in S
  <2> DEFINE f == [ i \in 0 .. 0 |-> c ]
  <2>1. Times(f, c, 0, accepted, truth)
    BY DEF Times
  <2> QED
    BY <2>1
<1>2. ASSUME NEW k \in Nat, k \in S PROVE k + 1 \in S
  <2>1. PICK f : Times(f, c, k, accepted, truth)
    BY <1>2
  <2> DEFINE more == Collector!RecordIdentityOutcome(f[k], accepted, truth)
             g    == [ i \in 0 .. k + 1 |-> IF i <= k THEN f[i] ELSE more ]
  <2>2. ASSUME NEW i \in 0 .. k + 1
        PROVE  g[i] = IF i = 0 THEN c
                      ELSE Collector!RecordIdentityOutcome(g[i - 1], accepted, truth)
    <3>1. CASE i <= k
      <4>1. i \in 0 .. k /\ g[i] = f[i] /\ (i # 0 => g[i - 1] = f[i - 1])
        BY <3>1
      <4>2. f[i] = IF i = 0 THEN c
                   ELSE Collector!RecordIdentityOutcome(f[i - 1], accepted, truth)
        BY <2>1, <4>1, Zenon DEF Times
      <4> HIDE DEF g
      <4> QED
        BY <4>1, <4>2
    <3>2. CASE i = k + 1
      <4>1. g[i] = more /\ g[i - 1] = f[k] /\ i # 0
        BY <3>2
      <4> HIDE DEF g
      <4> QED
        BY <3>2, <4>1
    <3> QED
      BY <3>1, <3>2
  <2>3. Times(g, c, k + 1, accepted, truth)
    <3>1. g = [ i \in 0 .. k + 1 |-> g[i] ]
      OBVIOUS
    <3> HIDE DEF g
    <3> QED
      BY <2>2, <3>1, Zenon DEF Times
  <2> QED
    <3> HIDE DEF g
    <3> QED
      BY <2>3
<1> HIDE DEF S
<1>3. n \in S
  BY <1>1, <1>2, SetInduction
<1> QED
  BY <1>3 DEF S

\* Such a function counts as many as its argument says.
LEMMA TimesCounts ==
  ASSUME NEW c \in TallyType, NEW n \in Nat, NEW accepted \in BOOLEAN, NEW truth \in BOOLEAN,
         NEW times, Times(times, c, n, accepted, truth)
  PROVE  HasMore(times[n], c, n, accepted, truth)
<1> DEFINE S == { k \in Nat : k <= n => HasMore(times[k], c, k, accepted, truth) }
<1>1. \A i \in 0 .. n :
        times[i] = IF i = 0 THEN c
                   ELSE Collector!RecordIdentityOutcome(times[i - 1], accepted, truth)
  BY Zenon DEF Times
<1>2. \A k \in Collector!Counters : c.counts[k] \in Nat
  BY DEF TallyType
<1>3. 0 \in S
  <2>1. 0 \in 0 .. n
    OBVIOUS
  <2>2. times[0] = c
    BY <1>1, <2>1, Zenon
  <2>3. HasMore(c, c, 0, accepted, truth)
    BY <1>2 DEF HasMore
  <2> QED
    BY <2>2, <2>3
<1>4. ASSUME NEW k \in Nat, k \in S PROVE k + 1 \in S
  <2> SUFFICES ASSUME k + 1 <= n PROVE HasMore(times[k + 1], c, k + 1, accepted, truth)
    OBVIOUS
  <2>1. k + 1 \in 0 .. n /\ k + 1 # 0 /\ (k + 1) - 1 = k /\ k <= n
    OBVIOUS
  <2>2. HasMore(times[k], c, k, accepted, truth)
    BY <1>4, <2>1
  <2>3. times[k + 1] = Collector!RecordIdentityOutcome(times[k], accepted, truth)
    <3>1. times[k + 1] = IF k + 1 = 0 THEN c
                         ELSE Collector!RecordIdentityOutcome(times[(k + 1) - 1], accepted, truth)
      BY <1>1, <2>1, Zenon
    <3> QED
      BY <2>1, <3>1
  <2>4. HasMore(times[k + 1], times[k], 1, accepted, truth)
    BY <2>2, <2>3, OneOutcome DEF HasMore
  <2> QED
    BY <1>2, <2>2, <2>4 DEF HasMore
<1> HIDE DEF S
<1>5. n \in S
  BY <1>3, <1>4, SetInduction
<1> QED
  BY <1>5 DEF S

\* Calling recordIdentityOutcome n times counts n samples of one outcome.
LEMMA RepeatedCounts ==
  ASSUME NEW c \in TallyType, NEW n \in Nat, NEW accepted \in BOOLEAN, NEW truth \in BOOLEAN
  PROVE  HasMore(Repeated(c, n, accepted, truth), c, n, accepted, truth)
<1> DEFINE times == CHOOSE times : Times(times, c, n, accepted, truth)
<1>1. Times(times, c, n, accepted, truth)
  BY TimesExists
<1>2. Repeated(c, n, accepted, truth) = times[n]
  BY DEF Repeated, Times
<1> HIDE DEF times
<1> QED
  BY <1>1, <1>2, TimesCounts

\* Adding to a metric adds the counts.
LEMMA AddMetric ==
  ASSUME NEW m \in MetricType, NEW n \in MetricType
  PROVE  /\ Collector!Add(m, n) \in MetricType
         /\ Collector!Add(m, n).count = m.count + n.count
<1> DEFINE total   == m.total + n.total
           count   == m.count + n.count
           sum     == [ m EXCEPT !.total = total, !.count = count ]
           average == Collector!Fraction(sum.total, sum.count)
<1>1. total \in Nat /\ count \in Nat
  BY DEF MetricType
<1>2. Collector!Add(m, n) = [ sum EXCEPT !.average = average ]
  BY DEF Collector!Add, Collector!Normalize
<1> HIDE DEF total, count
<1>3. sum \in MetricType /\ sum.count = count
  BY <1>1 DEF MetricType
<1> HIDE DEF sum
<1>4. average \in Nat \X Nat
  BY <1>3 DEF Collector!Fraction, MetricType
<1> HIDE DEF average
<1> QED
  BY <1>2, <1>3, <1>4 DEF MetricType, count

\* Normalizing alone keeps the count as well.
LEMMA NormalizedMetric ==
  ASSUME NEW m \in MetricType
  PROVE  Collector!Normalize(m) \in MetricType /\ Collector!Normalize(m).count = m.count
BY DEF Collector!Normalize, Collector!Fraction, MetricType

\* The metric of a number of calls.
LEMMA CallsMetric ==
  ASSUME NEW n \in Nat
  PROVE  Calls(n) \in MetricType /\ Calls(n).count = n
BY DEF Calls, Collector!Measured, Collector!Fraction, MetricType

\* What an iteration begins with.
LEMMA NoMetrics ==
  /\ Collector!NoMetric \in MetricType /\ Collector!NoMetric.count = 0
  /\ Collector!NoTimings \in [ Stages -> MetricType ]
  /\ \A st \in Stages : Collector!NoTimings[st].count = 0
  /\ Collector!NoSizes \in [ Messages -> MetricType ]
  /\ \A m \in Messages : Collector!NoSizes[m].count = 0
<1>1. Collector!NoMetric \in MetricType /\ Collector!NoMetric.count = 0
  BY DEF Collector!NoMetric, MetricType
<1> QED
  BY <1>1, Zenon DEF Collector!NoTimings, Collector!NoSizes

\* A collector that has recorded nothing.
LEMMA FreshCollector ==
  /\ Collector!Fresh \in TallyType
  /\ \A k \in Collector!Counters : Collector!Fresh.counts[k] = 0
BY NoMetrics DEF Collector!Fresh, TallyType

\* The records the runner makes of an iteration leave the counters alone.
LEMMA IterationTally ==
  ASSUME NEW c \in TallyType, NEW timed \in [ Stages -> MetricType ],
         NEW sent \in [ Messages -> MetricType ],
         NEW d, d = Collector!RecordMessageSizes(Collector!RecordTimings(c, timed), sent)
  PROVE  d \in TallyType /\ d.counts = c.counts
<1> DEFINE timings == Collector!AddTimings(c.timings, timed)
           added   == Collector!AddSizes(c.sizes, sent)
           sizes   == [ added EXCEPT !["tags"] = c.sizes["tags"] ]
           e       == [ c EXCEPT !.timings = timings ]
<1>1. c.timings \in [ Stages -> MetricType ] /\ c.sizes \in [ Messages -> MetricType ]
  BY DEF TallyType
<1>2. timings \in [ Stages -> MetricType ] /\ added \in [ Messages -> MetricType ]
  BY <1>1, AddMetric DEF Collector!AddTimings, Collector!AddSizes
<1> HIDE DEF timings, added
<1>3. sizes \in [ Messages -> MetricType ]
  BY <1>1, <1>2 DEF Messages
<1> HIDE DEF sizes
<1>4. e \in TallyType /\ e.counts = c.counts /\ e.sizes = c.sizes
  BY <1>2 DEF TallyType
<1>5. d = [ e EXCEPT !.sizes = sizes ]
  BY <1>4 DEF Collector!RecordMessageSizes, Collector!RecordTimings, e, timings, added, sizes
<1> HIDE DEF e
<1> QED
  BY <1>3, <1>4, <1>5 DEF TallyType

\* Neither do the records it makes of a setup.
LEMMA SetupTally ==
  ASSUME NEW c \in TallyType, NEW timed \in [ Stages -> MetricType ],
         NEW sent \in [ Messages -> MetricType ],
         NEW d, d = Collector!RecordSetupMessageSizes(Collector!RecordSetupTimings(c, timed), sent)
  PROVE  d \in TallyType /\ d.counts = c.counts
<1> DEFINE timings == Collector!NormalizeTimings(timed)
           sizes   == Collector!NormalizeSizes(sent)
           e       == Collector!RecordSetupTimings(c, timed)
<1>1. timings \in [ Stages -> MetricType ] /\ sizes \in [ Messages -> MetricType ]
  BY NormalizedMetric DEF Collector!NormalizeTimings, Collector!NormalizeSizes
<1>2. e = c \/ e = [ c EXCEPT !.setupTimings = timings, !.setupTimingsRecorded = TRUE ]
  BY DEF Collector!RecordSetupTimings
<1> HIDE DEF timings, sizes, e
<1>3. e \in TallyType /\ e.counts = c.counts
  BY <1>1, <1>2 DEF TallyType
<1>4. d = e \/ d = [ e EXCEPT !.setupSizes = sizes, !.setupSizesRecorded = TRUE ]
  BY DEF Collector!RecordSetupMessageSizes, e, sizes
<1> QED
  BY <1>1, <1>3, <1>4 DEF TallyType

------------------------------------------------------------------------------
(* The samples. *)

SignatureType == [ key : Int, message : {"signed", "altered"} ]

\* Legitimate signatures, in the order of the users.
LEMMA LegitSignatures ==
  ASSUME NEW n \in Nat
  PROVE  /\ Legit(n) \in Seq(SignatureType) /\ Len(Legit(n)) = n
         /\ \A i \in 1 .. n : Legit(n)[i] = Signature(i - 1, "signed")
<1>1. \A i \in 1 .. n : Signature(i - 1, "signed") \in SignatureType
  BY DEF Signature, SignatureType
<1>2. Legit(n) \in [ 1 .. n -> SignatureType ]
  BY <1>1 DEF Legit
<1>3. \A i \in 1 .. n : Legit(n)[i] = Signature(i - 1, "signed")
  BY Zenon DEF Legit
<1> QED
  BY <1>2, <1>3, LengthOfMap

\* The last signature made with another key.
LEMMA StrangeSignatures ==
  ASSUME NEW n \in Nat \ {0}, NEW key \in Int
  PROVE  LET signatures == Append(Legit(n - 1), Signature(key, "signed"))
         IN  signatures \in Seq(SignatureType) /\ signatures[n] = Signature(key, "signed")
<1>1. n - 1 \in Nat /\ (n - 1) + 1 = n
  OBVIOUS
<1>2. Legit(n - 1) \in Seq(SignatureType) /\ Len(Legit(n - 1)) = n - 1
  BY <1>1, LegitSignatures
<1>3. Signature(key, "signed") \in SignatureType
  BY DEF Signature, SignatureType
<1> HIDE DEF Legit
<1> QED
  BY <1>1, <1>2, <1>3, AppendProperties

\* Every kind of sample that is made is one, and its label tells the truth.
LEMMA SampleLabelled ==
  ASSUME config.users \in Nat, users = config.users, NEW k \in Kinds,
         k \in {"forgery", "impersonation"} => config.users >= 2
  PROVE  /\ Sample(k) \in SampleType
         /\ Sample(k).shouldAccept <=> k = "positive"
         /\ config.users > 0 => (Sample(k).shouldAccept <=> Genuine(Sample(k)))
<1> DEFINE n       == config.users
           ids     == [ i \in 1 .. n |-> i - 1 ]
           message == IF k = "tampered" THEN "altered" ELSE "signed"
           named   == [ i \in 1 .. n |-> Signature(ids[i], message) ]
<1>1. Sample(k) = [ signatures |-> Signatures(k), userIds |-> ids, message |-> message,
                    shouldAccept |-> k = "positive" ]
  BY DEF Sample
<1>2. ids \in Seq(Nat)
  <2>1. ids \in [ 1 .. n -> Nat ]
    OBVIOUS
  <2> HIDE DEF ids
  <2> QED
    BY <2>1, LengthOfMap
<1>3. \A i \in 1 .. n : named[i] = Signature(i - 1, message)
  <2>1. \A i \in 1 .. n : ids[i] = i - 1
    BY Zenon
  <2> HIDE DEF ids
  <2> QED
    BY <2>1
<1>4. Signatures(k) \in Seq(SignatureType) /\ (n > 0 => (k = "positive" <=> Signatures(k) = named))
  <2>1. CASE k = "positive"
    <3>1. Signatures(k) = Legit(n) /\ message = "signed"
      BY <2>1 DEF Signatures
    <3>2. named = Legit(n)
      <4>1. named = [ i \in 1 .. n |-> named[i] ] /\ Legit(n) = [ i \in 1 .. n |-> Legit(n)[i] ]
        BY DEF Legit
      <4>2. \A i \in 1 .. n : named[i] = Legit(n)[i]
        BY <1>3, <3>1, LegitSignatures
      <4> HIDE DEF named
      <4> QED
        BY <4>1, <4>2, Zenon
    <3> QED
      BY <2>1, <3>1, <3>2, LegitSignatures
  <2>2. CASE k = "tampered"
    <3>1. Signatures(k) = Legit(n) /\ message = "altered"
      BY <2>2 DEF Signatures
    <3>2. n > 0 => Legit(n)[1] # named[1]
      <4> SUFFICES ASSUME n > 0 PROVE Legit(n)[1] # named[1]
        OBVIOUS
      <4>1. 1 \in 1 .. n
        OBVIOUS
      <4>2. Legit(n)[1] = Signature(1 - 1, "signed") /\ named[1] = Signature(1 - 1, "altered")
        BY <1>3, <3>1, <4>1, LegitSignatures, Zenon
      <4>3. Signature(1 - 1, "signed").message # Signature(1 - 1, "altered").message
        BY DEF Signature
      <4> HIDE DEF named
      <4> QED
        BY <4>2, <4>3
    <3> HIDE DEF named
    <3> QED
      BY <2>2, <3>1, <3>2, LegitSignatures
  <2>3. ASSUME NEW key \in Int, n >= 2, key # n - 1, k # "positive", message = "signed",
               Signatures(k) = Append(Legit(n - 1), Signature(key, "signed"))
        PROVE  /\ Signatures(k) \in Seq(SignatureType)
               /\ n > 0 => (k = "positive" <=> Signatures(k) = named)
    <3>1. n \in Nat \ {0} /\ n \in 1 .. n
      BY <2>3
    <3>2. Signatures(k) \in Seq(SignatureType) /\ Signatures(k)[n] = Signature(key, "signed")
      BY <2>3, <3>1, StrangeSignatures
    <3>3. named[n] = Signature(n - 1, "signed")
      BY <1>3, <2>3, <3>1, Zenon
    <3>4. Signature(key, "signed").key # Signature(n - 1, "signed").key
      BY <2>3 DEF Signature
    <3> HIDE DEF named
    <3> QED
      BY <2>3, <3>2, <3>3, <3>4
  <2>4. CASE k = "forgery"
    <3>1. Signatures(k) = Append(Legit(n - 1), Signature(-1, "signed"))
      BY <2>4 DEF Signatures, Forger
    <3>2. -1 \in Int /\ n >= 2 /\ -1 # n - 1 /\ k # "positive" /\ message = "signed"
      BY <2>4
    <3> HIDE DEF n, named, message
    <3> QED
      BY <2>3, <3>1, <3>2
  <2>5. CASE k = "impersonation"
    <3>1. Signatures(k) = Append(Legit(n - 1), Signature(0, "signed"))
      BY <2>5 DEF Signatures
    <3>2. 0 \in Int /\ n >= 2 /\ 0 # n - 1 /\ k # "positive" /\ message = "signed"
      BY <2>5
    <3> HIDE DEF n, named, message
    <3> QED
      BY <2>3, <3>1, <3>2
  <2> QED
    BY <2>1, <2>2, <2>4, <2>5 DEF Kinds
<1>5. Genuine(Sample(k)) <=> Signatures(k) = named
  <2> HIDE DEF ids, message
  <2> QED
    BY <1>1 DEF Genuine
<1>6. Sample(k) \in SampleType
  <2> HIDE DEF ids
  <2> QED
    BY <1>1, <1>2, <1>4 DEF SampleType, SignatureType
<1>7. Sample(k).shouldAccept = (k = "positive")
  BY <1>1
<1> QED
  BY <1>4, <1>5, <1>6, <1>7

------------------------------------------------------------------------------
(* The traffic of the steps of an iteration. *)

\* Signing adds to the signing metrics alone.
LEMMA SignedTraffic ==
  ASSUME lastTimings \in [ Stages -> MetricType ], lastSizes \in [ Messages -> MetricType ],
         NEW calls \in Nat, NEW returned \in Nat, Signed(calls, returned)
  PROVE  /\ lastTimings' \in [ Stages -> MetricType ]
         /\ lastSizes' \in [ Messages -> MetricType ]
         /\ lastTimings'["sign"].count = lastTimings["sign"].count + calls
         /\ lastSizes'["signing"].count = lastSizes["signing"].count + returned
         /\ \A st \in Stages \ {"sign"} : lastTimings'[st] = lastTimings[st]
         /\ \A m \in Messages \ {"signing"} : lastSizes'[m] = lastSizes[m]
<1> DEFINE timed == Collector!Add(lastTimings["sign"], Calls(calls))
           sent  == Collector!Add(lastSizes["signing"], Calls(returned))
<1>1. lastTimings["sign"] \in MetricType /\ lastSizes["signing"] \in MetricType
  BY DEF Stages, Messages
<1>2. timed \in MetricType /\ timed.count = lastTimings["sign"].count + calls
  BY <1>1, CallsMetric, AddMetric
<1>3. sent \in MetricType /\ sent.count = lastSizes["signing"].count + returned
  BY <1>1, CallsMetric, AddMetric
<1>4. /\ lastTimings' = [ lastTimings EXCEPT !["sign"] = timed ]
      /\ lastSizes' = [ lastSizes EXCEPT !["signing"] = sent ]
  BY DEF Signed
<1> HIDE DEF timed, sent
<1> QED
  BY <1>2, <1>3, <1>4 DEF Stages, Messages

\* Verifying adds an aggregation, and a message for each verification.
LEMMA VerifiedTraffic ==
  ASSUME lastTimings \in [ Stages -> MetricType ], lastSizes \in [ Messages -> MetricType ],
         NEW answer, Verified(answer)
  PROVE  /\ lastTimings' \in [ Stages -> MetricType ]
         /\ lastSizes' \in [ Messages -> MetricType ]
         /\ lastTimings'["aggregate"].count = lastTimings["aggregate"].count + 1
         /\ lastTimings'["sign"] = lastTimings["sign"]
         /\ lastSizes'["signing"] = lastSizes["signing"]
         /\ lastSizes["verification"].count = lastTimings["aggregateVerify"].count =>
              lastSizes'["verification"].count = lastTimings'["aggregateVerify"].count
<1> DEFINE sent       == IF Aggregates(answer) THEN Calls(1) ELSE Collector!NoMetric
           aggregated == Collector!Add(lastTimings["aggregate"], Calls(1))
           verified   == Collector!Add(lastTimings["aggregateVerify"], sent)
           message    == Collector!Add(lastSizes["verification"], sent)
<1>1. /\ lastTimings["aggregate"] \in MetricType /\ lastTimings["aggregateVerify"] \in MetricType
      /\ lastSizes["verification"] \in MetricType
  BY DEF Stages, Messages
<1>2. Calls(1) \in MetricType /\ Calls(1).count = 1
  BY CallsMetric
<1>3. sent \in MetricType
  <2> HIDE DEF Calls
  <2> QED
    BY <1>2, NoMetrics
<1>4. /\ lastTimings' = [ lastTimings EXCEPT !["aggregate"] = aggregated,
                                             !["aggregateVerify"] = verified ]
      /\ lastSizes' = [ lastSizes EXCEPT !["verification"] = message ]
  BY DEF Verified
<1> HIDE DEF sent
<1>5. aggregated \in MetricType /\ aggregated.count = lastTimings["aggregate"].count + 1
  BY <1>1, <1>2, AddMetric
<1>6. verified \in MetricType /\ verified.count = lastTimings["aggregateVerify"].count + sent.count
  BY <1>1, <1>3, AddMetric
<1>7. message \in MetricType /\ message.count = lastSizes["verification"].count + sent.count
  BY <1>1, <1>3, AddMetric
<1> HIDE DEF aggregated, verified, message
<1>8. /\ lastTimings'["aggregate"] = aggregated /\ lastTimings'["aggregateVerify"] = verified
      /\ lastTimings'["sign"] = lastTimings["sign"]
      /\ lastSizes'["verification"] = message /\ lastSizes'["signing"] = lastSizes["signing"]
  BY <1>4 DEF Stages, Messages
<1>9. lastTimings' \in [ Stages -> MetricType ] /\ lastSizes' \in [ Messages -> MetricType ]
  BY <1>4, <1>5, <1>6, <1>7 DEF Stages, Messages
<1> QED
  BY <1>5, <1>6, <1>7, <1>8, <1>9

------------------------------------------------------------------------------
(* What is planned for an iteration. *)

\* A share of the samples, and how much cutting it to an integer leaves out.
LEMMA ShareBounds ==
  ASSUME config.samples \in Nat, NEW quarters \in 0 .. 4
  PROVE  /\ Share(quarters) \in Nat
         /\ 4 * Share(quarters) <= config.samples * quarters
         /\ 4 * Share(quarters) >= config.samples * quarters - 3
<1> DEFINE part == config.samples * quarters
<1>1. part \in Nat
  OBVIOUS
<1>2. Share(quarters) = part \div 4
  BY DEF Share
<1> HIDE DEF part
<1>3. part \div 4 \in Nat /\ 4 * (part \div 4) <= part /\ 4 * (part \div 4) >= part - 3
  BY <1>1
<1> QED
  BY <1>2, <1>3 DEF part

\* What is configured, in the types its values have.
LEMMA ConfigTypes ==
  ASSUME IdentityTypes
  PROVE  /\ config.users \in Nat /\ config.samples \in Nat
         /\ \A f \in {"forgery", "tampered", "impersonation"} : config.shares[f] \in 0 .. 4
         /\ config.shares.forgery + config.shares.tampered + config.shares.impersonation \in 0 .. 4
<1>1. config.users \in UserCounts /\ config.samples \in SampleCounts
      /\ config.shares \in NegativeShares
  BY DEF IdentityTypes
<1>2. config.shares \in [ forgery : 0 .. 4, tampered : 0 .. 4, impersonation : 0 .. 4 ]
  BY <1>1, IdentityAssumption
<1>3. config.shares.forgery + config.shares.tampered + config.shares.impersonation \in 0 .. 4
  BY <1>1, IdentityAssumption
<1>4. config.users \in Nat /\ config.samples \in Nat
  BY <1>1, IdentityAssumption
<1> QED
  BY <1>2, <1>3, <1>4

\* Four shares that make a whole.
LEMMA FourParts ==
  ASSUME NEW s \in Nat, NEW a \in 0 .. 4, NEW b \in 0 .. 4, NEW c \in 0 .. 4, NEW d \in 0 .. 4,
         d = 4 - a - b - c
  PROVE  s * d + s * a + s * b + s * c = 4 * s
<1>1. s * (a + b) = s * a + s * b
  OBVIOUS
<1>2. s * ((a + b) + c) = s * (a + b) + s * c
  OBVIOUS
<1>3. s * (((a + b) + c) + d) = s * ((a + b) + c) + s * d
  OBVIOUS
<1>4. ((a + b) + c) + d = 4
  OBVIOUS
<1>5. s * 4 = 4 * s
  OBVIOUS
<1> QED
  BY <1>1, <1>2, <1>3, <1>4, <1>5

\* A plan makes no more samples than configured and, with a second user and the forger's
\* key where it is wanted, at most three less.
LEMMA PlannedQuota ==
  ASSUME IdentityTypes
  PROVE  /\ InitialQuota \in [ Kinds -> Nat ]
         /\ \A k \in {"forgery", "impersonation"} : InitialQuota[k] > 0 => config.users >= 2
         /\ Left(InitialQuota) <= config.samples
         /\ config.users >= 2 /\ (forgerKey \/ config.shares.forgery = 0) =>
              Left(InitialQuota) > config.samples - 4
<1> DEFINE f == config.shares.forgery
           m == config.shares.tampered
           i == config.shares.impersonation
           s == config.samples
<1>1. s \in Nat /\ f \in 0 .. 4 /\ m \in 0 .. 4 /\ i \in 0 .. 4 /\ f + m + i \in 0 .. 4
      /\ config.users \in Nat
  BY ConfigTypes
<1>2. /\ InitialQuota["positive"] = Share(4 - f - m - i)
      /\ InitialQuota["forgery"] = IF forgerKey /\ config.users >= 2 THEN Share(f) ELSE 0
      /\ InitialQuota["tampered"] = Share(m)
      /\ InitialQuota["impersonation"] = IF config.users >= 2 THEN Share(i) ELSE 0
  BY DEF InitialQuota, Kinds
<1> HIDE DEF f, m, i
<1>3. 4 - f - m - i \in 0 .. 4
  BY <1>1
<1>4. /\ Share(4 - f - m - i) \in Nat /\ Share(f) \in Nat /\ Share(m) \in Nat
      /\ Share(i) \in Nat
  BY <1>1, <1>3, ShareBounds
<1>5. InitialQuota \in [ Kinds -> Nat ]
  <2>1. \E g : InitialQuota = [ k \in Kinds |-> g[k] ]
    <3> DEFINE planned(k) ==
          CASE k = "positive"      -> Share(4 - config.shares.forgery - config.shares.tampered
                                              - config.shares.impersonation)
            [] k = "forgery"       -> IF forgerKey /\ config.users >= 2
                                      THEN Share(config.shares.forgery) ELSE 0
            [] k = "tampered"      -> Share(config.shares.tampered)
            [] k = "impersonation" -> IF config.users >= 2
                                      THEN Share(config.shares.impersonation) ELSE 0
    <3>1. InitialQuota = [ k \in Kinds |-> planned(k) ]
      BY DEF InitialQuota
    <3> HIDE DEF planned
    <3> QED
      BY <3>1
  <2>2. \A k \in Kinds : InitialQuota[k] \in Nat
    BY <1>2, <1>4 DEF Kinds
  <2> QED
    BY <2>1, <2>2
<1>6. /\ 4 * Share(4 - f - m - i) <= s * (4 - f - m - i) /\ 4 * Share(f) <= s * f
      /\ 4 * Share(m) <= s * m /\ 4 * Share(i) <= s * i
  BY <1>1, <1>3, ShareBounds
<1>7. /\ 4 * Share(4 - f - m - i) >= s * (4 - f - m - i) - 3 /\ 4 * Share(f) >= s * f - 3
      /\ 4 * Share(m) >= s * m - 3 /\ 4 * Share(i) >= s * i - 3
  BY <1>1, <1>3, ShareBounds
<1>8. s * (4 - f - m - i) + s * f + s * m + s * i = 4 * s
  <2> HIDE DEF s
  <2> QED
    BY <1>1, <1>3, FourParts
<1>9. Share(0) = 0
  BY <1>1, ShareBounds
<1>10. Left(InitialQuota) <= s
  <2>1. /\ InitialQuota["forgery"] <= Share(f) /\ InitialQuota["impersonation"] <= Share(i)
    BY <1>2, <1>4
  <2> QED
    BY <1>1, <1>2, <1>4, <1>5, <1>6, <1>8, <2>1 DEF Left, Kinds
<1>11. ASSUME config.users >= 2, forgerKey \/ config.shares.forgery = 0
       PROVE  Left(InitialQuota) > s - 4
  <2>1. InitialQuota["forgery"] = Share(f) /\ InitialQuota["impersonation"] = Share(i)
    BY <1>2, <1>9, <1>11 DEF f
  <2> QED
    BY <1>1, <1>2, <1>4, <1>7, <1>8, <2>1 DEF Left
<1> QED
  BY <1>2, <1>5, <1>10, <1>11

------------------------------------------------------------------------------
(* The invariant: the initial states and the steps. *)

\* A worker starts with nothing measured.
LEMMA IdentityInit ==
  ASSUME InitIdentity
  PROVE  IdentityInv
<1>1. collector \in TallyType /\ \A k \in Collector!Counters : collector.counts[k] = 0
  BY FreshCollector DEF InitIdentity
<1>2. lastTimings \in [ Stages -> MetricType ] /\ lastSizes \in [ Messages -> MetricType ]
  BY NoMetrics DEF InitIdentity
<1>3. samples = <<>> /\ pending = {} /\ pc = "setup" /\ abandoned = 0
  BY DEF InitIdentity
<1>4. IdentityTypes
  <2>1. samples \in Seq(SampleType) /\ Len(samples) = 0
    BY <1>3
  <2>2. quota \in [ Kinds -> Nat ] /\ last \in [ Outcomes -> Nat ]
        /\ constructed \in [ BOOLEAN -> Nat ]
    BY DEF InitIdentity, NoQuota, NoOutcomes
  <2>3. /\ config \in [ users : UserCounts, samples : SampleCounts, shares : NegativeShares ]
        /\ algorithm \in [ online : BOOLEAN, sound : BOOLEAN ]
        /\ users \in Nat /\ forgerKey \in BOOLEAN /\ abandoned \in Nat
    BY DEF InitIdentity
  <2>4. iteration \in 0 .. Iterations
    BY IdentityAssumption DEF InitIdentity
  <2>5. pending \subseteq 1 .. Len(samples)
    BY <1>3
  <2> QED
    BY <1>1, <1>2, <1>3, <2>1, <2>2, <2>3, <2>4, <2>5 DEF IdentityTypes
<1>5. PlaceInv /\ KeysInv /\ QuotaInv /\ SigningInv /\ OutcomeInv /\ ReportInv
  BY <1>3 DEF PlaceInv, KeysInv, QuotaInv, SigningInv, OutcomeInv, ReportInv, InIteration
<1>6. LabelsTrue
  BY <1>3 DEF LabelsTrue
<1>7. CountInv /\ SoundInv
  BY <1>1 DEF CountInv, SoundInv, InitIdentity, NoOutcomes, Outcomes, Collector!Counters
<1> QED
  BY <1>4, <1>5, <1>6, <1>7 DEF IdentityInv

\* What all samples have in common survives a step that keeps the configuration and them.
LEMMA KeptPlan ==
  ASSUME UNCHANGED <<config, forgerKey>>
  PROVE  InitialQuota' = InitialQuota
BY DEF InitialQuota, Share

\* Labels stay true when the samples and the configuration stay.
LEMMA KeptLabels ==
  ASSUME LabelsTrue, UNCHANGED <<config, samples>>
  PROVE  LabelsTrue'
BY DEF LabelsTrue, Genuine, Signature

\* Setup derives the keys the configuration asks for.
LEMMA SetupKeeps ==
  ASSUME IdentityInv, SetupIdentity
  PROVE  IdentityInv'
<1> DEFINE derivations == config.users + (IF ForgerWanted THEN 1 ELSE 0)
           timed == [ Collector!NoTimings EXCEPT !["generateKeys"] = Calls(derivations) ]
           sent  == [ Collector!NoSizes EXCEPT !["keyGeneration"] = Calls(config.users) ]
<1>1. IdentityTypes /\ config.users \in Nat
  BY ConfigTypes DEF IdentityInv
<1>2. derivations \in Nat
  BY <1>1
<1> HIDE DEF derivations
<1>3. timed \in [ Stages -> MetricType ] /\ sent \in [ Messages -> MetricType ]
  BY <1>1, <1>2, CallsMetric, NoMetrics
<1>4. collector' = Collector!RecordSetupMessageSizes(
                     Collector!RecordSetupTimings(collector, timed), sent)
  BY DEF SetupIdentity, derivations
<1> HIDE DEF timed, sent
<1>5. collector' \in TallyType /\ collector'.counts = collector.counts
  <2>1. collector \in TallyType
    BY <1>1 DEF IdentityTypes
  <2> QED
    BY <1>3, <1>4, <2>1, SetupTally, Zenon
<1>6. /\ users' = config.users /\ forgerKey' \in BOOLEAN /\ pc' = "loop" /\ pc = "setup"
      /\ UNCHANGED <<envVars, iteration, sampleVars, lastVars, report, history>>
  BY DEF SetupIdentity
<1>7. IdentityTypes'
  BY <1>1, <1>5, <1>6 DEF IdentityTypes, envVars, sampleVars, lastVars, history
<1>8. (PlaceInv /\ KeysInv /\ QuotaInv /\ SigningInv /\ OutcomeInv /\ ReportInv)'
  BY <1>6 DEF PlaceInv, KeysInv, QuotaInv, SigningInv, OutcomeInv, ReportInv, InIteration, envVars
<1>9. LabelsTrue'
  BY <1>6, KeptLabels DEF IdentityInv, envVars, sampleVars
<1>10. (CountInv /\ SoundInv)'
  BY <1>5, <1>6 DEF IdentityInv, CountInv, SoundInv, envVars, lastVars, history
<1> QED
  BY <1>7, <1>8, <1>9, <1>10 DEF IdentityInv

\* An iteration begins with its plan and nothing measured.
LEMMA StartKeeps ==
  ASSUME IdentityInv, StartIteration
  PROVE  IdentityInv'
<1>1. IdentityTypes /\ KeysInv /\ config.users \in Nat
  BY ConfigTypes DEF IdentityInv
<1>2. /\ pc = "loop" /\ iteration < Iterations /\ pc' = "generate"
      /\ quota' = InitialQuota /\ samples' = <<>> /\ pending' = {} /\ abandoned' = 0
      /\ last' = NoOutcomes
      /\ lastTimings' = Collector!NoTimings /\ lastSizes' = Collector!NoSizes
      /\ UNCHANGED <<envVars, iteration, setupVars, collector, report, constructed>>
  BY DEF StartIteration
<1>3. UNCHANGED <<config, algorithm, users, forgerKey>>
  BY <1>2 DEF envVars, setupVars
<1>4. InitialQuota' = InitialQuota
  BY <1>3, KeptPlan
<1>5. samples' \in Seq(SampleType) /\ Len(samples') = 0
  BY <1>2
<1>6. last' \in [ Outcomes -> Nat ]
  BY <1>2 DEF NoOutcomes
<1>7. /\ lastTimings' \in [ Stages -> MetricType ] /\ lastSizes' \in [ Messages -> MetricType ]
      /\ \A st \in Stages : lastTimings'[st].count = 0
      /\ \A m \in Messages : lastSizes'[m].count = 0
  BY <1>2, NoMetrics
<1>8. IdentityTypes'
  BY <1>1, <1>2, <1>3, <1>5, <1>6, <1>7, PlannedQuota DEF IdentityTypes
<1>9. (PlaceInv /\ KeysInv /\ ReportInv)'
  BY <1>1, <1>2, <1>3 DEF PlaceInv, KeysInv, ReportInv, InIteration
<1>10. QuotaInv'
  <2>1. Left(quota') = Left(InitialQuota) /\ Left(quota') \in Nat
    BY <1>1, <1>2, PlannedQuota DEF Left, Kinds
  <2>2. \A k \in {"forgery", "impersonation"} : quota'[k] > 0 => config.users >= 2
    BY <1>1, <1>2, PlannedQuota
  <2> QED
    BY <1>2, <1>3, <1>4, <1>5, <2>1, <2>2 DEF QuotaInv, Left
<1>11. SigningInv'
  BY <1>1, <1>2, <1>3, <1>5, <1>7 DEF SigningInv, Stages, Messages
<1>12. OutcomeInv'
  BY <1>2, <1>7 DEF OutcomeInv, Stages, NoOutcomes
<1>13. LabelsTrue'
  BY <1>2 DEF LabelsTrue
<1>14. (CountInv /\ SoundInv)'
  BY <1>2, <1>3 DEF IdentityInv, CountInv, SoundInv, NoOutcomes, Outcomes
<1> QED
  BY <1>8, <1>9, <1>10, <1>11, <1>12, <1>13, <1>14 DEF IdentityInv

\* One sample less is left to make.
LEMMA OneLess ==
  ASSUME quota \in [ Kinds -> Nat ], NEW k \in Kinds, quota[k] > 0,
         quota' = [ quota EXCEPT ![k] = @ - 1 ]
  PROVE  /\ quota' \in [ Kinds -> Nat ]
         /\ Left(quota') = Left(quota) - 1
         /\ \A j \in Kinds : quota'[j] > 0 => quota[j] > 0
<1>1. \A j \in Kinds : quota'[j] = IF j = k THEN quota[j] - 1 ELSE quota[j]
  OBVIOUS
<1>2. \A j \in Kinds : quota[j] \in Nat
  OBVIOUS
<1>3. /\ quota["positive"] \in Nat /\ quota["forgery"] \in Nat /\ quota["tampered"] \in Nat
      /\ quota["impersonation"] \in Nat
  BY <1>2 DEF Kinds
<1>4. k \in {"positive", "forgery", "tampered", "impersonation"}
  BY DEF Kinds
<1>5. /\ quota'["positive"] = IF "positive" = k THEN quota["positive"] - 1 ELSE quota["positive"]
      /\ quota'["forgery"] = IF "forgery" = k THEN quota["forgery"] - 1 ELSE quota["forgery"]
      /\ quota'["tampered"] = IF "tampered" = k THEN quota["tampered"] - 1 ELSE quota["tampered"]
      /\ quota'["impersonation"] = IF "impersonation" = k THEN quota["impersonation"] - 1
                                   ELSE quota["impersonation"]
  BY <1>1 DEF Kinds
<1>6. Left(quota') = Left(quota) - 1
  BY <1>3, <1>4, <1>5 DEF Left
<1>7. quota' \in [ Kinds -> Nat ]
  OBVIOUS
<1>8. \A j \in Kinds : quota'[j] > 0 => quota[j] > 0
  BY <1>1, <1>2
<1> QED
  BY <1>6, <1>7, <1>8

\* A sample is made: it is one of those planned, and its label is true.
LEMMA ConstructKeeps ==
  ASSUME IdentityInv, NEW k \in Kinds, Construct(k)
  PROVE  IdentityInv'
<1>1. IdentityTypes /\ KeysInv /\ QuotaInv /\ config.users \in Nat
  BY ConfigTypes DEF IdentityInv
<1>2. /\ pc = "generate" /\ pc' = "generate" /\ quota[k] > 0
      /\ quota' = [ quota EXCEPT ![k] = @ - 1 ]
      /\ samples' = Append(samples, Sample(k))
      /\ Signed(config.users, config.users)
      /\ UNCHANGED <<config, algorithm, iteration, users, forgerKey, isOnline, pending, last,
                     collector, report, constructed, abandoned>>
  BY DEF Construct, Constructing, envVars, setupVars, history
<1>3. users = config.users
  BY <1>1, <1>2 DEF KeysInv, InIteration
<1>4. k \in {"forgery", "impersonation"} => config.users >= 2
  BY <1>1, <1>2 DEF QuotaInv, InIteration
<1>5. /\ Sample(k) \in SampleType
      /\ config.users > 0 => (Sample(k).shouldAccept <=> Genuine(Sample(k)))
  BY <1>1, <1>3, <1>4, SampleLabelled
<1>6. samples \in Seq(SampleType) /\ quota \in [ Kinds -> Nat ] /\ abandoned \in Nat
      /\ lastTimings \in [ Stages -> MetricType ] /\ lastSizes \in [ Messages -> MetricType ]
      /\ pending \subseteq 1 .. Len(samples)
  BY <1>1 DEF IdentityTypes
<1>7. /\ samples' \in Seq(SampleType) /\ Len(samples') = Len(samples) + 1 /\ Len(samples) \in Nat
      /\ \A i \in 1 .. Len(samples) : samples'[i] = samples[i]
      /\ samples'[Len(samples) + 1] = Sample(k)
  <2> HIDE DEF Sample
  <2> QED
    BY <1>2, <1>5, <1>6, AppendProperties, LenProperties
<1>8. /\ quota' \in [ Kinds -> Nat ] /\ Left(quota') = Left(quota) - 1
      /\ \A j \in Kinds : quota'[j] > 0 => quota[j] > 0
  BY <1>2, <1>6, OneLess, Zenon
<1>9. /\ lastTimings' \in [ Stages -> MetricType ] /\ lastSizes' \in [ Messages -> MetricType ]
      /\ lastTimings'["sign"].count = lastTimings["sign"].count + config.users
      /\ lastSizes'["signing"].count = lastSizes["signing"].count + config.users
      /\ lastTimings'["aggregate"] = lastTimings["aggregate"]
      /\ lastTimings'["aggregateVerify"] = lastTimings["aggregateVerify"]
      /\ lastSizes'["verification"] = lastSizes["verification"]
  BY <1>1, <1>2, <1>6, SignedTraffic DEF Stages, Messages
<1>10. IdentityTypes'
  <2>1. pending' \subseteq 1 .. Len(samples')
    BY <1>2, <1>6, <1>7
  <2> QED
    BY <1>1, <1>2, <1>7, <1>8, <1>9, <2>1 DEF IdentityTypes
<1>11. (PlaceInv /\ KeysInv /\ ReportInv)'
  BY <1>2, <1>3 DEF IdentityInv, PlaceInv, KeysInv, ReportInv, InIteration
<1>12. QuotaInv'
  <2>1. InitialQuota' = InitialQuota
    BY <1>2, KeptPlan
  <2>2. Len(samples) + abandoned + Left(quota) = Left(InitialQuota)
        /\ \A j \in {"forgery", "impersonation"} : quota[j] > 0 => config.users >= 2
    BY <1>1, <1>2 DEF QuotaInv, InIteration
  <2>3. Left(quota) \in Nat
    BY <1>6 DEF Left, Kinds
  <2>4. Len(samples') + abandoned' + Left(quota') = Left(InitialQuota)
    BY <1>2, <1>6, <1>7, <1>8, <2>2, <2>3
  <2>5. \A j \in {"forgery", "impersonation"} : quota'[j] > 0 => config'.users >= 2
    BY <1>2, <1>8, <2>2 DEF Kinds
  <2>6. Left(quota)' = Left(quota') /\ Left(InitialQuota)' = Left(InitialQuota')
    BY DEF Left
  <2> QED
    BY <1>2, <2>1, <2>4, <2>5, <2>6 DEF QuotaInv
<1>13. SigningInv'
  <2> DEFINE n == Len(samples) + abandoned
  <2>1. /\ lastTimings["sign"].count = config.users * n
        /\ lastSizes["signing"].count = lastTimings["sign"].count - abandoned
        /\ lastSizes["verification"].count = lastTimings["aggregateVerify"].count
    BY <1>2 DEF IdentityInv, SigningInv, InIteration
  <2>2. n \in Nat /\ Len(samples') + abandoned' = n + 1
    BY <1>2, <1>6, <1>7
  <2>3. config.users * (n + 1) = config.users * n + config.users
    BY <1>1, <2>2
  <2>4. config.users * n \in Nat
    BY <1>1, <2>2
  <2> HIDE DEF n
  <2> QED
    BY <1>1, <1>2, <1>6, <1>9, <2>1, <2>2, <2>3, <2>4 DEF SigningInv
<1>14. OutcomeInv'
  BY <1>2, <1>9 DEF IdentityInv, OutcomeInv, NoOutcomes
<1>15. LabelsTrue'
  <2> SUFFICES ASSUME config.users > 0, NEW i \in DOMAIN samples'
               PROVE  samples'[i].shouldAccept <=> Genuine(samples'[i])
    BY <1>2 DEF LabelsTrue, Genuine, Signature
  <2>1. CASE i \in 1 .. Len(samples)
    <3>1. samples'[i] = samples[i] /\ i \in DOMAIN samples
      BY <1>6, <1>7, <2>1
    <3> QED
      BY <3>1 DEF IdentityInv, LabelsTrue
  <2>2. CASE i = Len(samples) + 1
    BY <1>5, <1>7, <2>2
  <2> QED
    BY <1>7, <2>1, <2>2
<1>16. (CountInv /\ SoundInv)'
  BY <1>2 DEF IdentityInv, CountInv, SoundInv
<1> QED
  BY <1>10, <1>11, <1>12, <1>13, <1>14, <1>15, <1>16 DEF IdentityInv

\* A sample is given up: it counts against the plan, its signature against the messages.
LEMMA AbandonKeeps ==
  ASSUME IdentityInv, NEW k \in Kinds, Abandon(k)
  PROVE  IdentityInv'
<1>1. IdentityTypes /\ KeysInv /\ QuotaInv /\ config.users \in Nat
  BY ConfigTypes DEF IdentityInv
<1>2. /\ pc = "generate" /\ pc' = "generate" /\ quota[k] > 0
      /\ k \in {"forgery", "impersonation"}
      /\ quota' = [ quota EXCEPT ![k] = @ - 1 ]
      /\ abandoned' = abandoned + 1
      /\ Signed(config.users, config.users - 1)
      /\ UNCHANGED <<config, algorithm, iteration, users, forgerKey, isOnline, samples, pending,
                     last, collector, report, constructed>>
  BY DEF Abandon, Constructing, envVars, setupVars
<1>3. users = config.users
  BY <1>1, <1>2 DEF KeysInv, InIteration
<1>4. config.users >= 2 /\ config.users - 1 \in Nat
  BY <1>1, <1>2 DEF QuotaInv, InIteration
<1>6. samples \in Seq(SampleType) /\ quota \in [ Kinds -> Nat ] /\ abandoned \in Nat
      /\ Len(samples) \in Nat
      /\ lastTimings \in [ Stages -> MetricType ] /\ lastSizes \in [ Messages -> MetricType ]
  BY <1>1, LenProperties DEF IdentityTypes
<1>8. /\ quota' \in [ Kinds -> Nat ] /\ Left(quota') = Left(quota) - 1
      /\ \A j \in Kinds : quota'[j] > 0 => quota[j] > 0
  BY <1>2, <1>6, OneLess, Zenon
<1>9. /\ lastTimings' \in [ Stages -> MetricType ] /\ lastSizes' \in [ Messages -> MetricType ]
      /\ lastTimings'["sign"].count = lastTimings["sign"].count + config.users
      /\ lastSizes'["signing"].count = lastSizes["signing"].count + (config.users - 1)
      /\ lastTimings'["aggregate"] = lastTimings["aggregate"]
      /\ lastTimings'["aggregateVerify"] = lastTimings["aggregateVerify"]
      /\ lastSizes'["verification"] = lastSizes["verification"]
  BY <1>1, <1>2, <1>4, <1>6, SignedTraffic DEF Stages, Messages
<1>10. IdentityTypes'
  BY <1>1, <1>2, <1>6, <1>8, <1>9 DEF IdentityTypes
<1>11. (PlaceInv /\ KeysInv /\ ReportInv)'
  BY <1>2, <1>3 DEF IdentityInv, PlaceInv, KeysInv, ReportInv, InIteration
<1>12. QuotaInv'
  <2>1. InitialQuota' = InitialQuota
    BY <1>2, KeptPlan
  <2>2. Len(samples) + abandoned + Left(quota) = Left(InitialQuota)
        /\ \A j \in {"forgery", "impersonation"} : quota[j] > 0 => config.users >= 2
    BY <1>1, <1>2 DEF QuotaInv, InIteration
  <2>3. Left(quota) \in Nat
    BY <1>6 DEF Left, Kinds
  <2>4. Len(samples') + abandoned' + Left(quota') = Left(InitialQuota)
    BY <1>2, <1>6, <1>8, <2>2, <2>3
  <2>5. \A j \in {"forgery", "impersonation"} : quota'[j] > 0 => config'.users >= 2
    BY <1>2, <1>8, <2>2 DEF Kinds
  <2>6. Left(quota)' = Left(quota') /\ Left(InitialQuota)' = Left(InitialQuota')
    BY DEF Left
  <2> QED
    BY <1>2, <2>1, <2>4, <2>5, <2>6 DEF QuotaInv
<1>13. SigningInv'
  <2> DEFINE n == Len(samples) + abandoned
  <2>1. /\ lastTimings["sign"].count = config.users * n
        /\ lastSizes["signing"].count = lastTimings["sign"].count - abandoned
        /\ lastSizes["verification"].count = lastTimings["aggregateVerify"].count
    BY <1>2 DEF IdentityInv, SigningInv, InIteration
  <2>2. n \in Nat /\ Len(samples') + abandoned' = n + 1
    BY <1>2, <1>6
  <2>3. config.users * (n + 1) = config.users * n + config.users
    BY <1>1, <2>2
  <2>4. config.users * n \in Nat
    BY <1>1, <2>2
  <2> HIDE DEF n
  <2>5. lastTimings'["sign"].count = config.users * (n + 1)
    BY <1>9, <2>1, <2>3
  <2>6. lastSizes'["signing"].count = lastTimings'["sign"].count - (abandoned + 1)
    <3>1. \A signed, given, n1 \in Nat :
            (signed - given) + (n1 - 1) = (signed + n1) - (given + 1)
      OBVIOUS
    <3>2. lastTimings["sign"].count \in Nat
      BY <2>1, <2>4
    <3>3. (lastTimings["sign"].count - abandoned) + (config.users - 1)
            = (lastTimings["sign"].count + config.users) - (abandoned + 1)
      BY <1>1, <1>6, <3>1, <3>2, Zenon
    <3>4. lastSizes'["signing"].count
            = (lastTimings["sign"].count - abandoned) + (config.users - 1)
      BY <1>9, <2>1, Zenon
    <3> QED
      BY <1>9, <3>3, <3>4, Zenon
  <2>7. lastSizes'["verification"].count = lastTimings'["aggregateVerify"].count
    BY <1>9, <2>1
  <2> QED
    BY <1>2, <2>2, <2>5, <2>6, <2>7 DEF SigningInv
<1>14. OutcomeInv'
  BY <1>2, <1>9 DEF IdentityInv, OutcomeInv, NoOutcomes
<1>15. LabelsTrue'
  BY <1>2, KeptLabels DEF IdentityInv
<1>16. (CountInv /\ SoundInv)'
  BY <1>2 DEF IdentityInv, CountInv, SoundInv
<1> QED
  BY <1>10, <1>11, <1>12, <1>13, <1>14, <1>15, <1>16 DEF IdentityInv

\* The samples are shuffled before any is verified.
LEMMA ShuffleKeeps ==
  ASSUME IdentityInv, Shuffle
  PROVE  IdentityInv'
<1>1. /\ pc = "generate" /\ pc' = "verify" /\ \A k \in Kinds : quota[k] = 0
      /\ pending' = DOMAIN samples
      /\ UNCHANGED <<config, algorithm, iteration, users, forgerKey, isOnline, quota, samples,
                     last, lastTimings, lastSizes, collector, report, constructed, abandoned>>
  BY DEF Shuffle, envVars, setupVars, lastVars, history
<1>2. IdentityTypes /\ samples \in Seq(SampleType) /\ Len(samples) \in Nat
  BY LenProperties DEF IdentityInv, IdentityTypes
<1>3. pending' = 1 .. Len(samples')
  BY <1>1, <1>2
<1>4. IdentityTypes'
  BY <1>1, <1>2, <1>3 DEF IdentityTypes
<1>5. (PlaceInv /\ KeysInv /\ ReportInv)'
  BY <1>1 DEF IdentityInv, PlaceInv, KeysInv, ReportInv, InIteration
<1>6. QuotaInv'
  <2>1. InitialQuota' = InitialQuota
    BY <1>1, KeptPlan
  <2>2. Left(InitialQuota)' = Left(InitialQuota) /\ Left(quota)' = Left(quota)
    BY <1>1, <2>1 DEF Left
  <2> QED
    BY <1>1, <2>2 DEF IdentityInv, QuotaInv, InIteration
<1>7. SigningInv'
  BY <1>1 DEF IdentityInv, SigningInv, InIteration
<1>8. OutcomeInv'
  <2>1. Done' = {} /\ DoneWith(TRUE)' = {} /\ DoneWith(FALSE)' = {}
    BY <1>3 DEF Done, DoneWith
  <2>2. Cardinality({}) = 0
    BY FS_EmptySet
  <2>3. last' = NoOutcomes /\ lastTimings'["aggregate"].count = 0
    BY <1>1 DEF IdentityInv, OutcomeInv
  <2>4. \A o \in Outcomes : last'[o] = 0
    BY <2>3 DEF NoOutcomes
  <2>5. /\ last'["trueAccept"] = 0 /\ last'["falseReject"] = 0
        /\ last'["falseAccept"] = 0 /\ last'["trueReject"] = 0
    BY <2>4 DEF Outcomes
  <2>6. Cardinality(Done)' = 0 /\ Cardinality(DoneWith(TRUE))' = 0
        /\ Cardinality(DoneWith(FALSE))' = 0
    BY <2>1, <2>2
  <2>7. last'["trueAccept"] + last'["falseReject"] = 0 /\ last'["falseAccept"] + last'["trueReject"] = 0
    BY <2>5
  <2>8. pc' = "verify"
    BY <1>1
  <2> QED
    BY <2>3, <2>6, <2>7, <2>8 DEF OutcomeInv
<1>9. LabelsTrue'
  BY <1>1, KeptLabels DEF IdentityInv
<1>10. (CountInv /\ SoundInv)'
  BY <1>1 DEF IdentityInv, CountInv, SoundInv
<1> QED
  BY <1>4, <1>5, <1>6, <1>7, <1>8, <1>9, <1>10 DEF IdentityInv

\* The outcome of a sample is on its label's side, and says what was answered.
LEMMA OutcomeSide ==
  ASSUME NEW sample, sample.shouldAccept \in BOOLEAN, NEW answer
  PROVE  /\   sample.shouldAccept => Outcome(sample, answer) \in {"trueAccept", "falseReject"}
         /\ ~ sample.shouldAccept => Outcome(sample, answer) \in {"falseAccept", "trueReject"}
         /\ answer = "accepted" <=> Outcome(sample, answer) \in {"trueAccept", "falseAccept"}
BY DEF Outcome

\* What a sound algorithm answers agrees with a true label.
LEMMA SoundOutcome ==
  ASSUME algorithm.sound, config.users > 0, NEW sample, sample.shouldAccept \in BOOLEAN,
         sample.shouldAccept <=> Genuine(sample), NEW answer \in Answers(sample)
  PROVE  Outcome(sample, answer) \in {"trueAccept", "trueReject"}
<1>1. answer = "accepted" <=> Genuine(sample)
  <2>1. Answers(sample) = IF Genuine(sample) THEN {"accepted"}
                          ELSE {"aggregate throws", "aggregate empty", "rejected"}
    BY DEF Answers
  <2> QED
    BY <2>1
<1> QED
  BY <1>1, OutcomeSide

\* The samples done of a label, when there is one more.
LEMMA OneMoreDone ==
  ASSUME samples \in Seq(SampleType), pending \subseteq 1 .. Len(samples), NEW i \in pending,
         UNCHANGED samples, pending' = pending \ {i}
  PROVE  /\ Cardinality(Done') = Cardinality(Done) + 1
         /\ \A label \in BOOLEAN :
              /\ Cardinality(DoneWith(label)) \in Nat
              /\ Cardinality(DoneWith(label)') = Cardinality(DoneWith(label))
                    + (IF samples[i].shouldAccept = label THEN 1 ELSE 0)
<1>1. Len(samples) \in Nat
  BY LenProperties
<1>2. IsFiniteSet(1 .. Len(samples))
  BY <1>1, FS_Interval
<1>3. IsFiniteSet(Done)
  BY <1>2, FS_Subset DEF Done
<1>4. Done' = Done \cup {i} /\ i \notin Done
  BY DEF Done
<1>5. Cardinality(Done') = Cardinality(Done) + 1
  BY <1>3, <1>4, FS_AddElement
<1>6. ASSUME NEW label \in BOOLEAN
      PROVE  /\ Cardinality(DoneWith(label)) \in Nat
             /\ Cardinality(DoneWith(label)') = Cardinality(DoneWith(label))
                   + (IF samples[i].shouldAccept = label THEN 1 ELSE 0)
  <2>1. DoneWith(label) \subseteq Done /\ i \notin DoneWith(label)
    BY <1>4 DEF DoneWith
  <2>2. IsFiniteSet(DoneWith(label)) /\ Cardinality(DoneWith(label)) \in Nat
    BY <1>3, <2>1, FS_Subset, FS_CardinalityType
  <2>3. DoneWith(label)' = { j \in Done \cup {i} : samples[j].shouldAccept = label }
    BY <1>4 DEF DoneWith
  <2>4. DoneWith(label)' = IF samples[i].shouldAccept = label
                           THEN DoneWith(label) \cup {i} ELSE DoneWith(label)
    BY <2>3 DEF DoneWith
  <2>5. Cardinality(DoneWith(label) \cup {i}) = Cardinality(DoneWith(label)) + 1
    BY <2>1, <2>2, FS_AddElement
  <2> QED
    BY <2>2, <2>4, <2>5
<1> QED
  BY <1>5, <1>6

\* A sample is verified: one aggregation, one outcome.
LEMMA VerifyKeeps ==
  ASSUME IdentityInv, NEW i \in pending, VerifySample(i)
  PROVE  IdentityInv'
<1> DEFINE sample == samples[i]
<1>1. PICK answer \in Answers(sample) :
        last' = [ last EXCEPT ![Outcome(sample, answer)] = @ + 1 ] /\ Verified(answer)
  BY DEF VerifySample
<1> DEFINE outcome == Outcome(sample, answer)
<1>2. /\ pc = "verify" /\ pc' = "verify" /\ pending' = pending \ {i}
      /\ UNCHANGED <<config, algorithm, iteration, users, forgerKey, isOnline, quota, samples,
                     collector, report, constructed, abandoned>>
  BY DEF VerifySample, envVars, setupVars, history
<1>3. IdentityTypes /\ samples \in Seq(SampleType) /\ Len(samples) \in Nat
      /\ pending \subseteq 1 .. Len(samples) /\ last \in [ Outcomes -> Nat ]
      /\ lastTimings \in [ Stages -> MetricType ] /\ lastSizes \in [ Messages -> MetricType ]
  BY LenProperties DEF IdentityInv, IdentityTypes
<1>4. i \in 1 .. Len(samples) /\ sample \in SampleType /\ sample.shouldAccept \in BOOLEAN
  <2>1. sample \in SampleType
    BY <1>3, ElementOfSeq
  <2> QED
    BY <1>3, <2>1 DEF SampleType
<1>5. /\   sample.shouldAccept => outcome \in {"trueAccept", "falseReject"}
      /\ ~ sample.shouldAccept => outcome \in {"falseAccept", "trueReject"}
  BY <1>4, OutcomeSide
<1>6. algorithm.sound /\ config.users > 0 => outcome \in {"trueAccept", "trueReject"}
  <2> SUFFICES ASSUME algorithm.sound, config.users > 0
               PROVE  outcome \in {"trueAccept", "trueReject"}
    OBVIOUS
  <2>1. sample.shouldAccept <=> Genuine(sample)
    BY <1>3, <1>4 DEF IdentityInv, LabelsTrue
  <2> HIDE DEF sample
  <2> QED
    BY <1>4, <2>1, SoundOutcome
<1>7. last' = [ last EXCEPT ![outcome] = @ + 1 ]
  BY <1>1
<1> HIDE DEF outcome
<1>8. outcome \in Outcomes /\ last' \in [ Outcomes -> Nat ]
      /\ \A o \in Outcomes : last'[o] = IF o = outcome THEN last[o] + 1 ELSE last[o]
  <2>1. outcome \in Outcomes
    BY <1>4, <1>5 DEF Outcomes
  <2> QED
    BY <1>3, <1>7, <2>1
<1>9. /\ lastTimings' \in [ Stages -> MetricType ] /\ lastSizes' \in [ Messages -> MetricType ]
      /\ lastTimings'["aggregate"].count = lastTimings["aggregate"].count + 1
      /\ lastTimings'["sign"] = lastTimings["sign"]
      /\ lastSizes'["signing"] = lastSizes["signing"]
      /\ lastSizes["verification"].count = lastTimings["aggregateVerify"].count =>
           lastSizes'["verification"].count = lastTimings'["aggregateVerify"].count
  BY <1>1, <1>3, VerifiedTraffic
<1>10. IdentityTypes'
  BY <1>2, <1>3, <1>8, <1>9 DEF IdentityTypes
<1>11. (PlaceInv /\ KeysInv /\ ReportInv)'
  BY <1>2 DEF IdentityInv, PlaceInv, KeysInv, ReportInv, InIteration
<1>12. QuotaInv'
  <2>1. InitialQuota' = InitialQuota
    BY <1>2, KeptPlan
  <2>2. Left(InitialQuota)' = Left(InitialQuota) /\ Left(quota)' = Left(quota)
    BY <1>2, <2>1 DEF Left
  <2> QED
    BY <1>2, <2>2 DEF IdentityInv, QuotaInv, InIteration
<1>13. SigningInv'
  BY <1>2, <1>9 DEF IdentityInv, SigningInv, InIteration
<1>14. OutcomeInv'
  <2>1. /\ lastTimings["aggregate"].count = Cardinality(Done)
        /\ last["trueAccept"] + last["falseReject"] = Cardinality(DoneWith(TRUE))
        /\ last["falseAccept"] + last["trueReject"] = Cardinality(DoneWith(FALSE))
    BY <1>2 DEF IdentityInv, OutcomeInv
  <2>2. Cardinality(Done') = Cardinality(Done) + 1
    BY <1>2, <1>3, OneMoreDone, Zenon
  <2>3. \A label \in BOOLEAN :
          /\ Cardinality(DoneWith(label)) \in Nat
          /\ Cardinality(DoneWith(label)') = Cardinality(DoneWith(label))
                + (IF samples[i].shouldAccept = label THEN 1 ELSE 0)
    BY <1>2, <1>3, OneMoreDone, Zenon
  <2>4. /\ Cardinality(DoneWith(TRUE)') = Cardinality(DoneWith(TRUE))
             + (IF sample.shouldAccept = TRUE THEN 1 ELSE 0)
        /\ Cardinality(DoneWith(FALSE)') = Cardinality(DoneWith(FALSE))
             + (IF sample.shouldAccept = FALSE THEN 1 ELSE 0)
    BY <2>3, Zenon
  <2>5. /\ last'["trueAccept"] + last'["falseReject"]
             = last["trueAccept"] + last["falseReject"] + (IF sample.shouldAccept THEN 1 ELSE 0)
        /\ last'["falseAccept"] + last'["trueReject"]
             = last["falseAccept"] + last["trueReject"] + (IF sample.shouldAccept THEN 0 ELSE 1)
    <3> HIDE DEF sample
    <3>1. \A o \in Outcomes : last[o] \in Nat
      BY <1>3
    <3>2. CASE sample.shouldAccept
      BY <1>5, <1>8, <3>1, <3>2 DEF Outcomes
    <3>3. CASE ~ sample.shouldAccept
      BY <1>5, <1>8, <3>1, <3>3 DEF Outcomes
    <3> QED
      BY <3>2, <3>3
  <2>6. /\ last'["trueAccept"] + last'["falseReject"] = Cardinality(DoneWith(TRUE)')
        /\ last'["falseAccept"] + last'["trueReject"] = Cardinality(DoneWith(FALSE)')
    <3> HIDE DEF sample
    <3> QED
      BY <1>4, <2>1, <2>4, <2>5
  <2> QED
    BY <1>2, <1>9, <2>1, <2>2, <2>6 DEF OutcomeInv
<1>15. LabelsTrue'
  BY <1>2, KeptLabels DEF IdentityInv
<1>16. (CountInv /\ SoundInv)'
  <2>1. CountInv'
    BY <1>2 DEF IdentityInv, CountInv
  <2>2. SoundInv'
    BY <1>2, <1>6, <1>8 DEF IdentityInv, SoundInv, Outcomes
  <2> QED
    BY <2>1, <2>2
<1> QED
  BY <1>10, <1>11, <1>12, <1>13, <1>14, <1>15, <1>16 DEF IdentityInv

\* The runner records an iteration's metrics; the outcomes are still to be recorded.
LEMMA IterationDoneKeeps ==
  ASSUME IdentityInv, IterationDone
  PROVE  IdentityInv'
<1>1. /\ pc = "verify" /\ pc' = "record" /\ pending = {}
      /\ collector' = Collector!RecordMessageSizes(
                        Collector!RecordTimings(collector, lastTimings), lastSizes)
      /\ UNCHANGED <<config, algorithm, iteration, users, forgerKey, isOnline, quota, samples,
                     pending, last, lastTimings, lastSizes, report, constructed, abandoned>>
  BY DEF IterationDone, envVars, setupVars, sampleVars, lastVars, history
<1>2. IdentityTypes /\ collector \in TallyType
      /\ lastTimings \in [ Stages -> MetricType ] /\ lastSizes \in [ Messages -> MetricType ]
  BY DEF IdentityInv, IdentityTypes
<1>3. collector' \in TallyType /\ collector'.counts = collector.counts
  BY <1>1, <1>2, IterationTally, Zenon
<1>4. IdentityTypes'
  BY <1>1, <1>2, <1>3 DEF IdentityTypes
<1>5. (PlaceInv /\ KeysInv /\ ReportInv)'
  BY <1>1 DEF IdentityInv, PlaceInv, KeysInv, ReportInv, InIteration
<1>6. QuotaInv'
  <2>1. InitialQuota' = InitialQuota
    BY <1>1, KeptPlan
  <2>2. Left(InitialQuota)' = Left(InitialQuota) /\ Left(quota)' = Left(quota)
    BY <1>1, <2>1 DEF Left
  <2> QED
    BY <1>1, <2>2 DEF IdentityInv, QuotaInv, InIteration
<1>7. SigningInv'
  BY <1>1 DEF IdentityInv, SigningInv, InIteration
<1>8. OutcomeInv'
  <2>1. Done' = Done /\ DoneWith(TRUE)' = DoneWith(TRUE) /\ DoneWith(FALSE)' = DoneWith(FALSE)
    BY <1>1 DEF Done, DoneWith
  <2> QED
    BY <1>1, <2>1 DEF IdentityInv, OutcomeInv
<1>9. LabelsTrue'
  BY <1>1, KeptLabels DEF IdentityInv
<1>10. (CountInv /\ SoundInv)'
  BY <1>1, <1>3 DEF IdentityInv, CountInv, SoundInv
<1> QED
  BY <1>4, <1>5, <1>6, <1>7, <1>8, <1>9, <1>10 DEF IdentityInv

\* What recording all of an iteration's outcomes adds to the counters.
LEMMA RecordedCounts ==
  ASSUME collector \in TallyType, last \in [ Outcomes -> Nat ], NEW d,
         d = Repeated(Repeated(Repeated(Repeated(collector,
               last["trueAccept"],  TRUE,  TRUE),
               last["falseAccept"], TRUE,  FALSE),
               last["trueReject"],  FALSE, FALSE),
               last["falseReject"], FALSE, TRUE)
  PROVE  /\ d \in TallyType
         /\ d.counts["trueAccepts"]  = collector.counts["trueAccepts"]  + last["trueAccept"]
         /\ d.counts["falseAccepts"] = collector.counts["falseAccepts"] + last["falseAccept"]
         /\ d.counts["trueRejects"]  = collector.counts["trueRejects"]  + last["trueReject"]
         /\ d.counts["falseRejects"] = collector.counts["falseRejects"] + last["falseReject"]
         /\ d.counts["samples"] = collector.counts["samples"] + last["trueAccept"]
              + last["falseAccept"] + last["trueReject"] + last["falseReject"]
<1>1. /\ last["trueAccept"] \in Nat /\ last["falseAccept"] \in Nat
      /\ last["trueReject"] \in Nat /\ last["falseReject"] \in Nat
  BY DEF Outcomes
<1> DEFINE c1 == Repeated(collector, last["trueAccept"], TRUE, TRUE)
           c2 == Repeated(c1, last["falseAccept"], TRUE, FALSE)
           c3 == Repeated(c2, last["trueReject"], FALSE, FALSE)
           c4 == Repeated(c3, last["falseReject"], FALSE, TRUE)
<1>2. d = c4
  OBVIOUS
<1>3. HasMore(c1, collector, last["trueAccept"], TRUE, TRUE)
  BY <1>1, RepeatedCounts
<1> HIDE DEF c1
<1>4. HasMore(c2, c1, last["falseAccept"], TRUE, FALSE)
  BY <1>1, <1>3, RepeatedCounts DEF HasMore
<1> HIDE DEF c2
<1>5. HasMore(c3, c2, last["trueReject"], FALSE, FALSE)
  BY <1>1, <1>4, RepeatedCounts DEF HasMore
<1> HIDE DEF c3
<1>6. HasMore(c4, c3, last["falseReject"], FALSE, TRUE)
  BY <1>1, <1>5, RepeatedCounts DEF HasMore
<1> HIDE DEF c4
<1>7. \A k \in Collector!Counters : collector.counts[k] \in Nat
  BY DEF TallyType
<1>8. {"samples", "trueAccepts", "falseAccepts", "trueRejects", "falseRejects"}
        \subseteq Collector!Counters
  BY DEF Collector!Counters
<1>9. ASSUME NEW k \in Collector!Counters
      PROVE  /\ c1.counts[k] = collector.counts[k]
                  + (IF k \in {"samples", "trueAccepts"} THEN last["trueAccept"] ELSE 0)
             /\ c2.counts[k] = c1.counts[k]
                  + (IF k \in {"samples", "falseAccepts"} THEN last["falseAccept"] ELSE 0)
             /\ c3.counts[k] = c2.counts[k]
                  + (IF k \in {"samples", "trueRejects"} THEN last["trueReject"] ELSE 0)
             /\ c4.counts[k] = c3.counts[k]
                  + (IF k \in {"samples", "falseRejects"} THEN last["falseReject"] ELSE 0)
  BY <1>3, <1>4, <1>5, <1>6 DEF HasMore, CounterOf
<1>10. c4 \in TallyType
  BY <1>6 DEF HasMore
<1>11. /\ collector.counts["trueAccepts"] \in Nat /\ collector.counts["falseAccepts"] \in Nat
       /\ collector.counts["trueRejects"] \in Nat /\ collector.counts["falseRejects"] \in Nat
       /\ collector.counts["samples"] \in Nat
  BY <1>7, <1>8
<1> DEFINE ta == last["trueAccept"]
           fa == last["falseAccept"]
           tr == last["trueReject"]
           fr == last["falseReject"]
<1>12. /\ c1.counts["trueAccepts"] = collector.counts["trueAccepts"] + ta
       /\ c2.counts["trueAccepts"] = c1.counts["trueAccepts"] + 0
       /\ c3.counts["trueAccepts"] = c2.counts["trueAccepts"] + 0
       /\ c4.counts["trueAccepts"] = c3.counts["trueAccepts"] + 0
  BY <1>8, <1>9
<1>13. /\ c1.counts["falseAccepts"] = collector.counts["falseAccepts"] + 0
       /\ c2.counts["falseAccepts"] = c1.counts["falseAccepts"] + fa
       /\ c3.counts["falseAccepts"] = c2.counts["falseAccepts"] + 0
       /\ c4.counts["falseAccepts"] = c3.counts["falseAccepts"] + 0
  BY <1>8, <1>9
<1>14. /\ c1.counts["trueRejects"] = collector.counts["trueRejects"] + 0
       /\ c2.counts["trueRejects"] = c1.counts["trueRejects"] + 0
       /\ c3.counts["trueRejects"] = c2.counts["trueRejects"] + tr
       /\ c4.counts["trueRejects"] = c3.counts["trueRejects"] + 0
  BY <1>8, <1>9
<1>15. /\ c1.counts["falseRejects"] = collector.counts["falseRejects"] + 0
       /\ c2.counts["falseRejects"] = c1.counts["falseRejects"] + 0
       /\ c3.counts["falseRejects"] = c2.counts["falseRejects"] + 0
       /\ c4.counts["falseRejects"] = c3.counts["falseRejects"] + fr
  BY <1>8, <1>9
<1>16. /\ c1.counts["samples"] = collector.counts["samples"] + ta
       /\ c2.counts["samples"] = c1.counts["samples"] + fa
       /\ c3.counts["samples"] = c2.counts["samples"] + tr
       /\ c4.counts["samples"] = c3.counts["samples"] + fr
  BY <1>8, <1>9
<1>17. ta \in Nat /\ fa \in Nat /\ tr \in Nat /\ fr \in Nat
  BY <1>1
<1> HIDE DEF ta, fa, tr, fr
<1>18. /\ c4.counts["trueAccepts"]  = collector.counts["trueAccepts"]  + ta
       /\ c4.counts["falseAccepts"] = collector.counts["falseAccepts"] + fa
  BY <1>11, <1>12, <1>13, <1>17
<1>19. /\ c4.counts["trueRejects"]  = collector.counts["trueRejects"]  + tr
       /\ c4.counts["falseRejects"] = collector.counts["falseRejects"] + fr
  BY <1>11, <1>14, <1>15, <1>17
<1>20. c4.counts["samples"] = collector.counts["samples"] + ta + fa + tr + fr
  BY <1>16
<1> QED
  BY <1>2, <1>10, <1>18, <1>19, <1>20 DEF ta, fa, tr, fr

\* The outcomes of an iteration are recorded: as many as its samples of each label.
LEMMA RecordKeeps ==
  ASSUME IdentityInv, RecordOutcomes
  PROVE  IdentityInv'
<1>1. /\ pc = "record" /\ pc' = "loop" /\ iteration' = iteration + 1
      /\ UNCHANGED <<config, algorithm, users, forgerKey, isOnline, quota, samples, pending,
                     last, lastTimings, lastSizes, report, abandoned>>
  BY DEF RecordOutcomes, envVars, setupVars, sampleVars, lastVars
<1>2. IdentityTypes /\ collector \in TallyType /\ last \in [ Outcomes -> Nat ]
      /\ samples \in Seq(SampleType) /\ Len(samples) \in Nat /\ constructed \in [ BOOLEAN -> Nat ]
  BY LenProperties DEF IdentityInv, IdentityTypes
<1>3. /\ collector' \in TallyType
      /\ collector'.counts["trueAccepts"] = collector.counts["trueAccepts"] + last["trueAccept"]
      /\ collector'.counts["falseAccepts"] = collector.counts["falseAccepts"] + last["falseAccept"]
      /\ collector'.counts["trueRejects"] = collector.counts["trueRejects"] + last["trueReject"]
      /\ collector'.counts["falseRejects"] = collector.counts["falseRejects"] + last["falseReject"]
      /\ collector'.counts["samples"] = collector.counts["samples"] + last["trueAccept"]
           + last["falseAccept"] + last["trueReject"] + last["falseReject"]
  <2>1. collector' = Repeated(Repeated(Repeated(Repeated(collector,
               last["trueAccept"],  TRUE,  TRUE),
               last["falseAccept"], TRUE,  FALSE),
               last["trueReject"],  FALSE, FALSE),
               last["falseReject"], FALSE, TRUE)
    BY DEF RecordOutcomes
  <2> QED
    BY <1>2, <2>1, RecordedCounts, Zenon
<1>4. PICK total \in [ BOOLEAN -> Nat ] :
        /\ total = [ label \in BOOLEAN |-> Cardinality(DoneWith(label)) ]
        /\ constructed' = [ label \in BOOLEAN |-> constructed[label] + total[label] ]
  <2> DEFINE total == [ label \in BOOLEAN |-> Cardinality(DoneWith(label)) ]
  <2>1. pending = {}
    BY <1>1 DEF IdentityInv, OutcomeInv
  <2>2. \A label \in BOOLEAN :
          DoneWith(label) = { i \in DOMAIN samples : samples[i].shouldAccept = label }
    BY <1>2, <2>1 DEF DoneWith, Done
  <2>3. IsFiniteSet(1 .. Len(samples)) /\ \A label \in BOOLEAN :
          DoneWith(label) \subseteq 1 .. Len(samples)
    BY <1>2, FS_Interval DEF DoneWith, Done
  <2>4. \A label \in BOOLEAN : Cardinality(DoneWith(label)) \in Nat
    BY <2>3, FS_Subset, FS_CardinalityType
  <2>5. total \in [ BOOLEAN -> Nat ]
    BY <2>4
  <2>6. constructed' = [ label \in BOOLEAN |-> constructed[label]
                           + Cardinality(DoneWith(label)) ]
    BY <2>2 DEF RecordOutcomes
  <2>7. constructed' = [ label \in BOOLEAN |-> constructed[label] + total[label] ]
    BY <2>6
  <2> QED
    BY <2>5, <2>7
<1>5. constructed' \in [ BOOLEAN -> Nat ]
      /\ constructed'[TRUE] = constructed[TRUE] + Cardinality(DoneWith(TRUE))
      /\ constructed'[FALSE] = constructed[FALSE] + Cardinality(DoneWith(FALSE))
  BY <1>2, <1>4
<1>6. IdentityTypes'
  <2>1. iteration' \in 0 .. Iterations
    BY <1>1, <1>2, IdentityAssumption DEF IdentityInv, IdentityTypes, PlaceInv, InIteration
  <2> QED
    BY <1>1, <1>2, <1>3, <1>5, <2>1 DEF IdentityTypes
<1>7. (PlaceInv /\ KeysInv /\ QuotaInv /\ SigningInv /\ OutcomeInv /\ ReportInv)'
  BY <1>1 DEF IdentityInv, PlaceInv, KeysInv, QuotaInv, SigningInv, OutcomeInv, ReportInv,
              InIteration
<1>8. LabelsTrue'
  BY <1>1, KeptLabels DEF IdentityInv
<1>9. CountInv'
  <2>1. /\ last["trueAccept"] + last["falseReject"] = Cardinality(DoneWith(TRUE))
        /\ last["falseAccept"] + last["trueReject"] = Cardinality(DoneWith(FALSE))
    BY <1>1 DEF IdentityInv, OutcomeInv
  <2>2. \A o \in Outcomes : last[o] \in Nat
    BY <1>2
  <2>3. /\ last["trueAccept"] \in Nat /\ last["falseAccept"] \in Nat
        /\ last["trueReject"] \in Nat /\ last["falseReject"] \in Nat
    BY <2>2 DEF Outcomes
  <2>4. \A k \in Collector!Counters : collector.counts[k] \in Nat
    BY <1>2 DEF TallyType
  <2>5. /\ collector.counts["trueAccepts"] \in Nat /\ collector.counts["falseAccepts"] \in Nat
        /\ collector.counts["trueRejects"] \in Nat /\ collector.counts["falseRejects"] \in Nat
        /\ collector.counts["samples"] \in Nat
    BY <2>4 DEF Collector!Counters
  <2>6. constructed[TRUE] \in Nat /\ constructed[FALSE] \in Nat
    BY <1>2
  <2>7. CountInv
    BY DEF IdentityInv
  <2> DEFINE ta == last["trueAccept"]
             fa == last["falseAccept"]
             tr == last["trueReject"]
             fr == last["falseReject"]
             accepts == Cardinality(DoneWith(TRUE))
             rejects == Cardinality(DoneWith(FALSE))
             counts  == collector.counts
             wanted   == constructed[TRUE]
             unwanted == constructed[FALSE]
  <2>8. ta + fr = accepts /\ fa + tr = rejects
    BY <2>1
  <2>8a. ta \in Nat /\ fa \in Nat /\ tr \in Nat /\ fr \in Nat
    BY <2>3
  <2>9. /\ collector'.counts["trueAccepts"] = counts["trueAccepts"] + ta
        /\ collector'.counts["falseAccepts"] = counts["falseAccepts"] + fa
        /\ collector'.counts["trueRejects"] = counts["trueRejects"] + tr
        /\ collector'.counts["falseRejects"] = counts["falseRejects"] + fr
        /\ collector'.counts["samples"] = counts["samples"] + ta + fa + tr + fr
    BY <1>3
  <2>10. constructed'[TRUE] = wanted + accepts /\ constructed'[FALSE] = unwanted + rejects
    BY <1>5
  <2>11. /\ counts["trueAccepts"] + counts["falseRejects"] = wanted
         /\ counts["falseAccepts"] + counts["trueRejects"] = unwanted
         /\ counts["samples"] = wanted + unwanted
    BY <2>7 DEF CountInv
  <2>12. /\ counts["trueAccepts"] \in Nat /\ counts["falseAccepts"] \in Nat
         /\ counts["trueRejects"] \in Nat /\ counts["falseRejects"] \in Nat
    BY <2>5
  <2> HIDE DEF ta, fa, tr, fr, accepts, rejects, counts, wanted, unwanted
  <2>13. /\ collector'.counts["trueAccepts"] + collector'.counts["falseRejects"] = constructed'[TRUE]
         /\ collector'.counts["falseAccepts"] + collector'.counts["trueRejects"] = constructed'[FALSE]
    <3>1. \A a, b, c, d \in Nat : (a + c) + (b + d) = (a + b) + (c + d)
      OBVIOUS
    <3>2. (counts["trueAccepts"] + ta) + (counts["falseRejects"] + fr)
            = (counts["trueAccepts"] + counts["falseRejects"]) + (ta + fr)
      BY <2>12, <2>8a, <3>1
    <3>3. (counts["falseAccepts"] + fa) + (counts["trueRejects"] + tr)
            = (counts["falseAccepts"] + counts["trueRejects"]) + (fa + tr)
      BY <2>12, <2>8a, <3>1
    <3> QED
      BY <2>8, <2>9, <2>10, <2>11, <3>2, <3>3, Zenon
  <2>14. collector'.counts["samples"] = constructed'[TRUE] + constructed'[FALSE]
    <3>1. wanted \in Nat /\ unwanted \in Nat
      BY <2>6 DEF wanted, unwanted
    <3>2. \A a, b, c, d, e, f \in Nat : a + b + c + d + e + f = (a + (c + f)) + (b + (d + e))
      OBVIOUS
    <3>3. wanted + unwanted + ta + fa + tr + fr = (wanted + (ta + fr)) + (unwanted + (fa + tr))
      BY <2>8a, <3>1, <3>2
    <3> QED
      BY <2>8, <2>9, <2>10, <2>11, <3>3, Zenon
  <2> QED
    BY <2>13, <2>14 DEF CountInv
<1>10. SoundInv'
  BY <1>1, <1>3 DEF IdentityInv, SoundInv
<1> QED
  BY <1>6, <1>7, <1>8, <1>9, <1>10 DEF IdentityInv

\* Tearing down drops the samples and the keys; what was recorded stays.
LEMMA DropKeeps ==
  ASSUME IdentityInv, DropContext, pc' \in {"compute", "failed"},
         UNCHANGED <<envVars, iteration, collector, report, history>>
  PROVE  IdentityInv'
<1>1. /\ users' = 0 /\ forgerKey' = FALSE /\ quota' = NoQuota /\ samples' = <<>>
      /\ pending' = {} /\ last' = NoOutcomes
      /\ lastTimings' = Collector!NoTimings /\ lastSizes' = Collector!NoSizes
      /\ UNCHANGED <<config, algorithm, iteration, collector, report, constructed, abandoned>>
  BY DEF DropContext, envVars, history
<1>2. IdentityTypes'
  <2>1. quota' \in [ Kinds -> Nat ] /\ last' \in [ Outcomes -> Nat ]
    BY <1>1 DEF NoQuota, NoOutcomes
  <2>2. lastTimings' \in [ Stages -> MetricType ] /\ lastSizes' \in [ Messages -> MetricType ]
    BY <1>1, NoMetrics
  <2>3. samples' \in Seq(SampleType) /\ pending' \subseteq 1 .. Len(samples')
    BY <1>1
  <2> QED
    BY <1>1, <2>1, <2>2, <2>3 DEF IdentityInv, IdentityTypes
<1>3. (PlaceInv /\ KeysInv /\ QuotaInv /\ SigningInv /\ OutcomeInv /\ ReportInv)'
  BY <1>1 DEF PlaceInv, KeysInv, QuotaInv, SigningInv, OutcomeInv, ReportInv, InIteration
<1>4. LabelsTrue'
  BY <1>1 DEF LabelsTrue
<1>5. (CountInv /\ SoundInv)'
  BY <1>1 DEF IdentityInv, CountInv, SoundInv, NoOutcomes, Outcomes
<1> QED
  BY <1>2, <1>3, <1>4, <1>5 DEF IdentityInv

\* The result is filled from the collector.
LEMMA ResultKeeps ==
  ASSUME IdentityInv, IdentityResult
  PROVE  IdentityInv'
<1>1. /\ pc = "compute" /\ pc' = "returned"
      /\ report'.identity = Collector!FillIdentity(collector, Iterations)
      /\ UNCHANGED <<config, algorithm, iteration, users, forgerKey, isOnline, quota, samples,
                     pending, last, lastTimings, lastSizes, collector, constructed, abandoned>>
  BY DEF IdentityResult, envVars, setupVars, sampleVars, lastVars, history
<1>2. IdentityTypes'
  BY <1>1 DEF IdentityInv, IdentityTypes
<1>3. (PlaceInv /\ KeysInv /\ QuotaInv /\ SigningInv /\ OutcomeInv)'
  BY <1>1 DEF PlaceInv, KeysInv, QuotaInv, SigningInv, OutcomeInv, InIteration
<1>4. ReportInv'
  BY <1>1 DEF ReportInv
<1>5. LabelsTrue'
  BY <1>1, KeptLabels DEF IdentityInv
<1>6. (CountInv /\ SoundInv)'
  BY <1>1 DEF IdentityInv, CountInv, SoundInv
<1> QED
  BY <1>2, <1>3, <1>4, <1>5, <1>6 DEF IdentityInv

\* A stuttering step changes nothing of it.
LEMMA StutterKeeps ==
  ASSUME IdentityInv, UNCHANGED vars
  PROVE  IdentityInv'
<1>1. UNCHANGED <<config, algorithm, pc, iteration, users, forgerKey, isOnline, quota, samples,
                  pending, last, lastTimings, lastSizes, collector, report, constructed, abandoned>>
  BY DEF vars, envVars, setupVars, sampleVars, lastVars, history
<1>2. InitialQuota' = InitialQuota
  BY <1>1, KeptPlan
<1>3. Left(InitialQuota)' = Left(InitialQuota) /\ Left(quota)' = Left(quota)
  BY <1>1, <1>2 DEF Left
<1>4. Done' = Done /\ DoneWith(TRUE)' = DoneWith(TRUE) /\ DoneWith(FALSE)' = DoneWith(FALSE)
  BY <1>1 DEF Done, DoneWith
<1>5. LabelsTrue'
  BY <1>1, KeptLabels DEF IdentityInv
<1>6. (IdentityTypes /\ PlaceInv /\ KeysInv /\ SigningInv /\ CountInv /\ SoundInv /\ ReportInv)'
  BY <1>1 DEF IdentityInv, IdentityTypes, PlaceInv, KeysInv, SigningInv, CountInv, SoundInv,
              ReportInv, InIteration
<1>7. QuotaInv'
  BY <1>1, <1>3 DEF IdentityInv, QuotaInv, InIteration
<1>8. OutcomeInv'
  BY <1>1, <1>4 DEF IdentityInv, OutcomeInv
<1> QED
  BY <1>5, <1>6, <1>7, <1>8 DEF IdentityInv

------------------------------------------------------------------------------
(* The theorems. *)

\* The inductive invariant: quotas, samples, outcomes and counters add up in every
\* reachable state of the scenario's lifecycle.
THEOREM IdentityInvariant == SpecIdentity => []IdentityInv
<1>1. InitIdentity => IdentityInv
  BY IdentityInit
<1>2. IdentityInv /\ [NextIdentity]_vars => IdentityInv'
  <2> SUFFICES ASSUME IdentityInv, [NextIdentity]_vars
               PROVE  IdentityInv'
    OBVIOUS
  <2>1. CASE SetupIdentity
    BY <2>1, SetupKeeps
  <2>2. CASE StartIteration
    BY <2>2, StartKeeps
  <2>3. ASSUME NEW k \in Kinds, Construct(k) PROVE IdentityInv'
    BY <2>3, ConstructKeeps
  <2>4. ASSUME NEW k \in Kinds, Abandon(k) PROVE IdentityInv'
    BY <2>4, AbandonKeeps
  <2>5. CASE Shuffle
    BY <2>5, ShuffleKeeps
  <2>6. ASSUME NEW i \in pending, VerifySample(i) PROVE IdentityInv'
    BY <2>6, VerifyKeeps
  <2>7. CASE IterationDone
    BY <2>7, IterationDoneKeeps
  <2>8. CASE RecordOutcomes
    BY <2>8, RecordKeeps
  <2>9. CASE TeardownIdentity
    BY <2>9, DropKeeps DEF TeardownIdentity
  <2>10. CASE IdentityResult
    BY <2>10, ResultKeeps
  <2>11. CASE IdentityThrows
    BY <2>11, DropKeeps DEF IdentityThrows
  <2>12. CASE UNCHANGED vars
    BY <2>12, StutterKeeps
  <2> QED
    BY <2>1, <2>2, <2>3, <2>4, <2>5, <2>6, <2>7, <2>8, <2>9, <2>10, <2>11, <2>12
       DEF NextIdentity
<1> QED
  BY <1>1, <1>2, PTL DEF SpecIdentity

\* Every sample generateTestSamples makes is labelled with the truth, for any number of
\* users and any shares.
THEOREM LabelsAreTrue == SpecIdentity => []LabelsTrue
<1>1. IdentityInv => LabelsTrue
  BY DEF IdentityInv
<1> QED
  BY <1>1, IdentityInvariant, PTL

\* The outcomes recordIdentityOutcome counts are, label by label, those of the samples of
\* the iterations recorded: none is lost, counted twice or put on the other label's side.
THEOREM OutcomesMatchLabels == SpecIdentity => []OutcomesPerLabel
<1>1. IdentityInv => OutcomesPerLabel
  BY DEF IdentityInv, CountInv, OutcomesPerLabel
<1> QED
  BY <1>1, IdentityInvariant, PTL

\* The report of a run with a sound algorithm shows no error: fillIdentityVerifyResult
\* reports an accuracy of all its samples.
THEOREM SoundAlgorithmsShowNoError == SpecIdentity => []SoundIsAccurate
<1>1. IdentityInv => SoundIsAccurate
  <2> SUFFICES ASSUME IdentityInv, pc = "returned", algorithm.sound, config.users > 0
               PROVE  /\ collector.counts["falseAccepts"] = 0
                      /\ collector.counts["falseRejects"] = 0
                      /\ report.identity.accuracyRate[1] = report.identity.samples
    BY DEF SoundIsAccurate
  <2> DEFINE right == collector.counts["trueAccepts"] + collector.counts["trueRejects"]
             made  == collector.counts["samples"]
  <2>1. collector.counts["falseAccepts"] = 0 /\ collector.counts["falseRejects"] = 0
    BY DEF IdentityInv, SoundInv
  <2>2. \A k \in Collector!Counters : collector.counts[k] \in Nat
    BY DEF IdentityInv, IdentityTypes, TallyType
  <2>3. /\ collector.counts["trueAccepts"] \in Nat /\ collector.counts["trueRejects"] \in Nat
        /\ made \in Nat
    BY <2>2 DEF Collector!Counters
  <2>4. right = made
    <3>1. /\ collector.counts["trueAccepts"] + 0 = constructed[TRUE]
          /\ 0 + collector.counts["trueRejects"] = constructed[FALSE]
          /\ made = constructed[TRUE] + constructed[FALSE]
      BY <2>1 DEF IdentityInv, CountInv
    <3>2. \A n \in Nat : n + 0 = n /\ 0 + n = n
      OBVIOUS
    <3>3. /\ collector.counts["trueAccepts"] + 0 = collector.counts["trueAccepts"]
          /\ 0 + collector.counts["trueRejects"] = collector.counts["trueRejects"]
      BY <2>3, <3>2
    <3> QED
      BY <3>1, <3>3, Zenon
  <2>5. report.identity = Collector!FillIdentity(collector, Iterations)
    BY DEF IdentityInv, ReportInv
  <2>6. report.identity.samples = made
        /\ report.identity.accuracyRate = Collector!Fraction(right, made)
    BY <2>5 DEF Collector!FillIdentity
  <2> HIDE DEF right, made
  <2>7. Collector!Fraction(made, made)[1] = made
    BY <2>3 DEF Collector!Fraction
  <2> QED
    BY <2>1, <2>4, <2>6, <2>7
<1> QED
  BY <1>1, IdentityInvariant, PTL

\* The traffic of an iteration fits its samples, and these the configured number but for
\* three at most, for any configuration.
THEOREM TrafficFitsSamples == SpecIdentity => []TrafficMatchesSamples
<1>1. IdentityInv => TrafficMatchesSamples
  <2> SUFFICES ASSUME IdentityInv, pc = "record" PROVE TrafficMatchesSamples
    BY DEF TrafficMatchesSamples
  <2>1. IdentityTypes /\ samples \in Seq(SampleType) /\ Len(samples) \in Nat /\ abandoned \in Nat
        /\ quota \in [ Kinds -> Nat ]
    BY LenProperties DEF IdentityInv, IdentityTypes
  <2>2. lastTimings["aggregate"].count = Len(samples)
    <3>1. lastTimings["aggregate"].count = Cardinality(Done) /\ pending = {}
      BY DEF IdentityInv, OutcomeInv
    <3>2. Done = 1 .. Len(samples)
      BY <3>1 DEF Done
    <3>3. Cardinality(1 .. Len(samples)) = Len(samples)
      BY <2>1, FS_Interval
    <3> QED
      BY <3>1, <3>2, <3>3
  <2>3. Len(samples) + abandoned = Left(InitialQuota)
    <3>1. /\ Len(samples) + abandoned + Left(quota) = Left(InitialQuota)
          /\ \A k \in Kinds : quota[k] = 0
      BY DEF IdentityInv, QuotaInv, InIteration
    <3>2. Left(quota) = 0
      BY <3>1 DEF Left, Kinds
    <3> QED
      BY <2>1, <3>1, <3>2
  <2>4. /\ Left(InitialQuota) <= config.samples
        /\ config.users >= 2 /\ (forgerKey \/ config.shares.forgery = 0) =>
             Left(InitialQuota) > config.samples - 4
    BY <2>1, PlannedQuota
  <2>5. SigningInv /\ InIteration
    BY DEF IdentityInv, InIteration
  <2> QED
    BY <2>2, <2>3, <2>4, <2>5 DEF SigningInv, TrafficMatchesSamples
<1> QED
  BY <1>1, IdentityInvariant, PTL
==============================================================================
