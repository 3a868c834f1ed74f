---------------------------- MODULE JudgeProofs ----------------------------
(***************************************************************************)
(* Theorems about Judge for every value of its constants: any bundles, any *)
(* settings, any number of judgements, faults, changes and crashes.        *)
(***************************************************************************)
EXTENDS JudgeProperties, FiniteSetTheorems, TLAPS

----------------------------------------------------------------------------
\* The blanked grid.

\* A scored position leaves at least the last column of its window unscored.
LEMMA PositionsLeaveUpper == Positions \subseteq 0 .. L - 2
<1>1. L \in Nat /\ L >= 2
  BY GridAssumption
<1>2. TailLo \in Nat /\ (TailLo = L - 1 => L = 2) /\ TailLo <= L - 1 /\ Upper = L - 1
  BY <1>1 DEF TailLo, Upper
<1> QED BY <1>1, <1>2 DEF Positions, TailPositions, HeadPositions

\* The windows before one end where it begins.
LEMMA WindowsApart ==
  ASSUME NEW v \in Nat, NEW w \in Nat, v < w, NEW n \in Nat
  PROVE  v * n + n <= w * n
<1>1. PICK d \in Nat : w = v + 1 + d
  <2>1. w - v - 1 \in Nat /\ w = v + 1 + (w - v - 1)
    OBVIOUS
  <2> QED BY <2>1
<1>2. w * n = v * n + n + d * n /\ d * n \in Nat
  BY <1>1
<1> QED BY <1>2

\* No row shows the token behind the scored position of any window.
LEMMA AnswerNeverShown ==
  ASSUME NEW layout \in Layouts, NEW w \in WindowIds
  PROVE  Answer(layout, w) \notin ShownTokens(layout)
<1> SUFFICES ASSUME NEW v \in WindowIds, NEW i \in 0 .. layout[v].pos,
                    w * L + layout[w].pos + 1 = v * L + i
             PROVE  FALSE
  BY DEF Answer, ShownTokens, Shown
<1>1. L \in Nat /\ L >= 2 /\ v \in Nat /\ w \in Nat
  BY GridAssumption DEF WindowIds
<1>2. layout[v].pos \in 0 .. L - 2 /\ layout[w].pos \in 0 .. L - 2
  BY PositionsLeaveUpper DEF Layouts, Cells
<1>3. v * L \in Nat /\ w * L \in Nat
  BY <1>1
<1>4. CASE v < w
  <2>1. v * L + L <= w * L
    BY <1>1, <1>4, WindowsApart
  <2> QED BY <2>1, <1>1, <1>2, <1>3
<1>5. CASE w < v
  <2>1. w * L + L <= v * L
    BY <1>1, <1>5, WindowsApart
  <2> QED BY <2>1, <1>1, <1>2, <1>3
<1>6. CASE v = w
  BY <1>1, <1>2, <1>3, <1>6
<1> QED BY <1>1, <1>4, <1>5, <1>6

----------------------------------------------------------------------------
\* The arithmetic gates.

\* Whatever batch is declared, its ceiling is no higher than the flat one.
LEMMA CeilingAtMostFlat ==
  ASSUME NEW batch \in Nat
  PROVE  Smaller(FlatCeiling, MaxPlausibleMfu(batch)) \in 0 .. FlatCeiling
<1>1. CASE batch = 0
  BY <1>1 DEF Smaller, FlatCeiling, MaxPlausibleMfu
<1>2. CASE batch # 0
  <2> DEFINE reached == {i \in DOMAIN Ceilings : batch >= Ceilings[i][1]}
  <2>1. DOMAIN Ceilings = 1 .. 6 /\ 6 \in reached
    BY <1>2 DEF Ceilings
  <2>2. \A i \in 1 .. 6 : Ceilings[i][2] \in {70, 60, 50, 42, 33, 25}
    BY DEF Ceilings
  <2>3. \E i \in reached : \A j \in reached : i <= j
    <3>1. reached \in SUBSET (1 .. 6)
      BY <2>1
    <3> QED BY <2>1, <3>1
  <2>4. (CHOOSE i \in reached : \A j \in reached : i <= j) \in 1 .. 6
    BY <2>1, <2>3
  <2>5. MaxPlausibleMfu(batch) \in {70, 60, 50, 42, 33, 25}
    BY <1>2, <2>2, <2>4 DEF MaxPlausibleMfu
  <2> QED BY <2>5 DEF Smaller, FlatCeiling
<1> QED BY <1>1, <1>2

\* The wall clock cancels out of the two gates it appears in.
LEMMA GatesBoundCapacity ==
  ASSUME NEW c \in Claims, CheckComputePlausibility(c), CheckComputeBudget(c),
         c.n > 0, c.tokens > 0, c.wall > 0
  PROVE  50000 * c.n * c.tokens * H100Ref <= 3 * FlatCeiling * Peak[c.gpu] * BudgetH * HopperRef
<1> DEFINE work == 50000 * c.n * c.tokens
           peak == Peak[c.gpu]
           top == Smaller(FlatCeiling, MaxPlausibleMfu(c.batch))
<1>1. c.n \in Nat /\ c.tokens \in Nat /\ c.wall \in Nat /\ c.batch \in Nat /\ c.gpu \in Gpus
  BY DEF Claims
<1>2. peak \in Nat /\ BudgetH \in Nat /\ work \in Nat
  BY <1>1, IntegrityAssumption
<1>3. top \in 0 .. 70
  BY <1>1, CeilingAtMostFlat DEF FlatCeiling
<1>4. work <= 3 * top * peak * c.wall
  BY <1>1 DEF CheckComputePlausibility
<1>5. c.wall * 510 <= BudgetH * 344
  BY DEF CheckComputeBudget, H100Ref, HopperRef
<1> HIDE DEF work, peak, top
<1>6. \A a, b, x \in Nat : a <= b => a * x <= b * x
  OBVIOUS
<1>7. 3 * top * peak * c.wall <= 210 * peak * c.wall
  <2>1. peak * c.wall \in Nat /\ 3 * top \in Nat /\ 3 * top <= 210
    BY <1>1, <1>2, <1>3
  <2>2. (3 * top) * (peak * c.wall) <= 210 * (peak * c.wall)
    BY <1>6, <2>1
  <2> QED BY <2>2, <1>1, <1>2, <1>3
<1>8. (c.wall * 510) * (210 * peak) <= (BudgetH * 344) * (210 * peak)
  <2>1. c.wall * 510 \in Nat /\ BudgetH * 344 \in Nat /\ 210 * peak \in Nat
    BY <1>1, <1>2
  <2> QED BY <1>5, <1>6, <2>1
<1>9. work * 510 <= (210 * peak * c.wall) * 510
  <2>1. 210 * peak * c.wall \in Nat /\ 3 * top * peak * c.wall \in Nat
    BY <1>1, <1>2, <1>3
  <2>2. work <= 210 * peak * c.wall
    BY <1>2, <1>4, <1>7, <2>1
  <2> QED BY <1>2, <1>6, <2>1, <2>2
<1>10. work * 510 <= 210 * peak * BudgetH * 344
  BY <1>1, <1>2, <1>8, <1>9
<1> QED BY <1>1, <1>2, <1>10 DEF work, peak, FlatCeiling, H100Ref, HopperRef

----------------------------------------------------------------------------
\* What the proof runner makes of a run in an enclave.

\* A sequence of k records.
Listed(records, k) == records \in [1 .. k -> {records[i] : i \in 1 .. k}]

\* The records of a log are a sequence, one for each bucket of rows.
LEMMA RecordsAreListed ==
  ASSUME NEW rows \in Nat, NEW nonce
  PROVE  \E k \in Nat : Listed(EpochRecords(rows, nonce), k)
<1> DEFINE k == (rows + Bucket - 1) \div Bucket
           records == EpochRecords(rows, nonce)
           R == {records[i] : i \in 1 .. k}
           rolling[i \in 0 .. k] ==
             IF i = 0 THEN <<nonce>>
             ELSE Append(rolling[i - 1], IF i * Bucket <= rows THEN Bucket ELSE rows % Bucket)
<1>1. k \in Nat
  BY DEF Bucket
<1>2. records = [i \in 1 .. k |-> rolling[i]]
  BY Zenon DEF EpochRecords
<1>3. \A i \in 1 .. k : records[i] \in R
  OBVIOUS
<1>4. records \in [1 .. k -> R]
  <2> HIDE DEF records, k, R
  <2> QED BY <1>2, <1>3
<1> QED BY <1>1, <1>4 DEF Listed

\* An epoch of an enclave's attestation, field by field, when its evidence was
\* collected.
LEMMA EpochFields ==
  \A host, i, measurement, nonce, rolling, tail :
    LET epoch == AttestationEpoch(host, i, measurement, nonce, rolling, tail)
    IN  /\ epoch.rolling = rolling /\ epoch.nonce = nonce /\ epoch.measurement = measurement
        /\ host.nvcc /\ i \notin host.gpuFails =>
                        /\ epoch.token.genuine /\ epoch.token.passed = host.passes /\ epoch.token.bound
                        /\ epoch.token.nonce = nonce /\ epoch.token.die = host.die
        /\ host.tdx /\ i \notin host.tsmFails =>
                       /\ epoch.quote.genuine
                       /\ epoch.quote.data = <<nonce, UserData(measurement, rolling, nonce, tail)>>
  BY DEF AttestationEpoch, GpuEvidence, TdxQuote

\* The epochs of an attestation are those of the log and a last one that carries
\* the hash of the bundle.
LEMMA EpochsMade ==
  \A host, measurement, nonce, hash, records : \A k \in Nat :
    Listed(records, k) =>
      LET chained == GenerateAttestation(host, measurement, nonce, records, hash).epochs
      IN  /\ Len(chained) = k + 1 /\ DOMAIN chained = 1 .. k + 1 /\ chained # <<>>
          /\ \A i \in 1 .. k :
               chained[i] = AttestationEpoch(host, i, measurement, nonce, records[i], <<>>)
          /\ chained[k + 1] = AttestationEpoch(host, k + 1, measurement, nonce,
                                              FinalRolling(LastOf(records), hash), hash)
<1> TAKE host, measurement, nonce, hash, records
<1> TAKE k \in Nat
<1> HAVE Listed(records, k)
<1> DEFINE logged == [i \in DOMAIN records |-> AttestationEpoch(host, i, measurement, nonce, records[i], <<>>)]
           last == AttestationEpoch(host, k + 1, measurement, nonce, FinalRolling(LastOf(records), hash), hash)
           S == {logged[i] : i \in 1 .. k} \union {last}
<1>1. DOMAIN records = 1 .. k
  BY DEF Listed
<1>2. logged \in Seq(S) /\ Len(logged) = k /\ last \in S
  BY <1>1
<1>3. GenerateAttestation(host, measurement, nonce, records, hash).epochs = Append(logged, last)
  <2>1. Len(records) + 1 = k + 1
    BY DEF Listed
  <2> QED BY <2>1 DEF GenerateAttestation
<1>4. \A i \in 1 .. k : logged[i] = AttestationEpoch(host, i, measurement, nonce, records[i], <<>>)
  BY <1>1
<1> HIDE DEF logged, last, S
<1>5. /\ Append(logged, last) \in Seq(S) /\ Len(Append(logged, last)) = k + 1
      /\ \A i \in 1 .. k : Append(logged, last)[i] = logged[i]
      /\ Append(logged, last)[k + 1] = last
  BY <1>2
<1>6. DOMAIN Append(logged, last) = 1 .. k + 1
  BY <1>5
<1>7. Append(logged, last) # <<>>
  <2>1. Len(<<>>) = 0
    OBVIOUS
  <2>2. Len(Append(logged, last)) # 0
    BY <1>5
  <2> QED BY <2>1, <2>2, Zenon
<1> QED BY <1>3, <1>4, <1>5, <1>6, <1>7 DEF last

\* The final rolling hash is taken over the last one before it.
LEMMA MadeBindsBundle ==
  \A host, measurement, nonce, hash, records : \A k \in Nat :
    Listed(records, k) =>
      BindsBundle(GenerateAttestation(host, measurement, nonce, records, hash), hash)
<1> TAKE host, measurement, nonce, hash, records
<1> TAKE k \in Nat
<1> HAVE Listed(records, k)
<1> DEFINE att == GenerateAttestation(host, measurement, nonce, records, hash)
<1>1. /\ Len(att.epochs) = k + 1
      /\ \A i \in 1 .. k : att.epochs[i].rolling = records[i]
      /\ att.epochs[k + 1].rolling = FinalRolling(LastOf(records), hash)
  <2>1. /\ Len(att.epochs) = k + 1
        /\ \A i \in 1 .. k :
             att.epochs[i] = AttestationEpoch(host, i, measurement, nonce, records[i], <<>>)
        /\ att.epochs[k + 1] = AttestationEpoch(host, k + 1, measurement, nonce,
                                                FinalRolling(LastOf(records), hash), hash)
    BY EpochsMade
  <2> QED BY <2>1, EpochFields
<1>2. CASE k = 0
  <2>1. records = <<>>
    BY <1>2 DEF Listed
  <2> QED BY <1>1, <1>2, <2>1 DEF BindsBundle, LastOf
<1>3. CASE k > 0
  <2>1. records # <<>> /\ Len(records) = k /\ k \in 1 .. k
    BY <1>3 DEF Listed
  <2>2. att.epochs[k].rolling = LastOf(records)
    BY <1>1, <2>1 DEF LastOf
  <2>3. Len(att.epochs) >= 2 /\ Len(att.epochs) - 1 = k
    BY <1>1, <1>3
  <2>4. att.epochs[Len(att.epochs)].rolling = FinalRolling(att.epochs[Len(att.epochs) - 1].rolling, hash)
    BY <1>1, <2>2, <2>3
  <2>5. (IF Len(att.epochs) >= 2 THEN att.epochs[Len(att.epochs) - 1].rolling ELSE <<>>)
          = att.epochs[Len(att.epochs) - 1].rolling
    BY <2>3
  <2> QED BY <2>4, <2>5 DEF BindsBundle
<1> QED BY <1>2, <1>3

\* An attestation made in an enclave, with all its evidence, is accepted when the
\* vendors answer, whether or not the validator asks for a quote and pins the die.
LEMMA EnclaveVerifies ==
  ASSUME NEW host, AttestationType(host) = "real_tdx_nvcc",
         host.passes, host.gpuFails = {}, host.tsmFails = {},
         NEW measurement, NEW nonce, NEW hash, NEW k \in Nat, NEW records, Listed(records, k),
         NEW bx, bx.archGate => host.die \in bx.dies
  PROVE  Op2AttestationVerify(bx, GenerateAttestation(host, measurement, nonce, records, hash),
                              FALSE, measurement, nonce, hash, TRUE)
<1> DEFINE att == GenerateAttestation(host, measurement, nonce, records, hash)
           chained == att.epochs
<1>1. /\ host.nvcc /\ host.tdx
      /\ host.passes /\ host.gpuFails = {} /\ host.tsmFails = {}
  BY DEF AttestationType
<1>2. /\ att.type = "real_tdx_nvcc" /\ att.measurement = measurement
      /\ att.nonce = nonce /\ att.bundleHash = hash
  BY DEF GenerateAttestation
<1>3. /\ Len(chained) = k + 1 /\ DOMAIN chained = 1 .. k + 1 /\ chained # <<>>
      /\ \A i \in 1 .. k : chained[i] = AttestationEpoch(host, i, measurement, nonce, records[i], <<>>)
      /\ chained[k + 1] = AttestationEpoch(host, k + 1, measurement, nonce, FinalRolling(LastOf(records), hash), hash)
  BY EpochsMade
<1>4. BindsBundle(att, hash)
  BY MadeBindsBundle
<1> HIDE DEF att
<1>5. \A i \in 1 .. k + 1 :
        /\ chained[i].nonce = nonce /\ chained[i].measurement = measurement
        /\ chained[i].token.genuine /\ chained[i].token.passed /\ chained[i].token.bound
        /\ chained[i].token.nonce = nonce /\ chained[i].token.die = host.die
        /\ chained[i].quote.genuine
        /\ chained[i].quote.data = <<nonce, UserData(measurement, chained[i].rolling, nonce,
                                                   IF i = k + 1 THEN hash ELSE <<>>)>>
  <2> SUFFICES ASSUME NEW i \in 1 .. k + 1
               PROVE  /\ chained[i].nonce = nonce /\ chained[i].measurement = measurement
                      /\ chained[i].token.genuine /\ chained[i].token.passed /\ chained[i].token.bound
                      /\ chained[i].token.nonce = nonce /\ chained[i].token.die = host.die
                      /\ chained[i].quote.genuine
                      /\ chained[i].quote.data = <<nonce, UserData(measurement, chained[i].rolling, nonce,
                                                                 IF i = k + 1 THEN hash ELSE <<>>)>>
    OBVIOUS
  <2>1. CASE i = k + 1
    BY <1>1, <1>3, <2>1, EpochFields
  <2>2. CASE i \in 1 .. k
    <3>1. i # k + 1
      BY <2>2
    <3> QED BY <1>1, <1>3, <2>2, <3>1, EpochFields
  <2> QED BY <2>1, <2>2
<1>6. \A i \in DOMAIN chained :
        /\ NoDrift(att, i)
        /\ VerifyGpuToken(bx, chained[i].token, nonce, TRUE)
        /\ VerifyTdxQuote(bx, chained[i].quote, nonce,
                          UserData(chained[i].measurement, chained[i].rolling, nonce,
                                   IF IsFinal(att, i) THEN hash ELSE <<>>), TRUE)
  <2> SUFFICES ASSUME NEW i \in 1 .. k + 1
               PROVE  /\ NoDrift(att, i)
                      /\ VerifyGpuToken(bx, chained[i].token, nonce, TRUE)
                      /\ VerifyTdxQuote(bx, chained[i].quote, nonce,
                            UserData(chained[i].measurement, chained[i].rolling, nonce,
                                     IF IsFinal(att, i) THEN hash ELSE <<>>), TRUE)
    BY <1>3
  <2>1. NoDrift(att, i)
    BY <1>2, <1>5 DEF NoDrift
  <2>2. VerifyGpuToken(bx, chained[i].token, nonce, TRUE)
    <3>1. NoToken.genuine = FALSE
      BY DEF NoToken
    <3> QED BY <1>5, <3>1 DEF VerifyGpuToken
  <2>3. VerifyTdxQuote(bx, chained[i].quote, nonce,
          UserData(chained[i].measurement, chained[i].rolling, nonce,
                   IF IsFinal(att, i) THEN hash ELSE <<>>), TRUE)
    <3>1. NoQuote.genuine = FALSE
      BY DEF NoQuote
    <3>2. IsFinal(att, i) <=> i = k + 1
      BY <1>3 DEF IsFinal
    <3> QED BY <1>5, <3>1, <3>2 DEF VerifyTdxQuote
  <2> QED BY <2>1, <2>2, <2>3
<1>7. VerifyAttestation(bx, att, measurement, nonce, hash, TRUE)
  BY <1>2, <1>3, <1>4, <1>6 DEF VerifyAttestation, Names
<1>8. bx.archGate => VerifyGpuArchAllowed(att, bx.dies)
  BY <1>3, <1>5 DEF VerifyGpuArchAllowed
<1>9. att # NoAttestation /\ IsReal(att)
  <2>1. NoAttestation.type = "none"
    BY DEF NoAttestation
  <2> QED BY <1>2, <2>1 DEF IsReal
<1> QED BY <1>7, <1>8, <1>9 DEF Op2AttestationVerify, att

----------------------------------------------------------------------------
\* Honest bundles: what each operation makes of them.

\* What a bundle of the proof runner consists of.
LEMMA HonestBundle ==
  ASSUME name \in DOMAIN HonestWork
  PROVE  LET work == HonestWork[name]
         IN  /\ TrainedAsDeclared(work) /\ WellFormed(bundle)
             /\ bundle.hotkey = work.hotkey /\ bundle.nonce = work.nonce
             /\ bundle.files = FilesOf(work) /\ bundle.manifest = FilesOf(work)
             /\ bundle.bundleHash = BundleHash(FilesOf(work))
             /\ bundle.manifestHash = BundleHash(FilesOf(work))
             /\ bundle.signature = Signature(work.hotkey, bundle.bundleHash, work.nonce, bundle.hypothesis)
             /\ bundle.committed = <<work.hotkey, work.patch.text, work.nonce>>
             /\ bundle.touches = work.patch.touches /\ bundle.applies = work.patch.applies
             /\ bundle.attestation = GenerateAttestation(work.host, Measurement, work.nonce,
                  EpochRecords(work.claims.log.rows, work.nonce), bundle.bundleHash)
             /\ bundle.drift = FALSE
             /\ bundle.claims = work.claims /\ bundle.model = work.model /\ bundle.rerun = work.rerun
<1>1. name \in DOMAIN Submissions /\ bundle = RunProofTest(HonestWork[name], Measurement)
      /\ TrainedAsDeclared(HonestWork[name])
  BY HonestAssumption DEF bundle
<1>2. WellFormed(bundle)
  BY <1>1, JudgeAssumption DEF bundle
<1> QED BY <1>1, <1>2 DEF RunProofTest

\* A log that is what it says it is passes the gates that compare it with itself
\* and with the declared wall clock.
LEMMA HonestLogPasses ==
  ASSUME NEW c \in Claims, c.log.broken = 0, c.log.first = "compiled", c.log.last = c.wall
  PROVE  CheckTrainingLogIntegrity(c)
<1>1. c.log.held \in Nat /\ c.wall \in Nat
  BY DEF Claims, Logs
<1>2. IdentityHolds(c.log)
  BY <1>1 DEF IdentityHolds
<1>3. 50 * Distance(c.log.last, c.wall) <= c.wall
  BY <1>1 DEF Distance
<1> QED BY <1>2, <1>3 DEF CheckTrainingLogIntegrity

\* op1 passes an honest bundle whose commitment it can read, at every handshake
\* setting and with any gates switched off.
LEMMA HonestPassesOp1 ==
  ASSUME name \in DOMAIN HonestWork, setting \in DOMAIN Boxes, NEW age \in Nat, NEW fraud,
         bundle.claims.wall <= age, bundle.files["checkpoint"] \notin fraud
  PROVE  Op1DiffAndIntegrity(bundle, bundle.committed, fraud, age)
<1> DEFINE work == HonestWork[name]
<1>1. /\ TrainedAsDeclared(work) /\ WellFormed(bundle)
      /\ bundle.hotkey = work.hotkey /\ bundle.nonce = work.nonce
      /\ bundle.files = FilesOf(work) /\ bundle.manifest = FilesOf(work)
      /\ bundle.bundleHash = BundleHash(FilesOf(work))
      /\ bundle.manifestHash = BundleHash(FilesOf(work))
      /\ bundle.signature = Signature(work.hotkey, bundle.bundleHash, work.nonce, bundle.hypothesis)
      /\ bundle.committed = <<work.hotkey, work.patch.text, work.nonce>>
      /\ bundle.touches = work.patch.touches /\ bundle.applies = work.patch.applies
      /\ bundle.claims = work.claims
  BY HonestBundle
<1> HIDE DEF work
<1>2. \A a \in Artifacts : FilesOf(work)[a] = IF a = "patch" THEN work.patch.text ELSE work.name
  BY DEF FilesOf
<1>3. VerifySignature(bundle)
  BY <1>1 DEF VerifySignature
<1>4. ArtifactsMatch(bundle)
  BY <1>1, <1>2 DEF ArtifactsMatch, TrainedAsDeclared, Required, Artifacts
<1>5. BundleHashMatches(bundle)
  BY <1>1 DEF BundleHashMatches
<1>6. HandshakeOk(bundle, bundle.committed)
  <2>1. bundle.manifest["patch"] = work.patch.text
    BY <1>1, <1>2 DEF Artifacts
  <2>2. box.handshake \in {"skip", "chain", "local"}
    BY JudgeAssumption DEF box
  <2>3. CASE box.handshake = "skip"
    BY <2>3 DEF HandshakeOk
  <2>4. CASE box.handshake = "chain"
    BY <1>1, <2>1, <2>4 DEF HandshakeOk
  <2>5. CASE box.handshake = "local"
    <3>1. /\ bundle.committed # <<>> /\ bundle.committed[1] = bundle.hotkey
          /\ bundle.committed[2] = bundle.manifest["patch"] /\ bundle.committed[3] = bundle.nonce
      BY <1>1, <2>1
    <3> QED BY <2>5, <3>1 DEF HandshakeOk
  <2> QED BY <2>2, <2>3, <2>4, <2>5
<1>7. PatchClean(bundle)
  BY <1>1 DEF PatchClean, TrainedAsDeclared, Runs, ScanClean
<1>8. Gates(bundle, age)
  <2>1. bundle.claims \in Claims
    BY <1>1 DEF WellFormed
  <2>2. CheckTrainingLogIntegrity(bundle.claims)
    BY <1>1, <2>1, HonestLogPasses DEF TrainedAsDeclared
  <2>3. CheckTrainingTiming(bundle.claims, age)
    BY <2>1, IntegrityAssumption DEF CheckTrainingTiming, Claims
  <2> QED BY <1>1, <2>2, <2>3 DEF Gates, TrainedAsDeclared, CheckCanonicalDataSource,
                                  CheckRecipeConfigMatchesProof
<1> QED BY <1>3, <1>4, <1>5, <1>6, <1>7, <1>8 DEF Op1DiffAndIntegrity, CheckCheckpointNotBlocklisted

\* op2 passes it when the vendors answer and its die is allowed, op3 always.
LEMMA HonestPassesOp2 ==
  ASSUME name \in DOMAIN HonestWork, box.archGate => HonestWork[name].host.die \in box.dies
  PROVE  Op2AttestationVerify(box, bundle.attestation, bundle.drift, Measurement,
                              bundle.nonce, bundle.bundleHash, TRUE)
<1> DEFINE work == HonestWork[name]
           records == EpochRecords(work.claims.log.rows, work.nonce)
<1>1. /\ TrainedAsDeclared(work) /\ WellFormed(bundle)
      /\ bundle.nonce = work.nonce /\ bundle.drift = FALSE /\ bundle.claims = work.claims
      /\ bundle.attestation = GenerateAttestation(work.host, Measurement, work.nonce, records, bundle.bundleHash)
  BY HonestBundle
<1>2. work.claims.log.rows \in Nat
  BY <1>1 DEF WellFormed, Claims, Logs
<1>3. PICK k \in Nat : Listed(records, k)
  BY <1>2, RecordsAreListed
<1>4. /\ AttestationType(work.host) = "real_tdx_nvcc"
      /\ work.host.passes /\ work.host.gpuFails = {} /\ work.host.tsmFails = {}
  BY <1>1 DEF TrainedAsDeclared
<1> HIDE DEF work, records
<1>5. Op2AttestationVerify(box, GenerateAttestation(work.host, Measurement, work.nonce, records, bundle.bundleHash),
                           FALSE, Measurement, work.nonce, bundle.bundleHash, TRUE)
  BY <1>3, <1>4, EnclaveVerifies DEF work
<1> QED BY <1>1, <1>5

\* Neither the log nor a repeated run gives an honest bundle away.
LEMMA HonestPassesTraining ==
  ASSUME name \in DOMAIN HonestWork
  PROVE  /\ Op3LogPlausibility(bundle.claims)
         /\ \A made \in SUBSET bundle.rerun.declared :
              Cardinality(made) >= 2 => CompareLossTrajectory(made, bundle.rerun.off \intersect made)
<1>1. /\ TrainedAsDeclared(HonestWork[name]) /\ WellFormed(bundle)
      /\ bundle.claims = HonestWork[name].claims /\ bundle.rerun = HonestWork[name].rerun
  BY HonestBundle
<1>2. Op3LogPlausibility(bundle.claims)
  BY <1>1 DEF TrainedAsDeclared, Op3LogPlausibility
<1>3. ASSUME NEW made \in SUBSET bundle.rerun.declared, Cardinality(made) >= 2
      PROVE  CompareLossTrajectory(made, bundle.rerun.off \intersect made)
  <2>1. Cardinality(made) \in Nat
    BY <1>1, <1>3, FS_Subset, FS_CardinalityType DEF WellFormed
  <2>2. bundle.rerun.off \intersect made = {}
    BY <1>1 DEF TrainedAsDeclared
  <2>3. Cardinality({}) = 0
    BY FS_EmptySet
  <2>4. Cardinality(bundle.rerun.off \intersect made) <= (Cardinality(made) - 1) \div 2
    <3>1. Cardinality(bundle.rerun.off \intersect made) = 0
      BY <2>2, <2>3, Zenon
    <3>2. 0 <= (Cardinality(made) - 1) \div 2
      BY <1>3, <2>1
    <3> QED BY <3>1, <3>2
  <2> QED BY <1>3, <2>2, <2>4 DEF CompareLossTrajectory
<1> QED BY <1>2, <1>3

\* A model that sees the past only passes every witness of a grid that scores it.
LEMMA PastPassesWitnesses ==
  ASSUME NEW layout \in Layouts, ScoredCells(layout) # {}
  PROVE  ReduceBlankedNlls(layout, "past")
<1>1. WrongTargetWitness(layout, "past")
  <2> DEFINE low == {w \in WrongCells(layout) : Nats("past", FALSE, "A") < WrongTargetFloor}
  <2>1. ~(Nats("past", FALSE, "A") < WrongTargetFloor)
    BY DEF Nats, WrongTargetFloor
  <2>2. low = {}
    BY <2>1, Zenon
  <2>3. Cardinality(low) = 0
    BY <2>2, FS_EmptySet
  <2>4. Cardinality(WrongCells(layout)) \in Nat
    <3>1. IsFiniteSet(WindowIds)
      BY GridAssumption, FS_Interval DEF WindowIds
    <3>2. WrongCells(layout) \in SUBSET WindowIds
      BY DEF WrongCells
    <3> QED BY <3>1, <3>2, FS_Subset, FS_CardinalityType
  <2> HIDE DEF low
  <2>5. 10 * Cardinality(low) <= Cardinality(WrongCells(layout))
    BY <2>3, <2>4
  <2> QED BY <2>5 DEF WrongTargetWitness, low
<1>2. TwoFillerWitness(layout, "past")
  BY DEF TwoFillerWitness, Nats
<1> QED BY <1>1, <1>2 DEF ReduceBlankedNlls

----------------------------------------------------------------------------
\* What each operation may do.

\* op1 passes or rejects what it read, and a failed read is a fault.
LEMMA Op1Cases ==
  ASSUME Op1
  PROVE  /\ pc = "op1"
         /\ UNCHANGED <<disk, settings, world, runner, during, crashes>>
         /\ \/ \E read \in {slot, <<>>} :
                  /\ read # slot => Fault("rpc")
                  /\ read = slot => excuse' = excuse \union (IF slot # bundle.committed THEN {"slot"} ELSE {})
                  /\ Op1DiffAndIntegrity(bundle, read, blocked, codeAge)
                  /\ GoTo("op2")
            \/ /\ \/ Fault("rpc")
                  \/ /\ excuse' = excuse \union (IF slot # bundle.committed THEN {"slot"} ELSE {})
                     /\ ~Op1DiffAndIntegrity(bundle, slot, blocked, codeAge)
               /\ Reject
  BY DEF Op1

\* op2 passes or rejects what it found, and a vendor that does not answer is a fault.
LEMMA Op2Cases ==
  ASSUME Op2
  PROVE  /\ pc = "op2"
         /\ UNCHANGED <<disk, settings, world, runner, during, crashes>>
         /\ \/ \E answered \in BOOLEAN :
                  /\ IF answered THEN NoFault ELSE Fault("vendor")
                  /\ Op2AttestationVerify(box, bundle.attestation, bundle.drift, Measurement,
                                          bundle.nonce, bundle.bundleHash, answered)
                  /\ GoTo("op3")
            \/ /\ \/ Fault("vendor")
                  \/ /\ NoFault
                     /\ ~Op2AttestationVerify(box, bundle.attestation, bundle.drift, Measurement,
                                              bundle.nonce, bundle.bundleHash, TRUE)
               /\ Reject
  BY DEF Op2

\* op3 passes or rejects the log.
LEMMA Op3Cases ==
  ASSUME Op3
  PROVE  /\ pc = "op3"
         /\ UNCHANGED <<disk, settings, world, runner, during, excuse, bounds>>
         /\ \/ Op3LogPlausibility(bundle.claims) /\ GoTo("rederive")
            \/ ~Op3LogPlausibility(bundle.claims) /\ Reject
  BY DEF Op3

\* The run is repeated if it can be.
LEMMA RederiveBeginCases ==
  ASSUME RederiveBegin
  PROVE  /\ pc = "rederive"
         /\ UNCHANGED <<cache, settings, world, during, excuse, bounds>>
         /\ \/ GoTo("op4") /\ ~RederivePossible /\ UNCHANGED <<runner, scratch>>
            \/ /\ RederivePossible /\ bundle.files["patch"] # NoFile /\ ~bundle.applies
               /\ Reject /\ UNCHANGED <<runner, scratch>>
            \/ StartRunner /\ GoTo("rerun") /\ RederivePossible /\ (bundle.files["patch"] # NoFile => bundle.applies)
  BY DEF RederiveBegin

\* The repeated part of the run passes or fails.
LEMMA RederiveEndCases ==
  ASSUME RederiveEnd
  PROVE  /\ pc = "rerun"
         /\ EndRunner
         /\ UNCHANGED <<cache, settings, world, during, bounds>>
         /\ \A what : what \in excuse => what \in excuse'
         /\ \/ \E made \in SUBSET bundle.rerun.declared :
                  /\ excuse' = excuse \union (IF made # bundle.rerun.declared THEN {"cut"} ELSE {})
                  /\ \/ Cardinality(made) < 2
                     \/ CompareLossTrajectory(made, bundle.rerun.off \intersect made)
                  /\ GoTo("op4")
            \/ \E made \in SUBSET bundle.rerun.declared :
                  /\ excuse' = excuse \union (IF made # bundle.rerun.declared THEN {"cut"} ELSE {})
                  /\ ~(Cardinality(made) < 2) /\ ~CompareLossTrajectory(made, bundle.rerun.off \intersect made)
                  /\ Reject
<1>1. \A last : {s \in bundle.rerun.declared : s <= last} \in SUBSET bundle.rerun.declared
  OBVIOUS
<1> QED BY <1>1 DEF RederiveEnd

\* Enforce mode serves from the cache or goes on to the grid.
LEMMA Op4EnforceCases ==
  ASSUME Op4Enforce
  PROVE  /\ pc = "op4"
         /\ mode = "enforce"
         /\ UNCHANGED <<disk, settings, world, runner, during, crashes>>
         /\ \/ Reject /\ ~box.ack /\ NoFault
            \/ \E tag : EpochTag(tag) /\ box.ack /\ cache.key = HosbKey(tag) /\ Accept(cache.score)
            \/ \E tag : EpochTag(tag) /\ box.ack /\ seen' = HosbKey(tag) /\ Move("grid") /\ UNCHANGED <<grid, measured>>
  BY DEF Op4Enforce, FromCacheOr

\* The other modes serve from the cache or go on to measure.
LEMMA Op4LegacyCases ==
  ASSUME Op4Legacy
  PROVE  /\ pc = "op4"
         /\ mode # "enforce"
         /\ UNCHANGED <<disk, settings, world, runner, during, excuse, bounds>>
         /\ \/ cache.key = LegacyKey /\ Accept(cache.score)
            \/ box.sandbox /\ seen' = LegacyKey /\ Move("sandbox") /\ UNCHANGED <<grid, measured>>
            \/ ~box.sandbox /\ seen' = LegacyKey /\ Move("load") /\ UNCHANGED <<grid, measured>>
  BY DEF Op4Legacy, FromCacheOr

\* Loading routes the checkpoint to a child, or fails.
LEMMA LoadCases ==
  ASSUME Load
  PROVE  /\ pc = "load"
         /\ UNCHANGED <<cache, settings, world, during, excuse, bounds>>
         /\ \/ bundle.model.arch = "corrupt" /\ Raise /\ UNCHANGED <<runner, scratch>>
            \/ bundle.model.arch = "canonical" /\ runner' = "running" /\ GoTo("child") /\ UNCHANGED scratch
            \/ /\ bundle.model.arch \notin {"corrupt", "canonical"} /\ (bundle.files["patch"] = NoFile \/ ~bundle.applies)
               /\ Reject /\ UNCHANGED <<runner, scratch>>
            \/ /\ bundle.model.arch # "corrupt" /\ bundle.files["patch"] # NoFile /\ bundle.applies
               /\ StartRunner /\ Move("child") /\ measured' = shard /\ UNCHANGED <<seen, grid>>
  BY DEF Load

\* The container starts, or the bundle is rejected.
LEMMA SandboxStartCases ==
  ASSUME SandboxStart
  PROVE  /\ pc = "sandbox"
         /\ UNCHANGED <<cache, settings, world, during, crashes>>
         /\ \/ ~box.pinned /\ Reject /\ NoFault /\ UNCHANGED <<runner, scratch>>
            \/ box.pinned /\ StartRunner /\ GoTo("container") /\ NoFault
            \/ Reject /\ Fault("docker") /\ UNCHANGED <<runner, scratch>>
  BY DEF SandboxStart, Preflight

\* The child fails, or its score is saved and crowns or waits for the shadow run.
LEMMA ChildEndsCases ==
  ASSUME ChildEnds
  PROVE  /\ pc = "child"
         /\ measured # 0
         /\ EndRunner
         /\ UNCHANGED <<settings, world, during, excuse, crashes>>
         /\ \/ bundle.model.arch = "unfit" /\ Reject /\ UNCHANGED cache
            \/ /\ bundle.model.arch # "unfit" /\ Save(LegacyScore) /\ mode = "shadow"
               /\ pc' = "grid" /\ score' = LegacyScore /\ UNCHANGED <<locals, verdict, accepted>>
            \/ bundle.model.arch # "unfit" /\ Save(LegacyScore) /\ mode # "shadow" /\ Accept(LegacyScore)
  BY DEF ChildEnds, Deliver

\* The container fails, or its score is saved and crowns or waits for the shadow run.
LEMMA ContainerEndsCases ==
  ASSUME ContainerEnds
  PROVE  /\ pc = "container"
         /\ measured # 0
         /\ EndRunner
         /\ UNCHANGED <<settings, world, during, crashes>>
         /\ \/ ~ContainerRuns /\ Reject /\ UNCHANGED <<cache, excuse>>
            \/ /\ ContainerRuns /\ Save(LegacyScore) /\ mode = "shadow" /\ UNCHANGED excuse
               /\ pc' = "grid" /\ score' = LegacyScore /\ UNCHANGED <<locals, verdict, accepted>>
            \/ ContainerRuns /\ Save(LegacyScore) /\ mode # "shadow" /\ Accept(LegacyScore) /\ UNCHANGED excuse
            \/ Reject /\ excuse' = excuse \union {"rotated"} /\ UNCHANGED cache
  BY DEF ContainerEnds, Deliver

\* The grid is made and the container started, or it fails.
LEMMA GridStartCases ==
  ASSUME GridStart
  PROVE  /\ pc = "grid"
         /\ UNCHANGED <<cache, settings, world, during, crashes>>
         /\ \/ /\ box.pinned /\ StartRunner /\ Move("gridrun") /\ NoFault
               /\ \E layout \in Layouts : grid' = <<layout, window>>
               /\ measured' = shard /\ UNCHANGED seen
            \/ /\ ShadowRun /\ Accept(score) /\ UNCHANGED <<runner, scratch>>
               /\ (Fault("docker") \/ (~box.pinned /\ NoFault))
            \/ /\ ~ShadowRun /\ Reject /\ UNCHANGED <<runner, scratch>>
               /\ (Fault("docker") \/ (~box.pinned /\ NoFault))
<1>1. CASE /\ box.pinned
           /\ StartRunner /\ Move("gridrun") /\ NoFault
           /\ \E layout \in Layouts : grid' = <<layout, window>>
           /\ measured' = shard /\ UNCHANGED seen
  BY <1>1 DEF GridStart
<1>2. CASE /\ HosbFails
           /\ IF box.pinned THEN Fault("docker") ELSE NoFault
           /\ UNCHANGED <<runner, scratch>>
  <2>1. Fault("docker") \/ (~box.pinned /\ NoFault)
    BY <1>2 DEF Fault, NoFault
  <2>2. (ShadowRun /\ Accept(score)) \/ (~ShadowRun /\ Reject)
    BY <1>2, Zenon DEF HosbFails
  <2> QED BY <1>2, <2>1, <2>2 DEF GridStart
<1> QED BY <1>1, <1>2 DEF GridStart

\* Without entropy there is no grid.
LEMMA GridNoEntropyCases ==
  ASSUME GridNoEntropy
  PROVE  /\ pc = "grid"
         /\ Fault("rpc")
         /\ UNCHANGED <<disk, settings, world, runner, during, crashes>>
         /\ \/ ShadowRun /\ Accept(score)
            \/ ~ShadowRun /\ Reject
  BY DEF GridNoEntropy, HosbFails

\* The host reduces what the container gave, or rejects it.
LEMMA GridEndsCases ==
  ASSUME GridEnds
  PROVE  /\ pc = "gridrun"
         /\ EndRunner
         /\ UNCHANGED <<settings, world, during, crashes>>
         /\ \/ ShadowRun /\ Accept(score) /\ UNCHANGED <<cache, excuse>>
            \/ /\ ~ShadowRun /\ mode # "shadow" /\ ContainerRuns /\ UNCHANGED excuse
               /\ Save([shard |-> measured, by |-> "hosb", window |-> grid[2]])
               /\ Accept([shard |-> measured, by |-> "hosb", window |-> grid[2]])
            \/ /\ ~ShadowRun /\ mode = "shadow" /\ ContainerRuns /\ UNCHANGED excuse
               /\ Save([shard |-> measured, by |-> "hosb", window |-> grid[2]])
               /\ pc' = "grid" /\ score' = [shard |-> measured, by |-> "hosb", window |-> grid[2]]
               /\ UNCHANGED <<locals, verdict, accepted>>
            \/ /\ ~ShadowRun /\ Reject /\ UNCHANGED cache
               /\ ~(ContainerRuns /\ ReduceBlankedNlls(grid[1], bundle.model.sight))
               /\ excuse' = excuse \union (IF ScoredCells(grid[1]) = {} THEN {"luck"} ELSE {})
  BY DEF GridEnds, Deliver

\* The time limit ends a run that hangs, with or without its container.
LEMMA TimeLimitCases ==
  ASSUME TimeLimit
  PROVE  /\ pc # "idle"
         /\ runner = "hung"
         /\ scratch' = FALSE
         /\ UNCHANGED <<cache, settings, world, during, crashes>>
         /\ \/ runner' = "none" /\ NoFault
            \/ runner' = "orphan" /\ Fault("kill")
         /\ \/ ShadowRun /\ Accept(score)
            \/ ~ShadowRun /\ Reject
<1>1. (ShadowRun /\ Accept(score)) \/ (~ShadowRun /\ Reject)
  BY Zenon DEF TimeLimit, HosbFails
<1>2. (runner' = "none" /\ NoFault) \/ (runner' = "orphan" /\ Fault("kill"))
  BY DEF TimeLimit, NoFault, Fault
<1> QED BY <1>1, <1>2 DEF TimeLimit

----------------------------------------------------------------------------
\* The inductive invariant.

AtGates == {"op1", "op2", "op3", "rederive", "rerun", "op4"}
AtLegacy == {"sandbox", "load", "child", "container"}
AtGrid == {"grid", "gridrun"}
AtRun == {"rerun", "child", "container", "gridrun"}

\* The types the other parts need.
JudgeTypeOK ==
  /\ name \in DOMAIN Submissions /\ setting \in DOMAIN Boxes /\ mode \in Modes
  /\ shard \in 1 .. LastShard /\ codeAge \in Nat /\ crashes \in Nat
  /\ slot \in {bundle.committed, <<"later">>}
  /\ measured \in 0 .. LastShard
  /\ runner \in {"none", "running", "hung", "orphan"}
  /\ pc \in {"idle"} \union AtGates \union AtLegacy \union AtGrid
  /\ verdict \in {"none", "accepted", "rejected", "raised"}

\* What op4 holds is of the path it is on and of shards that were in place since
\* the judgement began; a score it holds already is the legacy one of a shadow run.
PathInv ==
  /\ pc # "idle" => verdict = "none" /\ shard \in during
  /\ pc \in AtGates => score = NoScore
  /\ pc \in {"idle", "sandbox", "load"} \union AtGates => measured = 0
  /\ pc \in AtLegacy =>
       /\ mode # "enforce" /\ score = NoScore
       /\ seen[1] \in 1 .. shard /\ seen[2] = "legacy"
  /\ pc \in AtGrid =>
       \/ /\ mode = "enforce" /\ box.ack /\ score = NoScore
          /\ seen[1] \in 1 .. shard /\ seen[2] = "hosb-enforce"
       \/ mode = "shadow" /\ score.by = "legacy" /\ score.shard \in during
  /\ (pc \in AtLegacy \union {"gridrun"} /\ measured # 0) =>
       /\ measured \in during /\ measured <= shard
       /\ score = NoScore => seen[1] <= measured
  /\ pc = "gridrun" => grid[1] \in Layouts /\ measured # 0

\* A cached score is of the path its key names, and of no shard before the key's:
\* the shard may be rotated while the score is measured.
CacheInv ==
  \/ cache.key = <<>>
  \/ /\ cache.key[1] \in Nat /\ cache.score.shard \in Nat
     /\ cache.key[1] <= cache.score.shard /\ cache.score.shard <= shard
     /\ \/ cache.key[2] = "legacy" /\ cache.score.by = "legacy"
        \/ cache.key[2] = "hosb-enforce" /\ cache.score.by = "hosb"

ServedInv == ServedScoreIsCurrent /\ ScoreOfConfiguredMode

\* A child or container is there only while op4 or the re-derivation waits for it,
\* and hangs only if that was counted; without a crash or a failed kill nothing
\* outlives the wait.
RunnerInv ==
  /\ runner = "running" => pc \in AtRun
  /\ runner = "hung" => pc \in AtRun \ {"rerun"} /\ "hang" \in excuse
  /\ (crashes = 0 /\ "kill" \notin excuse /\ pc \notin AtRun) => runner = "none" /\ ~scratch

\* What a judgement that got past an operation, or accepted the bundle, found there.
Op1Passed(live, fraud, age, ex) ==
  \E read \in {live, <<>>} :
    /\ read # live => "rpc" \in ex
    /\ Op1DiffAndIntegrity(bundle, read, fraud, age)

Op2Passed(ex) ==
  \E answered \in BOOLEAN :
    /\ ~answered => "vendor" \in ex
    /\ Op2AttestationVerify(box, bundle.attestation, bundle.drift, Measurement,
                            bundle.nonce, bundle.bundleHash, answered)

RederivePassed(ex) ==
  RederivePossible /\ "cut" \notin ex =>
    CompareLossTrajectory(bundle.rerun.declared, bundle.rerun.off \intersect bundle.rerun.declared)

RederiveApplies == RederivePossible /\ bundle.files["patch"] # NoFile => bundle.applies

AfterOp1 == AtLegacy \union AtGrid \union (AtGates \ {"op1"})
AfterOp2 == AfterOp1 \ {"op2"}
AfterOp3 == AfterOp2 \ {"op3"}

GatesInv ==
  /\ pc \in AfterOp1 => Op1Passed(slot, blocked, codeAge, excuse)
  /\ pc \in AfterOp2 => Op2Passed(excuse)
  /\ pc \in AfterOp3 => Op3LogPlausibility(bundle.claims)
  /\ pc \in AfterOp3 \ {"rederive"} => RederiveApplies
  /\ pc \in AfterOp3 \ {"rederive", "rerun"} => RederivePassed(excuse)
  /\ pc = "rerun" => RederivePossible

\* What the path that measured the bundle found it to be.
Measurable ==
  /\ bundle.model.arch \notin {"unfit", "corrupt"}
  /\ bundle.model.arch # "canonical" => bundle.files["patch"] # NoFile /\ bundle.applies
  /\ box.sandbox => box.pinned /\ ContainerRuns

MeasuredInv ==
  /\ pc \in {"sandbox", "container"} => box.sandbox
  /\ pc \in {"load", "child"} => ~box.sandbox
  /\ pc \in {"container", "gridrun"} => box.pinned
  /\ pc = "child" => /\ bundle.model.arch # "corrupt"
                     /\ bundle.model.arch # "canonical" => bundle.files["patch"] # NoFile /\ bundle.applies
  /\ cache.key # <<>> \/ score # NoScore => Measurable

\* What a judgement that accepts the bundle found by then.
Found(live, fraud, ex) ==
  /\ live \in {bundle.committed, <<"later">>}
  /\ \E age \in 0 .. codeAge : Op1Passed(live, fraud, age, ex)
  /\ Op2Passed(ex)
  /\ Op3LogPlausibility(bundle.claims)
  /\ RederiveApplies /\ RederivePassed(ex)
  /\ Measurable

AcceptedInv ==
  /\ verdict = "accepted" => accepted # NotYet
  /\ accepted # NotYet => Found(accepted.slot, accepted.blocked, accepted.excuse)

JudgeInv ==
  /\ JudgeTypeOK /\ PathInv /\ CacheInv /\ ServedInv /\ RunnerInv
  /\ GatesInv /\ MeasuredInv /\ AcceptedInv

\* Every step keeps the types.
LEMMA JudgeTypeNext ==
  ASSUME JudgeTypeOK, [Next]_vars
  PROVE  JudgeTypeOK'
<1>0. LastShard \in Nat
  BY JudgeAssumption
<1> USE DEF JudgeTypeOK, bundle, AtGates, AtLegacy, AtGrid, disk, settings, world, locals, memory,
            ghosts, bounds
<1>1. CASE BeginJudgement
  BY <1>1, <1>0 DEF BeginJudgement
<1>2. CASE Op1
  BY <1>2, Op1Cases, <1>0 DEF Reject, Stop, Return, GoTo, Move, Fault
<1>3. CASE Op2
  <2>1. /\ pc = "op2"
        /\ UNCHANGED <<disk, settings, world, runner, during, crashes>>
        /\ \/ GoTo("op3")
           \/ Reject
    BY <1>3, Op2Cases
  <2> QED BY <2>1, <1>0 DEF Reject, Stop, Return, GoTo, Move
<1>4. CASE Op3
  BY <1>4, Op3Cases, <1>0 DEF Reject, Stop, Return, GoTo, Move
<1>5. CASE RederiveBegin
  <2>1. /\ pc = "rederive"
        /\ UNCHANGED <<cache, settings, world, during, excuse, bounds>>
        /\ \/ GoTo("op4") /\ UNCHANGED <<runner, scratch>>
           \/ Reject /\ UNCHANGED <<runner, scratch>>
           \/ StartRunner /\ GoTo("rerun")
    BY <1>5, RederiveBeginCases
  <2> QED BY <2>1, <1>0 DEF Reject, Stop, Return, GoTo, Move, StartRunner
<1>6. CASE RederiveEnd
  <2>1. /\ pc = "rerun"
        /\ EndRunner
        /\ UNCHANGED <<cache, settings, world, during, bounds>>
        /\ \/ GoTo("op4")
           \/ Reject
    BY <1>6, RederiveEndCases
  <2> QED BY <2>1, <1>0 DEF Reject, Stop, Return, GoTo, Move, EndRunner
<1>7. CASE Op4Enforce
  BY <1>7, Op4EnforceCases, <1>0 DEF Reject, Stop, Return, Accept, Move, Fault, NoFault, EpochTag,
         HosbKey
<1>8. CASE Op4Legacy
  BY <1>8, Op4LegacyCases, <1>0 DEF Return, Accept, Move, LegacyKey
<1>9. CASE Load
  <2>1. /\ pc = "load"
        /\ UNCHANGED <<cache, settings, world, during, excuse, bounds>>
        /\ \/ (Raise \/ Reject) /\ UNCHANGED <<runner, scratch>>
           \/ runner' = "running" /\ GoTo("child") /\ UNCHANGED scratch
           \/ StartRunner /\ Move("child") /\ measured' = shard /\ UNCHANGED <<seen, grid>>
    BY <1>9, LoadCases
  <2> QED BY <2>1, <1>0 DEF Reject, Raise, Stop, Return, GoTo, Move, StartRunner
<1>10. CASE SandboxStart
  <2>1. /\ pc = "sandbox"
        /\ UNCHANGED <<cache, settings, world, during, crashes>>
        /\ \/ Reject /\ UNCHANGED <<runner, scratch>>
           \/ StartRunner /\ GoTo("container")
    BY <1>10, SandboxStartCases
  <2> QED BY <2>1, <1>0 DEF Reject, Stop, Return, GoTo, Move, StartRunner
<1>11. CASE ChildReads
  BY <1>11, <1>0 DEF ChildReads, RunnerReads
<1>12. CASE ContainerReads
  BY <1>12, <1>0 DEF ContainerReads, RunnerReads
<1>13. CASE ChildEnds
  BY <1>13, ChildEndsCases, <1>0 DEF Reject, Stop, Return, Accept, EndRunner, Save, LegacyScore
<1>14. CASE ContainerEnds
  BY <1>14, ContainerEndsCases, <1>0 DEF Reject, Stop, Return, Accept, EndRunner, Save,
         LegacyScore
<1>15. CASE GridStart
  <2>1. /\ pc = "grid"
        /\ UNCHANGED <<cache, settings, world, during, crashes>>
        /\ \/ /\ StartRunner /\ Move("gridrun") /\ measured' = shard /\ UNCHANGED seen
              /\ \E layout \in Layouts : grid' = <<layout, window>>
           \/ ShadowRun /\ Accept(score) /\ UNCHANGED <<runner, scratch>>
           \/ ~ShadowRun /\ Reject /\ UNCHANGED <<runner, scratch>>
    BY <1>15, GridStartCases
  <2> QED BY <2>1, <1>0 DEF Reject, Stop, Return, Accept, Move, StartRunner, ShadowRun
<1>16. CASE GridNoEntropy
  BY <1>16, GridNoEntropyCases, <1>0 DEF Reject, Stop, Return, Accept, Fault, ShadowRun
<1>17. CASE GridEnds
  <2>1. /\ pc = "gridrun"
        /\ EndRunner
        /\ UNCHANGED <<settings, world, during, crashes>>
        /\ \/ ShadowRun /\ Accept(score) /\ UNCHANGED cache
           \/ /\ ~ShadowRun /\ mode # "shadow"
              /\ Save([shard |-> measured, by |-> "hosb", window |-> grid[2]])
              /\ Accept([shard |-> measured, by |-> "hosb", window |-> grid[2]])
           \/ /\ ~ShadowRun /\ mode = "shadow"
              /\ Save([shard |-> measured, by |-> "hosb", window |-> grid[2]])
              /\ pc' = "grid" /\ score' = [shard |-> measured, by |-> "hosb", window |-> grid[2]]
              /\ UNCHANGED <<locals, verdict, accepted>>
           \/ ~ShadowRun /\ Reject /\ UNCHANGED cache
    BY <1>17, GridEndsCases
  <2>2. CASE ShadowRun /\ Accept(score) /\ UNCHANGED cache
    BY <2>1, <2>2, <1>0 DEF Return, Accept, EndRunner, ShadowRun
  <2>3. CASE /\ ~ShadowRun /\ mode # "shadow"
             /\ Save([shard |-> measured, by |-> "hosb", window |-> grid[2]])
             /\ Accept([shard |-> measured, by |-> "hosb", window |-> grid[2]])
    BY <2>1, <2>3, <1>0 DEF Return, Accept, EndRunner, Save, ShadowRun
  <2>4. CASE /\ ~ShadowRun /\ mode = "shadow"
             /\ Save([shard |-> measured, by |-> "hosb", window |-> grid[2]])
             /\ pc' = "grid" /\ score' = [shard |-> measured, by |-> "hosb", window |-> grid[2]]
             /\ UNCHANGED <<locals, verdict, accepted>>
    BY <2>1, <2>4, <1>0 DEF EndRunner, Save, ShadowRun
  <2>5. CASE ~ShadowRun /\ Reject /\ UNCHANGED cache
    BY <2>1, <2>5, <1>0 DEF Reject, Stop, Return, EndRunner, ShadowRun
  <2> QED BY <2>1, <2>2, <2>3, <2>4, <2>5
<1>18. CASE TimeLimit
  BY <1>18, TimeLimitCases, <1>0 DEF Reject, Stop, Return, Accept, Fault, NoFault, ShadowRun
<1>19. CASE Hang
  BY <1>19, <1>0 DEF Hang, Fault, Fault
<1>20. CASE Restart
  BY <1>20, <1>0 DEF Restart, Return, Modes
<1>21. CASE RotateShard
  BY <1>21, <1>0 DEF RotateShard, ReadByOp4, Change
<1>22. CASE Recommit
  BY <1>22, <1>0 DEF Recommit, BetweenJudgements, Change
<1>23. CASE ListFraud
  BY <1>23, <1>0 DEF ListFraud, BetweenJudgements, Change
<1>24. CASE AdvanceWindow
  BY <1>24, <1>0 DEF AdvanceWindow, ReadByOp4, Change
<1>25. CASE GrowOlder
  BY <1>25, <1>0 DEF GrowOlder, BetweenJudgements, Change
<1>26. CASE UNCHANGED vars
  BY <1>26, <1>0 DEF vars
<1> QED
  BY <1>1, <1>2, <1>3, <1>4, <1>5, <1>6, <1>7, <1>8, <1>9, <1>10, <1>11, <1>12, <1>13, <1>14,
     <1>15, <1>16, <1>17, <1>18, <1>19, <1>20, <1>21, <1>22, <1>23, <1>24, <1>25,
     <1>26 DEF Next, Step, Environment

\* Every step keeps what op4 holds of its path.
LEMMA PathNext ==
  ASSUME JudgeTypeOK, PathInv, [Next]_vars
  PROVE  PathInv'
<1>0. LastShard \in Nat
  BY JudgeAssumption
<1> USE DEF PathInv, AtGates, AtLegacy, AtGrid, box, disk, settings, world, locals, memory,
            ghosts, bounds
<1>1. CASE BeginJudgement
  BY <1>1, <1>0 DEF BeginJudgement, NoScore
<1>2. CASE Op1
  BY <1>2, Op1Cases, <1>0 DEF Reject, Stop, Return, GoTo, Move, Fault
<1>3. CASE Op2
  BY <1>3, Op2Cases, <1>0 DEF Reject, Stop, Return, GoTo, Move, Fault, NoFault
<1>4. CASE Op3
  BY <1>4, Op3Cases, <1>0 DEF Reject, Stop, Return, GoTo, Move
<1>5. CASE RederiveBegin
  BY <1>5, RederiveBeginCases, <1>0 DEF Reject, Stop, Return, GoTo, Move, StartRunner
<1>6. CASE RederiveEnd
  BY <1>6, RederiveEndCases, <1>0 DEF Reject, Stop, Return, GoTo, Move, EndRunner
<1>7. CASE Op4Enforce
  BY <1>7, Op4EnforceCases, <1>0 DEF Reject, Stop, Return, Accept, Move, Fault, NoFault, EpochTag,
         HosbKey, JudgeTypeOK, NoScore
<1>8. CASE Op4Legacy
  BY <1>8, Op4LegacyCases, <1>0 DEF Return, Accept, Move, LegacyKey, JudgeTypeOK, NoScore
<1>9. CASE Load
  <2>1. /\ pc = "load"
        /\ UNCHANGED <<cache, settings, world, during, excuse, bounds>>
        /\ \/ (Raise \/ Reject) /\ UNCHANGED <<runner, scratch>>
           \/ runner' = "running" /\ GoTo("child") /\ UNCHANGED scratch
           \/ StartRunner /\ Move("child") /\ measured' = shard /\ UNCHANGED <<seen, grid>>
    BY <1>9, LoadCases
  <2>2. CASE (Raise \/ Reject) /\ UNCHANGED <<runner, scratch>>
    BY <2>1, <2>2, <1>0 DEF Reject, Raise, Stop, Return, JudgeTypeOK, NoScore
  <2>3. CASE runner' = "running" /\ GoTo("child") /\ UNCHANGED scratch
    BY <2>1, <2>3, <1>0 DEF GoTo, Move, JudgeTypeOK, NoScore
  <2>4. CASE StartRunner /\ Move("child") /\ measured' = shard /\ UNCHANGED <<seen, grid>>
    BY <2>1, <2>4, <1>0 DEF Move, StartRunner, JudgeTypeOK, NoScore
  <2> QED BY <2>1, <2>2, <2>3, <2>4
<1>10. CASE SandboxStart
  BY <1>10, SandboxStartCases, <1>0 DEF Reject, Stop, Return, GoTo, Move, Fault, NoFault,
         StartRunner
<1>11. CASE ChildReads
  BY <1>11, <1>0 DEF ChildReads, RunnerReads, JudgeTypeOK, NoScore
<1>12. CASE ContainerReads
  BY <1>12, <1>0 DEF ContainerReads, RunnerReads, JudgeTypeOK, NoScore
<1>13. CASE ChildEnds
  BY <1>13, ChildEndsCases, <1>0 DEF Reject, Stop, Return, Accept, EndRunner, Save, LegacyScore,
         JudgeTypeOK, NoScore
<1>14. CASE ContainerEnds
  BY <1>14, ContainerEndsCases, <1>0 DEF Reject, Stop, Return, Accept, EndRunner, Save,
         LegacyScore, JudgeTypeOK, NoScore
<1>15. CASE GridStart
  <2>1. /\ pc = "grid"
        /\ UNCHANGED <<cache, settings, world, during, crashes>>
        /\ \/ /\ StartRunner /\ Move("gridrun") /\ measured' = shard /\ UNCHANGED seen
              /\ \E layout \in Layouts : grid' = <<layout, window>>
           \/ ShadowRun /\ Accept(score) /\ UNCHANGED <<runner, scratch>>
           \/ ~ShadowRun /\ Reject /\ UNCHANGED <<runner, scratch>>
    BY <1>15, GridStartCases
  <2>2. CASE /\ StartRunner /\ Move("gridrun") /\ measured' = shard /\ UNCHANGED seen
             /\ \E layout \in Layouts : grid' = <<layout, window>>
    BY <2>1, <2>2, <1>0 DEF Move, StartRunner, JudgeTypeOK, NoScore
  <2>3. CASE ShadowRun /\ Accept(score) /\ UNCHANGED <<runner, scratch>>
    BY <2>1, <2>3, <1>0 DEF Return, Accept, ShadowRun, JudgeTypeOK, NoScore
  <2>4. CASE ~ShadowRun /\ Reject /\ UNCHANGED <<runner, scratch>>
    BY <2>1, <2>4, <1>0 DEF Reject, Stop, Return, ShadowRun, JudgeTypeOK, NoScore
  <2> QED BY <2>1, <2>2, <2>3, <2>4
<1>16. CASE GridNoEntropy
  BY <1>16, GridNoEntropyCases, <1>0 DEF Reject, Stop, Return, Accept, Fault, ShadowRun
<1>17. CASE GridEnds
  <2>1. /\ pc = "gridrun"
        /\ EndRunner
        /\ UNCHANGED <<settings, world, during, crashes>>
        /\ \/ ShadowRun /\ Accept(score) /\ UNCHANGED cache
           \/ /\ ~ShadowRun /\ mode # "shadow"
              /\ Save([shard |-> measured, by |-> "hosb", window |-> grid[2]])
              /\ Accept([shard |-> measured, by |-> "hosb", window |-> grid[2]])
           \/ /\ ~ShadowRun /\ mode = "shadow"
              /\ Save([shard |-> measured, by |-> "hosb", window |-> grid[2]])
              /\ pc' = "grid" /\ score' = [shard |-> measured, by |-> "hosb", window |-> grid[2]]
              /\ UNCHANGED <<locals, verdict, accepted>>
           \/ ~ShadowRun /\ Reject /\ UNCHANGED cache
    BY <1>17, GridEndsCases
  <2>2. CASE ShadowRun /\ Accept(score) /\ UNCHANGED cache
    BY <2>1, <2>2, <1>0 DEF Return, Accept, EndRunner, ShadowRun, JudgeTypeOK, NoScore
  <2>3. CASE /\ ~ShadowRun /\ mode # "shadow"
             /\ Save([shard |-> measured, by |-> "hosb", window |-> grid[2]])
             /\ Accept([shard |-> measured, by |-> "hosb", window |-> grid[2]])
    BY <2>1, <2>3, <1>0 DEF Return, Accept, EndRunner, Save, ShadowRun, JudgeTypeOK, NoScore
  <2>4. CASE /\ ~ShadowRun /\ mode = "shadow"
             /\ Save([shard |-> measured, by |-> "hosb", window |-> grid[2]])
             /\ pc' = "grid" /\ score' = [shard |-> measured, by |-> "hosb", window |-> grid[2]]
             /\ UNCHANGED <<locals, verdict, accepted>>
    BY <2>1, <2>4, <1>0 DEF EndRunner, Save, ShadowRun, JudgeTypeOK, NoScore
  <2>5. CASE ~ShadowRun /\ Reject /\ UNCHANGED cache
    BY <2>1, <2>5, <1>0 DEF Reject, Stop, Return, EndRunner, ShadowRun, JudgeTypeOK, NoScore
  <2> QED BY <2>1, <2>2, <2>3, <2>4, <2>5
<1>18. CASE TimeLimit
  BY <1>18, TimeLimitCases, <1>0 DEF Reject, Stop, Return, Accept, Fault, NoFault, ShadowRun
<1>19. CASE Hang
  BY <1>19, <1>0 DEF Hang, Fault, NoScore
<1>20. CASE Restart
  BY <1>20, <1>0 DEF Restart, Return, NoScore
<1>21. CASE RotateShard
  BY <1>21, <1>0 DEF RotateShard, ReadByOp4, Change, JudgeTypeOK, NoScore
<1>22. CASE Recommit
  BY <1>22, <1>0 DEF Recommit, BetweenJudgements, Change, NoScore
<1>23. CASE ListFraud
  BY <1>23, <1>0 DEF ListFraud, BetweenJudgements, Change, NoScore
<1>24. CASE AdvanceWindow
  BY <1>24, <1>0 DEF AdvanceWindow, ReadByOp4, Change, NoScore
<1>25. CASE GrowOlder
  BY <1>25, <1>0 DEF GrowOlder, BetweenJudgements, Change, NoScore
<1>26. CASE UNCHANGED vars
  BY <1>26, <1>0 DEF vars
<1> QED
  BY <1>1, <1>2, <1>3, <1>4, <1>5, <1>6, <1>7, <1>8, <1>9, <1>10, <1>11, <1>12, <1>13, <1>14,
     <1>15, <1>16, <1>17, <1>18, <1>19, <1>20, <1>21, <1>22, <1>23, <1>24, <1>25,
     <1>26 DEF Next, Step, Environment

\* A score that was measured after its key was computed may be saved.
LEMMA SaveKeepsCache ==
  ASSUME NEW s, Save(s), CacheInv, UNCHANGED shard,
         seen[1] \in Nat, s.shard \in Nat, seen[1] <= s.shard, s.shard <= shard,
         \/ seen[2] = "legacy" /\ s.by = "legacy"
         \/ seen[2] = "hosb-enforce" /\ s.by = "hosb"
  PROVE  CacheInv'
<1>1. CASE cache' = [key |-> seen, score |-> s]
  BY <1>1 DEF CacheInv
<1>2. CASE cache' = NoCache
  BY <1>2 DEF CacheInv, NoCache
<1> QED BY <1>1, <1>2 DEF Save

\* Every step keeps what a cached score is of.
LEMMA CacheNext ==
  ASSUME JudgeTypeOK, PathInv, CacheInv, [Next]_vars
  PROVE  CacheInv'
<1> USE DEF disk, settings, world, locals, memory, ghosts, bounds
<1>1. CASE BeginJudgement
  BY <1>1 DEF BeginJudgement, CacheInv
<1>2. CASE Op1
  BY <1>2, Op1Cases DEF Reject, Stop, Return, GoTo, Move, Fault, CacheInv
<1>3. CASE Op2
  BY <1>3, Op2Cases DEF Reject, Stop, Return, GoTo, Move, Fault, NoFault, CacheInv
<1>4. CASE Op3
  BY <1>4, Op3Cases DEF Reject, Stop, Return, GoTo, Move, CacheInv
<1>5. CASE RederiveBegin
  BY <1>5, RederiveBeginCases DEF Reject, Stop, Return, GoTo, Move, StartRunner, CacheInv
<1>6. CASE RederiveEnd
  BY <1>6, RederiveEndCases DEF Reject, Stop, Return, GoTo, Move, EndRunner, CacheInv
<1>7. CASE Op4Enforce
  BY <1>7, Op4EnforceCases DEF Reject, Stop, Return, Accept, Move, Fault, NoFault, EpochTag,
         HosbKey, CacheInv
<1>8. CASE Op4Legacy
  BY <1>8, Op4LegacyCases DEF Return, Accept, Move, LegacyKey, CacheInv
<1>9. CASE Load
  BY <1>9, LoadCases DEF Reject, Raise, Stop, Return, GoTo, Move, StartRunner, CacheInv
<1>10. CASE SandboxStart
  BY <1>10, SandboxStartCases DEF Reject, Stop, Return, GoTo, Move, Fault, NoFault, StartRunner,
         CacheInv
<1>11. CASE ChildReads
  BY <1>11 DEF ChildReads, RunnerReads, CacheInv
<1>12. CASE ContainerReads
  BY <1>12 DEF ContainerReads, RunnerReads, CacheInv
<1>13. CASE ChildEnds
  <2>1. /\ UNCHANGED shard /\ measured \in Nat /\ seen[1] \in Nat
        /\ seen[1] <= measured /\ measured <= shard /\ seen[2] = "legacy"
    BY <1>13, ChildEndsCases DEF JudgeTypeOK, PathInv, AtLegacy
  <2>2. UNCHANGED cache \/ Save(LegacyScore)
    BY <1>13, ChildEndsCases
  <2>3. CASE UNCHANGED cache
    BY <2>1, <2>3 DEF CacheInv
  <2>4. CASE Save(LegacyScore)
    BY <2>1, <2>4, SaveKeepsCache DEF LegacyScore
  <2> QED BY <2>2, <2>3, <2>4
<1>14. CASE ContainerEnds
  <2>1. /\ UNCHANGED shard /\ measured \in Nat /\ seen[1] \in Nat
        /\ seen[1] <= measured /\ measured <= shard /\ seen[2] = "legacy"
    BY <1>14, ContainerEndsCases DEF JudgeTypeOK, PathInv, AtLegacy
  <2>2. UNCHANGED cache \/ Save(LegacyScore)
    BY <1>14, ContainerEndsCases
  <2>3. CASE UNCHANGED cache
    BY <2>1, <2>3 DEF CacheInv
  <2>4. CASE Save(LegacyScore)
    BY <2>1, <2>4, SaveKeepsCache DEF LegacyScore
  <2> QED BY <2>2, <2>3, <2>4
<1>15. CASE GridStart
  BY <1>15, GridStartCases DEF Reject, Stop, Return, Accept, Move, Fault, NoFault, StartRunner,
         ShadowRun, CacheInv
<1>16. CASE GridNoEntropy
  BY <1>16, GridNoEntropyCases DEF Reject, Stop, Return, Accept, Fault, ShadowRun, CacheInv
<1>17. CASE GridEnds
  <2>1. /\ UNCHANGED shard /\ pc = "gridrun"
        /\ UNCHANGED cache \/ (~ShadowRun /\ Save([shard |-> measured, by |-> "hosb", window |-> grid[2]]))
    BY <1>17, GridEndsCases
  <2>2. CASE UNCHANGED cache
    BY <2>1, <2>2 DEF CacheInv
  <2>3. CASE ~ShadowRun /\ Save([shard |-> measured, by |-> "hosb", window |-> grid[2]])
    <3>1. score = NoScore
      BY <2>3 DEF ShadowRun
    <3>2. /\ measured \in Nat /\ seen[1] <= measured /\ measured <= shard
      BY <2>1, <3>1 DEF JudgeTypeOK, PathInv
    <3>3. seen[1] \in Nat /\ seen[2] = "hosb-enforce"
      BY <2>1, <3>1 DEF PathInv, AtGrid, NoScore
    <3> QED BY <2>1, <2>3, <3>2, <3>3, SaveKeepsCache
  <2> QED BY <2>1, <2>2, <2>3
<1>18. CASE TimeLimit
  BY <1>18, TimeLimitCases DEF Reject, Stop, Return, Accept, Fault, NoFault, ShadowRun, CacheInv
<1>19. CASE Hang
  BY <1>19 DEF Hang, Fault, CacheInv
<1>20. CASE Restart
  BY <1>20 DEF Restart, Return, CacheInv
<1>21. CASE RotateShard
  BY <1>21 DEF RotateShard, ReadByOp4, Change, CacheInv, JudgeTypeOK
<1>22. CASE Recommit
  BY <1>22 DEF Recommit, BetweenJudgements, Change, CacheInv
<1>23. CASE ListFraud
  BY <1>23 DEF ListFraud, BetweenJudgements, Change, CacheInv
<1>24. CASE AdvanceWindow
  BY <1>24 DEF AdvanceWindow, ReadByOp4, Change, CacheInv
<1>25. CASE GrowOlder
  BY <1>25 DEF GrowOlder, BetweenJudgements, Change, CacheInv
<1>26. CASE UNCHANGED vars
  BY <1>26 DEF vars, CacheInv
<1> QED
  BY <1>1, <1>2, <1>3, <1>4, <1>5, <1>6, <1>7, <1>8, <1>9, <1>10, <1>11, <1>12, <1>13, <1>14,
     <1>15, <1>16, <1>17, <1>18, <1>19, <1>20, <1>21, <1>22, <1>23, <1>24, <1>25,
     <1>26 DEF Next, Step, Environment

\* Every step keeps a score that is served, and serves only such.
LEMMA ServedNext ==
  ASSUME JudgeTypeOK, PathInv, CacheInv, ServedInv, [Next]_vars
  PROVE  ServedInv'
<1> USE DEF ServedInv, ServedScoreIsCurrent, ScoreOfConfiguredMode, box, disk, settings, world,
            locals, memory, ghosts, bounds
<1>1. CASE BeginJudgement
  BY <1>1 DEF BeginJudgement
<1>2. CASE Op1
  BY <1>2, Op1Cases DEF Reject, Stop, Return, GoTo, Move, Fault
<1>3. CASE Op2
  BY <1>3, Op2Cases DEF Reject, Stop, Return, GoTo, Move, Fault, NoFault
<1>4. CASE Op3
  BY <1>4, Op3Cases DEF Reject, Stop, Return, GoTo, Move
<1>5. CASE RederiveBegin
  BY <1>5, RederiveBeginCases DEF Reject, Stop, Return, GoTo, Move, StartRunner
<1>6. CASE RederiveEnd
  BY <1>6, RederiveEndCases DEF Reject, Stop, Return, GoTo, Move, EndRunner
<1>7. CASE Op4Enforce
  <2>1. /\ pc = "op4" /\ mode = "enforce" /\ UNCHANGED <<disk, settings, world, during>>
        /\ \/ Reject
           \/ box.ack /\ \E tag : cache.key = HosbKey(tag) /\ Accept(cache.score)
           \/ Move("grid")
    BY <1>7, Op4EnforceCases
  <2>2. CASE Reject
    BY <2>1, <2>2 DEF Reject, Stop, Return
  <2>3. CASE box.ack /\ \E tag : cache.key = HosbKey(tag) /\ Accept(cache.score)
    <3>1. cache.key[1] = shard /\ cache.key[2] = "hosb-enforce" /\ cache.key # <<>>
      BY <2>3 DEF HosbKey
    <3>2. cache.score.shard = shard /\ cache.score.by = "hosb"
      BY <3>1 DEF CacheInv, JudgeTypeOK
    <3> QED BY <2>1, <2>3, <3>2 DEF Accept, PathInv
  <2>4. CASE Move("grid")
    BY <2>1, <2>4 DEF Move
  <2> QED BY <2>1, <2>2, <2>3, <2>4
<1>8. CASE Op4Legacy
  <2>1. /\ pc = "op4" /\ mode # "enforce" /\ UNCHANGED <<disk, settings, world, during>>
        /\ \/ cache.key = LegacyKey /\ Accept(cache.score)
           \/ Move("sandbox")
           \/ Move("load")
    BY <1>8, Op4LegacyCases
  <2>2. CASE cache.key = LegacyKey /\ Accept(cache.score)
    <3>1. cache.key[1] = shard /\ cache.key[2] = "legacy" /\ cache.key # <<>>
      BY <2>2 DEF LegacyKey
    <3>2. cache.score.shard = shard /\ cache.score.by = "legacy"
      BY <3>1 DEF CacheInv, JudgeTypeOK
    <3>3. cache.score.shard \in during
      BY <2>1, <3>2 DEF PathInv
    <3> QED BY <2>1, <2>2, <3>2, <3>3 DEF Accept, Return
  <2>3. CASE Move("sandbox") \/ Move("load")
    BY <2>1, <2>3 DEF Move
  <2> QED BY <2>1, <2>2, <2>3
<1>9. CASE Load
  BY <1>9, LoadCases DEF Reject, Raise, Stop, Return, GoTo, Move, StartRunner
<1>10. CASE SandboxStart
  BY <1>10, SandboxStartCases DEF Reject, Stop, Return, GoTo, Move, Fault, NoFault, StartRunner
<1>11. CASE ChildReads
  BY <1>11 DEF ChildReads, RunnerReads
<1>12. CASE ContainerReads
  BY <1>12 DEF ContainerReads, RunnerReads
<1>13. CASE ChildEnds
  BY <1>13, ChildEndsCases DEF Reject, Stop, Return, Accept, EndRunner, Save, LegacyScore,
         JudgeTypeOK, PathInv, AtGates, AtLegacy, AtGrid
<1>14. CASE ContainerEnds
  BY <1>14, ContainerEndsCases DEF Reject, Stop, Return, Accept, EndRunner, Save, LegacyScore,
         JudgeTypeOK, PathInv, AtGates, AtLegacy, AtGrid
<1>15. CASE GridStart
  BY <1>15, GridStartCases DEF Reject, Stop, Return, Accept, Move, Fault, NoFault, StartRunner,
         ShadowRun, JudgeTypeOK, PathInv, AtGates, AtLegacy, AtGrid
<1>16. CASE GridNoEntropy
  BY <1>16, GridNoEntropyCases DEF Reject, Stop, Return, Accept, Fault, ShadowRun, JudgeTypeOK,
         PathInv, AtGates, AtLegacy, AtGrid
<1>17. CASE GridEnds
  BY <1>17, GridEndsCases DEF Reject, Stop, Return, Accept, EndRunner, Save, ShadowRun,
         JudgeTypeOK, PathInv, AtGates, AtLegacy, AtGrid
<1>18. CASE TimeLimit
  BY <1>18, TimeLimitCases DEF Reject, Stop, Return, Accept, Fault, NoFault, ShadowRun,
         JudgeTypeOK, PathInv, AtGates, AtLegacy, AtGrid
<1>19. CASE Hang
  BY <1>19 DEF Hang, Fault
<1>20. CASE Restart
  BY <1>20 DEF Restart, Return
<1>21. CASE RotateShard
  BY <1>21 DEF RotateShard, ReadByOp4, Change, JudgeTypeOK, PathInv, AtGates, AtLegacy, AtGrid
<1>22. CASE Recommit
  BY <1>22 DEF Recommit, BetweenJudgements, Change
<1>23. CASE ListFraud
  BY <1>23 DEF ListFraud, BetweenJudgements, Change
<1>24. CASE AdvanceWindow
  BY <1>24 DEF AdvanceWindow, ReadByOp4, Change
<1>25. CASE GrowOlder
  BY <1>25 DEF GrowOlder, BetweenJudgements, Change
<1>26. CASE UNCHANGED vars
  BY <1>26 DEF vars
<1> QED
  BY <1>1, <1>2, <1>3, <1>4, <1>5, <1>6, <1>7, <1>8, <1>9, <1>10, <1>11, <1>12, <1>13, <1>14,
     <1>15, <1>16, <1>17, <1>18, <1>19, <1>20, <1>21, <1>22, <1>23, <1>24, <1>25,
     <1>26 DEF Next, Step, Environment

\* Every step keeps what is known of the child or container.
LEMMA RunnerNext ==
  ASSUME JudgeTypeOK, PathInv, RunnerInv, [Next]_vars
  PROVE  RunnerInv'
<1> USE DEF RunnerInv, AtRun, disk, settings, world, locals, memory, ghosts, bounds
<1>1. CASE BeginJudgement
  BY <1>1 DEF BeginJudgement, JudgeTypeOK
<1>2. CASE Op1
  BY <1>2, Op1Cases DEF Reject, Stop, Return, GoTo, Move, Fault
<1>3. CASE Op2
  <2>1. /\ pc = "op2"
        /\ UNCHANGED <<disk, settings, world, runner, during, crashes>>
        /\ \A what \in excuse : what \in excuse'
        /\ \/ GoTo("op3")
           \/ Reject
    BY <1>3, Op2Cases DEF Fault, NoFault
  <2> QED BY <2>1 DEF Reject, Stop, Return, GoTo, Move
<1>4. CASE Op3
  BY <1>4, Op3Cases DEF Reject, Stop, Return, GoTo, Move
<1>5. CASE RederiveBegin
  <2>1. /\ pc = "rederive"
        /\ UNCHANGED <<cache, settings, world, during, excuse, bounds>>
        /\ \A what \in excuse : what \in excuse'
        /\ \/ GoTo("op4") /\ UNCHANGED <<runner, scratch>>
           \/ Reject /\ UNCHANGED <<runner, scratch>>
           \/ StartRunner /\ GoTo("rerun")
    BY <1>5, RederiveBeginCases
  <2> QED BY <2>1 DEF Reject, Stop, Return, GoTo, Move, StartRunner
<1>6. CASE RederiveEnd
  BY <1>6, RederiveEndCases DEF Reject, Stop, Return, GoTo, Move, EndRunner
<1>7. CASE Op4Enforce
  <2>1. /\ pc = "op4"
        /\ UNCHANGED <<disk, settings, world, runner, during, crashes>>
        /\ \A what \in excuse : what \in excuse'
        /\ \/ Reject
           \/ \E tag : cache.key = HosbKey(tag) /\ Accept(cache.score)
           \/ Move("grid")
    BY <1>7, Op4EnforceCases DEF Fault, NoFault, EpochTag
  <2> QED BY <2>1 DEF Reject, Stop, Return, Accept, Move, HosbKey
<1>8. CASE Op4Legacy
  BY <1>8, Op4LegacyCases DEF Return, Accept, Move, LegacyKey
<1>9. CASE Load
  <2>1. /\ pc = "load"
        /\ UNCHANGED <<cache, settings, world, during, excuse, bounds>>
        /\ \A what \in excuse : what \in excuse'
        /\ \/ (Raise \/ Reject) /\ UNCHANGED <<runner, scratch>>
           \/ runner' = "running" /\ GoTo("child") /\ UNCHANGED scratch
           \/ StartRunner /\ Move("child") /\ measured' = shard /\ UNCHANGED <<seen, grid>>
    BY <1>9, LoadCases
  <2> QED BY <2>1 DEF Reject, Raise, Stop, Return, GoTo, Move, StartRunner
<1>10. CASE SandboxStart
  <2>1. /\ pc = "sandbox"
        /\ UNCHANGED <<cache, settings, world, during, crashes>>
        /\ \A what \in excuse : what \in excuse'
        /\ \/ Reject /\ UNCHANGED <<runner, scratch>>
           \/ StartRunner /\ GoTo("container")
    BY <1>10, SandboxStartCases DEF Fault, NoFault
  <2> QED BY <2>1 DEF Reject, Stop, Return, GoTo, Move, StartRunner
<1>11. CASE ChildReads
  BY <1>11 DEF ChildReads, RunnerReads
<1>12. CASE ContainerReads
  BY <1>12 DEF ContainerReads, RunnerReads
<1>13. CASE ChildEnds
  BY <1>13, ChildEndsCases DEF Reject, Stop, Return, Accept, EndRunner, Save, LegacyScore
<1>14. CASE ContainerEnds
  BY <1>14, ContainerEndsCases DEF Reject, Stop, Return, Accept, EndRunner, Save, LegacyScore
<1>15. CASE GridStart
  <2>1. /\ pc = "grid"
        /\ UNCHANGED <<cache, settings, world, during, crashes>>
        /\ \A what \in excuse : what \in excuse'
        /\ \/ /\ StartRunner /\ Move("gridrun") /\ measured' = shard /\ UNCHANGED seen
              /\ \E layout \in Layouts : grid' = <<layout, window>>
           \/ ShadowRun /\ Accept(score) /\ UNCHANGED <<runner, scratch>>
           \/ ~ShadowRun /\ Reject /\ UNCHANGED <<runner, scratch>>
    BY <1>15, GridStartCases DEF Fault, NoFault
  <2> QED BY <2>1 DEF Reject, Stop, Return, Accept, Move, StartRunner, ShadowRun
<1>16. CASE GridNoEntropy
  BY <1>16, GridNoEntropyCases DEF Reject, Stop, Return, Accept, Fault, ShadowRun
<1>17. CASE GridEnds
  BY <1>17, GridEndsCases DEF Reject, Stop, Return, Accept, EndRunner, Save, ShadowRun
<1>18. CASE TimeLimit
  BY <1>18, TimeLimitCases DEF Reject, Stop, Return, Accept, Fault, NoFault, ShadowRun
<1>19. CASE Hang
  BY <1>19 DEF Hang, Fault
<1>20. CASE Restart
  BY <1>20 DEF Restart, Return, JudgeTypeOK
<1>21. CASE RotateShard
  BY <1>21 DEF RotateShard, ReadByOp4, Change
<1>22. CASE Recommit
  BY <1>22 DEF Recommit, BetweenJudgements, Change
<1>23. CASE ListFraud
  BY <1>23 DEF ListFraud, BetweenJudgements, Change
<1>24. CASE AdvanceWindow
  BY <1>24 DEF AdvanceWindow, ReadByOp4, Change
<1>25. CASE GrowOlder
  BY <1>25 DEF GrowOlder, BetweenJudgements, Change
<1>26. CASE UNCHANGED vars
  BY <1>26 DEF vars
<1> QED
  BY <1>1, <1>2, <1>3, <1>4, <1>5, <1>6, <1>7, <1>8, <1>9, <1>10, <1>11, <1>12, <1>13, <1>14,
     <1>15, <1>16, <1>17, <1>18, <1>19, <1>20, <1>21, <1>22, <1>23, <1>24, <1>25,
     <1>26 DEF Next, Step, Environment

\* What passed under some excuses passed under more.
LEMMA PassedWithMore ==
  ASSUME NEW ex, NEW more, \A what \in ex : what \in more, NEW live, NEW fraud, NEW age
  PROVE  /\ Op1Passed(live, fraud, age, ex) => Op1Passed(live, fraud, age, more)
         /\ Op2Passed(ex) => Op2Passed(more)
         /\ RederivePassed(ex) => RederivePassed(more)
<1>1. Op1Passed(live, fraud, age, ex) => Op1Passed(live, fraud, age, more)
  BY DEF Op1Passed
<1>2. Op2Passed(ex) => Op2Passed(more)
  BY DEF Op2Passed
<1>3. RederivePassed(ex) => RederivePassed(more)
  BY DEF RederivePassed
<1> QED BY <1>1, <1>2, <1>3

\* The bundle and the settings stay the same, so what passes stays the same.
LEMMA SameBundle ==
  ASSUME UNCHANGED <<name, setting>>
  PROVE  /\ UNCHANGED <<bundle, box>>
         /\ RederivePossible' <=> RederivePossible
         /\ RederiveApplies' <=> RederiveApplies
         /\ Op3LogPlausibility(bundle.claims)' <=> Op3LogPlausibility(bundle.claims)
         /\ ContainerRuns' <=> ContainerRuns
         /\ Measurable' <=> Measurable
<1>1. UNCHANGED <<bundle, box>>
  BY DEF bundle, box
<1>2. RederivePossible' <=> RederivePossible
  BY <1>1 DEF RederivePossible
<1>3. RederiveApplies' <=> RederiveApplies
  BY <1>1, <1>2 DEF RederiveApplies
<1>4. Op3LogPlausibility(bundle.claims)' <=> Op3LogPlausibility(bundle.claims)
  BY <1>1
<1>5. ContainerRuns' <=> ContainerRuns
  BY <1>1 DEF ContainerRuns
<1>6. Measurable' <=> Measurable
  BY <1>1, <1>5 DEF Measurable
<1> QED BY <1>1, <1>2, <1>3, <1>4, <1>5, <1>6

\* So does what passed with what was read at the time.
LEMMA SamePassed ==
  ASSUME UNCHANGED <<name, setting>>
  PROVE  /\ UNCHANGED <<slot, blocked, codeAge>> /\ Op1Passed(slot, blocked, codeAge, excuse') =>
              Op1Passed(slot, blocked, codeAge, excuse)'
         /\ Op2Passed(excuse') => Op2Passed(excuse)'
         /\ RederivePassed(excuse') => RederivePassed(excuse)'
<1>1. UNCHANGED <<bundle, box>> /\ (RederivePossible' <=> RederivePossible)
  BY SameBundle
<1>2. \A read, fraud, age : Op1DiffAndIntegrity(bundle, read, fraud, age) =>
                            Op1DiffAndIntegrity(bundle, read, fraud, age)'
  BY <1>1 DEF Op1DiffAndIntegrity, HandshakeOk, Gates, On
<1>3. UNCHANGED <<slot, blocked, codeAge>> /\ Op1Passed(slot, blocked, codeAge, excuse') =>
        Op1Passed(slot, blocked, codeAge, excuse)'
  BY <1>1, <1>2 DEF Op1Passed
<1>4. Op2Passed(excuse') => Op2Passed(excuse)'
  BY <1>1 DEF Op2Passed
<1>5. RederivePassed(excuse') => RederivePassed(excuse)'
  BY <1>1 DEF RederivePassed
<1> QED BY <1>3, <1>4, <1>5

\* The bundle is one of those in the queue.
LEMMA BundleWellFormed ==
  ASSUME JudgeTypeOK
  PROVE  WellFormed(bundle)
  BY JudgeAssumption DEF JudgeTypeOK, bundle

\* A judgement sees one slot, one fraud list and one age, and loses no excuse.
LEMMA JudgementFrame ==
  ASSUME JudgeTypeOK, [Next]_vars
  PROVE  /\ UNCHANGED <<name, setting>> /\ codeAge <= codeAge'
         /\ pc # "idle" => /\ UNCHANGED <<slot, blocked, codeAge>>
                           /\ \A what \in excuse : what \in excuse'
<1> USE DEF JudgeTypeOK, disk, settings, world, locals, memory, ghosts, bounds
<1>1. CASE BeginJudgement
  BY <1>1 DEF BeginJudgement
<1>2. CASE Op1
  BY <1>2, Op1Cases DEF Fault
<1>3. CASE Op2
  <2>1. UNCHANGED <<disk, settings, world, runner, during, crashes>>
    BY <1>3, Op2Cases
  <2>2. \A what \in excuse : what \in excuse'
    BY <1>3, Op2Cases DEF Fault, NoFault
  <2> QED BY <2>1, <2>2
<1>4. CASE Op3
  BY <1>4, Op3Cases
<1>5. CASE RederiveBegin
  BY <1>5, RederiveBeginCases
<1>6. CASE RederiveEnd
  BY <1>6, RederiveEndCases
<1>7. CASE Op4Enforce
  BY <1>7, Op4EnforceCases DEF Fault, NoFault, EpochTag
<1>8. CASE Op4Legacy
  BY <1>8, Op4LegacyCases
<1>9. CASE Load
  BY <1>9, LoadCases
<1>10. CASE SandboxStart
  <2>1. UNCHANGED <<cache, settings, world, during, crashes>>
    BY <1>10, SandboxStartCases
  <2>2. \A what \in excuse : what \in excuse'
    BY <1>10, SandboxStartCases DEF Fault, NoFault
  <2> QED BY <2>1, <2>2
<1>11. CASE ChildReads
  BY <1>11 DEF ChildReads, RunnerReads
<1>12. CASE ContainerReads
  BY <1>12 DEF ContainerReads, RunnerReads
<1>13. CASE ChildEnds
  BY <1>13, ChildEndsCases
<1>14. CASE ContainerEnds
  BY <1>14, ContainerEndsCases
<1>15. CASE GridStart
  BY <1>15, GridStartCases DEF Fault, NoFault
<1>16. CASE GridNoEntropy
  BY <1>16, GridNoEntropyCases DEF Fault
<1>17. CASE GridEnds
  <2>1. UNCHANGED <<settings, world, during, crashes>>
    BY <1>17, GridEndsCases
  <2>2. \A what \in excuse : what \in excuse'
    BY <1>17 DEF GridEnds, Accept, Deliver, Reject
  <2> QED BY <2>1, <2>2
<1>18. CASE TimeLimit
  BY <1>18, TimeLimitCases DEF Fault, NoFault
<1>19. CASE Hang
  BY <1>19 DEF Hang, Fault, Fault
<1>20. CASE Restart
  BY <1>20 DEF Restart, Return
<1>21. CASE RotateShard
  BY <1>21 DEF RotateShard, ReadByOp4, Change
<1>22. CASE Recommit
  BY <1>22 DEF Recommit, BetweenJudgements, Change
<1>23. CASE ListFraud
  BY <1>23 DEF ListFraud, BetweenJudgements, Change
<1>24. CASE AdvanceWindow
  BY <1>24 DEF AdvanceWindow, ReadByOp4, Change
<1>25. CASE GrowOlder
  BY <1>25 DEF GrowOlder, BetweenJudgements, Change
<1>26. CASE UNCHANGED vars
  BY <1>26 DEF vars
<1> QED
  BY <1>1, <1>2, <1>3, <1>4, <1>5, <1>6, <1>7, <1>8, <1>9, <1>10, <1>11, <1>12, <1>13, <1>14,
     <1>15, <1>16, <1>17, <1>18, <1>19, <1>20, <1>21, <1>22, <1>23, <1>24, <1>25,
     <1>26 DEF Next, Step, Environment

\* Every step keeps what the operations found.
LEMMA GatesNext ==
  ASSUME JudgeTypeOK, GatesInv, [Next]_vars
  PROVE  GatesInv'
<1>0. /\ Op3LogPlausibility(bundle.claims)' <=> Op3LogPlausibility(bundle.claims)
      /\ RederivePossible' <=> RederivePossible
      /\ RederiveApplies' <=> RederiveApplies
      /\ Op2Passed(excuse') => Op2Passed(excuse)'
      /\ RederivePassed(excuse') => RederivePassed(excuse)'
      /\ pc # "idle" => /\ Op1Passed(slot, blocked, codeAge, excuse') => Op1Passed(slot, blocked, codeAge, excuse)'
                        /\ Op1Passed(slot, blocked, codeAge, excuse) => Op1Passed(slot, blocked, codeAge, excuse')
                        /\ Op2Passed(excuse) => Op2Passed(excuse')
                        /\ RederivePassed(excuse) => RederivePassed(excuse')
  <2>1. UNCHANGED <<name, setting>>
    BY JudgementFrame
  <2>2. pc # "idle" => UNCHANGED <<slot, blocked, codeAge>> /\ \A what \in excuse : what \in excuse'
    BY JudgementFrame
  <2>3. CASE pc = "idle"
    BY <2>1, <2>3, SameBundle, SamePassed
  <2>4. CASE pc # "idle"
    <3>1. UNCHANGED <<slot, blocked, codeAge>> /\ \A what \in excuse : what \in excuse'
      BY <2>2, <2>4
    <3>2. /\ Op1Passed(slot, blocked, codeAge, excuse) => Op1Passed(slot, blocked, codeAge, excuse')
          /\ Op2Passed(excuse) => Op2Passed(excuse')
          /\ RederivePassed(excuse) => RederivePassed(excuse')
      BY <3>1, PassedWithMore
    <3> QED BY <2>1, <3>1, <3>2, SameBundle, SamePassed
  <2> QED BY <2>3, <2>4
<1> USE DEF disk, settings, world, locals, memory, ghosts, bounds
<1>1. CASE BeginJudgement
  BY <1>1, <1>0 DEF BeginJudgement, GatesInv, AfterOp1, AfterOp2, AfterOp3, AtGates, AtLegacy,
         AtGrid
<1>2. CASE Op1
  <2>1. pc = "op1" /\ (GoTo("op2") \/ Reject)
    BY <1>2, Op1Cases
  <2>2. CASE GoTo("op2")
    <3>1. Op1Passed(slot, blocked, codeAge, excuse')
      BY <1>2, <2>2, Op1Cases DEF Op1Passed, Fault, GoTo, Move, Reject, Stop, Return
    <3> QED BY <1>0, <2>1, <2>2, <3>1 DEF GoTo, Move, GatesInv, AfterOp1, AfterOp2,
               AfterOp3, AtGates, AtLegacy, AtGrid
  <2>3. CASE Reject
    BY <2>3 DEF Reject, Stop, Return, GatesInv, AfterOp1, AfterOp2, AfterOp3, AtGates,
       AtLegacy, AtGrid
  <2> QED BY <2>1, <2>2, <2>3
<1>3. CASE Op2
  <2>1. pc = "op2" /\ (GoTo("op3") \/ Reject)
    BY <1>3, Op2Cases
  <2>2. CASE GoTo("op3")
    <3>1. Op2Passed(excuse')
      BY <1>3, <2>2, Op2Cases DEF Op2Passed, Fault, GoTo, Move, Reject, Stop, Return
    <3> QED BY <1>0, <2>1, <2>2, <3>1 DEF GoTo, Move, GatesInv, AfterOp1, AfterOp2,
               AfterOp3, AtGates, AtLegacy, AtGrid
  <2>3. CASE Reject
    BY <2>3 DEF Reject, Stop, Return, GatesInv, AfterOp1, AfterOp2, AfterOp3, AtGates,
       AtLegacy, AtGrid
  <2> QED BY <2>1, <2>2, <2>3
<1>4. CASE Op3
  BY <1>4, Op3Cases, <1>0 DEF Reject, Stop, Return, GoTo, Move, GatesInv, AfterOp1, AfterOp2,
         AfterOp3, AtGates, AtLegacy, AtGrid
<1>5. CASE RederiveBegin
  <2>1. /\ pc = "rederive"
        /\ \/ GoTo("op4") /\ ~RederivePossible
           \/ GoTo("rerun") /\ RederivePossible /\ (bundle.files["patch"] # NoFile => bundle.applies)
           \/ Reject
    BY <1>5, RederiveBeginCases
  <2>2. CASE GoTo("op4") /\ ~RederivePossible
    <3>1. RederiveApplies /\ RederivePassed(excuse')
      BY <2>2 DEF RederiveApplies, RederivePassed
    <3> QED BY <1>0, <2>1, <2>2, <3>1 DEF GoTo, Move, GatesInv, AfterOp1, AfterOp2,
               AfterOp3, AtGates, AtLegacy, AtGrid
  <2>3. CASE GoTo("rerun") /\ RederivePossible /\ (bundle.files["patch"] # NoFile => bundle.applies)
    <3>1. RederiveApplies
      BY <2>3 DEF RederiveApplies
    <3> QED BY <1>0, <2>1, <2>3, <3>1 DEF GoTo, Move, GatesInv, AfterOp1, AfterOp2,
               AfterOp3, AtGates, AtLegacy, AtGrid
  <2>4. CASE Reject
    BY <2>4 DEF Reject, Stop, Return, GatesInv, AfterOp1, AfterOp2, AfterOp3, AtGates,
       AtLegacy, AtGrid
  <2> QED BY <2>1, <2>2, <2>3, <2>4
<1>6. CASE RederiveEnd
  <2>1. pc = "rerun" /\ (GoTo("op4") \/ Reject)
    BY <1>6, RederiveEndCases
  <2>2. CASE GoTo("op4")
    <3>1. PICK made \in SUBSET bundle.rerun.declared :
            /\ excuse' = excuse \union (IF made # bundle.rerun.declared THEN {"cut"} ELSE {})
            /\ \/ Cardinality(made) < 2
               \/ CompareLossTrajectory(made, bundle.rerun.off \intersect made)
      BY <1>6, <2>2, RederiveEndCases DEF GoTo, Move, Reject, Stop, Return
    <3>2. CompareLossTrajectory(bundle.rerun.declared, bundle.rerun.off \intersect bundle.rerun.declared)
            \/ "cut" \in excuse'
      <4>1. CASE made = bundle.rerun.declared
        <5>1. RederivePossible
          BY <2>1 DEF GatesInv
        <5>2. Cardinality(bundle.rerun.declared) \in Nat
          BY BundleWellFormed, FS_CardinalityType DEF WellFormed
        <5>3. ~(Cardinality(made) < 2)
          BY <4>1, <5>1, <5>2 DEF RederivePossible
        <5> QED BY <3>1, <4>1, <5>3
      <4>2. CASE made # bundle.rerun.declared
        BY <3>1, <4>2
      <4> QED BY <4>1, <4>2
    <3>3. RederivePassed(excuse')
      BY <3>2 DEF RederivePassed
    <3> QED BY <1>0, <2>1, <2>2, <3>3 DEF GoTo, Move, GatesInv, AfterOp1, AfterOp2,
               AfterOp3, AtGates, AtLegacy, AtGrid
  <2>3. CASE Reject
    BY <2>3 DEF Reject, Stop, Return, GatesInv, AfterOp1, AfterOp2, AfterOp3, AtGates,
       AtLegacy, AtGrid
  <2> QED BY <2>1, <2>2, <2>3
<1>7. CASE Op4Enforce
  BY <1>7, Op4EnforceCases, <1>0 DEF Reject, Stop, Return, Accept, Move, Fault, NoFault, EpochTag,
         HosbKey, GatesInv, AfterOp1, AfterOp2, AfterOp3, AtGates, AtLegacy, AtGrid
<1>8. CASE Op4Legacy
  BY <1>8, Op4LegacyCases, <1>0 DEF Return, Accept, Move, LegacyKey, GatesInv, AfterOp1, AfterOp2,
         AfterOp3, AtGates, AtLegacy, AtGrid
<1>9. CASE Load
  BY <1>9, LoadCases, <1>0 DEF Reject, Raise, Stop, Return, GoTo, Move, StartRunner, GatesInv,
         AfterOp1, AfterOp2, AfterOp3, AtGates, AtLegacy, AtGrid
<1>10. CASE SandboxStart
  BY <1>10, SandboxStartCases, <1>0 DEF Reject, Stop, Return, GoTo, Move, Fault, NoFault,
         StartRunner, GatesInv, AfterOp1, AfterOp2, AfterOp3, AtGates, AtLegacy, AtGrid
<1>11. CASE ChildReads
  BY <1>11, <1>0 DEF ChildReads, RunnerReads, GatesInv, AfterOp1, AfterOp2, AfterOp3, AtGates,
         AtLegacy, AtGrid
<1>12. CASE ContainerReads
  BY <1>12, <1>0 DEF ContainerReads, RunnerReads, GatesInv, AfterOp1, AfterOp2, AfterOp3, AtGates,
         AtLegacy, AtGrid
<1>13. CASE ChildEnds
  BY <1>13, ChildEndsCases, <1>0 DEF Reject, Stop, Return, Accept, EndRunner, Save, LegacyScore,
         GatesInv, AfterOp1, AfterOp2, AfterOp3, AtGates, AtLegacy, AtGrid
<1>14. CASE ContainerEnds
  BY <1>14, ContainerEndsCases, <1>0 DEF Reject, Stop, Return, Accept, EndRunner, Save,
         LegacyScore, GatesInv, AfterOp1, AfterOp2, AfterOp3, AtGates, AtLegacy, AtGrid
<1>15. CASE GridStart
  BY <1>15, GridStartCases, <1>0 DEF Reject, Stop, Return, Accept, Move, Fault, NoFault,
         StartRunner, ShadowRun, GatesInv, AfterOp1, AfterOp2, AfterOp3, AtGates, AtLegacy, AtGrid
<1>16. CASE GridNoEntropy
  BY <1>16, GridNoEntropyCases, <1>0 DEF Reject, Stop, Return, Accept, Fault, ShadowRun, GatesInv,
         AfterOp1, AfterOp2, AfterOp3, AtGates, AtLegacy, AtGrid
<1>17. CASE GridEnds
  BY <1>17, GridEndsCases, <1>0 DEF Reject, Stop, Return, Accept, EndRunner, Save, ShadowRun,
         GatesInv, AfterOp1, AfterOp2, AfterOp3, AtGates, AtLegacy, AtGrid
<1>18. CASE TimeLimit
  BY <1>18, TimeLimitCases, <1>0 DEF Reject, Stop, Return, Accept, Fault, NoFault, ShadowRun,
         GatesInv, AfterOp1, AfterOp2, AfterOp3, AtGates, AtLegacy, AtGrid
<1>19. CASE Hang
  BY <1>19, <1>0 DEF Hang, Fault, GatesInv, AfterOp1, AfterOp2, AfterOp3, AtGates, AtLegacy,
         AtGrid
<1>20. CASE Restart
  BY <1>20, <1>0 DEF Restart, Return, GatesInv, AfterOp1, AfterOp2, AfterOp3, AtGates, AtLegacy,
         AtGrid
<1>21. CASE RotateShard
  BY <1>21, <1>0 DEF RotateShard, ReadByOp4, Change, GatesInv, AfterOp1, AfterOp2, AfterOp3,
         AtGates, AtLegacy, AtGrid
<1>22. CASE Recommit
  BY <1>22, <1>0 DEF Recommit, BetweenJudgements, Change, GatesInv, AfterOp1, AfterOp2, AfterOp3,
         AtGates, AtLegacy, AtGrid
<1>23. CASE ListFraud
  BY <1>23, <1>0 DEF ListFraud, BetweenJudgements, Change, GatesInv, AfterOp1, AfterOp2, AfterOp3,
         AtGates, AtLegacy, AtGrid
<1>24. CASE AdvanceWindow
  BY <1>24, <1>0 DEF AdvanceWindow, ReadByOp4, Change, GatesInv, AfterOp1, AfterOp2, AfterOp3,
         AtGates, AtLegacy, AtGrid
<1>25. CASE GrowOlder
  BY <1>25, <1>0 DEF GrowOlder, BetweenJudgements, Change, GatesInv, AfterOp1, AfterOp2, AfterOp3,
         AtGates, AtLegacy, AtGrid
<1>26. CASE UNCHANGED vars
  BY <1>26, <1>0 DEF vars, GatesInv, AfterOp1, AfterOp2, AfterOp3, AtGates, AtLegacy, AtGrid
<1> QED
  BY <1>1, <1>2, <1>3, <1>4, <1>5, <1>6, <1>7, <1>8, <1>9, <1>10, <1>11, <1>12, <1>13, <1>14,
     <1>15, <1>16, <1>17, <1>18, <1>19, <1>20, <1>21, <1>22, <1>23, <1>24, <1>25,
     <1>26 DEF Next, Step, Environment

\* Every step keeps what the path that measures the bundle found.
LEMMA MeasuredNext ==
  ASSUME JudgeTypeOK, PathInv, MeasuredInv, [Next]_vars
  PROVE  MeasuredInv'
<1>0. UNCHANGED <<bundle, box>> /\ (Measurable' <=> Measurable) /\ (ContainerRuns' <=> ContainerRuns)
  BY JudgementFrame, SameBundle
<1>arch. bundle.model.arch \in {"canonical", "patched", "unfit", "corrupt"}
  BY BundleWellFormed DEF WellFormed
<1> USE DEF disk, settings, world, locals, memory, ghosts, bounds
<1>1. CASE BeginJudgement
  BY <1>1, <1>0 DEF BeginJudgement, MeasuredInv
<1>2. CASE Op1
  BY <1>2, Op1Cases, <1>0 DEF Reject, Stop, Return, GoTo, Move, Fault, MeasuredInv
<1>3. CASE Op2
  BY <1>3, Op2Cases, <1>0 DEF Reject, Stop, Return, GoTo, Move, Fault, NoFault, MeasuredInv
<1>4. CASE Op3
  BY <1>4, Op3Cases, <1>0 DEF Reject, Stop, Return, GoTo, Move, MeasuredInv
<1>5. CASE RederiveBegin
  BY <1>5, RederiveBeginCases, <1>0 DEF Reject, Stop, Return, GoTo, Move, StartRunner, MeasuredInv
<1>6. CASE RederiveEnd
  BY <1>6, RederiveEndCases, <1>0 DEF Reject, Stop, Return, GoTo, Move, EndRunner, MeasuredInv
<1>7. CASE Op4Enforce
  <2>1. pc = "op4" /\ UNCHANGED cache /\ (pc' \in {"idle", "grid"})
    BY <1>7, Op4EnforceCases DEF Reject, Accept, Stop, Return, Move
  <2>2. UNCHANGED score \/ cache.key # <<>>
    BY <1>7, Op4EnforceCases DEF Reject, Stop, Move, HosbKey
  <2> QED BY <1>0, <2>1, <2>2 DEF MeasuredInv, AtGates, PathInv
<1>8. CASE Op4Legacy
  BY <1>8, Op4LegacyCases, <1>0 DEF Return, Accept, Move, LegacyKey, MeasuredInv
<1>9. CASE Load
  BY <1>9, LoadCases, <1>0 DEF Reject, Raise, Stop, Return, GoTo, Move, StartRunner, MeasuredInv
<1>10. CASE SandboxStart
  BY <1>10, SandboxStartCases, <1>0 DEF Reject, Stop, Return, GoTo, Move, Fault, NoFault,
         StartRunner, MeasuredInv
<1>11. CASE ChildReads
  BY <1>11, <1>0 DEF ChildReads, RunnerReads, MeasuredInv
<1>12. CASE ContainerReads
  BY <1>12, <1>0 DEF ContainerReads, RunnerReads, MeasuredInv
<1>13. CASE ChildEnds
  <2>1. pc = "child" /\ pc' \notin AtLegacy \union {"gridrun"}
    BY <1>13, ChildEndsCases DEF Reject, Accept, Stop, Return, AtLegacy
  <2>2. bundle.model.arch # "unfit" \/ UNCHANGED <<cache, score>>
    BY <1>13, ChildEndsCases DEF Reject, Stop, Accept
  <2>3. CASE bundle.model.arch # "unfit"
    <3>1. Measurable
      BY <1>arch, <2>1, <2>3 DEF Measurable, MeasuredInv
    <3> QED BY <1>0, <2>1, <3>1 DEF MeasuredInv, AtLegacy
  <2>4. CASE UNCHANGED <<cache, score>>
    BY <1>0, <2>1, <2>4 DEF MeasuredInv, AtLegacy
  <2> QED BY <2>2, <2>3, <2>4
<1>14. CASE ContainerEnds
  <2>1. pc = "container" /\ pc' \notin AtLegacy \union {"gridrun"}
    BY <1>14, ContainerEndsCases DEF Reject, Accept, Stop, Return, AtLegacy
  <2>2. ContainerRuns \/ UNCHANGED <<cache, score>>
    BY <1>14, ContainerEndsCases DEF Reject, Stop, Accept
  <2>3. CASE ContainerRuns
    <3>1. Measurable
      BY <1>arch, <2>1, <2>3 DEF Measurable, MeasuredInv, ContainerRuns
    <3> QED BY <1>0, <2>1, <3>1 DEF MeasuredInv, AtLegacy
  <2>4. CASE UNCHANGED <<cache, score>>
    BY <1>0, <2>1, <2>4 DEF MeasuredInv, AtLegacy
  <2> QED BY <2>2, <2>3, <2>4
<1>15. CASE GridStart
  BY <1>15, GridStartCases, <1>0 DEF Reject, Stop, Return, Accept, Move, Fault, NoFault,
         StartRunner, ShadowRun, MeasuredInv
<1>16. CASE GridNoEntropy
  BY <1>16, GridNoEntropyCases, <1>0 DEF Reject, Stop, Return, Accept, Fault, ShadowRun,
         MeasuredInv
<1>17. CASE GridEnds
  <2>1. pc = "gridrun" /\ pc' \notin AtLegacy \union {"gridrun"}
    BY <1>17, GridEndsCases DEF Reject, Accept, Stop, Return, AtLegacy
  <2>2. ContainerRuns \/ UNCHANGED <<cache, score>>
    BY <1>17, GridEndsCases DEF Reject, Stop, Accept
  <2>3. CASE ContainerRuns
    <3>1. Measurable
      BY <1>arch, <2>1, <2>3 DEF Measurable, MeasuredInv, ContainerRuns
    <3> QED BY <1>0, <2>1, <3>1 DEF MeasuredInv, AtLegacy
  <2>4. CASE UNCHANGED <<cache, score>>
    BY <1>0, <2>1, <2>4 DEF MeasuredInv, AtLegacy
  <2> QED BY <2>2, <2>3, <2>4
<1>18. CASE TimeLimit
  BY <1>18, TimeLimitCases, <1>0 DEF Reject, Stop, Return, Accept, Fault, NoFault, ShadowRun,
         MeasuredInv
<1>19. CASE Hang
  BY <1>19, <1>0 DEF Hang, Fault, MeasuredInv
<1>20. CASE Restart
  BY <1>20, <1>0 DEF Restart, Return, MeasuredInv
<1>21. CASE RotateShard
  BY <1>21, <1>0 DEF RotateShard, ReadByOp4, Change, MeasuredInv
<1>22. CASE Recommit
  BY <1>22, <1>0 DEF Recommit, BetweenJudgements, Change, MeasuredInv
<1>23. CASE ListFraud
  BY <1>23, <1>0 DEF ListFraud, BetweenJudgements, Change, MeasuredInv
<1>24. CASE AdvanceWindow
  BY <1>24, <1>0 DEF AdvanceWindow, ReadByOp4, Change, MeasuredInv
<1>25. CASE GrowOlder
  BY <1>25, <1>0 DEF GrowOlder, BetweenJudgements, Change, MeasuredInv
<1>26. CASE UNCHANGED vars
  BY <1>26, <1>0 DEF vars, MeasuredInv
<1> QED
  BY <1>1, <1>2, <1>3, <1>4, <1>5, <1>6, <1>7, <1>8, <1>9, <1>10, <1>11, <1>12, <1>13, <1>14,
     <1>15, <1>16, <1>17, <1>18, <1>19, <1>20, <1>21, <1>22, <1>23, <1>24, <1>25,
     <1>26 DEF Next, Step, Environment

\* What was found stays found.
LEMMA FoundStays ==
  ASSUME UNCHANGED <<name, setting>>, codeAge <= codeAge', codeAge \in Nat, codeAge' \in Nat,
         NEW live, NEW fraud, NEW ex, Found(live, fraud, ex)
  PROVE  Found(live, fraud, ex)'
<1>1. /\ UNCHANGED <<bundle, box>> /\ (RederivePossible' <=> RederivePossible)
      /\ (RederiveApplies' <=> RederiveApplies) /\ (Measurable' <=> Measurable)
  BY SameBundle
<1>2. \A read, age : Op1DiffAndIntegrity(bundle, read, fraud, age) =>
                       Op1DiffAndIntegrity(bundle, read, fraud, age)'
  BY <1>1 DEF Op1DiffAndIntegrity, HandshakeOk, Gates, On
<1>3. PICK age \in 0 .. codeAge : Op1Passed(live, fraud, age, ex)
  BY DEF Found
<1>4. Op1Passed(live, fraud, age, ex)' /\ age \in 0 .. codeAge'
  BY <1>2, <1>3 DEF Op1Passed
<1>5. Op2Passed(ex)'
  BY <1>1 DEF Found, Op2Passed
<1>6. RederivePassed(ex)'
  BY <1>1 DEF Found, RederivePassed
<1>7. Op3LogPlausibility(bundle.claims)'
  BY <1>1 DEF Found
<1>8. live \in {bundle.committed, <<"later">>}'
  BY <1>1 DEF Found
<1> QED BY <1>1, <1>4, <1>5, <1>6, <1>7, <1>8 DEF Found

\* An acceptance records what was found.
LEMMA AcceptRecords ==
  ASSUME JudgeTypeOK, GatesInv, NEW s, Accept(s), pc \in AfterOp3 \ {"rederive", "rerun"}, Measurable,
         UNCHANGED <<name, setting, codeAge>>
  PROVE  AcceptedInv'
<1>1. /\ accepted'.slot = slot /\ accepted'.blocked = blocked /\ accepted'.excuse = excuse
      /\ accepted'.shard # 0
  BY DEF Accept, JudgeTypeOK
<1>2. /\ Op1Passed(slot, blocked, codeAge, excuse) /\ Op2Passed(excuse)
      /\ Op3LogPlausibility(bundle.claims) /\ RederiveApplies /\ RederivePassed(excuse)
  BY DEF GatesInv, AfterOp1, AfterOp2, AfterOp3, AtGates
<1>3. Found(slot, blocked, excuse)
  BY <1>2 DEF Found, JudgeTypeOK
<1>4. \A live, fraud, ex : Found(live, fraud, ex) => Found(live, fraud, ex)'
  BY FoundStays DEF JudgeTypeOK
<1> QED BY <1>1, <1>3, <1>4 DEF AcceptedInv, NotYet

\* It is not forgotten.
LEMMA AcceptedStays ==
  ASSUME JudgeTypeOK, AcceptedInv, UNCHANGED <<name, setting, accepted>>, codeAge <= codeAge', codeAge' \in Nat,
         verdict' = "accepted" => verdict = "accepted"
  PROVE  AcceptedInv'
<1>1. CASE accepted = NotYet
  BY <1>1 DEF AcceptedInv, NotYet
<1>2. CASE accepted # NotYet
  <2>1. Found(accepted.slot, accepted.blocked, accepted.excuse)
    BY <1>2 DEF AcceptedInv
  <2>2. Found(accepted.slot, accepted.blocked, accepted.excuse)'
    BY <2>1, FoundStays DEF JudgeTypeOK
  <2> QED BY <1>2, <2>2 DEF AcceptedInv
<1> QED BY <1>1, <1>2

\* Every step keeps what held when the bundle was accepted.
LEMMA AcceptedNext ==
  ASSUME JudgeTypeOK, PathInv, RunnerInv, GatesInv, MeasuredInv, AcceptedInv, JudgeTypeOK', [Next]_vars
  PROVE  AcceptedInv'
<1>0. UNCHANGED <<name, setting>> /\ codeAge <= codeAge' /\ codeAge' \in Nat
  BY JudgementFrame DEF JudgeTypeOK
<1>age. pc # "idle" => UNCHANGED codeAge
  BY JudgementFrame
<1>arch. bundle.model.arch \in {"canonical", "patched", "unfit", "corrupt"}
  BY BundleWellFormed DEF WellFormed
<1> USE DEF disk, settings, world, locals, memory, ghosts, bounds
<1>1. CASE BeginJudgement
  <2>1. UNCHANGED accepted /\ (verdict' = "accepted" => verdict = "accepted")
    BY <1>1 DEF BeginJudgement
  <2> QED BY <1>0, <2>1, AcceptedStays
<1>2. CASE Op1
  <2>1. UNCHANGED accepted /\ (verdict' = "accepted" => verdict = "accepted")
    BY <1>2, Op1Cases DEF Reject, Raise, Stop, GoTo, Move
  <2> QED BY <1>0, <2>1, AcceptedStays
<1>3. CASE Op2
  <2>1. UNCHANGED accepted /\ (verdict' = "accepted" => verdict = "accepted")
    BY <1>3, Op2Cases DEF Reject, Raise, Stop, GoTo, Move
  <2> QED BY <1>0, <2>1, AcceptedStays
<1>4. CASE Op3
  <2>1. UNCHANGED accepted /\ (verdict' = "accepted" => verdict = "accepted")
    BY <1>4, Op3Cases DEF Reject, Raise, Stop, GoTo, Move
  <2> QED BY <1>0, <2>1, AcceptedStays
<1>5. CASE RederiveBegin
  <2>1. UNCHANGED accepted /\ (verdict' = "accepted" => verdict = "accepted")
    BY <1>5, RederiveBeginCases DEF Reject, Raise, Stop, GoTo, Move
  <2> QED BY <1>0, <2>1, AcceptedStays
<1>6. CASE RederiveEnd
  <2>1. UNCHANGED accepted /\ (verdict' = "accepted" => verdict = "accepted")
    BY <1>6, RederiveEndCases DEF Reject, Raise, Stop, GoTo, Move
  <2> QED BY <1>0, <2>1, AcceptedStays
<1>7. CASE Op4Enforce
  <2>1. /\ pc = "op4"
        /\ \/ UNCHANGED accepted /\ verdict' # "accepted"
           \/ (\E tag : cache.key = HosbKey(tag)) /\ Accept(cache.score)
    BY <1>7, Op4EnforceCases DEF Reject, Raise, Stop, Return, GoTo, Move, PathInv, AtGates
  <2>2. CASE UNCHANGED accepted /\ verdict' # "accepted"
    BY <1>0, <2>2, AcceptedStays
  <2>3. CASE (\E tag : cache.key = HosbKey(tag)) /\ Accept(cache.score)
    <3>1. cache.key # <<>>
      BY <2>3 DEF LegacyKey, HosbKey
    <3>2. Measurable
      BY <3>1 DEF MeasuredInv
    <3> QED BY <1>0, <1>age, <2>1, <2>3, <3>2, AcceptRecords DEF AfterOp1, AfterOp2,
               AfterOp3, AtGates, AtLegacy, AtGrid
  <2> QED BY <2>1, <2>2, <2>3
<1>8. CASE Op4Legacy
  <2>1. /\ pc = "op4"
        /\ \/ UNCHANGED accepted /\ verdict' # "accepted"
           \/ cache.key = LegacyKey /\ Accept(cache.score)
    BY <1>8, Op4LegacyCases DEF Reject, Raise, Stop, Return, GoTo, Move, PathInv, AtGates
  <2>2. CASE UNCHANGED accepted /\ verdict' # "accepted"
    BY <1>0, <2>2, AcceptedStays
  <2>3. CASE cache.key = LegacyKey /\ Accept(cache.score)
    <3>1. cache.key # <<>>
      BY <2>3 DEF LegacyKey, HosbKey
    <3>2. Measurable
      BY <3>1 DEF MeasuredInv
    <3> QED BY <1>0, <1>age, <2>1, <2>3, <3>2, AcceptRecords DEF AfterOp1, AfterOp2,
               AfterOp3, AtGates, AtLegacy, AtGrid
  <2> QED BY <2>1, <2>2, <2>3
<1>9. CASE Load
  <2>1. UNCHANGED accepted /\ (verdict' = "accepted" => verdict = "accepted")
    BY <1>9, LoadCases DEF Reject, Raise, Stop, GoTo, Move
  <2> QED BY <1>0, <2>1, AcceptedStays
<1>10. CASE SandboxStart
  <2>1. UNCHANGED accepted /\ (verdict' = "accepted" => verdict = "accepted")
    BY <1>10, SandboxStartCases DEF Reject, Raise, Stop, GoTo, Move
  <2> QED BY <1>0, <2>1, AcceptedStays
<1>11. CASE ChildReads
  <2>1. UNCHANGED accepted /\ (verdict' = "accepted" => verdict = "accepted")
    BY <1>11 DEF ChildReads, RunnerReads
  <2> QED BY <1>0, <2>1, AcceptedStays
<1>12. CASE ContainerReads
  <2>1. UNCHANGED accepted /\ (verdict' = "accepted" => verdict = "accepted")
    BY <1>12 DEF ContainerReads, RunnerReads
  <2> QED BY <1>0, <2>1, AcceptedStays
<1>13. CASE ChildEnds
  <2>1. /\ pc = "child"
        /\ \/ UNCHANGED accepted /\ verdict' # "accepted"
           \/ bundle.model.arch # "unfit" /\ Accept(LegacyScore)
    BY <1>13, ChildEndsCases DEF Reject, Raise, Stop, Return, GoTo, Move, PathInv
  <2>2. CASE UNCHANGED accepted /\ verdict' # "accepted"
    BY <1>0, <2>2, AcceptedStays
  <2>3. CASE bundle.model.arch # "unfit" /\ Accept(LegacyScore)
    <3>1. Measurable
      BY <1>arch, <2>1, <2>3 DEF Measurable, MeasuredInv, ContainerRuns
    <3> QED BY <1>0, <1>age, <2>1, <2>3, <3>1, AcceptRecords DEF AfterOp1, AfterOp2,
               AfterOp3, AtGates, AtLegacy, AtGrid
  <2> QED BY <2>1, <2>2, <2>3
<1>14. CASE ContainerEnds
  <2>1. /\ pc = "container"
        /\ \/ UNCHANGED accepted /\ verdict' # "accepted"
           \/ ContainerRuns /\ Accept(LegacyScore)
    BY <1>14, ContainerEndsCases DEF Reject, Raise, Stop, Return, GoTo, Move, PathInv
  <2>2. CASE UNCHANGED accepted /\ verdict' # "accepted"
    BY <1>0, <2>2, AcceptedStays
  <2>3. CASE ContainerRuns /\ Accept(LegacyScore)
    <3>1. Measurable
      BY <1>arch, <2>1, <2>3 DEF Measurable, MeasuredInv, ContainerRuns
    <3> QED BY <1>0, <1>age, <2>1, <2>3, <3>1, AcceptRecords DEF AfterOp1, AfterOp2,
               AfterOp3, AtGates, AtLegacy, AtGrid
  <2> QED BY <2>1, <2>2, <2>3
<1>15. CASE GridStart
  <2>1. /\ pc = "grid"
        /\ \/ UNCHANGED accepted /\ verdict' # "accepted"
           \/ ShadowRun /\ Accept(score)
    BY <1>15, GridStartCases DEF Reject, Raise, Stop, Return, GoTo, Move, PathInv
  <2>2. CASE UNCHANGED accepted /\ verdict' # "accepted"
    BY <1>0, <2>2, AcceptedStays
  <2>3. CASE ShadowRun /\ Accept(score)
    <3>1. Measurable
      BY <2>3 DEF ShadowRun, MeasuredInv
    <3> QED BY <1>0, <1>age, <2>1, <2>3, <3>1, AcceptRecords DEF AfterOp1, AfterOp2,
               AfterOp3, AtGates, AtLegacy, AtGrid
  <2> QED BY <2>1, <2>2, <2>3
<1>16. CASE GridNoEntropy
  <2>1. /\ pc = "grid"
        /\ \/ UNCHANGED accepted /\ verdict' # "accepted"
           \/ ShadowRun /\ Accept(score)
    BY <1>16, GridNoEntropyCases DEF Reject, Raise, Stop, Return, GoTo, Move, PathInv
  <2>2. CASE UNCHANGED accepted /\ verdict' # "accepted"
    BY <1>0, <2>2, AcceptedStays
  <2>3. CASE ShadowRun /\ Accept(score)
    <3>1. Measurable
      BY <2>3 DEF ShadowRun, MeasuredInv
    <3> QED BY <1>0, <1>age, <2>1, <2>3, <3>1, AcceptRecords DEF AfterOp1, AfterOp2,
               AfterOp3, AtGates, AtLegacy, AtGrid
  <2> QED BY <2>1, <2>2, <2>3
<1>17. CASE GridEnds
  <2>1. /\ pc = "gridrun"
        /\ \/ UNCHANGED accepted /\ verdict' # "accepted"
           \/ ContainerRuns /\ Accept([shard |-> measured, by |-> "hosb", window |-> grid[2]])
           \/ ShadowRun /\ Accept(score)
    BY <1>17, GridEndsCases DEF Reject, Raise, Stop, Return, GoTo, Move, PathInv
  <2>2. CASE UNCHANGED accepted /\ verdict' # "accepted"
    BY <1>0, <2>2, AcceptedStays
  <2>3. CASE ContainerRuns /\ Accept([shard |-> measured, by |-> "hosb", window |-> grid[2]])
    <3>1. Measurable
      BY <1>arch, <2>1, <2>3 DEF Measurable, MeasuredInv, ContainerRuns
    <3> QED BY <1>0, <1>age, <2>1, <2>3, <3>1, AcceptRecords DEF AfterOp1, AfterOp2,
               AfterOp3, AtGates, AtLegacy, AtGrid
  <2>4. CASE ShadowRun /\ Accept(score)
    <3>1. Measurable
      BY <2>4 DEF ShadowRun, MeasuredInv
    <3> QED BY <1>0, <1>age, <2>1, <2>4, <3>1, AcceptRecords DEF AfterOp1, AfterOp2,
               AfterOp3, AtGates, AtLegacy, AtGrid
  <2> QED BY <2>1, <2>2, <2>3, <2>4
<1>18. CASE TimeLimit
  <2>1. /\ pc \in {"child", "container", "gridrun"}
        /\ \/ UNCHANGED accepted /\ verdict' # "accepted"
           \/ ShadowRun /\ Accept(score)
    BY <1>18, TimeLimitCases DEF RunnerInv, AtRun, Reject, Raise, Stop, Return, GoTo, Move, PathInv
  <2>2. CASE UNCHANGED accepted /\ verdict' # "accepted"
    BY <1>0, <2>2, AcceptedStays
  <2>3. CASE ShadowRun /\ Accept(score)
    <3>1. Measurable
      BY <2>3 DEF ShadowRun, MeasuredInv
    <3> QED BY <1>0, <1>age, <2>1, <2>3, <3>1, AcceptRecords DEF AfterOp1, AfterOp2,
               AfterOp3, AtGates, AtLegacy, AtGrid
  <2> QED BY <2>1, <2>2, <2>3
<1>19. CASE Hang
  <2>1. UNCHANGED accepted /\ (verdict' = "accepted" => verdict = "accepted")
    BY <1>19 DEF Hang, Fault
  <2> QED BY <1>0, <2>1, AcceptedStays
<1>20. CASE Restart
  <2>1. UNCHANGED accepted /\ (verdict' = "accepted" => verdict = "accepted")
    BY <1>20 DEF Restart, Return
  <2> QED BY <1>0, <2>1, AcceptedStays
<1>21. CASE RotateShard
  <2>1. UNCHANGED accepted /\ (verdict' = "accepted" => verdict = "accepted")
    BY <1>21 DEF RotateShard, ReadByOp4, Change
  <2> QED BY <1>0, <2>1, AcceptedStays
<1>22. CASE Recommit
  <2>1. UNCHANGED accepted /\ (verdict' = "accepted" => verdict = "accepted")
    BY <1>22 DEF Recommit, BetweenJudgements, Change
  <2> QED BY <1>0, <2>1, AcceptedStays
<1>23. CASE ListFraud
  <2>1. UNCHANGED accepted /\ (verdict' = "accepted" => verdict = "accepted")
    BY <1>23 DEF ListFraud, BetweenJudgements, Change
  <2> QED BY <1>0, <2>1, AcceptedStays
<1>24. CASE AdvanceWindow
  <2>1. UNCHANGED accepted /\ (verdict' = "accepted" => verdict = "accepted")
    BY <1>24 DEF AdvanceWindow, ReadByOp4, Change
  <2> QED BY <1>0, <2>1, AcceptedStays
<1>25. CASE GrowOlder
  <2>1. UNCHANGED accepted /\ (verdict' = "accepted" => verdict = "accepted")
    BY <1>25 DEF GrowOlder, BetweenJudgements, Change
  <2> QED BY <1>0, <2>1, AcceptedStays
<1>26. CASE UNCHANGED vars
  BY <1>0, <1>26, AcceptedStays DEF vars
<1> QED
  BY <1>1, <1>2, <1>3, <1>4, <1>5, <1>6, <1>7, <1>8, <1>9, <1>10, <1>11, <1>12, <1>13, <1>14,
     <1>15, <1>16, <1>17, <1>18, <1>19, <1>20, <1>21, <1>22, <1>23, <1>24, <1>25,
     <1>26 DEF Next, Step, Environment

----------------------------------------------------------------------------
\* The inductive invariant holds.

\* It holds at the start.
LEMMA JudgeInit == Init => JudgeInv
<1> SUFFICES ASSUME Init
             PROVE  JudgeInv
  OBVIOUS
<1>1. JudgeTypeOK
  BY JudgeAssumption DEF Init, JudgeTypeOK, box
<1>2. PathInv /\ CacheInv /\ ServedInv
  BY DEF Init, PathInv, CacheInv, ServedInv, ServedScoreIsCurrent, ScoreOfConfiguredMode,
         NoCache, AtGates, AtLegacy, AtGrid
<1>3. RunnerInv /\ GatesInv
  BY DEF Init, RunnerInv, GatesInv, AtRun, AfterOp1, AfterOp2, AfterOp3, AtGates, AtLegacy, AtGrid
<1>4. MeasuredInv /\ AcceptedInv
  BY DEF Init, MeasuredInv, AcceptedInv, NoCache
<1> QED BY <1>1, <1>2, <1>3, <1>4 DEF JudgeInv

\* Every step keeps it.
LEMMA JudgeNext == JudgeInv /\ [Next]_vars => JudgeInv'
<1> SUFFICES ASSUME JudgeInv, [Next]_vars
             PROVE  JudgeInv'
  OBVIOUS
<1>1. JudgeTypeOK'
  BY JudgeTypeNext DEF JudgeInv
<1>2. PathInv' /\ CacheInv' /\ ServedInv'
  BY PathNext, CacheNext, ServedNext DEF JudgeInv
<1>3. RunnerInv' /\ GatesInv'
  BY RunnerNext, GatesNext DEF JudgeInv
<1>4. MeasuredInv' /\ AcceptedInv'
  BY <1>1, MeasuredNext, AcceptedNext DEF JudgeInv
<1> QED BY <1>1, <1>2, <1>3, <1>4 DEF JudgeInv

\* So it holds in every state.
LEMMA JudgeInvariant == Spec => []JudgeInv
  BY JudgeInit, JudgeNext, PTL DEF Spec

----------------------------------------------------------------------------
\* What an accepted bundle is.

\* ServedScoreIsCurrent for every value of the constants: no judgement hands on a
\* score of a shard that was gone before it began.
THEOREM ServedIsCurrent == Spec => []ServedScoreIsCurrent
<1>1. JudgeInv => ServedScoreIsCurrent
  BY DEF JudgeInv, ServedInv
<1> QED BY <1>1, JudgeInvariant, PTL

\* ScoreOfConfiguredMode for every value of the constants: no restart in another
\* mode serves the score of a path the settings do not choose.
THEOREM ServedByConfiguredMode == Spec => []ScoreOfConfiguredMode
<1>1. JudgeInv => ScoreOfConfiguredMode
  BY DEF JudgeInv, ServedInv
<1> QED BY <1>1, JudgeInvariant, PTL

\* AcceptedIsBound for every value of the constants: the files that were scored
\* are those the last quote of the enclave names, under the nonce on chain.
THEOREM AcceptedStaysBound == Spec => []AcceptedIsBound
<1>1. JudgeInv => AcceptedIsBound
  <2> DEFINE last == bundle.attestation.epochs[Len(bundle.attestation.epochs)]
  <2> SUFFICES ASSUME JudgeInv, verdict = "accepted", Strict
               PROVE  /\ last.quote.genuine /\ last.token.genuine
                      /\ last.quote.data = <<bundle.nonce, UserData(Measurement, last.rolling, bundle.nonce,
                                                                    BundleHash(bundle.files))>>
                      /\ bundle.committed = <<bundle.hotkey, bundle.manifest["patch"], bundle.nonce>>
    BY DEF AcceptedIsBound
  <2>1. Found(accepted.slot, accepted.blocked, accepted.excuse)
    BY DEF JudgeInv, AcceptedInv
  <2>2. PICK read \in {accepted.slot, <<>>}, age \in Nat :
          Op1DiffAndIntegrity(bundle, read, accepted.blocked, age)
    BY <2>1 DEF Found, Op1Passed, JudgeInv, JudgeTypeOK
  <2>3. BundleHashMatches(bundle)
    BY <2>2 DEF Op1DiffAndIntegrity
  <2>4. bundle.committed = <<bundle.hotkey, bundle.manifest["patch"], bundle.nonce>>
    <3>1. read = <<bundle.hotkey, bundle.manifest["patch"], bundle.nonce>>
      BY <2>2 DEF Op1DiffAndIntegrity, HandshakeOk, Strict
    <3>2. accepted.slot \in {bundle.committed, <<"later">>}
      BY <2>1 DEF Found
    <3>3. read # <<>> /\ read # <<"later">>
      BY <3>1
    <3> QED BY <3>1, <3>2, <3>3
  <2>5. PICK answered \in BOOLEAN : VerifyAttestation(box, bundle.attestation, Measurement,
                                                      bundle.nonce, bundle.bundleHash, answered)
    BY <2>1 DEF Found, Op2Passed, Op2AttestationVerify, Strict
  <2>6. Len(bundle.attestation.epochs) \in DOMAIN bundle.attestation.epochs
    <3>1. WellFormed(bundle)
      BY BundleWellFormed DEF JudgeInv
    <3>2. bundle.attestation.epochs # <<>>
      BY <2>5 DEF VerifyAttestation, Names
    <3> QED BY <3>1, <3>2 DEF WellFormed
  <2>7. /\ VerifyGpuToken(box, last.token, bundle.nonce, answered)
        /\ VerifyTdxQuote(box, last.quote, bundle.nonce,
                          UserData(last.measurement, last.rolling, bundle.nonce, bundle.bundleHash), answered)
        /\ last.measurement = Measurement
    BY <2>5, <2>6 DEF VerifyAttestation, RequireTdx, Strict, IsFinal, NoDrift, Names
  <2> HIDE DEF last
  <2> QED BY <2>3, <2>4, <2>7 DEF VerifyGpuToken, VerifyTdxQuote, BundleHashMatches, Strict
<1> QED BY <1>1, JudgeInvariant, PTL

\* CapacityBounded for every value of the constants: whatever is declared, the
\* tokens trained fit the budget of hours on the fastest allowed card.
THEOREM AcceptedWithinCapacity == Spec => []CapacityBounded
<1>1. JudgeInv => CapacityBounded
  <2> SUFFICES ASSUME JudgeInv, verdict = "accepted", On("budget"),
                      bundle.claims.n > 0, bundle.claims.tokens > 0, bundle.claims.wall > 0
               PROVE  50000 * bundle.claims.n * bundle.claims.tokens * H100Ref
                        <= 3 * FlatCeiling * Peak[bundle.claims.gpu] * BudgetH * HopperRef
    BY DEF CapacityBounded
  <2>1. Found(accepted.slot, accepted.blocked, accepted.excuse)
    BY DEF JudgeInv, AcceptedInv
  <2>2. PICK age \in Nat : Gates(bundle, age)
    BY <2>1 DEF Found, Op1Passed, Op1DiffAndIntegrity, JudgeInv, JudgeTypeOK
  <2>3. CheckComputePlausibility(bundle.claims) /\ CheckComputeBudget(bundle.claims)
    BY <2>2 DEF Gates
  <2>4. bundle.claims \in Claims
    BY BundleWellFormed DEF JudgeInv, WellFormed
  <2> QED BY <2>3, <2>4, GatesBoundCapacity
<1> QED BY <1>1, JudgeInvariant, PTL

----------------------------------------------------------------------------
\* What a judgement shows and leaves.

\* AnswersHidden for every value of the constants: no row of a grid the container
\* was given holds a token it is asked for.
THEOREM AnswersStayHidden == Spec => []AnswersHidden
<1>1. JudgeInv => AnswersHidden
  BY AnswerNeverShown DEF JudgeInv, PathInv, AnswersHidden
<1> QED BY <1>1, JudgeInvariant, PTL

\* NothingLeftBehind for every value of the constants: every way out of a
\* judgement passes the place that ends the child and removes the directory.
THEOREM JudgementCleansUp == Spec => []NothingLeftBehind
<1>1. JudgeInv => NothingLeftBehind
  BY DEF JudgeInv, RunnerInv, AtRun, NothingLeftBehind
<1> QED BY <1>1, JudgeInvariant, PTL

----------------------------------------------------------------------------
\* Who is rejected.

\* A check of op1 that passed passes later: only the age of the code has grown.
LEMMA Op1OnlyAges ==
  ASSUME NEW read, NEW fraud, NEW later \in Nat, NEW age \in 0 .. later, WellFormed(bundle),
         Op1DiffAndIntegrity(bundle, read, fraud, age)
  PROVE  Op1DiffAndIntegrity(bundle, read, fraud, later)
<1>1. bundle.claims.wall \in Nat /\ SlackH \in Nat
  BY IntegrityAssumption DEF WellFormed, Claims
<1>2. CheckTrainingTiming(bundle.claims, age) => CheckTrainingTiming(bundle.claims, later)
  BY <1>1 DEF CheckTrainingTiming
<1>3. Gates(bundle, age) => Gates(bundle, later)
  BY <1>2 DEF Gates
<1> QED BY <1>3 DEF Op1DiffAndIntegrity

\* No step rejects a bundle accepted before under the same slot and fraud list, in
\* a mode that crowns from the legacy path, unless something failed.
LEMMA AcceptedPassesAgain ==
  ASSUME JudgeInv, [Next]_vars, pc # "idle", mode # "enforce", accepted # NotYet,
         slot = accepted.slot, blocked = accepted.blocked,
         \A what \in excuse' : what = "kill", \A what \in accepted.excuse : what = "kill"
  PROVE  verdict' # "rejected"
<1>was. verdict = "none" /\ \A what \in excuse : what \in excuse'
  BY JudgementFrame DEF JudgeInv, PathInv
<1>found. /\ Op1DiffAndIntegrity(bundle, slot, blocked, codeAge)
          /\ Op2AttestationVerify(box, bundle.attestation, bundle.drift, Measurement,
                                  bundle.nonce, bundle.bundleHash, TRUE)
          /\ Op3LogPlausibility(bundle.claims) /\ RederiveApplies /\ Measurable
          /\ RederivePossible => CompareLossTrajectory(bundle.rerun.declared,
                                   bundle.rerun.off \intersect bundle.rerun.declared)
  <2>1. Found(accepted.slot, accepted.blocked, accepted.excuse)
    BY DEF JudgeInv, AcceptedInv
  <2>2. PICK age \in 0 .. codeAge : Op1Passed(slot, blocked, age, accepted.excuse)
    BY <2>1 DEF Found
  <2>3. Op1DiffAndIntegrity(bundle, slot, blocked, age)
    BY <2>2 DEF Op1Passed
  <2>4. Op1DiffAndIntegrity(bundle, slot, blocked, codeAge)
    BY <2>3, Op1OnlyAges, BundleWellFormed DEF JudgeInv, JudgeTypeOK
  <2>5. Op2AttestationVerify(box, bundle.attestation, bundle.drift, Measurement,
                             bundle.nonce, bundle.bundleHash, TRUE)
    <3>1. PICK answered \in BOOLEAN :
            /\ ~answered => "vendor" \in accepted.excuse
            /\ Op2AttestationVerify(box, bundle.attestation, bundle.drift, Measurement,
                                    bundle.nonce, bundle.bundleHash, answered)
      BY <2>1 DEF Found, Op2Passed
    <3>2. answered = TRUE
      BY <3>1
    <3> QED BY <3>1, <3>2
  <2>6. /\ Op3LogPlausibility(bundle.claims) /\ RederiveApplies /\ Measurable
        /\ RederivePassed(accepted.excuse)
    BY <2>1 DEF Found
  <2> QED BY <2>4, <2>5, <2>6 DEF RederivePassed
<1>shadow. pc \in AtGrid => ShadowRun
  BY DEF JudgeInv, PathInv, ShadowRun, NoScore
<1> USE DEF disk, settings, world, locals, memory, ghosts, bounds
<1>1. CASE BeginJudgement
  BY <1>1, <1>was DEF BeginJudgement
<1>2. CASE Op1
  <2>1. verdict' = "rejected" => Fault("rpc") \/ ~Op1DiffAndIntegrity(bundle, slot, blocked, codeAge)
    BY <1>2, <1>was, Op1Cases DEF Reject, Raise, Stop, Return, Accept, GoTo, Move
  <2> QED BY <1>was, <2>1, <1>found DEF Fault
<1>3. CASE Op2
  <2>1. verdict' = "rejected" =>
          \/ Fault("vendor")
          \/ ~Op2AttestationVerify(box, bundle.attestation, bundle.drift, Measurement,
                                   bundle.nonce, bundle.bundleHash, TRUE)
    BY <1>3, <1>was, Op2Cases DEF Reject, Stop, Return, GoTo, Move
  <2>2. ~Fault("vendor")
    BY DEF Fault
  <2> QED BY <1>found, <2>1, <2>2
<1>4. CASE Op3
  <2>1. verdict' = "rejected" => ~Op3LogPlausibility(bundle.claims)
    BY <1>4, <1>was, Op3Cases DEF Reject, Raise, Stop, Return, Accept, GoTo, Move
  <2> QED BY <1>was, <2>1, <1>found
<1>5. CASE RederiveBegin
  <2>1. verdict' = "rejected" => ~RederiveApplies
    BY <1>5, <1>was, RederiveBeginCases DEF RederiveApplies, Reject, Raise, Stop, Return,
       Accept, GoTo, Move
  <2> QED BY <1>was, <2>1, <1>found
<1>6. CASE RederiveEnd
  <2>1. verdict' = "rejected" =>
          \E made \in SUBSET bundle.rerun.declared :
            /\ excuse' = excuse \union (IF made # bundle.rerun.declared THEN {"cut"} ELSE {})
            /\ ~CompareLossTrajectory(made, bundle.rerun.off \intersect made)
    BY <1>6, <1>was, RederiveEndCases DEF Reject, Stop, Return, GoTo, Move
  <2>2. RederivePossible
    BY <1>6, RederiveEndCases DEF JudgeInv, GatesInv
  <2>3. CASE verdict' = "rejected"
    <3>1. PICK made \in SUBSET bundle.rerun.declared :
            /\ excuse' = excuse \union (IF made # bundle.rerun.declared THEN {"cut"} ELSE {})
            /\ ~CompareLossTrajectory(made, bundle.rerun.off \intersect made)
      BY <2>1, <2>3
    <3>2. made = bundle.rerun.declared
      BY <3>1
    <3> QED BY <1>found, <2>2, <3>1, <3>2
  <2> QED BY <2>3
<1>7. CASE Op4Enforce
  BY <1>7, Op4EnforceCases
<1>8. CASE Op4Legacy
  BY <1>8, <1>was, Op4LegacyCases DEF Accept, Move
<1>9. CASE Load
  <2>1. verdict' = "rejected" => /\ bundle.model.arch # "canonical"
                                   /\ (bundle.files["patch"] = NoFile \/ ~bundle.applies)
    BY <1>9, <1>was, LoadCases DEF Reject, Raise, Stop, Return, Accept, GoTo, Move
  <2> QED BY <1>was, <2>1, <1>found DEF Measurable
<1>10. CASE SandboxStart
  <2>1. verdict' = "rejected" => ~box.pinned \/ Fault("docker")
    BY <1>10, <1>was, SandboxStartCases DEF Reject, Stop, Return, GoTo, Move
  <2>2. box.sandbox
    BY <1>10, SandboxStartCases DEF JudgeInv, MeasuredInv
  <2> QED BY <1>found, <2>1, <2>2 DEF Measurable, Fault
<1>11. CASE ChildReads
  BY <1>11, <1>was DEF ChildReads, RunnerReads
<1>12. CASE ContainerReads
  BY <1>12, <1>was DEF ContainerReads, RunnerReads
<1>13. CASE ChildEnds
  <2>1. verdict' = "rejected" => bundle.model.arch = "unfit"
    BY <1>13, <1>was, ChildEndsCases DEF Reject, Raise, Stop, Return, Accept, GoTo, Move
  <2> QED BY <1>was, <2>1, <1>found DEF Measurable
<1>14. CASE ContainerEnds
  <2>1. verdict' = "rejected" => ~ContainerRuns \/ "rotated" \in excuse'
    BY <1>14, <1>was, ContainerEndsCases DEF Reject, Stop, Return, Accept
  <2>2. box.sandbox
    BY <1>14, ContainerEndsCases DEF JudgeInv, MeasuredInv
  <2> QED BY <1>found, <2>1, <2>2 DEF Measurable
<1>15. CASE GridStart
  BY <1>15, <1>was, <1>shadow, GridStartCases DEF AtGrid, Accept, Move
<1>16. CASE GridNoEntropy
  BY <1>16, <1>was, <1>shadow, GridNoEntropyCases DEF AtGrid, Accept
<1>17. CASE GridEnds
  BY <1>17, <1>was, <1>shadow, GridEndsCases DEF AtGrid, Accept
<1>18. CASE TimeLimit
  <2>1. "hang" \in excuse
    BY <1>18, TimeLimitCases DEF JudgeInv, RunnerInv
  <2> QED BY <1>was, <2>1
<1>19. CASE Hang
  BY <1>19, <1>was DEF Hang, Fault
<1>20. CASE Restart
  BY <1>20, <1>was DEF Restart, Return
<1>21. CASE RotateShard
  BY <1>21, <1>was DEF RotateShard, ReadByOp4, Change
<1>22. CASE Recommit
  BY <1>22, <1>was DEF Recommit, BetweenJudgements, Change
<1>23. CASE ListFraud
  BY <1>23, <1>was DEF ListFraud, BetweenJudgements, Change
<1>24. CASE AdvanceWindow
  BY <1>24, <1>was DEF AdvanceWindow, ReadByOp4, Change
<1>25. CASE GrowOlder
  BY <1>25, <1>was DEF GrowOlder, BetweenJudgements, Change
<1>26. CASE UNCHANGED vars
  BY <1>26, <1>was DEF vars
<1> QED
  BY <1>1, <1>2, <1>3, <1>4, <1>5, <1>6, <1>7, <1>8, <1>9, <1>10, <1>11, <1>12, <1>13, <1>14,
     <1>15, <1>16, <1>17, <1>18, <1>19, <1>20, <1>21, <1>22, <1>23, <1>24, <1>25,
     <1>26 DEF Next, Step, Environment

\* VerdictStable for every value of the constants: nothing a judgement leaves
\* behind, its cached score included, makes a later one reject the bundle.
THEOREM VerdictStays == Spec => VerdictStable
<1> DEFINE Stable == (pc # "idle" /\ verdict' = "rejected" /\ accepted # NotYet
                        /\ excuse' \union accepted.excuse \subseteq {"kill"}) =>
                     \/ slot # accepted.slot \/ blocked # accepted.blocked
                     \/ mode = "enforce"
<1>1. JudgeInv /\ [Next]_vars => Stable
  BY AcceptedPassesAgain
<1>2. JudgeInv /\ [Next]_vars => [Stable]_vars
  BY <1>1
<1> QED BY <1>2, JudgeInvariant, PTL DEF Spec, VerdictStable

\* What op4 needs to measure an honest bundle.
LEMMA HonestMeasurable ==
  ASSUME name \in DOMAIN HonestWork
  PROVE  /\ bundle.applies /\ bundle.files["patch"] # NoFile
         /\ bundle.model.arch \in {"canonical", "patched"} /\ bundle.model.sight = "past"
         /\ ContainerRuns
<1>1. LET work == HonestWork[name]
      IN  /\ TrainedAsDeclared(work) /\ bundle.files = FilesOf(work)
          /\ bundle.applies = work.patch.applies /\ bundle.model = work.model
  BY HonestBundle
<1>2. bundle.files["patch"] = HonestWork[name].patch.text
  BY <1>1 DEF FilesOf, Artifacts
<1>3. /\ bundle.applies /\ bundle.files["patch"] # NoFile
      /\ bundle.model.arch \in {"canonical", "patched"} /\ bundle.model.sight = "past"
  BY <1>1, <1>2 DEF TrainedAsDeclared, Runs
<1> QED BY <1>3 DEF ContainerRuns

\* No step of a judgement rejects an honest bundle whose slot and checkpoint are
\* untouched, unless something failed.
LEMMA HonestGetsThrough ==
  ASSUME JudgeInv, [Next]_vars, pc # "idle", Honest, slot = bundle.committed,
         bundle.files["checkpoint"] \notin blocked, \A what \in excuse' : what = "kill"
  PROVE  verdict' \notin {"rejected", "raised"}
<1>was. verdict = "none" /\ \A what \in excuse : what \in excuse'
  BY JudgementFrame DEF JudgeInv, PathInv
<1>op1. Op1DiffAndIntegrity(bundle, slot, blocked, codeAge)
  BY HonestPassesOp1 DEF Honest, JudgeInv, JudgeTypeOK
<1>op2. Op2AttestationVerify(box, bundle.attestation, bundle.drift, Measurement,
                             bundle.nonce, bundle.bundleHash, TRUE)
  BY HonestPassesOp2 DEF Honest
<1>op3. /\ Op3LogPlausibility(bundle.claims)
        /\ \A made \in SUBSET bundle.rerun.declared :
             Cardinality(made) >= 2 => CompareLossTrajectory(made, bundle.rerun.off \intersect made)
  BY HonestPassesTraining DEF Honest
<1>op4. /\ bundle.applies /\ bundle.files["patch"] # NoFile
        /\ bundle.model.arch \in {"canonical", "patched"} /\ bundle.model.sight = "past"
        /\ ContainerRuns /\ box.pinned /\ box.ack
  BY HonestMeasurable DEF Honest
<1> USE DEF disk, settings, world, locals, memory, ghosts, bounds
<1>1. CASE BeginJudgement
  BY <1>1, <1>was DEF BeginJudgement
<1>2. CASE Op1
  <2>1. verdict' \in {"rejected", "raised"} => Fault("rpc") \/ ~Op1DiffAndIntegrity(bundle, slot, blocked, codeAge)
    BY <1>2, <1>was, Op1Cases DEF Reject, Raise, Stop, Return, Accept, GoTo, Move
  <2> QED BY <1>was, <2>1, <1>op1 DEF Fault
<1>3. CASE Op2
  <2>1. verdict' \in {"rejected", "raised"} =>
          \/ Fault("vendor")
          \/ ~Op2AttestationVerify(box, bundle.attestation, bundle.drift, Measurement,
                                   bundle.nonce, bundle.bundleHash, TRUE)
    BY <1>3, <1>was, Op2Cases DEF Reject, Stop, Return, GoTo, Move
  <2>2. ~Fault("vendor")
    BY DEF Fault
  <2> QED BY <1>op2, <2>1, <2>2
<1>4. CASE Op3
  <2>1. verdict' \in {"rejected", "raised"} => ~Op3LogPlausibility(bundle.claims)
    BY <1>4, <1>was, Op3Cases DEF Reject, Raise, Stop, Return, Accept, GoTo, Move
  <2> QED BY <1>was, <2>1, <1>op3
<1>5. CASE RederiveBegin
  <2>1. verdict' \in {"rejected", "raised"} => ~bundle.applies
    BY <1>5, <1>was, RederiveBeginCases DEF Reject, Raise, Stop, Return, Accept, GoTo, Move
  <2> QED BY <1>was, <2>1, <1>op4
<1>6. CASE RederiveEnd
  <2>1. CASE verdict' \in {"rejected", "raised"}
    <3>1. PICK made \in SUBSET bundle.rerun.declared :
            ~(Cardinality(made) < 2) /\ ~CompareLossTrajectory(made, bundle.rerun.off \intersect made)
      BY <1>6, <1>was, <2>1, RederiveEndCases DEF Reject, Stop, Return, GoTo, Move
    <3>2. Cardinality(made) \in Nat
      BY BundleWellFormed, FS_Subset, FS_CardinalityType DEF WellFormed, JudgeInv
    <3> QED BY <1>op3, <3>1, <3>2
  <2> QED BY <2>1
<1>7. CASE Op4Enforce
  <2>1. verdict' \in {"rejected", "raised"} => ~box.ack
    BY <1>7, <1>was, Op4EnforceCases DEF Reject, Raise, Stop, Return, Accept, GoTo, Move
  <2> QED BY <1>was, <2>1, <1>op4
<1>8. CASE Op4Legacy
  BY <1>8, <1>was, Op4LegacyCases DEF Accept, Move
<1>9. CASE Load
  <2>1. verdict' \in {"rejected", "raised"} => \/ bundle.model.arch \notin {"canonical", "patched"}
                                   \/ bundle.files["patch"] = NoFile \/ ~bundle.applies
    BY <1>9, <1>was, LoadCases DEF Reject, Raise, Stop, Return, Accept, GoTo, Move
  <2> QED BY <1>was, <2>1, <1>op4
<1>10. CASE SandboxStart
  <2>1. verdict' \in {"rejected", "raised"} => ~box.pinned \/ Fault("docker")
    BY <1>10, <1>was, SandboxStartCases DEF Reject, Stop, Return, GoTo, Move
  <2> QED BY <1>op4, <2>1 DEF Fault
<1>11. CASE ChildReads
  BY <1>11, <1>was DEF ChildReads, RunnerReads
<1>12. CASE ContainerReads
  BY <1>12, <1>was DEF ContainerReads, RunnerReads
<1>13. CASE ChildEnds
  <2>1. verdict' \in {"rejected", "raised"} => bundle.model.arch = "unfit"
    BY <1>13, <1>was, ChildEndsCases DEF Reject, Raise, Stop, Return, Accept, GoTo, Move
  <2> QED BY <1>was, <2>1, <1>op4
<1>14. CASE ContainerEnds
  <2>1. verdict' \in {"rejected", "raised"} => ~ContainerRuns \/ "rotated" \in excuse'
    BY <1>14, <1>was, ContainerEndsCases DEF Reject, Stop, Return, Accept
  <2> QED BY <1>op4, <2>1
<1>15. CASE GridStart
  <2>1. verdict' \in {"rejected", "raised"} => ~box.pinned \/ Fault("docker")
    BY <1>15, <1>was, GridStartCases DEF Reject, Raise, Stop, Return, Accept, GoTo, Move
  <2> QED BY <1>was, <2>1, <1>op4 DEF Fault
<1>16. CASE GridNoEntropy
  BY <1>16, GridNoEntropyCases DEF Fault
<1>17. CASE GridEnds
  <2>1. verdict' \in {"rejected", "raised"} =>
          /\ ~(ContainerRuns /\ ReduceBlankedNlls(grid[1], bundle.model.sight))
          /\ excuse' = excuse \union (IF ScoredCells(grid[1]) = {} THEN {"luck"} ELSE {})
    BY <1>17, <1>was, GridEndsCases DEF Reject, Stop, Return, Accept
  <2>2. grid[1] \in Layouts
    BY <1>17, GridEndsCases DEF JudgeInv, PathInv
  <2>3. CASE ScoredCells(grid[1]) = {}
    BY <2>1, <2>3
  <2>4. CASE ScoredCells(grid[1]) # {}
    BY <1>op4, <2>1, <2>2, <2>4, PastPassesWitnesses
  <2> QED BY <2>3, <2>4
<1>18. CASE TimeLimit
  <2>1. "hang" \in excuse
    BY <1>18, TimeLimitCases DEF JudgeInv, RunnerInv
  <2> QED BY <1>was, <2>1
<1>19. CASE Hang
  BY <1>19, <1>was DEF Hang, Fault
<1>20. CASE Restart
  BY <1>20, <1>was DEF Restart, Return
<1>21. CASE RotateShard
  BY <1>21, <1>was DEF RotateShard, ReadByOp4, Change
<1>22. CASE Recommit
  BY <1>22, <1>was DEF Recommit, BetweenJudgements, Change
<1>23. CASE ListFraud
  BY <1>23, <1>was DEF ListFraud, BetweenJudgements, Change
<1>24. CASE AdvanceWindow
  BY <1>24, <1>was DEF AdvanceWindow, ReadByOp4, Change
<1>25. CASE GrowOlder
  BY <1>25, <1>was DEF GrowOlder, BetweenJudgements, Change
<1>26. CASE UNCHANGED vars
  BY <1>26, <1>was DEF vars
<1> QED
  BY <1>1, <1>2, <1>3, <1>4, <1>5, <1>6, <1>7, <1>8, <1>9, <1>10, <1>11, <1>12, <1>13, <1>14,
     <1>15, <1>16, <1>17, <1>18, <1>19, <1>20, <1>21, <1>22, <1>23, <1>24, <1>25,
     <1>26 DEF Next, Step, Environment

\* Nothing happens to a rejected bundle, and nothing but a judgement rejects one.
LEMMA IdleRejectsNone ==
  ASSUME JudgeInv, Next, pc = "idle"
  PROVE  verdict' \notin {"rejected", "raised"}
<1> USE DEF disk, settings, world, locals, memory, ghosts, bounds
<1>1. CASE BeginJudgement
  BY <1>1 DEF BeginJudgement
<1>2. CASE Op1
  BY <1>2, Op1Cases DEF AtRun
<1>3. CASE Op2
  BY <1>3, Op2Cases DEF AtRun
<1>4. CASE Op3
  BY <1>4, Op3Cases DEF AtRun
<1>5. CASE RederiveBegin
  BY <1>5, RederiveBeginCases DEF AtRun
<1>6. CASE RederiveEnd
  BY <1>6, RederiveEndCases DEF AtRun
<1>7. CASE Op4Enforce
  BY <1>7, Op4EnforceCases DEF AtRun
<1>8. CASE Op4Legacy
  BY <1>8, Op4LegacyCases DEF AtRun
<1>9. CASE Load
  BY <1>9, LoadCases DEF AtRun
<1>10. CASE SandboxStart
  BY <1>10, SandboxStartCases DEF AtRun
<1>11. CASE ChildReads
  BY <1>11 DEF ChildReads, RunnerReads
<1>12. CASE ContainerReads
  BY <1>12 DEF ContainerReads, RunnerReads
<1>13. CASE ChildEnds
  BY <1>13, ChildEndsCases DEF AtRun
<1>14. CASE ContainerEnds
  BY <1>14, ContainerEndsCases DEF AtRun
<1>15. CASE GridStart
  BY <1>15, GridStartCases DEF AtRun
<1>16. CASE GridNoEntropy
  BY <1>16, GridNoEntropyCases DEF AtRun
<1>17. CASE GridEnds
  BY <1>17, GridEndsCases DEF AtRun
<1>18. CASE TimeLimit
  BY <1>18, TimeLimitCases DEF AtRun
<1>19. CASE Hang
  BY <1>19 DEF Hang, Fault
<1>20. CASE Restart
  BY <1>20 DEF Restart, Return
<1>21. CASE RotateShard
  BY <1>21 DEF RotateShard, ReadByOp4, Change
<1>22. CASE Recommit
  BY <1>22 DEF Recommit, BetweenJudgements, Change
<1>23. CASE ListFraud
  BY <1>23 DEF ListFraud, BetweenJudgements, Change
<1>24. CASE AdvanceWindow
  BY <1>24 DEF AdvanceWindow, ReadByOp4, Change
<1>25. CASE GrowOlder
  BY <1>25 DEF GrowOlder, BetweenJudgements, Change
<1> QED
  BY <1>1, <1>2, <1>3, <1>4, <1>5, <1>6, <1>7, <1>8, <1>9, <1>10, <1>11, <1>12, <1>13, <1>14,
     <1>15, <1>16, <1>17, <1>18, <1>19, <1>20, <1>21, <1>22, <1>23, <1>24, <1>25 DEF Next,
     Step, Environment

\* HonestNeverRejected for every value of the constants: any clean patch, any box
\* and any way the services fail; a false rejection has one of the named causes.
THEOREM HonestPasses == Spec => []HonestNeverRejected
<1>1. Init => HonestNeverRejected
  BY DEF Init, HonestNeverRejected
<1>2. JudgeInv /\ HonestNeverRejected /\ [Next]_vars => HonestNeverRejected'
  <2> SUFFICES ASSUME JudgeInv, HonestNeverRejected, [Next]_vars,
                      verdict' \in {"rejected", "raised"}, Honest', excuse' \ {"kill"} = {},
                      (slot = bundle.committed)', (bundle.files["checkpoint"] \notin blocked)'
               PROVE  FALSE
    BY DEF HonestNeverRejected
  <2>1. CASE UNCHANGED vars
    BY <2>1 DEF vars, settings, world, memory, ghosts, HonestNeverRejected, Honest, bundle, box
  <2>2. CASE Next
    <3>1. pc # "idle"
      BY <2>2, IdleRejectsNone
    <3>2. UNCHANGED <<name, setting, slot, blocked, codeAge>>
      BY <3>1, JudgementFrame DEF JudgeInv
    <3>3. UNCHANGED <<bundle, box>>
      BY <3>2 DEF bundle, box
    <3>4. Honest /\ slot = bundle.committed /\ bundle.files["checkpoint"] \notin blocked
      BY <3>2, <3>3 DEF Honest
    <3>5. \A what \in excuse' : what = "kill"
      OBVIOUS
    <3> QED BY <3>1, <3>4, <3>5, HonestGetsThrough
  <2> QED BY <2>1, <2>2
<1> QED BY <1>1, <1>2, JudgeInvariant, PTL DEF Spec

=============================================================================
