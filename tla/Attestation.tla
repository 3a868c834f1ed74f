---------------------------- MODULE Attestation ----------------------------
(***************************************************************************)
(* The attestation chain of a proof run: how proof/runner.py and           *)
(* proof/real_attest.py (or proof/mock_attest.py) build it, and how op2    *)
(* verifies it.                                                            *)
(*                                                                         *)
(* A hash is modelled by what it is taken over, in a tuple: hashes are     *)
(* equal exactly when their inputs are.  A quote, a GPU token and a mock   *)
(* signature are records of what they sign; "genuine" says whether the     *)
(* vendor's key signed it, which no test on the record itself can show.    *)
(***************************************************************************)
EXTENDS Integers, Sequences

NoQuote == [genuine |-> FALSE, data |-> <<>>]
NoToken == [genuine |-> FALSE, passed |-> FALSE, nonce |-> "", die |-> "", bound |-> FALSE]
NoSignature == <<>>

\* What detect_capabilities finds on the miner's machine: a TDX guest and the
\* NVIDIA SDK, whether or not either gives any evidence later.
AttestationType(host) ==
  IF host.nvcc THEN IF host.tdx THEN "real_tdx_nvcc" ELSE "real_nvcc_only"
  ELSE "mock"

-----------------------------------------------------------------------------
\* Generation

\* The rolling hash over the log, ten rows to an epoch and the rest in a last one.
Bucket == 10

EpochRecords(rows, nonce) ==
  LET count == (rows + Bucket - 1) \div Bucket
      rolling[i \in 0 .. count] ==
        IF i = 0 THEN <<nonce>>
        ELSE Append(rolling[i - 1], IF i * Bucket <= rows THEN Bucket ELSE rows % Bucket)
  IN  [i \in 1 .. count |-> rolling[i]]

UserData(measurement, rolling, nonce, tail) == <<measurement, rolling, nonce, tail>>

\* Evidence of epoch i.  The SDK may raise or find none, and what NVIDIA says of
\* the GPU is not looked at here.
GpuEvidence(host, i, nonce) ==
  IF host.nvcc /\ i \notin host.gpuFails
  THEN [genuine |-> TRUE, passed |-> host.passes, nonce |-> nonce, die |-> host.die,
        bound |-> TRUE]
  ELSE NoToken

\* user_data[:64]: the measurement has 64 digits.
CutShort(userData) == <<userData[1]>>

\* Without the kernel's report node trustauthority-cli is asked, if it is there,
\* and given the first 64 characters only.
TdxQuote(host, i, nonce, userData) ==
  IF ~host.tdx THEN NoQuote
  ELSE IF i \notin host.tsmFails THEN [genuine |-> TRUE, data |-> <<nonce, userData>>]
  ELSE IF host.cli THEN [genuine |-> TRUE, data |-> <<nonce, CutShort(userData)>>]
  ELSE NoQuote

MockSignature(measurement, rolling, nonce) == <<measurement, rolling, nonce>>

AttestationEpoch(host, i, measurement, nonce, rolling, tail) ==
  [nonce |-> nonce, measurement |-> measurement, rolling |-> rolling,
   token |-> GpuEvidence(host, i, nonce),
   quote |-> TdxQuote(host, i, nonce, UserData(measurement, rolling, nonce, tail)),
   signature |-> IF AttestationType(host) = "mock"
                 THEN MockSignature(measurement, rolling, nonce) ELSE NoSignature]

\* The rolling hash of the final epoch, over the one before it and the bundle's.
FinalRolling(prior, bundleHash) == prior \o <<"bundle", bundleHash>>

LastOf(records) == IF records = <<>> THEN <<>> ELSE records[Len(records)]

\* Labelled by what the machine has, with whatever evidence there is.
GenerateAttestation(host, measurement, nonce, records, bundleHash) ==
  [type |-> AttestationType(host), measurement |-> measurement, nonce |-> nonce,
   bundleHash |-> bundleHash,
   epochs |->
     Append([i \in DOMAIN records |->
               AttestationEpoch(host, i, measurement, nonce, records[i], <<>>)],
            AttestationEpoch(host, Len(records) + 1, measurement, nonce,
                             FinalRolling(LastOf(records), bundleHash), bundleHash))]

-----------------------------------------------------------------------------
\* Verification.  box holds the validator's settings: stub
\* (RALPH_ALLOW_REAL_ATTEST_STUB), level (RALPH_REQUIRE_ATTEST_LEVEL), mock
\* (RALPH_ALLOW_MOCK_ATTESTATION), archGate and dies.  answered says whether the
\* vendors' services gave their keys and collateral, which the stub does not ask.

VerifyGpuToken(box, token, nonce, answered) ==
  /\ token # NoToken
  /\ box.stub \/ (answered /\ token.genuine /\ token.passed)
  /\ token.nonce = nonce

VerifyTdxQuote(box, quote, nonce, userData, answered) ==
  /\ quote # NoQuote
  /\ box.stub \/ (answered /\ quote.genuine)
  /\ quote.data = <<nonce, userData>>

RequireTdx(box) == box.level # "nvcc_only"

IsFinal(att, i) == i = Len(att.epochs)

\* The final rolling hash, recomputed from the epoch before it.
BindsBundle(att, bundleHash) ==
  LET count == Len(att.epochs)
      prior == IF count >= 2 THEN att.epochs[count - 1].rolling ELSE <<>>
  IN  att.epochs[count].rolling = FinalRolling(prior, bundleHash)

NoDrift(att, i) ==
  /\ att.epochs[i].nonce = att.nonce
  /\ att.epochs[i].measurement = att.measurement

\* Both verifiers begin with this, and both end with BindsBundle.
Names(att, measurement, nonce, bundleHash) ==
  /\ att.measurement = measurement
  /\ att.nonce = nonce
  /\ att.bundleHash = bundleHash
  /\ att.epochs # <<>>

VerifyMockAttestation(att, measurement, nonce, bundleHash) ==
  /\ Names(att, measurement, nonce, bundleHash)
  /\ \A i \in DOMAIN att.epochs :
       /\ NoDrift(att, i)
       /\ att.epochs[i].signature =
            MockSignature(att.measurement, att.epochs[i].rolling, att.epochs[i].nonce)
  /\ BindsBundle(att, bundleHash)

VerifyAttestation(box, att, measurement, nonce, bundleHash, answered) ==
  /\ Names(att, measurement, nonce, bundleHash)
  /\ RequireTdx(box) => att.type = "real_tdx_nvcc"
  /\ \A i \in DOMAIN att.epochs :
       LET ep == att.epochs[i]
           tail == IF IsFinal(att, i) THEN bundleHash ELSE <<>>
       IN  /\ NoDrift(att, i)
           /\ VerifyGpuToken(box, ep.token, nonce, answered)
           /\ \/ ep.quote = NoQuote /\ ~RequireTdx(box)
              \/ VerifyTdxQuote(box, ep.quote, nonce,
                                UserData(ep.measurement, ep.rolling, nonce, tail), answered)
  /\ BindsBundle(att, bundleHash)

\* The die named by the detached token whose digest the signed wrapper carries:
\* allowed in every epoch, and the same in all of them.
VerifyGpuArchAllowed(att, dies) ==
  /\ \A i \in DOMAIN att.epochs :
       att.epochs[i].token.bound /\ att.epochs[i].token.die \in dies
  /\ \A i, j \in DOMAIN att.epochs :
       att.epochs[i].token.die = att.epochs[j].token.die

IsReal(att) == att.type \in {"real_tdx_nvcc", "real_nvcc_only"}

NoAttestation == [type |-> "none", measurement |-> "", nonce |-> "",
                  bundleHash |-> <<>>, epochs |-> <<>>]

\* op2.  drift: the bundle declares source commits other than the canonical ones.
Op2AttestationVerify(box, att, drift, measurement, nonce, bundleHash, answered) ==
  /\ att # NoAttestation
  /\ ~(box.commitsPinned /\ drift)
  /\ IF IsReal(att)
     THEN /\ VerifyAttestation(box, att, measurement, nonce, bundleHash, answered)
          /\ box.archGate => VerifyGpuArchAllowed(att, box.dies)
     ELSE /\ box.mock
          /\ VerifyMockAttestation(att, measurement, nonce, bundleHash)

=============================================================================
