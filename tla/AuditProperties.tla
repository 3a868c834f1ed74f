-------------------------- MODULE AuditProperties --------------------------
(***************************************************************************)
(* What the audit trail promises to those who follow it.                   *)
(***************************************************************************)
EXTENDS AuditTrail

\* What is published of an epoch says where its root is found, though the next
\* root overwrites it: the chain holds this very report at the block the
\* envelope names, unless the report was changed since, the chain refused the
\* root or the block could not be read.
ServedIsAnchored ==
  \A e \in Epochs :
    (hub[e] # NoEnvelope /\ e \notin changed /\ silent[e] \intersect {"refused", "undated"} = {}) =>
      ArchivedRoot(hub[e].commitBlock) = hub[e].report

\* No epoch is listed on the Hub before its report is there to be fetched, nor
\* without one on the validator's own disk; and the local index.json, which
\* "remains the complete authoritative copy", lists it too, until a crash may have
\* cut that file short.
IndexedIsServed ==
  \A e \in hubIndex : hub[e] # NoEnvelope /\ e \in filed /\ (crashes = 0 => e \in localIndex)

\* A report found clean against the chain is what the validator built, whatever
\* was done to the published copy, its hash and its signature, as long as the copy
\* does not name another signer.  One that does is held against that signer's key
\* and root, also when VALIDATOR_HOTKEY is set: no gate can tell it from the
\* validator's.
AlterationNeverClean ==
  [][\A e \in Epochs :
       (found'[e] = "clean" /\ found[e] # "clean" /\ hub[e].signer # "stranger")
         => hub[e].report = built[e]]_vars

\* When the weights of an unchanged report do not follow from its outcomes, it
\* is because of something the report does not tell: a winner the tenure guard
\* deferred, weights recovered from an epoch before, or a king whose pay was
\* withheld.
DivergenceExplained ==
  \A e \in Epochs :
    (found[e] = "diverges" /\ e \notin changed) =>
      silent[e] \intersect {"deferred", "recovered", "withheld"} # {}

\* The watermark, which no epoch below is audited again, passes over none the
\* auditor has not looked at, also when it crashed between its two files and
\* began again.
NoneSkipped == \A e \in hubIndex : e <= watermark => found[e] # "none"

\* The epoch the auditor takes its weights from is one it found clean, and the
\* newest such, unless it crashed between its two files.
CleanEpochCurrent ==
  /\ cleanEpoch <= watermark
  /\ (cleanEpoch # watermark /\ step # "note") => crashes > 0

\* The epochs the auditor has yet to look at.  It may miss two kinds for good: one
\* whose entry an upload that could not read the index dropped from it, and one
\* that raises when it is verified, or has such a one before it, which ends every
\* pass there.
Unseen ==
  {e \in hubIndex : found[e] = "none" /\ \A d \in hubIndex : d <= e => ~VerifyRaises(hub[d])}

\* Every other epoch listed on the Hub is audited at last, also when the auditor is
\* restarted in the middle of a pass.
ListedIsAudited == Unseen # {} ~> Unseen = {}

\* An epoch counts as clean only if its hash was compared with the chain: "A
\* network failure here is EXIT_NETWORK, not a verification failure", and the
\* log line says "hash==on-chain".
CleanMeansAnchored == \A e \in Epochs : found[e] # "unanchored"

=============================================================================
