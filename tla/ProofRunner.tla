---------------------------- MODULE ProofRunner ----------------------------
(***************************************************************************)
(* What proof/runner.py makes of a submission on the miner's machine: the  *)
(* bundle a validator downloads.  A file is modelled by its contents, and  *)
(* the hash of a file by the contents themselves; "" is a missing file, or *)
(* a manifest entry that is null.                                          *)
(*                                                                         *)
(* The trainer, recipe/train.py, is outside this repository: a run is what *)
(* it leaves behind (work.claims, work.model, work.rerun).                 *)
(***************************************************************************)
EXTENDS Attestation

Artifacts == {"patch", "checkpoint", "log", "calibration", "final", "attestation"}
Required == {"checkpoint", "log", "calibration", "final"}
NoFile == ""

\* A miner's work: its hotkey and nonce, the patch and what it touches, the
\* machine it ran on, what training recorded and the model it left.
BundleHash(files) ==
  <<files["patch"], files["checkpoint"], files["log"], files["calibration"], files["final"]>>

ScanClean(patch) == patch.touches = {}

\* run_proof_test raises, and leaves no bundle, unless the patch is clean and
\* applies to the canonical recipe.
Runs(work) == ScanClean(work.patch) /\ work.patch.applies

\* The contents of the files a run leaves; attestation.json is written last.
FilesOf(work) ==
  [a \in Artifacts |-> IF a = "patch" THEN work.patch.text ELSE work.name]

Signature(hotkey, bundleHash, nonce, hypothesis) == <<hotkey, bundleHash, nonce, hypothesis>>

\* measurement: hash over the proof sources and the recipe before the patch.
RunProofTest(work, measurement) ==
  LET files == FilesOf(work)
      hash == BundleHash(files)
  IN  [name |-> work.name, hotkey |-> work.hotkey, nonce |-> work.nonce,
       hypothesis |-> work.hypothesis, bundleHash |-> hash,
       signature |-> Signature(work.hotkey, hash, work.nonce, work.hypothesis),
       files |-> files, manifest |-> files, manifestHash |-> hash,
       committed |-> <<work.hotkey, work.patch.text, work.nonce>>,   \* before the run
       touches |-> work.patch.touches, applies |-> work.patch.applies,
       attestation |-> GenerateAttestation(work.host, measurement, work.nonce,
                         EpochRecords(work.claims.log.rows, work.nonce), hash),
       drift |-> FALSE,
       claims |-> work.claims, model |-> work.model, rerun |-> work.rerun]

=============================================================================
