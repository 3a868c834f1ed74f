------------------------------ MODULE MCJudge ------------------------------
(***************************************************************************)
(* A small instance of Judge for TLC: bundles the proof runner makes, and  *)
(* bundles that differ from such a one in one place each.                  *)
(***************************************************************************)
EXTENDS JudgeProperties, TLC

MCGpus == {"h100", "b200"}
PeakOf == [g \in MCGpus |-> IF g = "h100" THEN 989 ELSE 2250]
MCPeak == PeakOf
MCSize == [s \in 1 .. LastShard |-> IF s = 1 THEN 7 ELSE 9 + s]

Enclave == [nvcc |-> TRUE, tdx |-> TRUE, die |-> "GH100", passes |-> TRUE,
            gpuFails |-> {}, tsmFails |-> {}, cli |-> FALSE]

Log == [rows |-> 12, first |-> "compiled", held |-> 12, broken |-> 0, last |-> 1,
        loss |-> "falls", clock |-> "runs"]
Declared == [gpu |-> "h100", n |-> 2, tokens |-> 1, wall |-> 1, batch |-> 32768,
             steps |-> 100, patchSteps |-> 100, data |-> "canonical", log |-> Log]
Work == [name |-> "plain", hotkey |-> "m", nonce |-> "n", hypothesis |-> "h",
         patch |-> [text |-> "p", touches |-> {}, applies |-> TRUE],
         host |-> Enclave, claims |-> Declared,
         model |-> [arch |-> "canonical", sight |-> "past"],
         rerun |-> [declared |-> {0, 50, 100}, off |-> {}]]

PatchedWork == [Work EXCEPT !.name = "patched", !.model.arch = "patched"]
ShortWork == [Work EXCEPT !.name = "short", !.claims.log.rows = 1, !.claims.log.last = 0,
                          !.claims.wall = 0, !.claims.batch = 0, !.rerun.declared = {0}]

OnProtocol ==
  {Work, PatchedWork, ShortWork,
   [Work EXCEPT !.name = "no_tdx", !.host.tdx = FALSE],
   [Work EXCEPT !.name = "mock", !.host.nvcc = FALSE, !.host.tdx = FALSE],
   [Work EXCEPT !.name = "b200", !.host.die = "GB20X", !.claims.gpu = "b200"]}

\* Written all the same when evidence was missing: of a GPU, of the enclave, and
\* one with a quote over too little.
Unproven ==
  {[Work EXCEPT !.name = "no_token", !.host.gpuFails = {1}],
   [Work EXCEPT !.name = "bad_gpu", !.host.passes = FALSE],
   [Work EXCEPT !.name = "no_quote", !.host.tsmFails = {1, 2, 3}],
   [Work EXCEPT !.name = "cut_quote", !.host.tsmFails = {2}, !.host.cli = TRUE]}

OffProtocol ==
  {[Work EXCEPT !.name = "unfit", !.model.arch = "unfit"],
   [Work EXCEPT !.name = "corrupt", !.model.arch = "corrupt"],
   [Work EXCEPT !.name = "future", !.model.sight = "future"],
   [Work EXCEPT !.name = "parrot", !.model.sight = "parrot"],
   [Work EXCEPT !.name = "elsewhere", !.rerun.off = {50, 100}],
   [Work EXCEPT !.name = "late", !.claims.wall = 3, !.claims.log.last = 3],
   [Work EXCEPT !.name = "over", !.claims.wall = 4, !.claims.log.last = 4],
   [Work EXCEPT !.name = "big", !.claims.n = 5, !.claims.wall = 2, !.claims.log.last = 2],
   [Work EXCEPT !.name = "fast", !.claims.batch = 4096],
   [Work EXCEPT !.name = "faster", !.claims.tokens = 9, !.claims.batch = 65536],
   [Work EXCEPT !.name = "two_clocks", !.claims.log.last = 2],
   [Work EXCEPT !.name = "instant", !.claims.log.first = "instant"],
   [Work EXCEPT !.name = "two_rates", !.claims.log.held = 2, !.claims.log.broken = 10],
   [Work EXCEPT !.name = "nan", !.claims.log.loss = "nan"],
   [Work EXCEPT !.name = "jumps", !.claims.log.clock = "jumps"],
   [Work EXCEPT !.name = "decoy", !.claims.patchSteps = 7],
   [Work EXCEPT !.name = "own_data", !.claims.data = "elsewhere"]}

Bundles(works) == {RunProofTest(work, Measurement) : work \in works}

\* Bundles put together by hand.
Swapped(b) == [b EXCEPT !.name = "swapped", !.files["checkpoint"] = "other"]
Consistent(b) ==
  LET files == [b.files EXCEPT !["checkpoint"] = "other"]
  IN  [b EXCEPT !.name = "consistent", !.files = files, !.manifest = files,
                !.manifestHash = BundleHash(files), !.bundleHash = BundleHash(files),
                !.signature = Signature(b.hotkey, BundleHash(files), b.nonce, b.hypothesis)]
Relisted(b) ==
  LET files == [b.files EXCEPT !["checkpoint"] = "other"]
  IN  [b EXCEPT !.name = "relisted", !.files = files, !.manifest = files]

ByHand ==
  UNION {{Swapped(b), Consistent(b), Relisted(b),
          [b EXCEPT !.name = "unsigned", !.signature = Signature("m", b.bundleHash, "n", "other")],
          [b EXCEPT !.name = "no_final", !.files["final"] = NoFile, !.manifest["final"] = NoFile],
          [b EXCEPT !.name = "unattested", !.attestation = NoAttestation],
          [b EXCEPT !.name = "no_epochs", !.attestation.epochs = <<>>],
          [b EXCEPT !.name = "old_image", !.attestation.measurement = "old", !.drift = TRUE],
          [b EXCEPT !.name = "forged", !.attestation.epochs[1].token.genuine = FALSE],
          [b EXCEPT !.name = "uncommitted", !.committed = <<"m", "p", "other">>],
          [b EXCEPT !.name = "restricted", !.touches = {"restricted"}],
          [b EXCEPT !.name = "stale", !.applies = FALSE]} : b \in Bundles({Work})}
  \union {[b EXCEPT !.name = "stale_patched", !.applies = FALSE] : b \in Bundles({PatchedWork})}

All == Bundles(OnProtocol \union Unproven \union OffProtocol) \union ByHand
ByName == [n \in {b.name : b \in All} |-> CHOOSE b \in All : b.name = n]

\* TLC keeps the value of a definition it meets by name, not that of a constant's.
MCSubmissions == ByName

WorkByName == [plain |-> Work, patched |-> PatchedWork, short |-> ShortWork]
MCHonestWork == WorkByName

Production ==
  [handshake |-> "chain", mock |-> FALSE, stub |-> FALSE, level |-> "tdx_nvcc",
   archGate |-> TRUE, dies |-> {"GH100"}, commitsPinned |-> FALSE, off |-> {},
   rederive |-> FALSE, canonData |-> FALSE, sandbox |-> FALSE, pinned |-> TRUE,
   hosb |-> "off", ack |-> TRUE]

ByKind ==
  [production |-> Production,
   shadow |-> [Production EXCEPT !.sandbox = TRUE, !.hosb = "shadow", !.commitsPinned = TRUE],
   enforce |-> [Production EXCEPT !.rederive = TRUE, !.canonData = TRUE, !.hosb = "enforce"],
   lab |-> [Production EXCEPT !.handshake = "local", !.mock = TRUE, !.level = "nvcc_only",
                              !.off = {"log", "size", "timing"}],
   bare |-> [Production EXCEPT !.handshake = "skip", !.stub = TRUE, !.archGate = FALSE,
                               !.ack = FALSE, !.pinned = FALSE, !.sandbox = TRUE]]
MCBoxes == ByKind

=============================================================================
