----------------------------- MODULE HubIntake -----------------------------
(***************************************************************************)
(* How submissions come in: poll_hub() of validator/hf_poller.py with its  *)
(* state file queue/hf_state.json, and the part of run_epoch() that takes  *)
(* bundles out of queue/pending again.                                     *)
(*                                                                         *)
(* One poll downloads bundles one by one, and writes the stamps of all of  *)
(* them at its end.  The stall counts live in the process only.            *)
(***************************************************************************)
EXTENDS Integers, FiniteSets

CONSTANTS
  Bundles,      \* submissions, numbered in the order their HF PRs were created
  Sealed,       \* bundles shipped as one encrypted blob; the others as files
  WrongKey,     \* sealed to an outdated validator key
  Unfetchable,  \* bundles whose transfer always times out before its end
  Limit,        \* hf_limit: downloads per poll
  MaxStalls,    \* RALPH_HF_MAX_STALLS
  LastVersion,  \* bound on VALIDATOR_VERSION
  HubFaults,    \* what may go wrong on the way to the Hub and on disk
  MaxCrashes    \* bound on crashes

HubFaultKinds == {"list", "fetch", "timeout", "close", "tear"}

ASSUME HubAssumption ==
  /\ Bundles \subseteq Nat
  /\ IsFiniteSet(Bundles)
  /\ Sealed \subseteq Bundles
  /\ WrongKey \subseteq Sealed
  /\ Unfetchable \subseteq Bundles
  /\ Limit \in Nat \ {0}
  /\ MaxStalls \in Nat \ {0}
  /\ LastVersion \in Nat \ {0}
  /\ HubFaults \subseteq HubFaultKinds
  /\ MaxCrashes \in Nat

VARIABLES
  \* on disk
  stamps,     \* hf_state.json: the version each bundle was processed under, or 0
  pending,    \* what poll_queue finds of each bundle in queue/pending
  \* the world
  pr,         \* state of each bundle's HF PR
  version,    \* VALIDATOR_VERSION of the installed validator
  \* lost in a crash
  pc,         \* where the epoch is
  todo,       \* bundles this poll, or this scoring loop, has still to handle
  processed,  \* poll_hub's copy of the stamps
  stalls,     \* _STALL_COUNTS
  \* kept only to state properties
  crashes,    \* crashes so far
  judged,     \* how often each bundle was judged
  timeouts    \* how often a fetch of each bundle timed out

files == <<stamps, pending>>
memory == <<pc, todo, processed, stalls>>
counters == <<crashes, judged, timeouts>>
hubVars == <<files, pr, version, memory, counters>>

\* "none": no directory, or one without submission.json, which poll_queue
\* does not see; "part": some of the files, submission.json among them.
Materials == {"none", "part", "whole"}

HubTypeOK ==
  /\ stamps \in [Bundles -> 0 .. LastVersion]
  /\ pending \in [Bundles -> Materials]
  /\ pr \in [Bundles -> {"none", "open", "closed"}]
  /\ version \in 1 .. LastVersion
  /\ pc \in {"down", "idle", "fetch", "save", "queue", "judge"}
  /\ todo \subseteq Bundles
  /\ processed \in [Bundles -> 0 .. LastVersion]
  /\ stalls \in [Bundles -> 0 .. MaxStalls - 1]
  /\ crashes \in 0 .. MaxCrashes
  /\ judged \in [Bundles -> Nat]
  /\ timeouts \in [Bundles -> Nat]

Init ==
  /\ stamps = [b \in Bundles |-> 0]
  /\ pending = [b \in Bundles |-> "none"]
  /\ pr = [b \in Bundles |-> "none"]
  /\ version = 1
  /\ pc = "idle"
  /\ todo = {}
  /\ processed = [b \in Bundles |-> 0]
  /\ stalls = [b \in Bundles |-> 0]
  /\ crashes = 0
  /\ judged = [b \in Bundles |-> 0]
  /\ timeouts = [b \in Bundles |-> 0]

Oldest(b) == b \in todo /\ \A c \in todo : b <= c

----------------------------------------------------------------------------
\* poll_hub

Open == {b \in Bundles : pr[b] = "open"}

\* list_remote_submissions: a PR that cannot be listed is left out of this
\* poll, all of them when the discussions cannot be read.
Listings == IF "list" \in HubFaults THEN SUBSET Open ELSE {Open}

\* Mutant: any stamp counts.
DoneUnderAnyVersion(b, marks) == marks[b] # 0

\* Only a stamp of the current version counts as done.
Done(b, marks) == marks[b] = version

FirstFew(S) == {b \in S : Cardinality({c \in S : c < b}) < Limit}

StartPoll ==
  /\ pc = "idle"
  /\ \E listed \in Listings :
       todo' = FirstFew({b \in listed : ~Done(b, stamps)})
  /\ processed' = stamps
  /\ pc' = IF todo' = {} THEN "queue" ELSE "fetch"
  /\ UNCHANGED <<files, pr, version, stalls, counters>>

\* The rest of the loop body of poll_hub after download_one.
Fetched(b) ==
  /\ todo' = todo \ {b}
  /\ pc' = IF todo' = {} THEN "save" ELSE "fetch"

Stamp(b) == processed' = [processed EXCEPT ![b] = version]

\* download_one returns "ok".
Deliver(b) ==
  /\ pc = "fetch" /\ Oldest(b)
  /\ b \notin WrongKey \cup Unfetchable
  /\ pending' = [pending EXCEPT ![b] = "whole"]
  /\ Stamp(b)
  /\ stalls' = [stalls EXCEPT ![b] = 0]
  /\ Fetched(b)
  /\ UNCHANGED <<stamps, pr, version, counters>>

\* "ok" as well: of a plaintext bundle one file arrived, and another failed or
\* timed out.
DeliverPart(b) ==
  /\ pc = "fetch" /\ Oldest(b)
  /\ b \notin Sealed
  /\ b \in Unfetchable \/ "fetch" \in HubFaults \/ "timeout" \in HubFaults
  /\ \E found \in {"none", "part"} : pending' = [pending EXCEPT ![b] = found]
  /\ Stamp(b)
  /\ stalls' = [stalls EXCEPT ![b] = 0]
  /\ Fetched(b)
  /\ UNCHANGED <<stamps, pr, version, counters>>

\* "decrypt_failed": the key is wrong, or any other exception but a timeout
\* came between the download and the unpacking.  The PR is closed, best effort.
DecryptFails(b) ==
  /\ pc = "fetch" /\ Oldest(b)
  /\ b \in Sealed \ Unfetchable
  /\ b \in WrongKey \/ "fetch" \in HubFaults
  /\ pending' = [pending EXCEPT ![b] = "none"]
  /\ \/ pr' = [pr EXCEPT ![b] = "closed"]
     \/ "close" \in HubFaults /\ UNCHANGED pr
  /\ Stamp(b)
  /\ stalls' = [stalls EXCEPT ![b] = 0]
  /\ Fetched(b)
  /\ UNCHANGED <<stamps, version, counters>>

\* Mutant: a stalled bundle is never given up.
StallForever(b) ==
  /\ pc = "fetch" /\ Oldest(b)
  /\ b \in Unfetchable \/ "timeout" \in HubFaults
  /\ pending' = [pending EXCEPT ![b] = "none"]
  /\ timeouts' = [timeouts EXCEPT ![b] = @ + 1]
  /\ Fetched(b)
  /\ UNCHANGED <<stamps, pr, version, processed, stalls, crashes, judged>>

\* Mutant: the count is kept when the bundle is given up.
StallCountKept(b) ==
  /\ pc = "fetch" /\ Oldest(b)
  /\ b \in Unfetchable \/ "timeout" \in HubFaults
  /\ pending' = [pending EXCEPT ![b] = "none"]
  /\ timeouts' = [timeouts EXCEPT ![b] = @ + 1]
  /\ stalls' = [stalls EXCEPT ![b] = @ + 1]
  /\ IF stalls[b] + 1 >= MaxStalls THEN Stamp(b) ELSE UNCHANGED processed
  /\ Fetched(b)
  /\ UNCHANGED <<stamps, pr, version, crashes, judged>>

\* "stalled": given up, and stamped, at the MaxStalls-th time.
Stall(b) ==
  /\ pc = "fetch" /\ Oldest(b)
  /\ b \in Unfetchable \/ "timeout" \in HubFaults
  /\ pending' = [pending EXCEPT ![b] = "none"]
  /\ timeouts' = [timeouts EXCEPT ![b] = @ + 1]
  /\ IF stalls[b] + 1 >= MaxStalls
     THEN Stamp(b) /\ stalls' = [stalls EXCEPT ![b] = 0]
     ELSE UNCHANGED processed /\ stalls' = [stalls EXCEPT ![b] = @ + 1]
  /\ Fetched(b)
  /\ UNCHANGED <<stamps, pr, version, crashes, judged>>

\* "unavailable": nothing arrived; retried by a later poll.
Unavailable(b) ==
  /\ pc = "fetch" /\ Oldest(b)
  /\ "fetch" \in HubFaults /\ b \notin Unfetchable
  /\ pending' = [pending EXCEPT ![b] = "none"]
  /\ Fetched(b)
  /\ UNCHANGED <<stamps, pr, version, processed, stalls, counters>>

\* Mutant: the stamps are not written.
SaveStampsForgotten ==
  /\ pc = "save"
  /\ pc' = "queue"
  /\ UNCHANGED <<files, pr, version, todo, processed, stalls, counters>>

\* _save_state
SaveStamps ==
  /\ pc = "save"
  /\ stamps' = processed
  /\ pc' = "queue"
  /\ UNCHANGED <<pending, pr, version, todo, processed, stalls, counters>>

----------------------------------------------------------------------------
\* run_epoch, as far as queue/pending is concerned.

PollQueue ==
  /\ pc = "queue"
  /\ todo' = {b \in Bundles : pending[b] # "none"}
  /\ pc' = "judge"
  /\ UNCHANGED <<files, pr, version, processed, stalls, counters>>

\* Judged, archived, its PR merged or closed (best effort).
Judge(b) ==
  /\ pc = "judge" /\ Oldest(b)
  /\ pending' = [pending EXCEPT ![b] = "none"]
  /\ \/ pr' = [pr EXCEPT ![b] = "closed"]
     \/ "close" \in HubFaults /\ UNCHANGED pr
  /\ judged' = [judged EXCEPT ![b] = @ + 1]
  /\ todo' = todo \ {b}
  /\ UNCHANGED <<stamps, version, pc, processed, stalls, crashes, timeouts>>

\* Deferred by a claim or by the tenure guard.
Defer(b) ==
  /\ pc = "judge" /\ Oldest(b)
  /\ todo' = todo \ {b}
  /\ UNCHANGED <<files, pr, version, pc, processed, stalls, counters>>

EndEpoch ==
  /\ pc = "judge" /\ todo = {}
  /\ pc' = "idle"
  /\ UNCHANGED <<files, pr, version, todo, processed, stalls, counters>>

----------------------------------------------------------------------------
\* The process stops and starts.

Forget ==
  /\ pc' = "down"
  /\ todo' = {}
  /\ processed' = [b \in Bundles |-> 0]
  /\ stalls' = [b \in Bundles |-> 0]

Crash ==
  /\ pc # "down" /\ crashes < MaxCrashes
  /\ Forget
  /\ crashes' = crashes + 1
  /\ UNCHANGED <<files, pr, version, judged, timeouts>>

\* download_one removes what is there, then fills the directory again.
CrashFetching ==
  /\ pc = "fetch" /\ crashes < MaxCrashes
  /\ \E b \in todo, left \in Materials :
       Oldest(b) /\ pending' = [pending EXCEPT ![b] = left]
  /\ Forget
  /\ crashes' = crashes + 1
  /\ UNCHANGED <<stamps, pr, version, judged, timeouts>>

\* hf_state.json is rewritten in place; one cut short is read as empty.
CrashSaving ==
  /\ pc = "save" /\ crashes < MaxCrashes
  /\ "tear" \in HubFaults
  /\ stamps' = [b \in Bundles |-> 0]
  /\ Forget
  /\ crashes' = crashes + 1
  /\ UNCHANGED <<pending, pr, version, judged, timeouts>>

Restart ==
  /\ pc = "down"
  /\ pc' = "idle"
  /\ UNCHANGED <<files, pr, version, todo, processed, stalls, counters>>

\* The operator installs a validator of the next version between two epochs.
Upgrade ==
  /\ pc = "idle" /\ version < LastVersion
  /\ version' = version + 1
  /\ Forget
  /\ UNCHANGED <<files, pr, counters>>

----------------------------------------------------------------------------
\* The miners.

Submit ==
  /\ \E b \in Bundles :
       /\ pr[b] = "none"
       /\ \A c \in Bundles : c < b => pr[c] # "none"
       /\ pr' = [pr EXCEPT ![b] = "open"]
  /\ UNCHANGED <<files, version, memory, counters>>

\* A miner closes its own PR.
Withdraw ==
  /\ \E b \in Open : pr' = [pr EXCEPT ![b] = "closed"]
  /\ UNCHANGED <<files, version, memory, counters>>

----------------------------------------------------------------------------
Fetch(b) == Deliver(b) \/ DeliverPart(b) \/ DecryptFails(b) \/ Stall(b) \/ Unavailable(b)

ServiceStep ==
  \/ StartPoll \/ SaveStamps \/ PollQueue \/ EndEpoch \/ Restart
  \/ \E b \in Bundles : Fetch(b) \/ Judge(b) \/ Defer(b)

CrashStep == Crash \/ CrashFetching \/ CrashSaving

Next == ServiceStep \/ CrashStep \/ Upgrade \/ Submit \/ Withdraw

Spec == Init /\ [][Next]_hubVars

\* Every open PR that is not done is listed.
ListAll == StartPoll /\ todo' = FirstFew({b \in Open : ~Done(b, stamps)})

\* What is there arrives.
Transfer(b) == Deliver(b) \/ (b \in WrongKey /\ DecryptFails(b))

\* The service loops for ever and is restarted when it dies; the Hub answers
\* again and again, if not always.
HubFairSpec ==
  /\ Spec
  /\ WF_hubVars(ServiceStep)
  /\ SF_hubVars(ListAll)
  /\ \A b \in Bundles : SF_hubVars(Transfer(b))

----------------------------------------------------------------------------
\* Runs of the process so far: it starts, is upgraded and crashes.
Lives == version + crashes

\* A bundle is judged in all no more often than there were versions and crashes,
\* however often it is deferred and whatever a failed close leaves open: each
\* upgrade allows for one judgement more, and so does a crash, which may lose stamps
\* that poll_hub writes once, at its end.  One run of the process may hold two of
\* them, of the copy that the run before left unstamped and of the one fetched anew.
JudgementsBounded == \A b \in Bundles : judged[b] <= Lives

\* A bundle whose download stalls costs in all at most MaxStalls timeouts for each
\* run of the process so far, as _MAX_STALLS is there to ensure: counts that do not
\* survive a restart and stamps that do add up.
StallsBounded == \A b \in Bundles : timeouts[b] <= MaxStalls * Lives

\* Every submission is taken in or given up, none starves behind older ones that
\* cannot be fetched, although a poll only tries the oldest Limit.
SubmissionsSettle ==
  \A b \in Bundles : pr[b] = "open" ~> (pr[b] = "closed" \/ stamps[b] = version)

============================================================================
