---------------------------- MODULE CounterWeight ----------------------------
(***************************************************************************)
(* When the auditor sets weights of its own: maybe_counter_weight() of     *)
(* auditor/main.py in the loop of main(), with the timing and the          *)
(* submission of auditor/weights.py and the queries of auditor/chain.py.   *)
(*                                                                         *)
(* The chain evaluates the weights every Tempo + 1 blocks.  Time is kept   *)
(* as ages and as the distance to the next of these boundaries.            *)
(***************************************************************************)
EXTENDS Integers

CONSTANTS
  Tempo,      \* blocks between boundaries, less one
  Leads,      \* AUDITOR_SET_LEAD_BLOCKS, one of these
  RateLimits, \* the chain's minimum between two settings, one of these
  Interval,   \* AUDITOR_WEIGHT_INTERVAL_BLOCKS, for when the tempo is not known
  Lag,        \* blocks for which the chain may not tell yet that weights landed
  MaxPause,   \* blocks between two polls of the loop, at most
  MaxDelay,   \* blocks from the reading of a poll to its weights on chain, at most
  MaxAge,     \* bound on ages: what is older is not told apart
  MaxFaults   \* bound on failed queries and submissions

ASSUME CounterAssumption ==
  /\ Tempo \in Nat \ {0} /\ Interval \in Nat \ {0} /\ Lag \in Nat /\ MaxPause \in Nat \ {0}
  /\ MaxDelay \in 1 .. MaxPause
  /\ Leads \subseteq Nat /\ RateLimits \subseteq Nat
  /\ MaxAge \in Nat /\ MaxAge > 2 * Tempo + MaxPause + MaxDelay
  /\ \A l \in Leads : MaxAge > l + MaxPause
  /\ MaxFaults \in Nat

VARIABLES
  lead, rateLimit, \* of this auditor and this chain
  left,    \* blocks until the boundary
  age,     \* blocks since the auditor's weights last landed, Unknown when never
  older,   \* the same without the last landing, for as long as that may be told
  mark,    \* blocks since the one its own .audit_published names: the one its poll read
  pause,   \* blocks since the one the last poll read
  setting, \* the rule by which that poll is setting weights, "no" when it is over
  clean,   \* the clean epoch there is to replay: none, one that pays somebody
           \* still registered, or one that does not
  faults,
  \* kept only to state properties
  soon,    \* the boundary rule landed weights sooner after others than it may
  held     \* something has failed, or there was nothing to set, since the last

vars == <<lead, rateLimit, left, age, older, mark, pause, setting, clean, faults, soon, held>>

Unknown == -1

Older(a) == IF a = Unknown \/ a = MaxAge THEN a ELSE a + 1

Init ==
  /\ lead \in Leads /\ rateLimit \in RateLimits
  /\ left \in 0 .. Tempo
  /\ age = Unknown /\ older = Unknown /\ mark = Unknown /\ pause = 0
  /\ setting = "no" /\ clean \in {"none", "pays", "empty"}
  /\ faults = 0 /\ soon = FALSE /\ held = FALSE

Fault == faults < MaxFaults /\ faults' = faults + 1

\* The extrinsic is not waited for until it is final, so the chain's answer lags.
TrueAges == IF age \in 0 .. Lag THEN {age, older} ELSE {age}

TrueReadings == [since : TrueAges, tempoRead : {TRUE}, limit : {rateLimit}]

\* A reading is a true one, or costs a failure.
Read(r) == IF r \in TrueReadings THEN UNCHANGED faults ELSE Fault

-----------------------------------------------------------------------------
\* Timing

\* is_weight_set_due
DueByInterval(since) == since = Unknown \/ since >= Interval

\* Mutant: without the dead-man.
NeverSet(since) == since = Unknown

\* Never set, or the dead-man: for longer than two tempos.
Rescued(since) == since = Unknown \/ since > 2 * Tempo

\* Mutant: at one block, not from there on.
InWindowOnce(blocksLeft) == blocksLeft = lead

InWindow(blocksLeft) == blocksLeft <= lead

\* The double-set guard reaches back over the window before a boundary, and over
\* the rate limit as long as that is shorter than a tempo.
Floor(limit) == IF limit < Tempo /\ limit > lead + 1 THEN limit ELSE lead + 1

\* Mutant: no guard but the chain's.
Unguarded(limit) == FALSE

\* By the auditor's own marker, since the chain's answer may lag.
Guarded(limit) == mark # Unknown /\ mark < Floor(limit)

\* What the loop does when this is what it read.
Rule(since, tempoRead, limit) ==
  CASE ~tempoRead /\ DueByInterval(since) -> "interval"
    [] tempoRead /\ Rescued(since) -> "rescue"
    [] tempoRead /\ ~Rescued(since) /\ InWindow(left) /\ ~Guarded(limit) -> "boundary"
    [] OTHER -> "wait"

-----------------------------------------------------------------------------
\* One poll

\* Every query that fails is read as something: an age as never, the tempo as
\* not known, the limit as none.
Readings == [since : TrueAges \union {Unknown}, tempoRead : BOOLEAN, limit : {rateLimit, 0}]

RuleOf(r) == Rule(r.since, r.tempoRead, r.limit)

Poll ==
  /\ setting = "no" /\ pause' = 0
  /\ UNCHANGED <<lead, rateLimit, left, age, older, mark, clean, soon>>

Wait(r) ==
  /\ Poll /\ Read(r) /\ RuleOf(r) = "wait"
  /\ held' = (held \/ r \notin TrueReadings)
  /\ UNCHANGED setting

\* Weights are due by the block just read. The report is fetched, the metagraph
\* synchronised and the extrinsic sent while blocks pass.
Begin(r) ==
  /\ Poll /\ Read(r) /\ RuleOf(r) # "wait"
  /\ setting' = RuleOf(r)
  /\ UNCHANGED held

\* The block or the wallet cannot be read, or the audit pass before raises and
\* skips the rest of the turn.
PollFails ==
  /\ Poll /\ Fault /\ held' = TRUE
  /\ UNCHANGED setting

\* The poll is over.
Over ==
  /\ setting # "no" /\ setting' = "no"
  /\ UNCHANGED <<lead, rateLimit, left, pause, clean>>

\* The chain takes weights from a hotkey once per rate limit.
Allowed == age = Unknown \/ age >= rateLimit

\* submit_weights, or submit_burn_weights when there is no clean epoch: waits for
\* inclusion, in the block after the one read at the earliest.
Land ==
  /\ Allowed /\ pause > 0
  /\ age' = 0 /\ older' = age
  /\ soon' = (setting = "boundary" /\ age # Unknown /\ age + MaxDelay < lead + 2)

\* The marker names the block the poll read, not the one the weights landed in.
SetWeights ==
  /\ Over /\ clean # "empty" /\ Land
  /\ mark' = pause /\ held' = FALSE
  /\ UNCHANGED faults

\* Within the rate limit.
SetRefused ==
  /\ Over /\ clean # "empty" /\ ~Allowed
  /\ UNCHANGED <<age, older, mark, faults, soon, held>>

\* The report cannot be fetched again, the extrinsic fails, or the answer is
\* lost: the marker stays.
SetFails ==
  /\ Over /\ clean # "empty" /\ Fault
  /\ Land \/ UNCHANGED <<age, older, soon>>
  /\ held' = TRUE /\ UNCHANGED mark

\* A clean epoch whose weights come to nothing is not burnt: nothing is set.
NothingToSet ==
  /\ Over /\ clean = "empty"
  /\ held' = TRUE
  /\ UNCHANGED <<age, older, mark, faults, soon>>

-----------------------------------------------------------------------------

\* The loop polls every few seconds; an audit pass in between takes longer.
Block ==
  /\ pause < (IF setting = "no" THEN MaxPause ELSE MaxDelay) /\ pause' = pause + 1
  /\ left' = (IF left = 0 THEN Tempo ELSE left - 1)
  /\ age' = Older(age) /\ mark' = Older(mark)
  /\ older' = (IF age' \in 0 .. Lag THEN Older(older) ELSE Unknown)
  /\ UNCHANGED <<lead, rateLimit, setting, clean, faults, soon, held>>

\* An audit pass, in between two polls, found another epoch clean.
NewCleanEpoch ==
  /\ setting = "no"
  /\ clean' \in {"pays", "empty"} /\ clean' # clean
  /\ UNCHANGED <<lead, rateLimit, left, age, older, mark, pause, setting, faults, soon, held>>

Next ==
  \/ \E r \in Readings : Wait(r) \/ Begin(r)
  \/ PollFails \/ SetWeights \/ SetRefused \/ SetFails \/ NothingToSet
  \/ Block \/ NewCleanEpoch

Spec == Init /\ [][Next]_vars

-----------------------------------------------------------------------------

\* "vTrust can never decay": weights that landed once land again before they are
\* older than two tempos, or the rate limit, and the blocks between two polls and
\* those the next setting takes, unless a call or an audit pass failed or the
\* last clean epoch pays nobody.
Longest == IF rateLimit > 2 * Tempo THEN rateLimit - 1 ELSE 2 * Tempo

WeightsStayFresh == ~held => age <= Longest + MaxPause + MaxDelay

\* A set begun in the window lands before the boundary only if the window leaves
\* it the blocks it takes, so one more condition than the code's comments name:
\* lead covers the blocks between two polls and those of a setting, as the default
\* of two does at one block each.
RoomToServe ==
  /\ MaxPause + MaxDelay <= lead
  /\ 2 * lead <= Tempo /\ rateLimit + lead <= Tempo + 1

\* "Size it to the rate-limit window but cap it BELOW tempo so it can never suppress
\* the once-per-tempo boundary set": with that room, the block of each boundary finds
\* weights that landed after the boundary before, neither in its block nor in this.
BoundaryServed == (~held /\ left = 0 /\ age # Unknown /\ RoomToServe) => age <= Tempo

\* "A rate-limit floor prevents double-sets near the boundary": the guard goes by
\* the blocks that were read, so what it keeps apart on chain is the width of the
\* window less what the first set took; nothing lands sooner unless a call failed.
SetsApart == soon => faults > 0

=============================================================================
