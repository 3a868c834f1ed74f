---------------------------- MODULE CounterProofs ----------------------------
(***************************************************************************)
(* Proofs about the auditor's own weights: they are never left to age, no  *)
(* two settings land closer than the guard leaves them, and none misses a  *)
(* boundary there is room for, for every tempo, lead, rate limit, pause of *)
(* the loop and delay of a setting.                                        *)
(***************************************************************************)
EXTENDS CounterWeight, TLAPS

Ages == 0 .. MaxAge \union {Unknown}

\* Types, as far as the arithmetic below needs them.
CounterTypeOK ==
  /\ lead \in Leads /\ lead \in Nat /\ rateLimit \in Nat
  /\ age \in Ages /\ older \in Ages /\ mark \in Ages
  /\ pause \in 0 .. MaxPause /\ (setting # "no" => pause <= MaxDelay)
  /\ faults \in Nat
  /\ soon \in BOOLEAN /\ held \in BOOLEAN

\* A lagging answer tells more than the age, or never.
OlderIsOlder == age # Unknown /\ older # Unknown => age <= older

\* The marker names a block before the one the weights landed in.
MarkerBehind == mark # Unknown => age # Unknown /\ age <= mark

\* Until a call fails the marker is there, and tells the age of the weights but
\* for the blocks they took to land.
MarkerClose == faults = 0 /\ age # Unknown => mark # Unknown /\ mark <= age + MaxDelay

\* Until a call fails a setting by the boundary rule has waited for the guard.
BegunApart ==
  faults = 0 /\ setting = "boundary" /\ mark # Unknown => mark >= lead + 1 + pause

\* Since the last poll weights aged by no more than the pause, and by no more
\* than the pause before while the poll is setting others.
AgeBounded ==
  ~held => age <= Longest + pause + (IF setting = "no" THEN 0 ELSE MaxPause)

CounterInv ==
  /\ CounterTypeOK /\ OlderIsOlder
  /\ MarkerBehind /\ MarkerClose /\ BegunApart
  /\ SetsApart /\ AgeBounded

USE DEF Unknown

\* What a block more makes of an age.
LEMMA OlderAge ==
  ASSUME NEW a \in Ages
  PROVE  Older(a) \in Ages /\ Older(a) <= a + 1
BY CounterAssumption DEF Older, Ages

\* Two ages keep their order.
LEMMA OlderKeepsOrder ==
  ASSUME NEW a \in Ages, NEW b \in Ages, a # Unknown, b # Unknown, a <= b
  PROVE  Older(a) <= Older(b)
BY CounterAssumption DEF Older, Ages

\* Longest bounds two tempos and what the rate limit refuses.
LEMMA LongestBounds ==
  ASSUME CounterTypeOK
  PROVE  Longest \in Nat /\ 2 * Tempo <= Longest /\ rateLimit - 1 <= Longest
BY CounterAssumption DEF CounterTypeOK, Longest

\* A reading that costs no failure is a true one.
LEMMA ReadTrue ==
  ASSUME CounterTypeOK, NEW r, Read(r)
  PROVE  faults' \in Nat /\ (faults' = 0 => faults = 0 /\ r \in TrueReadings)
BY DEF Read, Fault, CounterTypeOK

\* What a true reading tells: the rate limit, the tempo, and the age or an older one.
LEMMA TrueTells ==
  ASSUME CounterTypeOK, OlderIsOlder, NEW r \in TrueReadings
  PROVE  /\ r.limit = rateLimit /\ r.tempoRead
         /\ r.since = age \/ (age # Unknown /\ r.since = older)
<1>1. r.limit = rateLimit /\ r.tempoRead /\ r.since \in TrueAges
  BY DEF TrueReadings
<1>2. age \in 0 .. Lag => age # Unknown
  BY CounterAssumption
<1> QED BY <1>1, <1>2 DEF TrueAges

\* Initially nothing has been set.
LEMMA CounterInit == Init => CounterInv
<1> SUFFICES ASSUME Init PROVE CounterInv
  OBVIOUS
<1>1. CounterTypeOK
  <2>1. soon \in BOOLEAN /\ held \in BOOLEAN /\ setting = "no"
    BY DEF Init
  <2>2. lead \in Leads /\ lead \in Nat /\ rateLimit \in Nat
    BY CounterAssumption DEF Init
  <2>3. /\ age \in Ages /\ older \in Ages /\ mark \in Ages
        /\ pause \in 0 .. MaxPause /\ faults \in Nat
    BY CounterAssumption DEF Init, Ages
  <2> QED BY <2>1, <2>2, <2>3 DEF CounterTypeOK
<1>2. AgeBounded
  BY <1>1, LongestBounds, CounterAssumption DEF Init, AgeBounded
<1> QED BY <1>1, <1>2 DEF Init, CounterInv, OlderIsOlder, MarkerBehind, MarkerClose,
           BegunApart, SetsApart

\* Weights that land restart the age, and leave the ghost well-typed.
LEMMA LandTypes ==
  ASSUME CounterTypeOK, Land
  PROVE  /\ age' = 0 /\ older' \in Ages /\ OlderIsOlder' /\ soon' \in BOOLEAN
         /\ pause \in 1 .. MaxPause
BY DEF Land, OlderIsOlder, CounterTypeOK, Ages

\* The guard keeps weights that land by the boundary rule from those before, as
\* long as the marker is true.
LEMMA LandApart ==
  ASSUME CounterInv, Land, faults = 0
  PROVE  soon' = FALSE
<1> USE CounterAssumption DEF CounterInv, CounterTypeOK, Ages
<1>1. soon' = (setting = "boundary" /\ age # Unknown /\ age + MaxDelay < lead + 2)
  BY DEF Land
<1>2. pause > 0
  BY DEF Land
<1>3. ASSUME setting = "boundary", age # Unknown PROVE age + MaxDelay >= lead + 2
  <2>1. mark # Unknown /\ mark <= age + MaxDelay
    BY <1>3 DEF MarkerClose
  <2>2. mark >= lead + 1 + pause
    BY <1>3, <2>1 DEF BegunApart
  <2> QED BY <1>2, <1>3, <2>1, <2>2
<1>4. ASSUME setting = "boundary", age # Unknown PROVE ~(age + MaxDelay < lead + 2)
  BY <1>3, <1>4
<1> QED BY <1>1, <1>4

\* Every step keeps the invariant: one step of the proof per action.
LEMMA CounterNext == CounterInv /\ [Next]_vars => CounterInv'
<1> SUFFICES ASSUME CounterInv, [Next]_vars PROVE CounterInv'
  OBVIOUS
<1> USE CounterAssumption DEF CounterInv
<1>0. Longest \in Nat /\ 2 * Tempo <= Longest /\ rateLimit - 1 <= Longest
  BY LongestBounds
<1>1. ASSUME NEW r \in Readings, Wait(r) PROVE CounterInv'
  <2>1. faults' \in Nat /\ (faults' = 0 => faults = 0 /\ r \in TrueReadings)
    BY <1>1, ReadTrue DEF Wait
  <2>2. /\ CounterTypeOK' /\ OlderIsOlder' /\ MarkerBehind' /\ MarkerClose' /\ BegunApart'
    BY <1>1, <2>1 DEF Wait, Poll, CounterTypeOK, OlderIsOlder, MarkerBehind, MarkerClose, BegunApart
  <2>3. SetsApart'
    BY <1>1, <2>1 DEF Wait, Poll, SetsApart, Read, Fault, CounterTypeOK
  <2>4. ASSUME ~held' PROVE age' <= Longest' + pause'
    <3>1. r \in TrueReadings /\ RuleOf(r) = "wait"
      BY <1>1, <2>4 DEF Wait
    <3>2. r.tempoRead /\ (r.since = age \/ (age # Unknown /\ r.since = older))
      BY <3>1, TrueTells
    <3>3. ~Rescued(r.since)
      BY <3>1, <3>2 DEF RuleOf, Rule
    <3>5. age <= 2 * Tempo
      BY <3>2, <3>3 DEF Rescued, OlderIsOlder, CounterTypeOK, Ages
    <3>4. Longest' = Longest /\ age' = age /\ pause' = 0
      BY <1>1 DEF Wait, Poll, Longest
    <3> QED BY <1>0, <3>5, <3>4 DEF CounterTypeOK, Ages
  <2>5. setting' = "no"
    BY <1>1 DEF Wait, Poll
  <2>6. Longest' \in Nat /\ pause' \in Nat
    BY <1>0, <1>1 DEF Wait, Poll, Longest
  <2> QED BY <2>2, <2>3, <2>4, <2>5, <2>6 DEF AgeBounded
<1>2. ASSUME NEW r \in Readings, Begin(r) PROVE CounterInv'
  <2>1. faults' \in Nat /\ (faults' = 0 => faults = 0 /\ r \in TrueReadings)
    BY <1>2, ReadTrue DEF Begin
  <2>2. /\ setting = "no" /\ setting' = RuleOf(r) /\ RuleOf(r) # "wait" /\ pause' = 0
        /\ UNCHANGED <<lead, rateLimit, age, older, mark, soon, held>>
    BY <1>2 DEF Begin, Poll
  <2>3. CounterTypeOK' /\ OlderIsOlder' /\ MarkerBehind' /\ MarkerClose'
    BY <2>1, <2>2 DEF CounterTypeOK, OlderIsOlder, MarkerBehind, MarkerClose
  <2>4. SetsApart'
    BY <2>1, <2>2 DEF SetsApart, CounterTypeOK
  <2>5. BegunApart'
    <3> SUFFICES ASSUME faults' = 0, RuleOf(r) = "boundary", mark # Unknown
                 PROVE  mark >= lead + 1
      BY <2>2 DEF BegunApart, CounterTypeOK
    <3>1. ~Guarded(r.limit) /\ r.limit = rateLimit
      BY <2>1, TrueTells DEF RuleOf, Rule
    <3>2. Floor(rateLimit) \in Nat /\ Floor(rateLimit) >= lead + 1
      BY DEF Floor, CounterTypeOK
    <3> QED BY <3>1, <3>2 DEF Guarded, CounterTypeOK, Ages
  <2>6. AgeBounded'
    <3>1. setting' # "no"
      BY <2>2 DEF RuleOf, Rule
    <3>2. Longest' = Longest
      BY <2>2 DEF Longest
    <3>3. ~held => age <= Longest + MaxPause
      BY <1>0, <2>2 DEF AgeBounded, CounterTypeOK, Ages
    <3> QED BY <1>0, <2>2, <3>1, <3>2, <3>3 DEF AgeBounded, CounterTypeOK
  <2> QED BY <2>3, <2>4, <2>5, <2>6
<1>3. CASE SetWeights
  <2>1. age' = 0 /\ older' \in Ages /\ OlderIsOlder' /\ soon' \in BOOLEAN /\ pause \in 1 .. MaxPause
    BY <1>3, LandTypes DEF SetWeights
  <2>2. /\ lead' = lead /\ rateLimit' = rateLimit /\ pause' = pause /\ setting # "no"
        /\ setting' = "no" /\ mark' = pause /\ held' = FALSE /\ faults' = faults
    BY <1>3 DEF SetWeights, Over
  <2>3. CounterTypeOK'
    <3>1. age' \in Ages /\ mark' \in Ages
      BY <2>1, <2>2 DEF Ages
    <3> QED BY <2>1, <2>2, <3>1 DEF CounterTypeOK
  <2>4. MarkerBehind' /\ MarkerClose' /\ BegunApart'
    BY <2>1, <2>2 DEF MarkerBehind, MarkerClose, BegunApart, CounterTypeOK
  <2>5. SetsApart'
    BY <1>3, <2>1, <2>2, LandApart DEF SetWeights, SetsApart, CounterTypeOK
  <2>6. AgeBounded'
    BY <1>0, <2>1, <2>2 DEF AgeBounded, Longest
  <2> QED BY <2>1, <2>3, <2>4, <2>5, <2>6
<1>4. CASE SetRefused
  <2>1. /\ setting' = "no" /\ UNCHANGED <<lead, rateLimit, age, older, mark, pause, faults, soon, held>>
    BY <1>4 DEF SetRefused, Over
  <2>2. /\ CounterTypeOK' /\ OlderIsOlder' /\ MarkerBehind' /\ MarkerClose' /\ BegunApart'
        /\ SetsApart'
    BY <2>1 DEF CounterTypeOK, OlderIsOlder, MarkerBehind, MarkerClose, BegunApart, SetsApart
  <2>3. age <= rateLimit - 1
    BY <1>4 DEF SetRefused, Allowed, CounterTypeOK, Ages
  <2>4. Longest' = Longest
    BY <2>1 DEF Longest
  <2> QED BY <1>0, <2>1, <2>2, <2>3, <2>4 DEF AgeBounded, CounterTypeOK, Ages
<1>5. CASE SetFails
  <2>1. faults' \in Nat /\ faults' # 0 /\ held' /\ mark' = mark /\ setting' = "no"
    BY <1>5 DEF SetFails, Over, Fault, CounterTypeOK
  <2>2. age' \in Ages /\ older' \in Ages /\ OlderIsOlder' /\ soon' \in BOOLEAN
    BY <1>5, LandTypes DEF SetFails, CounterTypeOK, OlderIsOlder, Ages
  <2>3. CounterTypeOK'
    BY <1>5, <2>1, <2>2 DEF SetFails, Over, CounterTypeOK
  <2>4. MarkerBehind'
    BY <1>5, <2>1, LandTypes DEF SetFails, MarkerBehind, CounterTypeOK, Ages
  <2> QED BY <2>1, <2>2, <2>3, <2>4 DEF MarkerClose, BegunApart, SetsApart, AgeBounded, CounterTypeOK
<1>6. CASE NothingToSet
  BY <1>6 DEF NothingToSet, Over, CounterTypeOK, OlderIsOlder, MarkerBehind, MarkerClose,
     BegunApart, SetsApart, AgeBounded
<1>7. CASE PollFails
  BY <1>7 DEF PollFails, Poll, Fault, CounterTypeOK, OlderIsOlder, MarkerBehind, MarkerClose,
     BegunApart, SetsApart, AgeBounded
<1>8. CASE Block
  <2>1. /\ Older(age) \in Ages /\ Older(age) <= age + 1
        /\ Older(mark) \in Ages /\ Older(older) \in Ages
    BY OlderAge DEF CounterTypeOK
  <2>2. /\ pause' = pause + 1 /\ age' = Older(age) /\ mark' = Older(mark)
        /\ UNCHANGED <<lead, rateLimit, setting, faults, soon, held>>
    BY <1>8 DEF Block
  <2>3. pause' \in 0 .. MaxPause /\ (setting # "no" => pause' <= MaxDelay)
    BY <1>8 DEF Block, CounterTypeOK
  <2>4. older' \in Ages
    BY <1>8, <2>1 DEF Block, Ages
  <2>5. CounterTypeOK'
    BY <2>1, <2>2, <2>3, <2>4 DEF CounterTypeOK
  <2>6. OlderIsOlder'
    <3> SUFFICES ASSUME age' # Unknown, older' # Unknown PROVE age' <= older'
      BY DEF OlderIsOlder
    <3>1. age' = Older(age) /\ older' = Older(older)
      BY <1>8 DEF Block
    <3>2. age # Unknown /\ older # Unknown
      BY <3>1 DEF Older
    <3>3. age <= older
      BY <3>2 DEF OlderIsOlder
    <3> QED BY <3>1, <3>2, <3>3, OlderKeepsOrder DEF CounterTypeOK
  <2>7. MarkerBehind' /\ MarkerClose'
    BY <2>2 DEF Older, MarkerBehind, MarkerClose, CounterTypeOK, Ages
  <2>8. BegunApart'
    <3> SUFFICES ASSUME faults = 0, setting = "boundary", mark' # Unknown
                 PROVE  mark' >= lead + 1 + pause'
      BY <2>2 DEF BegunApart
    <3>1. mark # Unknown /\ mark >= lead + 1 + pause
      BY <2>2 DEF BegunApart, Older
    <3>2. MaxAge > lead + MaxPause
      BY DEF CounterTypeOK
    <3> QED BY <2>2, <2>3, <3>1, <3>2 DEF Older, CounterTypeOK, Ages
  <2>9. SetsApart' /\ Longest' = Longest
    BY <2>2 DEF SetsApart, Longest
  <2> QED BY <1>0, <2>1, <2>2, <2>5, <2>6, <2>7, <2>8, <2>9 DEF AgeBounded, CounterTypeOK, Ages
<1>9. CASE NewCleanEpoch
  BY <1>9 DEF NewCleanEpoch, CounterTypeOK, OlderIsOlder, MarkerBehind, MarkerClose, BegunApart,
     SetsApart, AgeBounded, Longest
<1>10. CASE UNCHANGED vars
  BY <1>10 DEF vars, CounterTypeOK, OlderIsOlder, MarkerBehind, MarkerClose, BegunApart,
     SetsApart, AgeBounded, Longest
<1> QED BY <1>1, <1>2, <1>3, <1>4, <1>5, <1>6, <1>7, <1>8, <1>9, <1>10 DEF Next

\* The invariant holds in every reachable state.
LEMMA CounterInvariant == Spec => []CounterInv
BY CounterInit, CounterNext, PTL DEF Spec

\* The double-set guard of maybe_counter_weight, which goes by the block its poll
\* read: no two settings land closer than the window less the first one's delay,
\* except after a failure.
THEOREM SetsKeepApart == Spec => []SetsApart
<1>1. CounterInv => SetsApart
  BY DEF CounterInv
<1> QED BY <1>1, CounterInvariant, PTL

\* The dead-man of is_weight_set_due_tempo keeps the auditor's weights fresh:
\* weights that landed once never get older than Longest, a pause and a delay.
THEOREM AuditorWeightsStayFresh == Spec => []WeightsStayFresh
<1>1. CounterInv => WeightsStayFresh
  <2> SUFFICES ASSUME CounterInv, ~held PROVE age <= Longest + MaxPause + MaxDelay
    BY DEF WeightsStayFresh
  <2>1. Longest \in Nat
    BY LongestBounds DEF CounterInv
  <2> QED BY <2>1, CounterAssumption DEF CounterInv, CounterTypeOK, AgeBounded, Ages
<1> QED BY <1>1, CounterInvariant, PTL

----------------------------------------------------------------------------
\* The boundary.

\* What the guard and the rate limit leave unset at a poll is no older.
Spared == IF rateLimit > lead + 1 THEN rateLimit - 1 ELSE lead

\* A poll in this window is over: the last one, or one before it.
PolledInWindow ==
  \/ setting = "no" /\ left + pause <= lead
  \/ left + pause + MaxPause <= lead

\* After a poll in the window what is left unset has aged by the window at most.
WindowInv ==
  /\ left \in 0 .. Tempo
  /\ ~held /\ age # Unknown /\ RoomToServe /\ PolledInWindow => age + left <= Spared + lead

\* A poll that leaves the weights as they are in the window leaves none older than
\* Spared.
LEMMA WaitSpares ==
  ASSUME CounterInv, NEW r \in Readings, Wait(r), ~held', left <= lead
  PROVE  age <= Spared
<1> USE CounterAssumption DEF CounterInv, CounterTypeOK, Ages
<1>1. r \in TrueReadings /\ RuleOf(r) = "wait"
  BY DEF Wait
<1>2. r.tempoRead /\ r.limit = rateLimit
  BY <1>1, TrueTells
<1>3. Guarded(rateLimit)
  BY <1>1, <1>2 DEF RuleOf, Rule, InWindow
<1>4. Floor(rateLimit) \in Nat /\ Floor(rateLimit) <= Spared + 1
  BY DEF Floor, Spared
<1> QED BY <1>3, <1>4 DEF Guarded, MarkerBehind, Spared

\* Every step keeps it.
LEMMA WindowNext == CounterInv /\ WindowInv /\ [Next]_vars => WindowInv'
<1> SUFFICES ASSUME CounterInv, WindowInv, [Next]_vars PROVE WindowInv'
  OBVIOUS
<1> USE CounterAssumption DEF CounterInv, CounterTypeOK
<1>0. Spared \in Nat /\ rateLimit - 1 <= Spared
  BY DEF Spared
<1>1. ASSUME NEW r \in Readings, Wait(r) PROVE WindowInv'
  <2>1. setting' = "no" /\ pause' = 0 /\ UNCHANGED <<left, lead, rateLimit, age>>
    BY <1>1 DEF Wait, Poll
  <2>2. ASSUME ~held', age # Unknown, left <= lead PROVE age + left <= Spared + lead
    BY <1>0, <1>1, <2>2, WaitSpares DEF WindowInv, Ages
  <2>3. PolledInWindow' => left <= lead
    BY <2>1 DEF PolledInWindow, WindowInv
  <2> QED BY <2>1, <2>2, <2>3 DEF WindowInv, Spared
<1>2. ASSUME NEW r \in Readings, Begin(r) PROVE WindowInv'
  <2>1. /\ setting = "no" /\ setting' # "no" /\ pause' = 0
        /\ UNCHANGED <<left, lead, rateLimit, age, held>>
    BY <1>2 DEF Begin, Poll, RuleOf, Rule
  <2>2. PolledInWindow' => PolledInWindow
    BY <2>1 DEF PolledInWindow, WindowInv
  <2> QED BY <2>1, <2>2 DEF WindowInv, Spared, RoomToServe
<1>3. CASE SetWeights
  <2>1. age' = 0 /\ pause' = pause /\ setting' = "no" /\ UNCHANGED <<left, lead, rateLimit>>
    BY <1>3 DEF SetWeights, Over, Land
  <2>2. PolledInWindow' => left <= lead
    BY <2>1 DEF PolledInWindow, WindowInv
  <2> QED BY <1>0, <2>1, <2>2 DEF WindowInv, Spared
<1>4. CASE SetRefused
  <2>1. pause' = pause /\ setting' = "no" /\ UNCHANGED <<left, lead, rateLimit, age>>
    BY <1>4 DEF SetRefused, Over
  <2>2. age <= rateLimit - 1
    BY <1>4 DEF SetRefused, Allowed, Ages
  <2>3. PolledInWindow' => left <= lead
    BY <2>1 DEF PolledInWindow, WindowInv
  <2> QED BY <1>0, <2>1, <2>2, <2>3 DEF WindowInv, Spared, Ages
<1>5. CASE SetFails \/ NothingToSet
  BY <1>5 DEF SetFails, NothingToSet, Over, WindowInv
<1>6. CASE PollFails
  BY <1>6 DEF PollFails, Poll, WindowInv
<1>7. CASE Block
  <2>1. /\ pause' = pause + 1 /\ age' = Older(age)
        /\ UNCHANGED <<lead, rateLimit, setting, held>>
        /\ left' = IF left = 0 THEN Tempo ELSE left - 1
    BY <1>7 DEF Block
  <2>2. Older(age) <= age + 1 /\ Older(age) \in Ages /\ (Older(age) # Unknown => age # Unknown)
    BY OlderAge DEF Older
  <2>3. left' \in 0 .. Tempo
    BY <2>1 DEF WindowInv
  <2>4. ASSUME RoomToServe, PolledInWindow' PROVE left # 0 /\ PolledInWindow
    BY <2>1, <2>4 DEF PolledInWindow, RoomToServe, WindowInv
  <2>5. ASSUME ~held, age' # Unknown, RoomToServe, PolledInWindow'
        PROVE  age' + left' <= Spared + lead
    <3>1. age + left <= Spared + lead
      BY <2>1, <2>2, <2>4, <2>5 DEF WindowInv
    <3>2. left' = left - 1
      BY <2>1, <2>4, <2>5
    <3> QED BY <1>0, <2>1, <2>2, <3>1, <3>2 DEF WindowInv, Ages
  <2> QED BY <2>1, <2>3, <2>5 DEF WindowInv, Spared, RoomToServe
<1>8. CASE NewCleanEpoch
  BY <1>8 DEF NewCleanEpoch, WindowInv, Spared, RoomToServe, PolledInWindow
<1>9. CASE UNCHANGED vars
  BY <1>9 DEF vars, WindowInv, Spared, RoomToServe, PolledInWindow
<1> QED BY <1>1, <1>2, <1>3, <1>4, <1>5, <1>6, <1>7, <1>8, <1>9 DEF Next

\* The boundary rule, guarded against double sets by the block it read and refused
\* by the chain, still lands weights between any two boundaries, for every tempo,
\* lead, rate limit, pause and delay that leave room.
THEOREM NoBoundaryMissed == Spec => []BoundaryServed
<1>1. Init => WindowInv
  BY CounterAssumption DEF Init, WindowInv
<1>2. CounterInv /\ WindowInv => BoundaryServed
  <2> SUFFICES ASSUME CounterInv, WindowInv, ~held, left = 0, age # Unknown, RoomToServe
               PROVE  age <= Tempo
    BY DEF BoundaryServed
  <2>1. PolledInWindow
    BY CounterAssumption DEF CounterInv, CounterTypeOK, PolledInWindow, RoomToServe
  <2>2. age <= Spared + lead
    BY <2>1, CounterAssumption DEF WindowInv, CounterInv, CounterTypeOK, Ages, Spared
  <2> QED BY <2>2, CounterAssumption DEF CounterInv, CounterTypeOK, Spared, RoomToServe, Ages
<1> QED BY <1>1, <1>2, WindowNext, CounterInvariant, PTL DEF Spec

=============================================================================
