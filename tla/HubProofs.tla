----------------------------- MODULE HubProofs -----------------------------
(***************************************************************************)
(* Proofs about HubIntake: types, and the two bounds that count what one   *)
(* bundle may cost over the lives of the process.                          *)
(***************************************************************************)
EXTENDS HubIntake, TLAPS

\* The marks that say what is done: poll_hub's copy while it works, the file
\* before and after.
Marks == IF pc \in {"fetch", "save"} THEN processed ELSE stamps

DoneNow(b) == Done(b, Marks)

\* What a poll still has to fetch is not done, what the scoring loop still has
\* to judge is there.
TodoInv ==
  /\ pc = "fetch" => \A b \in todo : ~DoneNow(b)
  /\ pc = "judge" => \A b \in todo : pending[b] # "none"

\* A bundle in the queue is a judgement to come; one that is not done may still
\* be delivered in this life.
JudgeBudget ==
  \A b \in Bundles :
    judged[b] + (IF pending[b] = "none" THEN 0 ELSE 1) <= Lives - (IF DoneNow(b) THEN 0 ELSE 1)

\* Timeouts that n lives may cost.
Allowance(n) == MaxStalls * n

\* Earlier lives cost their full allowance at most, this one what is counted.
StallBudget ==
  \A b \in Bundles :
    timeouts[b] <= Allowance(Lives - 1) + (IF DoneNow(b) THEN MaxStalls ELSE stalls[b])

IntakeInv == HubTypeOK /\ TodoInv /\ JudgeBudget /\ StallBudget

\* Every further life adds MaxStalls to the allowance.
LEMMA AllowanceGrows ==
  ASSUME NEW n \in Nat
  PROVE  Allowance(n) \in Nat /\ Allowance(n + 1) = Allowance(n) + MaxStalls
BY HubAssumption DEF Allowance

\* The process has lived at least once.
LEMMA LivesType ==
  ASSUME HubTypeOK
  PROVE  Lives \in Nat /\ Lives > 0 /\ Lives - 1 \in Nat
BY HubAssumption DEF HubTypeOK, Lives

\* poll_hub starts in a state that satisfies the invariant.
LEMMA IntakeInit == Init => IntakeInv
<1> SUFFICES ASSUME Init PROVE IntakeInv
  OBVIOUS
<1>1. HubTypeOK
  BY HubAssumption DEF Init, HubTypeOK, Materials
<1>2. TodoInv
  BY DEF Init, TodoInv
<1>3. Lives = 1 /\ \A b \in Bundles : ~DoneNow(b)
  BY HubAssumption DEF Init, Lives, DoneNow, Done, Marks
<1>4. JudgeBudget
  BY <1>3 DEF Init, JudgeBudget
<1>5. StallBudget
  BY <1>1, <1>3, AllowanceGrows, LivesType DEF Init, StallBudget
<1> QED BY <1>1, <1>2, <1>4, <1>5 DEF IntakeInv

\* Every step keeps the types.
LEMMA HubTypeNext == HubTypeOK /\ [Next]_hubVars => HubTypeOK'
<1> SUFFICES ASSUME HubTypeOK, [Next]_hubVars PROVE HubTypeOK'
  OBVIOUS
<1> USE HubAssumption DEF HubTypeOK, Materials
<1>1. CASE StartPoll
  BY <1>1 DEF StartPoll, FirstFew, Listings, Open, files, counters
<1>2. CASE SaveStamps
  BY <1>2 DEF SaveStamps, counters
<1>3. CASE PollQueue
  BY <1>3 DEF PollQueue, files, counters
<1>4. CASE EndEpoch
  BY <1>4 DEF EndEpoch, files, counters
<1>5. CASE Restart
  BY <1>5 DEF Restart, files, counters
<1>6. ASSUME NEW b \in Bundles, Deliver(b) PROVE HubTypeOK'
  BY <1>6 DEF Deliver, Stamp, Fetched, counters
<1>7. ASSUME NEW b \in Bundles, DeliverPart(b) PROVE HubTypeOK'
  BY <1>7 DEF DeliverPart, Stamp, Fetched, counters
<1>8. ASSUME NEW b \in Bundles, DecryptFails(b) PROVE HubTypeOK'
  BY <1>8 DEF DecryptFails, Stamp, Fetched, counters
<1>9. ASSUME NEW b \in Bundles, Stall(b) PROVE HubTypeOK'
  BY <1>9 DEF Stall, Stamp, Fetched
<1>10. ASSUME NEW b \in Bundles, Unavailable(b) PROVE HubTypeOK'
  BY <1>10 DEF Unavailable, Fetched, counters
<1>11. ASSUME NEW b \in Bundles, Judge(b) PROVE HubTypeOK'
  BY <1>11 DEF Judge
<1>12. ASSUME NEW b \in Bundles, Defer(b) PROVE HubTypeOK'
  BY <1>12 DEF Defer, files, counters
<1>13. CASE Crash
  BY <1>13 DEF Crash, Forget, files
<1>14. CASE CrashFetching
  BY <1>14 DEF CrashFetching, Forget
<1>15. CASE CrashSaving
  BY <1>15 DEF CrashSaving, Forget
<1>16. CASE Upgrade
  BY <1>16 DEF Upgrade, Forget, files, counters
<1>17. CASE Submit
  BY <1>17 DEF Submit, files, memory, counters
<1>18. CASE Withdraw
  BY <1>18 DEF Withdraw, Open, files, memory, counters
<1>19. CASE UNCHANGED hubVars
  BY <1>19 DEF hubVars, files, memory, counters
<1> QED
  BY <1>1, <1>2, <1>3, <1>4, <1>5, <1>6, <1>7, <1>8, <1>9, <1>10, <1>11, <1>12, <1>13, <1>14, <1>15,
     <1>16, <1>17, <1>18, <1>19 DEF Next, ServiceStep, CrashStep, Fetch

\* The steps that change neither what is done nor the budgets keep both.
LEMMA BudgetsKept ==
  ASSUME IntakeInv, UNCHANGED <<version, crashes, judged, timeouts, pending, stalls>>,
         \A b \in Bundles : DoneNow(b)' <=> DoneNow(b)
  PROVE  JudgeBudget' /\ StallBudget'
BY DEF IntakeInv, JudgeBudget, StallBudget, Lives

\* A fetch leaves no bundle to do that is done.
LEMMA FetchTodo ==
  ASSUME IntakeInv, NEW b \in Bundles, pc = "fetch", Fetched(b), version' = version,
         processed' = [processed EXCEPT ![b] = processed'[b]]
  PROVE  TodoInv'
BY DEF IntakeInv, HubTypeOK, TodoInv, Fetched, DoneNow, Done, Marks

\* A fetch that takes a bundle in, or gives it up, uses this life's delivery.
LEMMA StampedOnce ==
  ASSUME IntakeInv, HubTypeOK', NEW b \in Bundles, b \in todo, pc = "fetch", Stamp(b), Fetched(b),
         UNCHANGED <<version, crashes, judged>>,
         pending' = [pending EXCEPT ![b] = pending'[b]],
         stalls' = [stalls EXCEPT ![b] = 0],
         timeouts' = [timeouts EXCEPT ![b] = timeouts'[b]],
         timeouts'[b] <= timeouts[b] + (MaxStalls - stalls[b])
  PROVE  JudgeBudget' /\ StallBudget'
<1> USE DEF IntakeInv
<1>1. ~DoneNow(b) /\ DoneNow(b)'
  BY DEF TodoInv, DoneNow, Done, Marks, Stamp, Fetched, HubTypeOK
<1>2. \A c \in Bundles \ {b} : DoneNow(c)' <=> DoneNow(c)
  BY DEF DoneNow, Done, Marks, Stamp, Fetched, HubTypeOK
<1>3. Lives' = Lives /\ Lives \in Nat /\ Lives - 1 \in Nat
  BY LivesType DEF Lives
<1>4. JudgeBudget'
  <2> SUFFICES ASSUME NEW c \in Bundles
               PROVE (judged[c] + (IF pending[c] = "none" THEN 0 ELSE 1) <= Lives - (IF DoneNow(c) THEN 0 ELSE 1))'
    BY DEF JudgeBudget
  <2>1. judged[c] \in Nat /\ judged'[c] = judged[c]
    BY DEF HubTypeOK
  <2>2. CASE c = b
    BY <1>1, <1>3, <2>1, <2>2 DEF JudgeBudget
  <2>3. CASE c # b
    <3>1. pending'[c] = pending[c]
      BY <2>3 DEF HubTypeOK
    <3> QED BY <1>2, <1>3, <2>1, <2>3, <3>1 DEF JudgeBudget
  <2> QED BY <2>2, <2>3
<1>5. StallBudget'
  <2> SUFFICES ASSUME NEW c \in Bundles
               PROVE (timeouts[c] <= Allowance(Lives - 1) + (IF DoneNow(c) THEN MaxStalls ELSE stalls[c]))'
    BY DEF StallBudget
  <2>1. /\ timeouts[c] \in Nat /\ timeouts'[c] \in Nat /\ stalls[c] \in Nat
        /\ Allowance(Lives - 1) \in Nat /\ Allowance(Lives - 1)' = Allowance(Lives - 1)
    BY <1>3, AllowanceGrows DEF HubTypeOK, Allowance
  <2>2. CASE c = b
    <3>1. timeouts[b] <= Allowance(Lives - 1) + stalls[b]
      BY <1>1 DEF StallBudget
    <3> QED BY <1>1, <2>1, <2>2, <3>1, HubAssumption
  <2>3. CASE c # b
    <3>1. stalls'[c] = stalls[c] /\ timeouts'[c] = timeouts[c]
      BY <2>3 DEF HubTypeOK
    <3> QED BY <1>2, <2>1, <2>3, <3>1 DEF StallBudget
  <2> QED BY <2>2, <2>3
<1> QED BY <1>4, <1>5

\* A fetch to be tried again costs no more than it counts.
LEMMA RetriedLater ==
  ASSUME IntakeInv, HubTypeOK', NEW b \in Bundles, pc = "fetch", Fetched(b),
         UNCHANGED <<version, crashes, judged, processed>>,
         pending' = [pending EXCEPT ![b] = "none"],
         stalls' = [stalls EXCEPT ![b] = stalls'[b]],
         timeouts' = [timeouts EXCEPT ![b] = timeouts'[b]],
         b \in todo,
         timeouts'[b] - timeouts[b] <= stalls'[b] - stalls[b]
  PROVE  JudgeBudget' /\ StallBudget'
<1> USE DEF IntakeInv
<1>1. ~DoneNow(b) /\ \A c \in Bundles : DoneNow(c)' <=> DoneNow(c)
  BY DEF TodoInv, DoneNow, Done, Marks, Fetched
<1>2. Lives' = Lives /\ Lives \in Nat /\ Lives - 1 \in Nat
  BY LivesType DEF Lives
<1>3. JudgeBudget'
  <2> SUFFICES ASSUME NEW c \in Bundles
               PROVE (judged[c] + (IF pending[c] = "none" THEN 0 ELSE 1) <= Lives - (IF DoneNow(c) THEN 0 ELSE 1))'
    BY DEF JudgeBudget
  <2>1. judged[c] \in Nat /\ judged'[c] = judged[c] /\ pending'[c] \in {"none", pending[c]}
    BY DEF HubTypeOK
  <2>2. judged[c] + (IF pending[c] = "none" THEN 0 ELSE 1) <= Lives - (IF DoneNow(c) THEN 0 ELSE 1)
    BY DEF JudgeBudget
  <2> QED BY <1>1, <1>2, <2>1, <2>2
<1>4. StallBudget'
  <2> SUFFICES ASSUME NEW c \in Bundles
               PROVE (timeouts[c] <= Allowance(Lives - 1) + (IF DoneNow(c) THEN MaxStalls ELSE stalls[c]))'
    BY DEF StallBudget
  <2>1. /\ timeouts[c] \in Nat /\ timeouts'[c] \in Nat /\ stalls[c] \in Nat /\ stalls'[c] \in Nat
        /\ Allowance(Lives - 1) \in Nat /\ Allowance(Lives - 1)' = Allowance(Lives - 1)
    BY <1>2, AllowanceGrows, HubAssumption DEF HubTypeOK, Allowance
  <2>2. timeouts[c] <= Allowance(Lives - 1) + (IF DoneNow(c) THEN MaxStalls ELSE stalls[c])
    BY DEF StallBudget
  <2>3. CASE c = b
    BY <1>1, <2>1, <2>2, <2>3
  <2>4. CASE c # b
    <3>1. stalls'[c] = stalls[c] /\ timeouts'[c] = timeouts[c]
      BY <2>4 DEF HubTypeOK
    <3> QED BY <1>1, <2>1, <2>2, <3>1
  <2> QED BY <2>3, <2>4
<1> QED BY <1>3, <1>4

\* A new life, by a crash or an upgrade, pays for what the old one forgot.
LEMMA NewLife ==
  ASSUME IntakeInv, HubTypeOK', Lives' = Lives + 1, UNCHANGED <<judged, timeouts>>,
         \A b \in Bundles : stalls'[b] = 0,
         \A b \in Bundles : pending'[b] = pending[b] \/ ~DoneNow(b)
  PROVE  JudgeBudget' /\ StallBudget'
<1> USE DEF IntakeInv
<1>1. Lives \in Nat /\ Lives - 1 \in Nat /\ Lives' - 1 = (Lives - 1) + 1
  BY LivesType
<1>2. JudgeBudget'
  <2> SUFFICES ASSUME NEW c \in Bundles
               PROVE (judged[c] + (IF pending[c] = "none" THEN 0 ELSE 1) <= Lives - (IF DoneNow(c) THEN 0 ELSE 1))'
    BY DEF JudgeBudget
  <2>1. judged[c] \in Nat /\ judged'[c] = judged[c]
    BY DEF HubTypeOK
  <2>2. judged[c] + (IF pending[c] = "none" THEN 0 ELSE 1) <= Lives - (IF DoneNow(c) THEN 0 ELSE 1)
    BY DEF JudgeBudget
  <2>3. pending'[c] = pending[c] \/ ~DoneNow(c)
    OBVIOUS
  <2>4. judged[c] + (IF pending'[c] = "none" THEN 0 ELSE 1) <= Lives
    BY <1>1, <2>1, <2>2, <2>3
  <2> QED BY <1>1, <2>1, <2>4
<1>3. StallBudget'
  <2> SUFFICES ASSUME NEW c \in Bundles
               PROVE (timeouts[c] <= Allowance(Lives - 1) + (IF DoneNow(c) THEN MaxStalls ELSE stalls[c]))'
    BY DEF StallBudget
  <2>1. Allowance(Lives' - 1) = Allowance(Lives - 1) + MaxStalls /\ Allowance(Lives - 1) \in Nat
    BY <1>1, AllowanceGrows
  <2>2. /\ timeouts[c] \in Nat /\ timeouts'[c] = timeouts[c]
        /\ stalls[c] \in 0 .. MaxStalls - 1 /\ stalls'[c] = 0
    BY DEF HubTypeOK
  <2>3. timeouts[c] <= Allowance(Lives - 1) + MaxStalls
    BY <2>1, <2>2, HubAssumption DEF StallBudget
  <2>4. Allowance(Lives - 1)' = Allowance(Lives' - 1)
    BY DEF Allowance
  <2> QED BY <2>1, <2>2, <2>3, <2>4, HubAssumption
<1> QED BY <1>2, <1>3

\* Every step keeps the invariant.
LEMMA IntakeNext == IntakeInv /\ [Next]_hubVars => IntakeInv'
<1> SUFFICES ASSUME IntakeInv, [Next]_hubVars PROVE IntakeInv'
  OBVIOUS
<1>0. HubTypeOK /\ HubTypeOK'
  BY HubTypeNext DEF IntakeInv
<1> DEFINE Kept == JudgeBudget' /\ StallBudget'
<1>1. CASE StartPoll
  <2>1. \A b \in Bundles : DoneNow(b)' <=> DoneNow(b)
    BY <1>1 DEF StartPoll, DoneNow, Done, Marks, files
  <2>2. TodoInv'
    BY <1>1, <1>0 DEF StartPoll, TodoInv, DoneNow, Done, Marks, FirstFew, files
  <2>3. Kept
    BY <1>1, <2>1, BudgetsKept DEF StartPoll, files, counters
  <2> QED BY <1>0, <2>2, <2>3 DEF IntakeInv
<1>2. CASE SaveStamps
  <2>1. \A b \in Bundles : DoneNow(b)' <=> DoneNow(b)
    BY <1>2 DEF SaveStamps, DoneNow, Done, Marks
  <2>2. TodoInv'
    BY <1>2 DEF SaveStamps, TodoInv
  <2>3. Kept
    BY <1>2, <2>1, BudgetsKept DEF SaveStamps, counters
  <2> QED BY <1>0, <2>2, <2>3 DEF IntakeInv
<1>3. CASE PollQueue
  <2>1. \A b \in Bundles : DoneNow(b)' <=> DoneNow(b)
    BY <1>3 DEF PollQueue, DoneNow, Done, Marks, files
  <2>2. TodoInv'
    BY <1>3 DEF PollQueue, TodoInv, files
  <2>3. Kept
    BY <1>3, <2>1, BudgetsKept DEF PollQueue, files, counters
  <2> QED BY <1>0, <2>2, <2>3 DEF IntakeInv
<1>4. CASE EndEpoch
  <2>1. \A b \in Bundles : DoneNow(b)' <=> DoneNow(b)
    BY <1>4 DEF EndEpoch, DoneNow, Done, Marks, files
  <2>2. TodoInv'
    BY <1>4 DEF EndEpoch, TodoInv
  <2>3. Kept
    BY <1>4, <2>1, BudgetsKept DEF EndEpoch, files, counters
  <2> QED BY <1>0, <2>2, <2>3 DEF IntakeInv
<1>5. CASE Restart
  <2>1. \A b \in Bundles : DoneNow(b)' <=> DoneNow(b)
    BY <1>5 DEF Restart, DoneNow, Done, Marks, files
  <2>2. TodoInv'
    BY <1>5 DEF Restart, TodoInv
  <2>3. Kept
    BY <1>5, <2>1, BudgetsKept DEF Restart, files, counters
  <2> QED BY <1>0, <2>2, <2>3 DEF IntakeInv
<1>6. ASSUME NEW b \in Bundles, Deliver(b) \/ DeliverPart(b) \/ DecryptFails(b) PROVE IntakeInv'
  <2>1. /\ pc = "fetch" /\ b \in todo /\ Stamp(b) /\ Fetched(b)
        /\ UNCHANGED <<version, crashes, judged, timeouts>>
        /\ stalls' = [stalls EXCEPT ![b] = 0]
    BY <1>6 DEF Deliver, DeliverPart, DecryptFails, Oldest, counters
  <2>2. pending' = [pending EXCEPT ![b] = pending'[b]]
    BY <1>0, <1>6 DEF Deliver, DeliverPart, DecryptFails, HubTypeOK
  <2>3. processed' = [processed EXCEPT ![b] = processed'[b]]
    BY <1>0, <2>1 DEF Stamp, HubTypeOK
  <2>4. /\ timeouts' = [timeouts EXCEPT ![b] = timeouts'[b]]
        /\ timeouts'[b] <= timeouts[b] + (MaxStalls - stalls[b])
    BY <1>0, <2>1, HubAssumption DEF HubTypeOK
  <2>5. TodoInv'
    BY <2>1, <2>3, FetchTodo
  <2>6. Kept
    BY <1>0, <2>1, <2>2, <2>4, StampedOnce
  <2> QED BY <1>0, <2>5, <2>6 DEF IntakeInv
<1>7. ASSUME NEW b \in Bundles, Stall(b) PROVE IntakeInv'
  <2>1. /\ pc = "fetch" /\ b \in todo /\ Fetched(b)
        /\ UNCHANGED <<version, crashes, judged>>
        /\ pending' = [pending EXCEPT ![b] = "none"]
        /\ timeouts' = [timeouts EXCEPT ![b] = @ + 1]
    BY <1>7 DEF Stall, Oldest
  <2>2. processed' = [processed EXCEPT ![b] = processed'[b]]
    BY <1>0, <1>7 DEF Stall, Stamp, HubTypeOK
  <2>3. /\ pending' = [pending EXCEPT ![b] = pending'[b]]
        /\ timeouts' = [timeouts EXCEPT ![b] = timeouts'[b]]
        /\ timeouts'[b] = timeouts[b] + 1 /\ timeouts[b] \in Nat /\ stalls[b] \in 0 .. MaxStalls - 1
    BY <1>0, <2>1 DEF HubTypeOK
  <2>4. TodoInv'
    BY <2>1, <2>2, FetchTodo
  <2>5. CASE stalls[b] + 1 >= MaxStalls
    <3>1. Stamp(b) /\ stalls' = [stalls EXCEPT ![b] = 0]
      BY <1>7, <2>5 DEF Stall
    <3>2. timeouts'[b] <= timeouts[b] + (MaxStalls - stalls[b])
      BY <2>3, HubAssumption
    <3> QED BY <1>0, <2>1, <2>3, <2>4, <3>1, <3>2, StampedOnce DEF IntakeInv
  <2>6. CASE ~(stalls[b] + 1 >= MaxStalls)
    <3>1. processed' = processed /\ stalls' = [stalls EXCEPT ![b] = @ + 1]
      BY <1>7, <2>6 DEF Stall
    <3>2. stalls' = [stalls EXCEPT ![b] = stalls'[b]] /\ stalls'[b] = stalls[b] + 1
      BY <1>0, <3>1 DEF HubTypeOK
    <3>3. timeouts'[b] - timeouts[b] <= stalls'[b] - stalls[b]
      BY <2>3, <3>2, HubAssumption
    <3> QED BY <1>0, <2>1, <2>3, <2>4, <3>1, <3>2, <3>3, RetriedLater DEF IntakeInv
  <2> QED BY <2>5, <2>6
<1>8. ASSUME NEW b \in Bundles, Unavailable(b) PROVE IntakeInv'
  <2>1. /\ pc = "fetch" /\ b \in todo /\ Fetched(b)
        /\ UNCHANGED <<version, crashes, judged, processed, stalls, timeouts>>
        /\ pending' = [pending EXCEPT ![b] = "none"]
    BY <1>8 DEF Unavailable, Oldest, counters
  <2>2. /\ processed' = [processed EXCEPT ![b] = processed'[b]]
        /\ stalls' = [stalls EXCEPT ![b] = stalls'[b]]
        /\ timeouts' = [timeouts EXCEPT ![b] = timeouts'[b]]
        /\ timeouts'[b] - timeouts[b] <= stalls'[b] - stalls[b]
    BY <1>0, <2>1, HubAssumption DEF HubTypeOK
  <2>3. TodoInv'
    BY <2>1, <2>2, FetchTodo
  <2>4. Kept
    BY <1>0, <2>1, <2>2, RetriedLater
  <2> QED BY <1>0, <2>3, <2>4 DEF IntakeInv
<1>9. ASSUME NEW b \in Bundles, Judge(b) PROVE IntakeInv'
  <2>1. /\ pc = "judge" /\ pc' = "judge" /\ b \in todo /\ todo' = todo \ {b}
        /\ pending' = [pending EXCEPT ![b] = "none"]
        /\ judged' = [judged EXCEPT ![b] = @ + 1]
        /\ UNCHANGED <<stamps, version, crashes, timeouts, stalls>>
    BY <1>9 DEF Judge, Oldest
  <2>2. pending[b] # "none"
    BY <2>1 DEF IntakeInv, TodoInv
  <2>3. TodoInv'
    BY <1>0, <2>1 DEF IntakeInv, TodoInv, HubTypeOK
  <2>4. \A c \in Bundles : DoneNow(c)' <=> DoneNow(c)
    BY <2>1 DEF DoneNow, Done, Marks
  <2>5. Lives' = Lives /\ Lives \in Nat
    BY <1>0, <2>1, LivesType DEF Lives
  <2>6. StallBudget'
    BY <2>1, <2>4, <2>5 DEF IntakeInv, StallBudget
  <2>7. JudgeBudget'
    <3> SUFFICES ASSUME NEW c \in Bundles
                 PROVE (judged[c] + (IF pending[c] = "none" THEN 0 ELSE 1) <= Lives - (IF DoneNow(c) THEN 0 ELSE 1))'
      BY DEF JudgeBudget
    <3>1. judged[c] + (IF pending[c] = "none" THEN 0 ELSE 1) <= Lives - (IF DoneNow(c) THEN 0 ELSE 1)
      BY DEF IntakeInv, JudgeBudget
    <3>2. /\ judged[c] \in Nat
          /\ judged'[c] = IF c = b THEN judged[c] + 1 ELSE judged[c]
          /\ pending'[c] = IF c = b THEN "none" ELSE pending[c]
      BY <1>0, <2>1 DEF HubTypeOK
    <3> QED BY <2>2, <2>4, <2>5, <3>1, <3>2
  <2> QED BY <1>0, <2>3, <2>6, <2>7 DEF IntakeInv
<1>10. ASSUME NEW b \in Bundles, Defer(b) PROVE IntakeInv'
  <2>1. \A c \in Bundles : DoneNow(c)' <=> DoneNow(c)
    BY <1>10 DEF Defer, DoneNow, Done, Marks, files
  <2>2. TodoInv'
    BY <1>10 DEF Defer, IntakeInv, TodoInv, files
  <2>3. Kept
    BY <1>10, <2>1, BudgetsKept DEF Defer, files, counters
  <2> QED BY <1>0, <2>2, <2>3 DEF IntakeInv
<1>11. CASE CrashStep \/ Upgrade
  <2>1. /\ pc' \notin {"fetch", "judge"} /\ UNCHANGED <<judged, timeouts>>
        /\ \A b \in Bundles : stalls'[b] = 0
    BY <1>11 DEF CrashStep, Crash, CrashFetching, CrashSaving, Upgrade, Forget, counters
  <2>2. Lives' = Lives + 1
    <3>1. version \in Nat /\ crashes \in Nat
      BY <1>0, HubAssumption DEF HubTypeOK
    <3>2. \/ version' = version /\ crashes' = crashes + 1
          \/ version' = version + 1 /\ crashes' = crashes
      BY <1>11 DEF CrashStep, Crash, CrashFetching, CrashSaving, Upgrade, counters
    <3> QED BY <3>1, <3>2 DEF Lives
  <2>3. \A b \in Bundles : pending'[b] = pending[b] \/ ~DoneNow(b)
    <3>1. CASE CrashFetching
      BY <1>0, <3>1 DEF CrashFetching, Oldest, IntakeInv, TodoInv, HubTypeOK
    <3>2. CASE ~CrashFetching
      BY <1>11, <3>2 DEF CrashStep, Crash, CrashSaving, Upgrade, files
    <3> QED BY <3>1, <3>2
  <2>4. TodoInv'
    BY <2>1 DEF TodoInv
  <2>5. Kept
    BY <1>0, <2>1, <2>2, <2>3, NewLife
  <2> QED BY <1>0, <2>4, <2>5 DEF IntakeInv
<1>12. CASE Submit \/ Withdraw \/ UNCHANGED hubVars
  <2>1. UNCHANGED <<files, version, memory, counters>>
    BY <1>12 DEF Submit, Withdraw, hubVars
  <2>2. \A b \in Bundles : DoneNow(b)' <=> DoneNow(b)
    BY <2>1 DEF DoneNow, Done, Marks, files, memory
  <2>3. TodoInv'
    BY <2>1, <2>2 DEF IntakeInv, TodoInv, files, memory, DoneNow, Done, Marks
  <2>4. Kept
    BY <2>1, <2>2, BudgetsKept DEF files, memory, counters
  <2> QED BY <1>0, <2>3, <2>4 DEF IntakeInv
<1> QED
  BY <1>1, <1>2, <1>3, <1>4, <1>5, <1>6, <1>7, <1>8, <1>9, <1>10, <1>11, <1>12 DEF Next,
     ServiceStep, Fetch

\* The invariant holds throughout.
LEMMA IntakeAlways == Spec => []IntakeInv
<1> QED BY IntakeInit, IntakeNext, PTL DEF Spec

\* Stamps, queue, polls and counters keep their types.
THEOREM HubTypeCorrect == Spec => []HubTypeOK
<1>1. IntakeInv => HubTypeOK
  BY DEF IntakeInv
<1> QED BY IntakeAlways, <1>1, PTL

\* However polls, deferrals, failed closes, crashes and upgrades interleave, the
\* judgements of a bundle are at any time no more than the runs of the process so
\* far: the stamps in hf_state.json and queue/pending together never hold more than
\* one judgement to come for each (poll_hub, run_epoch).
THEOREM JudgementsStayBounded == Spec => []JudgementsBounded
<1>1. IntakeInv => JudgementsBounded
  <2> SUFFICES ASSUME IntakeInv, NEW b \in Bundles PROVE judged[b] <= Lives
    BY DEF JudgementsBounded
  <2>1. judged[b] \in Nat /\ Lives \in Nat
    BY LivesType DEF IntakeInv, HubTypeOK
  <2> QED BY <2>1 DEF IntakeInv, JudgeBudget
<1> QED BY IntakeAlways, <1>1, PTL

\* _MAX_STALLS bounds what a stalling download costs, whatever the number of
\* bundles, the limit of a poll and the number of restarts (poll_hub).
THEOREM StallsStayBounded == Spec => []StallsBounded
<1>1. IntakeInv => StallsBounded
  <2> SUFFICES ASSUME IntakeInv, NEW b \in Bundles PROVE timeouts[b] <= MaxStalls * Lives
    BY DEF StallsBounded
  <2>1. HubTypeOK /\ Lives - 1 \in Nat /\ (Lives - 1) + 1 = Lives
    BY LivesType DEF IntakeInv
  <2>2. Allowance(Lives - 1) \in Nat /\ Allowance(Lives) = Allowance(Lives - 1) + MaxStalls
    BY <2>1, AllowanceGrows
  <2>3. timeouts[b] \in Nat /\ stalls[b] \in 0 .. MaxStalls - 1
    BY <2>1 DEF HubTypeOK
  <2>4. timeouts[b] <= Allowance(Lives)
    BY <2>2, <2>3, HubAssumption DEF IntakeInv, StallBudget
  <2> QED BY <2>4 DEF Allowance
<1> QED BY IntakeAlways, <1>1, PTL

=============================================================================
