----------------------- MODULE DeliveryWaitersProofs ------------------------
(***************************************************************************)
(* No wake-up of a long poll is lost, for any number of polls and rows and *)
(* any wait that is not longer than the notify memory.                     *)
(*                                                                         *)
(* NoMissedWake alone is not inductive: a request that has read an empty   *)
(* queue may be overtaken by a notify before it parks.  Then either the    *)
(* notify is still remembered, or it was dropped for its age, and the      *)
(* request, whose read began before it, is out of time and will not park.  *)
(***************************************************************************)
EXTENDS DeliveryWaiters, TLAPS

\* How a poll's read and deadline lie in time.
Clocks ==
  \A p \in Pollers :
    /\ poll[p].deadline <= now + MaxWait
    /\ poll[p].pc \in {"reading", "empty"} =>
         poll[p].since <= now /\ poll[p].deadline <= poll[p].since + MaxWait

Expected == Queued \subseteq unsignalled \cup quiet

\* A request that read an empty queue was not overtaken, or will notice.
Overtaken ==
  \A p \in Pollers : poll[p].pc = "empty" =>
    \/ Expected
    \/ lastNotified # Never /\ lastNotified >= poll[p].since
    \/ poll[p].deadline < now

WakeInv == TypeOK /\ Clocks /\ Overtaken /\ NoMissedWake

\* Every step keeps the types.
LEMMA TypeStep == TypeOK /\ Clocks /\ [Next]_vars => TypeOK'
<1> SUFFICES ASSUME TypeOK, Clocks, [Next]_vars PROVE TypeOK'
  OBVIOUS
<1> USE WaitAssumption DEF TypeOK, Polls, Done, Never
<1>1. ASSUME NEW r \in Rows, Create(r) \/ Settle(r) \/ Fail(r) \/ Defer(r) PROVE TypeOK'
  BY <1>1 DEF Create, Settle, Fail, Defer
<1>2. ASSUME NEW r \in Rows, Notify(r) PROVE TypeOK'
  <2>1. poll' \in [Pollers -> Polls]
    BY <1>2 DEF Notify, Parked
  <2>2. QED BY <1>2, <2>1 DEF Notify
<1>3. CASE NotifyOther
  BY <1>3 DEF NotifyOther
<1>4. ASSUME NEW p \in Pollers, NEW wait \in 0..MaxWait, Begin(p, wait) PROVE TypeOK'
  <2>1. [pc |-> "list", since |-> 0, deadline |-> now + wait] \in Polls
    OBVIOUS
  <2>2. poll' \in [Pollers -> Polls]
    BY <1>4, <2>1 DEF Begin
  <2>3. QED BY <1>4, <2>2 DEF Begin, queueVars
<1>5. ASSUME NEW p \in Pollers, List(p) PROVE TypeOK'
  BY <1>5 DEF List, queueVars
<1>6. ASSUME NEW p \in Pollers, Read(p) PROVE TypeOK'
  BY <1>6 DEF Read, queueVars
<1>7. ASSUME NEW p \in Pollers, Park(p) PROVE TypeOK'
  BY <1>7 DEF Park, queueVars
<1>8. ASSUME NEW p \in Pollers, Timeout(p) \/ Abort(p) PROVE TypeOK'
  BY <1>8 DEF Timeout, Abort, queueVars
<1>9. CASE Close
  <2>1. poll' \in [Pollers -> Polls]
    BY <1>9 DEF Close, Parked
  <2>2. QED BY <1>9, <2>1 DEF Close, queueVars
<1>10. CASE Tick
  BY <1>10 DEF Tick, queueVars
<1>11. CASE UNCHANGED vars
  BY <1>11 DEF vars
<1>12. QED BY <1>1, <1>2, <1>3, <1>4, <1>5, <1>6, <1>7, <1>8, <1>9, <1>10, <1>11 DEF Next

\* Every step keeps the clocks.
LEMMA ClockStep == TypeOK /\ Clocks /\ [Next]_vars => Clocks'
<1> SUFFICES ASSUME TypeOK, Clocks, [Next]_vars PROVE Clocks'
  OBVIOUS
<1> USE WaitAssumption DEF TypeOK, Clocks, Polls, Done
<1>1. ASSUME NEW r \in Rows, Create(r) \/ Settle(r) \/ Fail(r) \/ Defer(r) PROVE Clocks'
  BY <1>1 DEF Create, Settle, Fail, Defer
<1>2. ASSUME NEW r \in Rows, Notify(r) PROVE Clocks'
  BY <1>2 DEF Notify, Parked
<1>3. CASE NotifyOther
  BY <1>3 DEF NotifyOther
<1>4. ASSUME NEW p \in Pollers, NEW wait \in 0..MaxWait, Begin(p, wait) PROVE Clocks'
  BY <1>4 DEF Begin, queueVars
<1>5. ASSUME NEW p \in Pollers, List(p) PROVE Clocks'
  BY <1>5 DEF List, queueVars
<1>6. ASSUME NEW p \in Pollers, Read(p) PROVE Clocks'
  BY <1>6 DEF Read, queueVars
<1>7. ASSUME NEW p \in Pollers, Park(p) PROVE Clocks'
  BY <1>7 DEF Park, queueVars
<1>8. ASSUME NEW p \in Pollers, Timeout(p) \/ Abort(p) PROVE Clocks'
  BY <1>8 DEF Timeout, Abort, queueVars
<1>9. CASE Close
  BY <1>9 DEF Close, Parked, queueVars
<1>10. CASE Tick
  BY <1>10 DEF Tick, queueVars
<1>11. CASE UNCHANGED vars
  BY <1>11 DEF vars
<1>12. QED BY <1>1, <1>2, <1>3, <1>4, <1>5, <1>6, <1>7, <1>8, <1>9, <1>10, <1>11 DEF Next

\* A step of the queue that is not a notify leaves no row unexpected.
LEMMA QueueStep ==
  ASSUME TypeOK, NEW r \in Rows, Create(r) \/ Settle(r) \/ Fail(r) \/ Defer(r)
  PROVE  Expected => Expected'
BY DEF TypeOK, Create, Settle, Fail, Defer, Expected, Queued

\* Every step keeps what an overtaken request relies on.
LEMMA OvertakenStep == WakeInv /\ [Next]_vars => Overtaken'
<1> SUFFICES ASSUME WakeInv, [Next]_vars PROVE Overtaken'
  OBVIOUS
<1> USE WaitAssumption DEF WakeInv, TypeOK, Overtaken, Polls, Done, Never
<1>1. ASSUME NEW r \in Rows, Create(r) \/ Settle(r) \/ Fail(r) \/ Defer(r) PROVE Overtaken'
  <2>1. Expected => Expected'
    BY <1>1, QueueStep
  <2>2. UNCHANGED <<now, lastNotified, poll>>
    BY <1>1 DEF Create, Settle, Fail, Defer
  <2>3. QED BY <2>1, <2>2
<1>2. ASSUME NEW r \in Rows, Notify(r) PROVE Overtaken'
  BY <1>2 DEF Notify, Parked, Clocks
<1>3. CASE NotifyOther
  <2>1. UNCHANGED <<now, poll>> /\ Expected' = Expected
    BY <1>3 DEF NotifyOther, Expected, Queued
  <2>2. ASSUME NEW p \in Pollers, poll[p].pc = "empty", lastNotified >= poll[p].since
        PROVE  poll[p].deadline < now
    BY <1>3, <2>2 DEF NotifyOther, Clocks
  <2>3. QED BY <2>1, <2>2
<1>4. ASSUME NEW p \in Pollers, NEW wait \in 0..MaxWait, Begin(p, wait) PROVE Overtaken'
  BY <1>4 DEF Begin, queueVars, Expected, Queued
<1>5. ASSUME NEW p \in Pollers, List(p) PROVE Overtaken'
  BY <1>5 DEF List, queueVars, Expected, Queued
<1>6. ASSUME NEW p \in Pollers, Read(p) PROVE Overtaken'
  BY <1>6 DEF Read, queueVars, Expected, Queued
<1>7. ASSUME NEW p \in Pollers, Park(p) PROVE Overtaken'
  BY <1>7 DEF Park, queueVars, Expected, Queued
<1>8. ASSUME NEW p \in Pollers, Timeout(p) \/ Abort(p) PROVE Overtaken'
  BY <1>8 DEF Timeout, Abort, queueVars, Expected, Queued
<1>9. CASE Close
  BY <1>9 DEF Close, Parked, queueVars, Expected, Queued
<1>10. CASE Tick
  BY <1>10 DEF Tick, queueVars, Expected, Queued
<1>11. CASE UNCHANGED vars
  BY <1>11 DEF vars, Expected, Queued
<1>12. QED BY <1>1, <1>2, <1>3, <1>4, <1>5, <1>6, <1>7, <1>8, <1>9, <1>10, <1>11 DEF Next

\* Every step keeps NoMissedWake: only Park makes a request wait, and Overtaken
\* says that it then has nothing to miss.
LEMMA WakeStep == WakeInv /\ [Next]_vars => NoMissedWake'
<1> SUFFICES ASSUME WakeInv, [Next]_vars PROVE NoMissedWake'
  OBVIOUS
<1> USE DEF WakeInv, TypeOK, NoMissedWake, Parked, Polls, Done
<1>1. ASSUME NEW r \in Rows, Create(r) \/ Settle(r) \/ Fail(r) \/ Defer(r) PROVE NoMissedWake'
  <2>1. Expected => Expected'
    BY <1>1, QueueStep
  <2>2. UNCHANGED poll
    BY <1>1 DEF Create, Settle, Fail, Defer
  <2>3. QED BY <2>1, <2>2 DEF Expected
<1>2. ASSUME NEW r \in Rows, Notify(r) PROVE NoMissedWake'
  BY <1>2 DEF Notify
<1>3. CASE NotifyOther
  BY <1>3 DEF NotifyOther, Queued
<1>4. ASSUME NEW p \in Pollers, NEW wait \in 0..MaxWait, Begin(p, wait) PROVE NoMissedWake'
  BY <1>4 DEF Begin, queueVars, Queued
<1>5. ASSUME NEW p \in Pollers, List(p) PROVE NoMissedWake'
  BY <1>5 DEF List, queueVars, Queued
<1>6. ASSUME NEW p \in Pollers, Read(p) PROVE NoMissedWake'
  BY <1>6 DEF Read, queueVars, Queued
<1>7. ASSUME NEW p \in Pollers, Park(p) PROVE NoMissedWake'
  <2>1. UNCHANGED <<row, unsignalled, quiet>> /\ Queued' = Queued
    BY <1>7 DEF Park, queueVars, Queued
  <2>2. ASSUME NEW q \in Pollers, Parked(q)' PROVE Parked(q) \/ Expected
    BY <1>7, <2>2 DEF Park, Overtaken
  <2>3. QED BY <2>1, <2>2 DEF Expected
<1>8. ASSUME NEW p \in Pollers, Timeout(p) \/ Abort(p) PROVE NoMissedWake'
  BY <1>8 DEF Timeout, Abort, queueVars, Queued
<1>9. CASE Close
  BY <1>9 DEF Close, queueVars, Queued
<1>10. CASE Tick
  BY <1>10 DEF Tick, queueVars, Queued
<1>11. CASE UNCHANGED vars
  BY <1>11 DEF vars, Queued
<1>12. QED BY <1>1, <1>2, <1>3, <1>4, <1>5, <1>6, <1>7, <1>8, <1>9, <1>10, <1>11 DEF Next

\* The inductive invariant holds throughout.
LEMMA WakeInvariant == Spec => []WakeInv
<1>1. Init => WakeInv
  <2> SUFFICES ASSUME Init PROVE WakeInv
    OBVIOUS
  <2>1. TypeOK
    BY DEF Init, TypeOK, Polls, Done
  <2>2. Clocks /\ Overtaken /\ NoMissedWake
    BY WaitAssumption DEF Init, Clocks, Overtaken, NoMissedWake, Parked, Done
  <2>3. QED BY <2>1, <2>2 DEF WakeInv
<1>2. WakeInv /\ [Next]_vars => WakeInv'
  BY TypeStep, ClockStep, OvertakenStep, WakeStep DEF WakeInv
<1>3. QED BY <1>1, <1>2, PTL DEF Spec

\* No wake-up is lost: a request of GET /v1/deliveries?wait= is never parked
\* while its queue holds a row whose notify has already run.
THEOREM NoWakeUpIsLost == Spec => []NoMissedWake
<1>1. WakeInv => NoMissedWake
  BY DEF WakeInv
<1>2. QED BY <1>1, WakeInvariant, PTL

\* The rows, the remembered notify and the polls of the waiters are well formed; a notify is
\* never remembered from the future, which would send every poll back to its list.
THEOREM WaiterTypes == Spec => []TypeOK
<1>1. WakeInv => TypeOK
  BY DEF WakeInv
<1>2. QED BY <1>1, WakeInvariant, PTL

=============================================================================
