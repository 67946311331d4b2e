-------------------------- MODULE DeliveryWaiters ---------------------------
(***************************************************************************)
(* The long poll GET /v1/deliveries?wait= of one agent (routes/delivery.ts, *)
(* ports/deliveryWaiters.ts, notifyDeliveryWaiters of                      *)
(* routes/deliveryRouting.ts).                                             *)
(*                                                                         *)
(* A poll reads the queue and, if it is empty, parks; the request that     *)
(* creates a row notifies after the row is committed.  The read and the    *)
(* registration of the waiter are separated by an await, so a notify can   *)
(* fall between them: the holder remembers the time of the last notify for *)
(* a while, and a registration compares it with the time its read began.   *)
(***************************************************************************)
EXTENDS Integers

CONSTANTS
  Pollers,   \* concurrent polls of the agent
  Rows,      \* its delivery rows
  MaxWait,   \* MAX_DELIVERY_WAIT_MS
  Memory,    \* DELIVERY_NOTIFY_MEMORY_MS
  Horizon    \* bound: the time at which the clock stops

ASSUME WaitAssumption == /\ MaxWait \in Nat
                         /\ Memory \in Nat
                         /\ Horizon \in Nat
                         /\ MaxWait <= Memory

VARIABLES
  now,           \* Date.now()
  row,           \* what the default queue makes of each row
  unsignalled,   \* rows whose creation has not notified yet
  quiet,         \* rows the agent itself deferred back into the queue
  lastNotified,  \* lastNotified of the agent, Never if it has no entry
  closed,        \* the runtime has shut the waiters down
  poll           \* the loop of each request

queueVars == <<row, unsignalled, quiet>>
vars == <<now, row, unsignalled, quiet, lastNotified, closed, poll>>

Never == -1
Done == [pc |-> "done", since |-> 0, deadline |-> 0]
Parked(p) == poll[p].pc = "parked"
Queued == {r \in Rows : row[r] = "active"}

-----------------------------------------------------------------------------
(* The queue *)

Create(r) ==
  /\ row[r] = "none"
  /\ row' = [row EXCEPT ![r] = "active"]
  /\ unsignalled' = unsignalled \cup {r}
  /\ UNCHANGED <<now, quiet, lastNotified, closed, poll>>

\* Ack, expiry, dead-lettering.
Settle(r) ==
  /\ row[r] \in {"active", "failed"}
  /\ row' = [row EXCEPT ![r] = "gone"]
  /\ UNCHANGED <<now, unsignalled, quiet, lastNotified, closed, poll>>

Fail(r) ==
  /\ row[r] = "active"
  /\ row' = [row EXCEPT ![r] = "failed"]
  /\ UNCHANGED <<now, unsignalled, quiet, lastNotified, closed, poll>>

\* The one transition that grows the queue without a notify.
Defer(r) ==
  /\ row[r] = "failed"
  /\ row' = [row EXCEPT ![r] = "active"]
  /\ quiet' = quiet \cup {r}
  /\ UNCHANGED <<now, unsignalled, lastNotified, closed, poll>>

-----------------------------------------------------------------------------
(* InProcessDeliveryWaiters *)

\* Mutant: the entry holds the time at which it lapses.
BugNotifyStoresExpiry(r) ==
  /\ r \in unsignalled
  /\ unsignalled' = unsignalled \ {r}
  /\ lastNotified' = now + Memory
  /\ poll' = [p \in Pollers |-> IF Parked(p) THEN [poll[p] EXCEPT !.pc = "list"] ELSE poll[p]]
  /\ UNCHANGED <<now, row, quiet, closed>>

\* notify: the time is recorded and every parked request lists again.
Notify(r) ==
  /\ r \in unsignalled
  /\ unsignalled' = unsignalled \ {r}
  /\ lastNotified' = now
  /\ poll' = [p \in Pollers |-> IF Parked(p) THEN [poll[p] EXCEPT !.pc = "list"] ELSE poll[p]]
  /\ UNCHANGED <<now, row, quiet, closed>>

\* The notify of another agent drops the entries that are too old.
NotifyOther ==
  /\ lastNotified # Never
  /\ now - lastNotified > Memory
  /\ lastNotified' = Never
  /\ UNCHANGED <<now, row, unsignalled, quiet, closed, poll>>

\* Mutant: a waiter's timer answers it only if it is the last one.
BugTimeoutLastOnly(p) ==
  /\ Parked(p) /\ now >= poll[p].deadline
  /\ \A q \in Pollers \ {p} : ~Parked(q)
  /\ poll' = [poll EXCEPT ![p] = Done]
  /\ UNCHANGED <<now, lastNotified, closed>>
  /\ UNCHANGED queueVars

Timeout(p) ==
  /\ Parked(p) /\ now >= poll[p].deadline
  /\ poll' = [poll EXCEPT ![p] = Done]
  /\ UNCHANGED <<now, lastNotified, closed>>
  /\ UNCHANGED queueVars

\* The client goes away.
Abort(p) ==
  /\ Parked(p)
  /\ poll' = [poll EXCEPT ![p] = Done]
  /\ UNCHANGED <<now, lastNotified, closed>>
  /\ UNCHANGED queueVars

Close ==
  /\ ~closed
  /\ closed' = TRUE
  /\ poll' = [p \in Pollers |-> IF Parked(p) THEN Done ELSE poll[p]]
  /\ UNCHANGED <<now, lastNotified>>
  /\ UNCHANGED queueVars

-----------------------------------------------------------------------------
(* The route *)

Begin(p, wait) ==
  /\ poll[p].pc = "done"
  /\ now + wait <= Horizon
  /\ poll' = [poll EXCEPT ![p] = [pc |-> "list", since |-> 0, deadline |-> now + wait]]
  /\ UNCHANGED <<now, lastNotified, closed>>
  /\ UNCHANGED queueVars

List(p) ==
  /\ poll[p].pc = "list"
  /\ poll' = [poll EXCEPT ![p].pc = "reading", ![p].since = now]
  /\ UNCHANGED <<now, lastNotified, closed>>
  /\ UNCHANGED queueVars

\* The statement of listDeliveries, some time after since was taken.
Read(p) ==
  /\ poll[p].pc = "reading"
  /\ poll' = [poll EXCEPT ![p].pc = IF Queued = {} THEN "empty" ELSE "rows"]
  /\ UNCHANGED <<now, lastNotified, closed>>
  /\ UNCHANGED queueVars

\* Mutant: the waiter registers whatever was notified since the read began.
BugParkBlindly(p) ==
  /\ poll[p].pc \in {"empty", "rows"}
  /\ IF poll[p].pc = "rows" \/ poll[p].deadline <= now \/ closed
     THEN poll' = [poll EXCEPT ![p] = Done]
     ELSE poll' = [poll EXCEPT ![p].pc = "parked"]
  /\ UNCHANGED <<now, lastNotified, closed>>
  /\ UNCHANGED queueVars

\* A request with rows, without time or after the shutdown is answered; one
\* that was overtaken by a notify lists again; any other parks.
Park(p) ==
  /\ poll[p].pc \in {"empty", "rows"}
  /\ IF poll[p].pc = "rows" \/ poll[p].deadline <= now \/ closed
     THEN poll' = [poll EXCEPT ![p] = Done]
     ELSE poll' = [poll EXCEPT ![p].pc =
                     IF lastNotified # Never /\ lastNotified >= poll[p].since
                     THEN "list" ELSE "parked"]
  /\ UNCHANGED <<now, lastNotified, closed>>
  /\ UNCHANGED queueVars

Tick ==
  /\ now < Horizon
  /\ now' = now + 1
  /\ UNCHANGED <<lastNotified, closed, poll>>
  /\ UNCHANGED queueVars

-----------------------------------------------------------------------------
Init ==
  /\ now = 0
  /\ row = [r \in Rows |-> "none"]
  /\ unsignalled = {} /\ quiet = {}
  /\ lastNotified = Never
  /\ closed = FALSE
  /\ poll = [p \in Pollers |-> Done]

Next ==
  \/ \E r \in Rows : Create(r) \/ Settle(r) \/ Fail(r) \/ Defer(r) \/ Notify(r)
  \/ NotifyOther
  \/ \E p \in Pollers : \/ \E wait \in 0..MaxWait : Begin(p, wait)
                        \/ List(p) \/ Read(p) \/ Park(p)
                        \/ Timeout(p) \/ Abort(p)
  \/ Close
  \/ Tick

\* Time passes, reads return and timers fire; nothing else must happen.
Fairness ==
  /\ WF_vars(Tick)
  /\ \A p \in Pollers : /\ WF_vars(List(p)) /\ WF_vars(Read(p))
                        /\ WF_vars(Park(p)) /\ WF_vars(Timeout(p))

Spec == Init /\ [][Next]_vars /\ Fairness

-----------------------------------------------------------------------------
(* Properties *)

Polls == [pc : {"done", "list", "reading", "empty", "rows", "parked"},
          since : Nat, deadline : Nat]

\* The remembered notify is never in the future.
TypeOK ==
  /\ now \in Nat
  /\ row \in [Rows -> {"none", "active", "failed", "gone"}]
  /\ unsignalled \in SUBSET Rows
  /\ quiet \in SUBSET Rows
  /\ lastNotified \in {Never} \cup (0..now)
  /\ closed \in BOOLEAN
  /\ poll \in [Pollers -> Polls]

\* No wake-up is lost: while a request is parked, every row of the queue is
\* one whose notify is still to come or one the agent deferred itself.
NoMissedWake ==
  \A p \in Pollers : Parked(p) => Queued \subseteq unsignalled \cup quiet

\* Every request is answered, whatever notifies wake it for nothing.
PollEnds == \A p \in Pollers : poll[p].pc # "done" ~> poll[p].pc = "done"

=============================================================================
