---------------------------- MODULE EventOutbox -----------------------------
(***************************************************************************)
(* The webhook outbox for one event: its `pending_events` row, the         *)
(* `webhook_deliveries` row of each subscriber, the pollers that deliver   *)
(* it and the replay of a failed delivery (engine/eventQueue.ts,           *)
(* engine/eventDelivery.ts, adapters/node/event-queue.ts).                 *)
(*                                                                         *)
(* Both rows are claimed by a lease: a claim moves the due time ahead, and *)
(* a claimant that dies or stalls past it is overtaken by another one.     *)
(* The outcome of an attempt is recorded only under the claim it was made  *)
(* under; the parent row is settled whoever has claimed it since.          *)
(***************************************************************************)
EXTENDS Integers

CONSTANTS
  Subs,        \* event subscriptions
  Workers,     \* pollers that share the database, each with one pass at a time
  None,        \* no worker
  Lease,       \* DELIVERY_LEASE_MS and leaseMs
  Delays,      \* WEBHOOK_RETRY_DELAYS_MS, by the attempt that failed
  MaxAttempts, \* MAX_DELIVERY_ATTEMPTS of one subscriber
  MaxClaims,   \* max_attempts of the parent row
  Backoff,     \* the parent's delay after a pass that a database error ended
  MaxFaults,   \* bound: crashes and database errors
  MaxChanges,  \* bound: subscriptions created or deleted
  MaxReplays,  \* bound: replays by an operator
  Horizon      \* bound: the time until which anyone may be late

ASSUME OutboxAssumption ==
  /\ None \notin Workers
  /\ Lease \in Nat \ {0} /\ Backoff \in Nat
  /\ MaxAttempts \in Nat \ {0} /\ MaxClaims \in Nat \ {0}
  /\ Delays \in [1..(MaxAttempts - 1) -> Nat \ {0}]
  /\ MaxFaults \in Nat /\ MaxChanges \in Nat /\ MaxReplays \in Nat
  /\ Horizon \in Nat

VARIABLES
  now,          \* the clock, in the seconds in which due times are stored
  parent,       \* the pending_events row
  initialized,  \* its webhook_initialized
  child,        \* the webhook_deliveries row of each subscriber
  sub,          \* the event_subscriptions row of each subscriber that matches
  pc,           \* where the pass of each worker is
  start,        \* the time it took at the start of deliverEvent
  claims,       \* the parent's attempts as claimed
  targets,      \* the subscriptions it read
  wait,         \* the delay it gives the parent's retry
  work,         \* its task for each subscriber
  token,        \* the row returned by the claim of that task
  owner,        \* the worker whose claim on each child row is the latest
  faults,       \* crashes and errors so far
  changes,      \* subscription changes so far
  replays       \* replays so far

envVars == <<now, sub>>
rowVars == <<parent, initialized, child>>
passVars == <<start, claims, targets, wait>>
taskVars == <<work, token, owner>>
boundVars == <<faults, changes, replays>>
vars == <<now, parent, initialized, child, sub, pc, start, claims, targets,
          wait, work, token, owner, faults, changes, replays>>

Terminal == {"succeeded", "failed", "dead_letter"}
NoRow == [status |-> "none", attempts |-> 0, next |-> 0]

Due(row, t) == row.status = "pending" /\ row.next <= t
Working(w) == \E s \in Subs : work[w][s] # "off"
Subscribed == {s \in Subs : sub[s] = "active"}
Pending == {s \in Subs : child[s].status = "pending"}

-----------------------------------------------------------------------------
(* DurableEventQueue.poll *)

\* failExhaustedDueEvents, the first statement of every poll.
FailExhausted ==
  /\ Due(parent, now) /\ parent.attempts >= MaxClaims
  /\ parent' = [parent EXCEPT !.status = "failed"]
  /\ UNCHANGED <<initialized, child, pc>>
  /\ UNCHANGED <<envVars, passVars, taskVars, boundVars>>

\* Mutant: only an event that was never claimed is claimed.
BugClaimOnce(w) ==
  /\ pc[w] = "idle" /\ ~Working(w)
  /\ Due(parent, now) /\ parent.attempts = 0
  /\ parent' = [status |-> "pending", attempts |-> parent.attempts + 1, next |-> now + Lease]
  /\ pc' = [pc EXCEPT ![w] = "targets"]
  /\ start' = [start EXCEPT ![w] = now]
  /\ claims' = [claims EXCEPT ![w] = parent.attempts + 1]
  /\ UNCHANGED <<initialized, child, targets, wait>>
  /\ UNCHANGED <<envVars, taskVars, boundVars>>

\* claimDueEvents, and the time at which deliverEvent starts.
ClaimEvent(w) ==
  /\ pc[w] = "idle" /\ ~Working(w)
  /\ Due(parent, now) /\ parent.attempts < MaxClaims
  /\ parent' = [status |-> "pending", attempts |-> parent.attempts + 1, next |-> now + Lease]
  /\ pc' = [pc EXCEPT ![w] = "targets"]
  /\ start' = [start EXCEPT ![w] = now]
  /\ claims' = [claims EXCEPT ![w] = parent.attempts + 1]
  /\ UNCHANGED <<initialized, child, targets, wait>>
  /\ UNCHANGED <<envVars, taskVars, boundVars>>

-----------------------------------------------------------------------------
(* deliverEvent *)

\* activeTargets.
ReadTargets(w) ==
  /\ pc[w] = "targets"
  /\ pc' = [pc EXCEPT ![w] = "parent"]
  /\ targets' = [targets EXCEPT ![w] = Subscribed]
  /\ UNCHANGED <<start, claims, wait>>
  /\ UNCHANGED <<envVars, rowVars, taskVars, boundVars>>

\* The read of initializePersistentDeliveries: an event that was deleted ends
\* the pass, one that was initialized keeps its rows.
ReadParent(w) ==
  /\ pc[w] = "parent"
  /\ pc' = [pc EXCEPT ![w] = CASE parent.status = "deleted" -> "complete"
                               [] parent.status # "deleted" /\ initialized -> "expire"
                               [] parent.status # "deleted" /\ ~initialized -> "insert"]
  /\ UNCHANGED <<envVars, rowVars, passVars, taskVars, boundVars>>

\* Its insert, which leaves the rows that exist alone; the foreign keys refuse
\* all of it if the event or one of the subscriptions was deleted meanwhile.
Refused(w) ==
  /\ targets[w] # {}
  /\ parent.status = "deleted" \/ \E s \in targets[w] : sub[s] = "deleted"

InsertChildren(w) ==
  /\ pc[w] = "insert"
  /\ \/ /\ ~Refused(w)
        /\ child' = [s \in Subs |->
                       IF s \in targets[w] /\ child[s].status = "none"
                       THEN [status |-> "pending", attempts |-> 0, next |-> start[w]]
                       ELSE child[s]]
        /\ pc' = [pc EXCEPT ![w] = "flag"]
        /\ UNCHANGED wait
     \/ /\ Refused(w)
        /\ pc' = [pc EXCEPT ![w] = "retry"]
        /\ wait' = [wait EXCEPT ![w] = Backoff]
        /\ UNCHANGED child
  /\ UNCHANGED <<parent, initialized, start, claims, targets>>
  /\ UNCHANGED <<envVars, taskVars, boundVars>>

SetInitialized(w) ==
  /\ pc[w] = "flag"
  /\ initialized' = (initialized \/ parent.status # "deleted")
  /\ pc' = [pc EXCEPT ![w] = "expire"]
  /\ UNCHANGED <<parent, child>>
  /\ UNCHANGED <<envVars, passVars, taskVars, boundVars>>

\* deadLetterExpiredFinalAttempts.
DeadLetterExpired(w) ==
  /\ pc[w] = "expire"
  /\ child' = [s \in Subs |->
                 IF Due(child[s], start[w]) /\ child[s].attempts >= MaxAttempts
                 THEN [child[s] EXCEPT !.status = "dead_letter"] ELSE child[s]]
  /\ pc' = [pc EXCEPT ![w] = "rows"]
  /\ UNCHANGED <<parent, initialized>>
  /\ UNCHANGED <<envVars, passVars, taskVars, boundVars>>

\* The rows that are due: one whose subscriber was not among the targets read
\* is to be failed, any other is to be claimed.  An event without rows is done.
ReadRows(w) ==
  /\ pc[w] = "rows"
  /\ work' = [work EXCEPT ![w] = [s \in Subs |->
                IF ~Due(child[s], start[w]) THEN "off"
                ELSE IF s \in targets[w] THEN "claim" ELSE "drop"]]
  /\ pc' = [pc EXCEPT ![w] = IF \A s \in Subs : child[s].status = "none"
                             THEN "complete" ELSE "work"]
  /\ UNCHANGED <<token, owner>>
  /\ UNCHANGED <<envVars, rowVars, passVars, boundVars>>

FailUnavailable(w, s) ==
  /\ work[w][s] = "drop"
  /\ child' = IF Due(child[s], start[w])
              THEN [child EXCEPT ![s].status = "failed"] ELSE child
  /\ work' = [work EXCEPT ![w][s] = "off"]
  /\ UNCHANGED <<parent, initialized, pc, token, owner>>
  /\ UNCHANGED <<envVars, passVars, boundVars>>

\* The claim returns the row; whoever lost it leaves the row alone.
ClaimDelivery(w, s) ==
  /\ work[w][s] = "claim"
  /\ \A r \in Subs : work[w][r] # "drop"
  /\ IF Due(child[s], start[w]) /\ child[s].attempts < MaxAttempts
     THEN /\ child' = [child EXCEPT ![s] = [status |-> "pending",
                                            attempts |-> child[s].attempts + 1,
                                            next |-> start[w] + Lease]]
          /\ token' = [token EXCEPT ![w][s] = [attempts |-> child[s].attempts + 1,
                                               next |-> start[w] + Lease]]
          /\ work' = [work EXCEPT ![w][s] = "post"]
          /\ owner' = [owner EXCEPT ![s] = w]
     ELSE /\ work' = [work EXCEPT ![w][s] = "off"]
          /\ UNCHANGED <<child, token, owner>>
  /\ UNCHANGED <<parent, initialized, pc>>
  /\ UNCHANGED <<envVars, passVars, boundVars>>

\* attemptDelivery.
Attempt(w, s, result) ==
  /\ work[w][s] = "post"
  /\ work' = [work EXCEPT ![w][s] = result]
  /\ UNCHANGED <<pc, token, owner>>
  /\ UNCHANGED <<envVars, rowVars, passVars, boundVars>>

\* Mutant: the settlement does not compare the due time.
BugOwnsAttempt(w, s) ==
  /\ child[s].status = "pending"
  /\ child[s].attempts = token[w][s].attempts

OwnsClaim(w, s) ==
  /\ child[s].status = "pending"
  /\ child[s].attempts = token[w][s].attempts
  /\ child[s].next = token[w][s].next

\* Mutant: the answer itself is stored as the row's status.
BugSettleStoresAnswer(w, s) ==
  /\ work[w][s] \in {"ok", "refused", "unanswered"}
  /\ child' = IF OwnsClaim(w, s) THEN [child EXCEPT ![s].status = work[w][s]] ELSE child
  /\ work' = [work EXCEPT ![w][s] = "off"]
  /\ UNCHANGED <<parent, initialized, pc, token, owner>>
  /\ UNCHANGED <<envVars, passVars, boundVars>>

\* The row after an attempt: retried after a delay unless it was the last one.
Outcome(row, answer, t) ==
  CASE answer = "ok" -> [row EXCEPT !.status = "succeeded"]
    [] answer = "refused" -> [row EXCEPT !.status = "failed"]
    [] answer = "unanswered" /\ row.attempts >= MaxAttempts ->
         [row EXCEPT !.status = "dead_letter"]
    [] answer = "unanswered" /\ row.attempts < MaxAttempts ->
         [row EXCEPT !.next = t + Delays[row.attempts]]

\* settleDelivery, which changes nothing when the claim was lost.
SettleDelivery(w, s) ==
  /\ work[w][s] \in {"ok", "refused", "unanswered"}
  /\ child' = IF OwnsClaim(w, s)
              THEN [child EXCEPT ![s] = Outcome(@, work[w][s], start[w])] ELSE child
  /\ work' = [work EXCEPT ![w][s] = "off"]
  /\ UNCHANGED <<parent, initialized, pc, token, owner>>
  /\ UNCHANGED <<envVars, passVars, boundVars>>

\* Mutant: the pass forgets the retries it has scheduled.
BugTallyIgnoresRetries(w) ==
  /\ pc[w] = "work" /\ ~Working(w)
  /\ pc' = [pc EXCEPT ![w] = IF \E s \in Subs : child[s].status \in {"failed", "dead_letter"}
                             THEN "fail" ELSE "complete"]
  /\ UNCHANGED <<envVars, rowVars, passVars, taskVars, boundVars>>

\* The rows are read once more: while one is pending the event is retried when
\* the earliest is due, otherwise it has failed or succeeded.
Tally(w) ==
  /\ pc[w] = "work" /\ ~Working(w)
  /\ \/ \E s \in Pending :
          /\ \A r \in Pending : child[s].next <= child[r].next
          /\ pc' = [pc EXCEPT ![w] = "retry"]
          /\ wait' = [wait EXCEPT ![w] = IF child[s].next < start[w] THEN 0
                                         ELSE child[s].next - start[w]]
     \/ /\ Pending = {}
        /\ pc' = [pc EXCEPT ![w] =
                    IF \E s \in Subs : child[s].status \in {"failed", "dead_letter"}
                    THEN "fail" ELSE "complete"]
        /\ UNCHANGED wait
  /\ UNCHANGED <<start, claims, targets>>
  /\ UNCHANGED <<envVars, rowVars, taskVars, boundVars>>

-----------------------------------------------------------------------------
(* DurableEventQueue.process *)

\* The variables of a pass that has ended; tasks that it left behind still
\* use its clock.
EndPass(w) ==
  /\ pc' = [pc EXCEPT ![w] = "idle"]
  /\ start' = [start EXCEPT ![w] = IF Working(w) THEN @ ELSE 0]
  /\ claims' = [claims EXCEPT ![w] = 0]
  /\ targets' = [targets EXCEPT ![w] = {}]
  /\ wait' = [wait EXCEPT ![w] = 0]

\* completeEvent, failEvent or rescheduleEvent: only a pending row changes.
Finish(w) ==
  /\ pc[w] \in {"complete", "fail", "retry"}
  /\ parent' =
       CASE parent.status # "pending" -> parent
         [] parent.status = "pending" /\ pc[w] = "complete" ->
              [parent EXCEPT !.status = "completed"]
         [] parent.status = "pending" /\ pc[w] = "retry" /\ claims[w] < MaxClaims ->
              [parent EXCEPT !.next = now + wait[w]]
         [] OTHER -> [parent EXCEPT !.status = "failed"]
  /\ EndPass(w)
  /\ UNCHANGED <<initialized, child>>
  /\ UNCHANGED <<envVars, taskVars, boundVars>>

\* A statement of the pass, its settlement included, is rejected: the event is
\* retried after a backoff.
Throw(w) ==
  /\ pc[w] \notin {"idle", "retry"} /\ ~Working(w)
  /\ faults < MaxFaults
  /\ pc' = [pc EXCEPT ![w] = "retry"]
  /\ wait' = [wait EXCEPT ![w] = Backoff]
  /\ faults' = faults + 1
  /\ UNCHANGED <<start, claims, targets, changes, replays>>
  /\ UNCHANGED <<envVars, rowVars, taskVars>>

\* A statement of one task is rejected, and with it Promise.all: the other
\* tasks that were started go on behind the pass.
ThrowTask(w, s) ==
  /\ pc[w] = "work" /\ work[w][s] \notin {"off", "post"}
  /\ faults < MaxFaults
  /\ work' = [work EXCEPT ![w] = [r \in Subs |->
                IF r = s \/ (work[w][s] = "drop" /\ work[w][r] = "claim")
                THEN "off" ELSE work[w][r]]]
  /\ pc' = [pc EXCEPT ![w] = "retry"]
  /\ wait' = [wait EXCEPT ![w] = Backoff]
  /\ faults' = faults + 1
  /\ UNCHANGED <<start, claims, targets, token, owner, changes, replays>>
  /\ UNCHANGED <<envVars, rowVars>>

\* The process dies in the middle of a pass.
Crash(w) ==
  /\ pc[w] # "idle" \/ Working(w)
  /\ faults < MaxFaults
  /\ EndPass(w)
  /\ work' = [work EXCEPT ![w] = [s \in Subs |-> "off"]]
  /\ faults' = faults + 1
  /\ UNCHANGED <<token, owner, changes, replays>>
  /\ UNCHANGED <<envVars, rowVars>>

-----------------------------------------------------------------------------
(* The rest of the system *)

\* cleanupOldEvents, when a settled event is old enough; its rows go with it.
Cleanup ==
  /\ parent.status \in {"completed", "failed"}
  /\ parent' = [parent EXCEPT !.status = "deleted"]
  /\ child' = [s \in Subs |-> NoRow]
  /\ UNCHANGED <<initialized, pc>>
  /\ UNCHANGED <<envVars, passVars, taskVars, boundVars>>

\* replayWebhookDelivery: the failed row and its event become pending and due
\* in one atomic write.
Replay(s) ==
  /\ child[s].status \in {"failed", "dead_letter"} /\ replays < MaxReplays
  /\ parent' = [status |-> "pending", attempts |-> 0, next |-> now]
  /\ child' = [child EXCEPT ![s] = [status |-> "pending", attempts |-> 0, next |-> now]]
  /\ replays' = replays + 1
  /\ UNCHANGED <<initialized, pc, faults, changes>>
  /\ UNCHANGED <<envVars, passVars, taskVars>>

\* createSubscription.
Subscribe(s) ==
  /\ sub[s] = "future" /\ changes < MaxChanges
  /\ sub' = [sub EXCEPT ![s] = "active"]
  /\ changes' = changes + 1
  /\ UNCHANGED <<now, pc, faults, replays>>
  /\ UNCHANGED <<rowVars, passVars, taskVars>>

\* deleteSubscription; its delivery rows go with it.
Unsubscribe(s) ==
  /\ sub[s] = "active" /\ changes < MaxChanges
  /\ sub' = [sub EXCEPT ![s] = "deleted"]
  /\ child' = [child EXCEPT ![s] = NoRow]
  /\ changes' = changes + 1
  /\ UNCHANGED <<now, parent, initialized, pc, faults, replays>>
  /\ UNCHANGED <<passVars, taskVars>>

\* From the horizon on, only until the event is due.
Tick ==
  /\ now < Horizon \/ (parent.status = "pending" /\ now < parent.next)
  /\ now' = now + 1
  /\ UNCHANGED <<sub, pc>>
  /\ UNCHANGED <<rowVars, passVars, taskVars, boundVars>>

-----------------------------------------------------------------------------
Init ==
  /\ now = 0
  /\ parent = [status |-> "pending", attempts |-> 0, next |-> 0]
  /\ initialized = FALSE
  /\ child = [s \in Subs |-> NoRow]
  /\ sub \in [Subs -> {"future", "active"}]
  /\ pc = [w \in Workers |-> "idle"]
  /\ start = [w \in Workers |-> 0]
  /\ claims = [w \in Workers |-> 0]
  /\ targets = [w \in Workers |-> {}]
  /\ wait = [w \in Workers |-> 0]
  /\ work = [w \in Workers |-> [s \in Subs |-> "off"]]
  /\ token = [w \in Workers |-> [s \in Subs |-> [attempts |-> 0, next |-> 0]]]
  /\ owner = [s \in Subs |-> None]
  /\ faults = 0 /\ changes = 0 /\ replays = 0

Task(w, s) ==
  \/ FailUnavailable(w, s)
  \/ ClaimDelivery(w, s)
  \/ \E result \in {"ok", "refused", "unanswered"} : Attempt(w, s, result)
  \/ SettleDelivery(w, s)

Pass(w) ==
  \/ ReadTargets(w) \/ ReadParent(w) \/ InsertChildren(w) \/ SetInitialized(w)
  \/ DeadLetterExpired(w) \/ ReadRows(w)
  \/ \E s \in Subs : Task(w, s)
  \/ Tally(w) \/ Finish(w)

Next ==
  \/ FailExhausted
  \/ \E w \in Workers : \/ ClaimEvent(w) \/ Pass(w) \/ Throw(w) \/ Crash(w)
                        \/ \E s \in Subs : ThrowTask(w, s)
  \/ Cleanup
  \/ \E s \in Subs : Replay(s) \/ Subscribe(s) \/ Unsubscribe(s)
  \/ Tick

\* Time passes, the poller's timer fires, and a pass that was started goes on
\* unless it crashes.
Fairness ==
  /\ WF_vars(Tick)
  /\ WF_vars(FailExhausted)
  /\ \A w \in Workers : WF_vars(ClaimEvent(w)) /\ WF_vars(Pass(w))

Spec == Init /\ [][Next]_vars /\ Fairness

-----------------------------------------------------------------------------
(* Properties *)

Phases == {"idle", "targets", "parent", "insert", "flag", "expire", "rows",
           "work", "complete", "fail", "retry"}
TaskStates == {"off", "drop", "claim", "post", "ok", "refused", "unanswered"}

\* The rows, leases and tasks are well formed: a delivery row only ever has a
\* status of the webhook_deliveries table.
TypeOK ==
  /\ now \in Nat
  /\ parent \in [status : {"pending", "completed", "failed", "deleted"},
                 attempts : Nat, next : Nat]
  /\ initialized \in BOOLEAN
  /\ child \in [Subs -> [status : Terminal \cup {"none", "pending"},
                         attempts : Nat, next : Nat]]
  /\ sub \in [Subs -> {"future", "active", "deleted"}]
  /\ pc \in [Workers -> Phases]
  /\ start \in [Workers -> Nat]
  /\ claims \in [Workers -> Nat]
  /\ targets \in [Workers -> SUBSET Subs]
  /\ wait \in [Workers -> Nat]
  /\ work \in [Workers -> [Subs -> TaskStates]]
  /\ token \in [Workers -> [Subs -> [attempts : Nat, next : Nat]]]
  /\ owner \in [Subs -> Workers \cup {None}]
  /\ faults \in Nat /\ changes \in Nat /\ replays \in Nat

\* An outcome is recorded only by the worker that claimed the row last: one
\* that was overtaken, even if an operator has replayed the row since, changes
\* nothing when it resumes.
OwnerSettles ==
  [][\A w \in Workers, s \in Subs :
       SettleDelivery(w, s) /\ child'[s] # child[s] => owner[s] = w]_vars

\* No delivery is stranded: while a subscriber's row is pending its event is
\* pending too, so that some poll will claim it.
NoneStranded == Pending # {} => parent.status = "pending"

\* Every event is settled in the end.
EventSettles == parent.status = "pending" ~> parent.status # "pending"

=============================================================================
