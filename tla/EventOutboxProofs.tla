------------------------- MODULE EventOutboxProofs --------------------------
(***************************************************************************)
(* The proof that only the latest claimant of a webhook delivery records   *)
(* an outcome.  A claim is recognised by the pair (attempts, due time) of  *)
(* the row it returned.  Neither half would do: a retry moves the due time *)
(* back below that of the claim, and a replay resets the attempts.         *)
(*                                                                         *)
(* Then the proof that one poller leaves no pending row under a failed     *)
(* event, by what its passes are paid with: each claim of the event goes   *)
(* with the progress of some row or with a fault, so that the rows come to *)
(* an end before the claims do.  Without faults the rows move in step and  *)
(* the number of subscribers does not matter.                              *)
(***************************************************************************)
EXTENDS EventOutbox, FiniteSetTheorems, TLAPS

Holds(w, s) == work[w][s] \in {"post", "ok", "refused", "unanswered"}

\* The row can never come back.
Gone(s) == parent.status = "deleted" \/ sub[s] = "deleted"

\* The row has moved past the claim of w.
Stale(w, s) ==
  \/ child[s].status = "none" /\ Gone(s)
  \/ child[s].next > token[w][s].next
  \/ child[s].attempts = 0 /\ child[s].next >= token[w][s].next

\* The row is as the claim of w left it.
Current(w, s) ==
  /\ owner[s] = w
  /\ child[s].next = token[w][s].next
  /\ child[s].attempts = token[w][s].attempts

Starts == \A w \in Workers : start[w] <= now

Deleted == \A s \in Subs : Gone(s) => child[s].status = "none"

Claims ==
  \A w \in Workers, s \in Subs : Holds(w, s) =>
    /\ token[w][s].attempts >= 1
    /\ token[w][s].next = start[w] + Lease
    /\ Stale(w, s) \/ Current(w, s)
    /\ child[s].status \in Terminal => token[w][s].next <= now

\* Every other claim had lapsed when the current one was made.
Lapsed ==
  \A w, v \in Workers, s \in Subs :
    (Holds(w, s) /\ Holds(v, s) /\ w # v /\ Current(v, s))
      => token[w][s].next <= start[v]

ClaimInv == Starts /\ Deleted /\ Claims /\ Lapsed

-----------------------------------------------------------------------------
ParentRows == [status : {"pending", "completed", "failed", "deleted"},
               attempts : Nat, next : Nat]
ChildRows == [status : {"none", "pending", "succeeded", "failed", "dead_letter"},
              attempts : Nat, next : Nat]

\* settleDelivery leaves a well-formed row.
LEMMA OutcomeType ==
  ASSUME NEW row \in ChildRows, NEW answer \in {"ok", "refused", "unanswered"},
         NEW t \in Nat, row.attempts >= 1
  PROVE  Outcome(row, answer, t) \in ChildRows
<1> USE OutboxAssumption
<1>1. CASE answer = "unanswered" /\ row.attempts < MaxAttempts
  <2> DEFINE n == t + Delays[row.attempts]
  <2>1. n \in Nat
    BY <1>1 DEF ChildRows
  <2>2. Outcome(row, answer, t) = [row EXCEPT !.next = n]
    BY <1>1 DEF Outcome
  <2> HIDE DEF n
  <2>3. [row EXCEPT !.next = n] \in ChildRows
    BY <2>1 DEF ChildRows
  <2>. QED BY <2>2, <2>3
<1>2. CASE answer # "unanswered"
  BY <1>2 DEF ChildRows, Outcome
<1>3. CASE answer = "unanswered" /\ row.attempts >= MaxAttempts
  <2>1. Outcome(row, answer, t) = [row EXCEPT !.status = "dead_letter"]
    <3>1. ~(row.attempts < MaxAttempts)
      BY <1>3 DEF ChildRows
    <3>. QED BY <1>3, <3>1, Zenon DEF Outcome
  <2>2. [row EXCEPT !.status = "dead_letter"] \in ChildRows
    BY DEF ChildRows
  <2>. QED BY <2>1, <2>2
<1>. QED BY <1>1, <1>2, <1>3 DEF ChildRows

\* TypeOK with the shapes of the rows under a name.
Tokens == [attempts : Nat, next : Nat]
Types ==
  /\ now \in Nat
  /\ parent \in ParentRows
  /\ initialized \in BOOLEAN
  /\ child \in [Subs -> ChildRows]
  /\ sub \in [Subs -> {"future", "active", "deleted"}]
  /\ pc \in [Workers -> Phases]
  /\ start \in [Workers -> Nat]
  /\ claims \in [Workers -> Nat]
  /\ targets \in [Workers -> SUBSET Subs]
  /\ wait \in [Workers -> Nat]
  /\ work \in [Workers -> [Subs -> TaskStates]]
  /\ token \in [Workers -> [Subs -> Tokens]]
  /\ owner \in [Subs -> Workers \cup {None}]
  /\ faults \in Nat /\ changes \in Nat /\ replays \in Nat

\* Both are the same.
LEMMA TypesAreTypeOK == TypeOK <=> Types
<1>1. ChildRows = [status : Terminal \cup {"none", "pending"}, attempts : Nat, next : Nat]
  BY DEF ChildRows, Terminal
<1>. QED BY <1>1 DEF TypeOK, Types, ParentRows, Tokens

\* Every step of EventOutbox preserves the types.
LEMMA TypeStep == Types /\ Claims /\ [Next]_vars => Types'
<1>. SUFFICES ASSUME Types, Claims, [Next]_vars PROVE Types'
  OBVIOUS
<1>0. Lease \in Nat /\ Backoff \in Nat
  BY OutboxAssumption
<1> USE <1>0 DEF Types, envVars, rowVars, passVars, taskVars, boundVars
<1>1. CASE UNCHANGED vars
  BY <1>1 DEF vars
<1>2. CASE FailExhausted
  <2>1. parent' \in ParentRows
    BY <1>2 DEF FailExhausted, ParentRows
  <2>. QED BY <1>2, <2>1 DEF FailExhausted
<1>3. ASSUME NEW w \in Workers, ClaimEvent(w) PROVE Types'
  <2>1. parent.attempts + 1 \in Nat /\ now + Lease \in Nat
    BY DEF ParentRows
  <2>2. parent' \in ParentRows
    BY <1>3, <2>1 DEF ClaimEvent, ParentRows
  <2>. QED BY <1>3, <2>1, <2>2 DEF ClaimEvent, Phases
<1>4. ASSUME NEW w \in Workers, Pass(w) PROVE Types'
  <2>1. CASE ReadTargets(w)
    <3>1. Subscribed \in SUBSET Subs
      BY DEF Subscribed
    <3>. QED BY <2>1, <3>1 DEF ReadTargets, Phases
  <2>2. CASE ReadParent(w)
    <3>1. pc' \in [Workers -> Phases]
      BY <2>2, initialized \in BOOLEAN DEF ReadParent, Phases
    <3>. QED BY <2>2, <3>1 DEF ReadParent
  <2>3. CASE InsertChildren(w)
    <3>1. child' \in [Subs -> ChildRows]
      <4>1. [status |-> "pending", attempts |-> 0, next |-> start[w]] \in ChildRows
        BY DEF ChildRows
      <4>. QED BY <2>3, <4>1 DEF InsertChildren
    <3>2. wait' = wait \/ wait' = [wait EXCEPT ![w] = Backoff]
      BY <2>3 DEF InsertChildren
    <3>3. pc' = [pc EXCEPT ![w] = "flag"] \/ pc' = [pc EXCEPT ![w] = "retry"]
      BY <2>3 DEF InsertChildren
    <3>4. wait' \in [Workers -> Nat]
      BY ONLY <1>0, <3>2, w \in Workers, wait \in [Workers -> Nat]
    <3>5. "flag" \in Phases /\ "retry" \in Phases
      BY DEF Phases
    <3>6. pc' \in [Workers -> Phases]
      BY ONLY <3>3, <3>5, w \in Workers, pc \in [Workers -> Phases]
    <3>. QED BY <2>3, <3>1, <3>4, <3>6 DEF InsertChildren
  <2>4. CASE SetInitialized(w)
    BY <2>4 DEF SetInitialized, Phases
  <2>5. CASE DeadLetterExpired(w)
    <3>1. ASSUME NEW s \in Subs
          PROVE  [child[s] EXCEPT !.status = "dead_letter"] \in ChildRows
      <4>1. child[s] \in ChildRows
        OBVIOUS
      <4>. QED BY <4>1 DEF ChildRows
    <3>. QED BY <2>5, <3>1 DEF DeadLetterExpired, Phases
  <2>6. CASE ReadRows(w)
    BY <2>6 DEF ReadRows, Phases, TaskStates
  <2>7. ASSUME NEW s \in Subs, Task(w, s) PROVE Types'
    <3>1. CASE FailUnavailable(w, s)
      <4>0. child[s] \in ChildRows
        OBVIOUS
      <4>1. [child[s] EXCEPT !.status = "failed"] \in ChildRows
        BY <4>0 DEF ChildRows
      <4>2. child' \in [Subs -> ChildRows]
        BY <3>1, <4>1 DEF FailUnavailable
      <4>. QED BY <3>1, <4>2 DEF FailUnavailable, TaskStates
    <3>2. CASE ClaimDelivery(w, s)
      <4>0. child[s].attempts + 1 \in Nat /\ start[w] + Lease \in Nat
        <5>1. child[s] \in ChildRows
          OBVIOUS
        <5>. QED BY <5>1 DEF ChildRows
      <4>1. [status |-> "pending", attempts |-> child[s].attempts + 1,
             next |-> start[w] + Lease] \in ChildRows
        BY <4>0 DEF ChildRows
      <4>2. child' \in [Subs -> ChildRows]
        BY <3>2, <4>1 DEF ClaimDelivery
      <4>3. [attempts |-> child[s].attempts + 1, next |-> start[w] + Lease] \in Tokens
        BY <4>0 DEF Tokens
      <4>4. \/ /\ child' = [child EXCEPT ![s] = [status |-> "pending",
                              attempts |-> child[s].attempts + 1, next |-> start[w] + Lease]]
               /\ token' = [token EXCEPT ![w][s] = [attempts |-> child[s].attempts + 1,
                                                    next |-> start[w] + Lease]]
               /\ work' = [work EXCEPT ![w][s] = "post"]
               /\ owner' = [owner EXCEPT ![s] = w]
            \/ /\ work' = [work EXCEPT ![w][s] = "off"]
               /\ UNCHANGED <<child, token, owner>>
        BY <3>2, Zenon DEF ClaimDelivery
      <4>5. work' \in [Workers -> [Subs -> TaskStates]]
        <5>1. "post" \in TaskStates /\ "off" \in TaskStates
          BY DEF TaskStates
        <5>. QED BY ONLY <4>4, <5>1, work \in [Workers -> [Subs -> TaskStates]], w \in Workers, s \in Subs
      <4>6. token' \in [Workers -> [Subs -> Tokens]]
        BY ONLY <4>3, <4>4, token \in [Workers -> [Subs -> Tokens]], w \in Workers, s \in Subs
      <4>7. owner' \in [Subs -> Workers \cup {None}]
        BY <4>4
      <4>. QED BY <3>2, <4>2, <4>5, <4>6, <4>7 DEF ClaimDelivery
    <3>3. ASSUME NEW result \in {"ok", "refused", "unanswered"}, Attempt(w, s, result)
          PROVE  Types'
      BY <3>3 DEF Attempt, TaskStates
    <3>4. CASE SettleDelivery(w, s)
      <4>1. CASE OwnsClaim(w, s)
        <5>1. child[s] \in ChildRows /\ child[s].attempts >= 1
          BY <3>4, <4>1 DEF SettleDelivery, OwnsClaim, Claims, Holds
        <5>2. Outcome(child[s], work[w][s], start[w]) \in ChildRows
          BY <3>4, <5>1, OutcomeType DEF SettleDelivery
        <5>. QED BY <3>4, <4>1, <5>2 DEF SettleDelivery, TaskStates
      <4>2. CASE ~OwnsClaim(w, s)
        BY <3>4, <4>2 DEF SettleDelivery, TaskStates
      <4>. QED BY <4>1, <4>2
    <3>. QED BY <2>7, <3>1, <3>2, <3>3, <3>4 DEF Task
  <2>8. CASE Tally(w)
    <3>1. ASSUME NEW s \in Subs
          PROVE  (IF child[s].next < start[w] THEN 0 ELSE child[s].next - start[w]) \in Nat
      <4>0. child[s] \in ChildRows /\ start[w] \in Nat
        OBVIOUS
      <4>1. child[s].next \in Nat
        BY <4>0 DEF ChildRows
      <4>. QED BY ONLY <4>0, <4>1
    <3>2. wait' = wait \/ \E s \in Subs : wait' = [wait EXCEPT ![w] =
            IF child[s].next < start[w] THEN 0 ELSE child[s].next - start[w]]
      BY <2>8 DEF Tally, Pending
    <3>3. wait' \in [Workers -> Nat]
      BY ONLY <3>1, <3>2, w \in Workers, wait \in [Workers -> Nat]
    <3>. QED BY <2>8, <3>3 DEF Tally, Phases
  <2>9. CASE Finish(w)
    <3>1. parent' \in ParentRows
      <4>1. /\ [parent EXCEPT !.status = "completed"] \in ParentRows
            /\ [parent EXCEPT !.status = "failed"] \in ParentRows
            /\ [parent EXCEPT !.next = now + wait[w]] \in ParentRows
        <5>1. now + wait[w] \in Nat
          OBVIOUS
        <5>. QED BY <5>1 DEF ParentRows
      <4>. QED BY <2>9, <4>1 DEF Finish
    <3>. QED BY <2>9, <3>1 DEF Finish, EndPass, Phases
  <2>. QED BY <1>4, <2>1, <2>2, <2>3, <2>4, <2>5, <2>6, <2>7, <2>8, <2>9 DEF Pass
<1>5. ASSUME NEW w \in Workers, Throw(w) PROVE Types'
  BY <1>5 DEF Throw, Phases
<1>6. ASSUME NEW w \in Workers, Crash(w) PROVE Types'
  BY <1>6 DEF Crash, EndPass, Phases, TaskStates
<1>7. ASSUME NEW w \in Workers, NEW s \in Subs, ThrowTask(w, s) PROVE Types'
  BY <1>7 DEF ThrowTask, Phases, TaskStates
<1>8. CASE Cleanup
  <2>1. parent' \in ParentRows /\ NoRow \in ChildRows
    BY <1>8 DEF Cleanup, ParentRows, NoRow, ChildRows
  <2>. QED BY <1>8, <2>1 DEF Cleanup
<1>9. ASSUME NEW s \in Subs, Replay(s) PROVE Types'
  <2>1. /\ [status |-> "pending", attempts |-> 0, next |-> now] \in ChildRows
        /\ parent' \in ParentRows
    BY <1>9 DEF Replay, ParentRows, ChildRows
  <2>. QED BY <1>9, <2>1 DEF Replay
<1>10. ASSUME NEW s \in Subs, Subscribe(s) PROVE Types'
  BY <1>10 DEF Subscribe
<1>11. ASSUME NEW s \in Subs, Unsubscribe(s) PROVE Types'
  <2>1. NoRow \in ChildRows
    BY DEF NoRow, ChildRows
  <2>. QED BY <1>11, <2>1 DEF Unsubscribe
<1>12. CASE Tick
  BY <1>12 DEF Tick
<1>. QED BY <1>1, <1>2, <1>3, <1>4, <1>5, <1>6, <1>7, <1>8, <1>9, <1>10, <1>11, <1>12
        DEF Next

-----------------------------------------------------------------------------
\* What the invariants compare are numbers.
LEMMA Numbers ==
  ASSUME Types
  PROVE  /\ now \in Nat
         /\ \A w \in Workers : start[w] \in Nat
         /\ \A s \in Subs : child[s].next \in Nat /\ child[s].attempts \in Nat
         /\ \A w \in Workers, s \in Subs :
              token[w][s].next \in Nat /\ token[w][s].attempts \in Nat
BY DEF Types, ChildRows, Tokens

\* A step that leaves the children, the claims and the clocks of the running
\* tasks alone preserves the invariant.
LEMMA Frame ==
  ASSUME Types, Types', ClaimInv,
         child' = child, token' = token, owner' = owner, now <= now',
         \A s \in Subs : Gone(s)' <=> Gone(s),
         \A w \in Workers : start'[w] <= now',
         \A w \in Workers, s \in Subs :
           Holds(w, s)' => Holds(w, s) /\ start'[w] = start[w]
  PROVE  ClaimInv'
<1> USE Numbers
<1>1. now' \in Nat
  BY DEF Types
<1>2. Starts' /\ Deleted'
  BY DEF ClaimInv, Starts, Deleted
<1>3. Claims'
  BY <1>1 DEF ClaimInv, Claims, Stale, Current
<1>4. Lapsed'
  BY DEF ClaimInv, Lapsed, Current
<1>. QED BY <1>2, <1>3, <1>4 DEF ClaimInv

\* Settling rows that are due, as the pass of a worker sees it, without moving
\* their due time preserves the invariant.
LEMMA SettleDue ==
  ASSUME Types, Types', ClaimInv, NEW v \in Workers,
         UNCHANGED <<now, parent, sub, start, token, owner>>,
         \A w \in Workers, s \in Subs : Holds(w, s)' => Holds(w, s),
         \A s \in Subs :
           \/ child'[s] = child[s]
           \/ /\ Due(child[s], start[v])
              /\ child'[s].status \in Terminal
              /\ child'[s].next = child[s].next
              /\ child'[s].attempts = child[s].attempts
  PROVE  ClaimInv'
<1> USE Numbers
<1>1. Starts'
  BY DEF ClaimInv, Starts
<1>2. Deleted'
  BY DEF ClaimInv, Deleted, Due, Gone
<1>3. ASSUME NEW w \in Workers, NEW s \in Subs, Holds(w, s)'
      PROVE  /\ token'[w][s].attempts >= 1
             /\ token'[w][s].next = start'[w] + Lease
             /\ Stale(w, s)' \/ Current(w, s)'
             /\ child'[s].status \in Terminal => token'[w][s].next <= now'
  <2>1. /\ token[w][s].attempts >= 1
        /\ token[w][s].next = start[w] + Lease
        /\ Stale(w, s) \/ Current(w, s)
        /\ child[s].status \in Terminal => token[w][s].next <= now
    BY <1>3 DEF ClaimInv, Claims
  <2>2. CASE child'[s] = child[s]
    BY <2>1, <2>2 DEF Stale, Current, Gone
  <2>3. CASE Due(child[s], start[v]) /\ child'[s] # child[s]
    <3>1. token[w][s].next <= child[s].next
      BY <2>1, <2>3 DEF Stale, Current, Due
    <3>2. child[s].next <= now
      BY <2>3 DEF Due, ClaimInv, Starts
    <3>. QED BY <2>1, <2>3, <3>1, <3>2 DEF Stale, Current, Due
  <2>. QED BY <2>2, <2>3
<1>4. Claims'
  BY <1>3 DEF Claims
<1>5. Lapsed'
  BY DEF ClaimInv, Lapsed, Current
<1>. QED BY <1>1, <1>2, <1>4, <1>5 DEF ClaimInv

\* A claim leaves every other claim on the row behind.
LEMMA ClaimStep ==
  ASSUME Types, Types', ClaimInv, NEW v \in Workers, NEW r \in Subs, ClaimDelivery(v, r)
  PROVE  ClaimInv'
<1> USE Numbers DEF envVars, passVars
<1>0. Lease \in Nat \ {0}
  BY OutboxAssumption
<1>1. CASE ~(Due(child[r], start[v]) /\ child[r].attempts < MaxAttempts)
  <2>1. \A w \in Workers, s \in Subs : Holds(w, s)' => Holds(w, s)
    <3>1. work' = [work EXCEPT ![v][r] = "off"]
      BY <1>1, Zenon DEF ClaimDelivery
    <3>. QED BY ONLY <3>1, Types, v \in Workers, r \in Subs DEF Holds, Types
  <2>. QED BY <1>1, <2>1, Frame DEF ClaimDelivery, ClaimInv, Starts, Gone
<1>2. CASE Due(child[r], start[v]) /\ child[r].attempts < MaxAttempts
  <2>1. /\ child' = [child EXCEPT ![r] = [status |-> "pending",
                       attempts |-> child[r].attempts + 1, next |-> start[v] + Lease]]
        /\ token' = [token EXCEPT ![v][r] = [attempts |-> child[r].attempts + 1,
                                             next |-> start[v] + Lease]]
        /\ work' = [work EXCEPT ![v][r] = "post"]
        /\ owner' = [owner EXCEPT ![r] = v]
        /\ UNCHANGED <<parent, sub, now, start>>
    BY <1>2 DEF ClaimDelivery
  <2>2. \A w \in Workers, s \in Subs :
          w # v \/ s # r => (Holds(w, s)' <=> Holds(w, s)) /\ token'[w][s] = token[w][s]
    BY <2>1 DEF Holds, Types
  <2>3. \A s \in Subs : s # r => child'[s] = child[s] /\ owner'[s] = owner[s]
    BY <2>1 DEF Types
  <2>4. /\ child'[r].status = "pending" /\ child'[r].next = start[v] + Lease
        /\ child'[r].attempts = child[r].attempts + 1
        /\ token'[v][r].next = start[v] + Lease
        /\ token'[v][r].attempts = child[r].attempts + 1
        /\ owner'[r] = v
    BY <2>1 DEF Types
  <2>5. ASSUME NEW w \in Workers, w # v, Holds(w, r)
        PROVE  token[w][r].next <= start[v]
    BY <2>5, <1>2 DEF ClaimInv, Claims, Stale, Current, Due
  <2>6. Starts'
    BY <2>1 DEF ClaimInv, Starts
  <2>7. Deleted'
    BY <1>2, <2>1, <2>3 DEF ClaimInv, Deleted, Due, Gone
  <2>8. ASSUME NEW w \in Workers, NEW s \in Subs, Holds(w, s)'
        PROVE  /\ token'[w][s].attempts >= 1
               /\ token'[w][s].next = start'[w] + Lease
               /\ Stale(w, s)' \/ Current(w, s)'
               /\ child'[s].status \in Terminal => token'[w][s].next <= now'
    <3>1. CASE s # r
      BY <2>1, <2>2, <2>3, <2>8, <3>1 DEF ClaimInv, Claims, Stale, Current, Gone
    <3>2. CASE s = r /\ w # v
      <4>1. Holds(w, s) /\ token'[w][s] = token[w][s]
        BY <2>2, <2>8, <3>2
      <4>2. token'[w][s].next < child'[s].next
        BY <1>0, <2>4, <2>5, <3>2, <4>1
      <4>3. child'[s].status \notin Terminal
        BY <2>4, <3>2 DEF Terminal
      <4>. QED BY <2>1, <4>1, <4>2, <4>3, <3>2 DEF ClaimInv, Claims, Stale
    <3>3. CASE s = r /\ w = v
      BY <2>1, <2>4, <3>3 DEF Current, Terminal
    <3>. QED BY <3>1, <3>2, <3>3
  <2>9. Claims'
    BY <2>8 DEF Claims
  <2>10. ASSUME NEW w \in Workers, NEW u \in Workers, NEW s \in Subs,
                Holds(w, s)', Holds(u, s)', w # u, Current(u, s)'
         PROVE  token'[w][s].next <= start'[u]
    <3>1. CASE s # r
      BY <2>1, <2>2, <2>3, <2>10, <3>1 DEF ClaimInv, Lapsed, Current
    <3>2. CASE s = r
      <4>1. u = v
        BY <2>4, <2>10, <3>2 DEF Current
      <4>. QED BY <2>1, <2>2, <2>5, <2>10, <3>2, <4>1
    <3>. QED BY <3>1, <3>2
  <2>11. Lapsed'
    BY <2>10 DEF Lapsed
  <2>. QED BY <2>6, <2>7, <2>9, <2>11 DEF ClaimInv
<1>. QED BY <1>1, <1>2

\* A task whose claim the row still shows is the latest claimant.
LEMMA OwnerOfClaim ==
  ASSUME Types, ClaimInv, NEW v \in Workers, NEW r \in Subs, Holds(v, r), OwnsClaim(v, r)
  PROVE  Current(v, r)
BY Numbers DEF ClaimInv, Claims, Stale, OwnsClaim

\* The owner's outcome, a retry included, stays ahead of the lapsed claims.
LEMMA SettleStep ==
  ASSUME Types, Types', ClaimInv, NEW v \in Workers, NEW r \in Subs, SettleDelivery(v, r)
  PROVE  ClaimInv'
<1> USE Numbers DEF envVars, passVars
<1>1. Holds(v, r)
  BY DEF SettleDelivery, Holds
<1>2. \A w \in Workers, s \in Subs :
        Holds(w, s)' => Holds(w, s) /\ ~(w = v /\ s = r)
  BY DEF SettleDelivery, Holds, Types
<1>3. CASE ~OwnsClaim(v, r)
  BY <1>2, <1>3, Frame DEF SettleDelivery, ClaimInv, Starts, Gone
<1>4. CASE OwnsClaim(v, r)
  <2>1. /\ Current(v, r)
        /\ child[r] \in ChildRows /\ child[r].status = "pending" /\ child[r].attempts >= 1
    BY <1>1, <1>4, OwnerOfClaim DEF OwnsClaim, ClaimInv, Claims, Types
  <2>2. /\ UNCHANGED <<parent, sub, now, start, token, owner>>
        /\ child' = [child EXCEPT ![r] = Outcome(child[r], work[v][r], start[v])]
        /\ work[v][r] \in {"ok", "refused", "unanswered"}
    BY <1>4 DEF SettleDelivery
  <2>3. \A s \in Subs : s # r => child'[s] = child[s]
    BY <2>2 DEF Types
  <2>4. /\ child'[r].attempts = child[r].attempts
        /\ \/ child'[r].status \in Terminal /\ child'[r].next = child[r].next
           \/ child'[r].status = "pending" /\ child'[r].next > start[v]
    <3>1. child'[r] = Outcome(child[r], work[v][r], start[v])
      BY <2>2 DEF Types
    <3>2. CASE work[v][r] = "unanswered" /\ child[r].attempts < MaxAttempts
      <4>1. Delays[child[r].attempts] \in Nat \ {0}
        BY <2>1, <3>2, OutboxAssumption
      <4>2. child'[r] = [child[r] EXCEPT !.next = start[v] + Delays[child[r].attempts]]
        BY <3>1, <3>2 DEF Outcome
      <4>. QED BY <2>1, <4>1, <4>2 DEF ChildRows
    <3>3. CASE ~(work[v][r] = "unanswered" /\ child[r].attempts < MaxAttempts)
      <4>1. \E st \in Terminal : child'[r] = [child[r] EXCEPT !.status = st]
        <5>1. MaxAttempts \in Nat
          BY OutboxAssumption
        <5>. QED BY <2>2, <3>1, <3>3, <5>1 DEF Outcome, Terminal
      <4>. QED BY <2>1, <4>1 DEF ChildRows
    <3>. QED BY <3>2, <3>3
  <2>5. Starts'
    BY <2>2 DEF ClaimInv, Starts
  <2>6. Deleted'
    BY <2>1, <2>2, <2>3 DEF ClaimInv, Deleted, Gone
  <2>7. ASSUME NEW w \in Workers, NEW s \in Subs, Holds(w, s)'
        PROVE  /\ token'[w][s].attempts >= 1
               /\ token'[w][s].next = start'[w] + Lease
               /\ Stale(w, s)' \/ Current(w, s)'
               /\ child'[s].status \in Terminal => token'[w][s].next <= now'
    <3>1. Holds(w, s)
      BY <1>2, <2>7
    <3>2. CASE s # r
      BY <2>2, <2>3, <3>1, <3>2 DEF ClaimInv, Claims, Stale, Current, Gone
    <3>3. CASE s = r
      <4>1. w # v
        BY <1>2, <2>7, <3>3
      <4>2. token[w][s].next <= start[v] /\ start[v] <= now
        BY <1>1, <2>1, <3>1, <3>3, <4>1 DEF ClaimInv, Lapsed, Starts
      <4>3. Stale(w, s)
        BY <2>1, <3>1, <3>3, <4>1 DEF ClaimInv, Claims, Current
      <4>4. Stale(w, s)'
        <5>1. child[r].next > token[w][r].next
          BY <2>1, <3>3, <4>3 DEF Stale
        <5>2. child'[r].next \in Nat
          BY DEF Types, ChildRows
        <5>3. child'[r].next > token[w][r].next
          BY <2>4, <3>3, <4>2, <5>1, <5>2
        <5>. QED BY <2>2, <3>3, <5>3 DEF Stale
      <4>. QED BY <2>2, <3>1, <4>2, <4>4 DEF ClaimInv, Claims
    <3>. QED BY <3>2, <3>3
  <2>8. Claims'
    BY <2>7 DEF Claims
  <2>9. Lapsed'
    <3>1. ASSUME NEW w \in Workers, NEW u \in Workers, NEW s \in Subs,
                 Holds(w, s)', Holds(u, s)', w # u, Current(u, s)'
          PROVE  token'[w][s].next <= start'[u]
      <4>1. s # r
        BY <1>2, <2>1, <2>2, <3>1 DEF Current
      <4>. QED BY <1>2, <2>2, <2>3, <3>1, <4>1 DEF ClaimInv, Lapsed, Current
    <3>. QED BY <3>1 DEF Lapsed
  <2>. QED BY <2>5, <2>6, <2>8, <2>9 DEF ClaimInv
<1>. QED BY <1>3, <1>4

-----------------------------------------------------------------------------
\* A row that does not exist has no due time.
Blank == \A s \in Subs : child[s].status = "none" => child[s].next = 0

\* No step takes a row away but the cleanup, which leaves no row at all.
LEMMA BlankStep == Types /\ Blank /\ [Next]_vars => Blank'
<1>. SUFFICES ASSUME Types, Blank, [Next]_vars, NEW s \in Subs
              PROVE  child'[s].status = "none" => child'[s].next = 0
  BY DEF Blank
<1> USE DEF envVars, rowVars, passVars, taskVars, boundVars
<1>0. child[s] \in ChildRows /\ (child[s].status = "none" => child[s].next = 0)
  BY DEF Types, Blank
<1>1. CASE child' = child
  BY <1>0, <1>1
<1>2. ASSUME NEW w \in Workers, InsertChildren(w)
      PROVE  child'[s].status = "none" => child'[s].next = 0
  <2>1. child'[s] = child[s] \/ child'[s].status = "pending"
    BY <1>2 DEF InsertChildren
  <2>. QED BY <1>0, <2>1
<1>3. ASSUME NEW w \in Workers, DeadLetterExpired(w)
      PROVE  child'[s].status = "none" => child'[s].next = 0
  <2>1. child'[s] = child[s] \/ child'[s] = [child[s] EXCEPT !.status = "dead_letter"]
    BY <1>3 DEF DeadLetterExpired
  <2>. QED BY <1>0, <2>1 DEF ChildRows
<1>4. ASSUME NEW w \in Workers, NEW r \in Subs, FailUnavailable(w, r)
      PROVE  child'[s].status = "none" => child'[s].next = 0
  <2>1. child'[s] = child[s] \/ child'[s] = [child[s] EXCEPT !.status = "failed"]
    BY <1>4 DEF FailUnavailable, Types
  <2>. QED BY <1>0, <2>1 DEF ChildRows
<1>5. ASSUME NEW w \in Workers, NEW r \in Subs, ClaimDelivery(w, r)
      PROVE  child'[s].status = "none" => child'[s].next = 0
  <2>1. \/ child' = child
        \/ child' = [child EXCEPT ![r] = [status |-> "pending",
                        attempts |-> child[r].attempts + 1, next |-> start[w] + Lease]]
    BY <1>5 DEF ClaimDelivery
  <2>2. child'[s] = child[s] \/ child'[s].status = "pending"
    BY <2>1 DEF Types
  <2>. QED BY <1>0, <2>2
<1>6. ASSUME NEW w \in Workers, NEW r \in Subs, SettleDelivery(w, r)
      PROVE  child'[s].status = "none" => child'[s].next = 0
  <2>1. CASE OwnsClaim(w, r) /\ s = r
    <3>1. child'[s] = Outcome(child[s], work[w][s], start[w])
      BY <1>6, <2>1 DEF SettleDelivery, Types
    <3>2. child[s].status = "pending" /\ work[w][s] \in {"ok", "refused", "unanswered"}
      BY <1>6, <2>1 DEF OwnsClaim, SettleDelivery
    <3>3. child[s].attempts \in Nat /\ MaxAttempts \in Nat
      BY <1>0, OutboxAssumption DEF ChildRows
    <3>4. child'[s].status # "none"
      BY <1>0, <3>1, <3>2, <3>3 DEF Outcome, ChildRows
    <3>. QED BY <3>4
  <2>2. CASE ~(OwnsClaim(w, r) /\ s = r)
    <3>1. child'[s] = child[s]
      BY <1>6, <2>2 DEF SettleDelivery, Types
    <3>. QED BY <1>0, <3>1
  <2>. QED BY <2>1, <2>2
<1>7. CASE Cleanup
  BY <1>7 DEF Cleanup, NoRow
<1>8. ASSUME NEW r \in Subs, Replay(r)
      PROVE  child'[s].status = "none" => child'[s].next = 0
  <2>1. child'[s] = child[s] \/ child'[s].status = "pending"
    BY <1>8 DEF Replay, Types
  <2>. QED BY <1>0, <2>1
<1>9. CASE /\ \A w \in Workers : ~InsertChildren(w) /\ ~DeadLetterExpired(w)
           /\ \A w \in Workers, r \in Subs :
                ~FailUnavailable(w, r) /\ ~ClaimDelivery(w, r) /\ ~SettleDelivery(w, r)
           /\ ~Cleanup /\ \A r \in Subs : ~Replay(r) /\ ~Unsubscribe(r)
  <2>1. child' = child
    BY <1>9 DEF Next, vars, Pass, Task, FailExhausted, ClaimEvent, Throw, Crash, ThrowTask,
       Subscribe, Tick, ReadTargets, ReadParent, SetInitialized, ReadRows, Attempt, Tally,
       Finish
  <2>. QED BY <1>1, <2>1
<1>10. ASSUME NEW r \in Subs, Unsubscribe(r)
       PROVE  child'[s].status = "none" => child'[s].next = 0
  <2>1. child'[s] = child[s] \/ child'[s] = NoRow
    BY <1>10 DEF Unsubscribe, Types
  <2>. QED BY <1>0, <2>1 DEF NoRow
<1>. QED BY <1>2, <1>3, <1>4, <1>5, <1>6, <1>7, <1>8, <1>9, <1>10

\* The first pass adds rows that no task can have claimed.
LEMMA InsertStep ==
  ASSUME Types, Types', Blank, ClaimInv, NEW v \in Workers, InsertChildren(v)
  PROVE  ClaimInv'
<1> USE Numbers DEF envVars, taskVars
<1>0. Lease \in Nat \ {0}
  BY OutboxAssumption
<1>1. CASE Refused(v)
  <2>1. child' = child
    BY <1>1 DEF InsertChildren
  <2>. QED BY <2>1, Frame DEF InsertChildren, Holds, ClaimInv, Starts, Gone
<1>2. CASE ~Refused(v)
  <2>0. \A s \in targets[v] : ~Gone(s)
    BY <1>2 DEF Refused, Gone
  <2>1. /\ UNCHANGED <<now, parent, sub, start, work, token, owner>>
        /\ child' = [s \in Subs |->
                       IF s \in targets[v] /\ child[s].status = "none"
                       THEN [status |-> "pending", attempts |-> 0, next |-> start[v]]
                       ELSE child[s]]
    BY <1>2 DEF InsertChildren
  <2>2. \A w \in Workers, s \in Subs : child[s].status = "none" /\ ~Gone(s) => ~Holds(w, s)
    BY <1>0 DEF ClaimInv, Claims, Stale, Current, Blank
  <2>3. \A w \in Workers, s \in Subs : Holds(w, s)' => Holds(w, s) /\ child'[s] = child[s]
    BY <2>0, <2>1, <2>2 DEF Holds
  <2>4. Starts' /\ Deleted'
    BY <2>0, <2>1 DEF ClaimInv, Starts, Deleted, Gone
  <2>5. Claims'
    BY <2>1, <2>3 DEF ClaimInv, Claims, Stale, Current, Gone
  <2>6. Lapsed'
    BY <2>1, <2>3 DEF ClaimInv, Lapsed, Current
  <2>. QED BY <2>4, <2>5, <2>6 DEF ClaimInv
<1>. QED BY <1>1, <1>2

\* Once the rows are gone, every claim is stale.
LEMMA CleanupStep ==
  ASSUME Types, Types', ClaimInv, Cleanup
  PROVE  ClaimInv'
<1> USE Numbers DEF envVars, passVars, taskVars
<1>0. Lease \in Nat \ {0}
  BY OutboxAssumption
<1>1. /\ UNCHANGED <<now, start, work, token, owner>>
      /\ child' = [s \in Subs |-> NoRow] /\ parent'.status = "deleted"
  BY DEF Cleanup, Types, ParentRows
<1>2. \A s \in Subs : child'[s].status = "none" /\ child'[s].next = 0
  BY <1>1 DEF NoRow
<1>3. Starts' /\ Deleted'
  BY <1>1, <1>2 DEF ClaimInv, Starts, Deleted
<1>4. Claims'
  BY <1>1, <1>2 DEF ClaimInv, Claims, Holds, Stale, Terminal, Gone
<1>5. \A w \in Workers, s \in Subs : Holds(w, s)' => ~Current(w, s)'
  BY <1>0, <1>1, <1>2 DEF ClaimInv, Claims, Holds, Current
<1>6. Lapsed'
  BY <1>5 DEF Lapsed
<1>. QED BY <1>3, <1>4, <1>6 DEF ClaimInv

\* Once a subscription is deleted, every claim on its row is stale.
LEMMA UnsubscribeStep ==
  ASSUME Types, Types', ClaimInv, NEW r \in Subs, Unsubscribe(r)
  PROVE  ClaimInv'
<1> USE Numbers DEF passVars, taskVars
<1>0. Lease \in Nat \ {0}
  BY OutboxAssumption
<1>1. /\ UNCHANGED <<now, parent, start, work, token, owner>>
      /\ \A s \in Subs : s # r => child'[s] = child[s] /\ sub'[s] = sub[s]
      /\ child'[r] = NoRow /\ sub'[r] = "deleted"
  BY DEF Unsubscribe, Types
<1>2. child'[r].status = "none" /\ child'[r].next = 0
  BY <1>1 DEF NoRow
<1>3. Starts' /\ Deleted'
  BY <1>1, <1>2 DEF ClaimInv, Starts, Deleted, Gone
<1>4. ASSUME NEW w \in Workers, NEW s \in Subs, Holds(w, s)'
      PROVE  /\ token'[w][s].attempts >= 1
             /\ token'[w][s].next = start'[w] + Lease
             /\ Stale(w, s)' \/ Current(w, s)'
             /\ child'[s].status \in Terminal => token'[w][s].next <= now'
             /\ s = r => ~Current(w, s)'
  <2>1. Holds(w, s)
    BY <1>1, <1>4 DEF Holds
  <2>2. CASE s # r
    BY <1>1, <2>1, <2>2 DEF ClaimInv, Claims, Stale, Current, Gone
  <2>3. CASE s = r
    <3>1. token[w][s].attempts >= 1 /\ token[w][s].next = start[w] + Lease
      BY <2>1 DEF ClaimInv, Claims
    <3>. QED BY <1>0, <1>1, <1>2, <2>3, <3>1 DEF Stale, Current, Terminal, Gone
  <2>. QED BY <2>2, <2>3
<1>5. Claims'
  BY <1>4 DEF Claims
<1>6. Lapsed'
  <2>1. ASSUME NEW w \in Workers, NEW u \in Workers, NEW s \in Subs,
               Holds(w, s)', Holds(u, s)', w # u, Current(u, s)'
        PROVE  token'[w][s].next <= start'[u]
    <3>1. s # r
      BY <1>4, <2>1
    <3>. QED BY <1>1, <2>1, <3>1 DEF ClaimInv, Lapsed, Current, Holds
  <2>. QED BY <2>1 DEF Lapsed
<1>. QED BY <1>3, <1>5, <1>6 DEF ClaimInv

\* A replayed row starts over, at a time when every claim on it has lapsed.
LEMMA ReplayStep ==
  ASSUME Types, Types', ClaimInv, NEW r \in Subs, Replay(r)
  PROVE  ClaimInv'
<1> USE Numbers DEF envVars, passVars, taskVars
<1>1. /\ UNCHANGED <<now, sub, start, work, token, owner>>
      /\ \A s \in Subs : s # r => child'[s] = child[s]
      /\ child'[r].status = "pending" /\ child'[r].attempts = 0 /\ child'[r].next = now
      /\ child[r].status \in Terminal /\ child[r].status # "none"
      /\ parent'.status = "pending"
  BY DEF Replay, Types, Terminal
<1>2. ~Gone(r) /\ \A s \in Subs : Gone(s)' <=> Gone(s)
  <2>1. ~Gone(r)
    BY <1>1 DEF ClaimInv, Deleted
  <2>. QED BY <1>1, <2>1 DEF Gone
<1>3. Starts' /\ Deleted'
  BY <1>1, <1>2 DEF ClaimInv, Starts, Deleted
<1>4. ASSUME NEW w \in Workers, NEW s \in Subs, Holds(w, s)'
      PROVE  /\ token'[w][s].attempts >= 1
             /\ token'[w][s].next = start'[w] + Lease
             /\ Stale(w, s)' \/ Current(w, s)'
             /\ child'[s].status \in Terminal => token'[w][s].next <= now'
             /\ s = r => ~Current(w, s)'
  <2>1. Holds(w, s)
    BY <1>1, <1>4 DEF Holds
  <2>2. CASE s # r
    BY <1>1, <1>2, <2>1, <2>2 DEF ClaimInv, Claims, Stale, Current
  <2>3. CASE s = r
    <3>1. /\ token[w][s].next <= now /\ token[w][s].attempts >= 1
          /\ token[w][s].next = start[w] + Lease
      BY <1>1, <2>1, <2>3 DEF ClaimInv, Claims
    <3>. QED BY <1>1, <2>3, <3>1 DEF Stale, Current, Terminal
  <2>. QED BY <2>2, <2>3
<1>5. Claims'
  BY <1>4 DEF Claims
<1>6. Lapsed'
  <2>1. ASSUME NEW w \in Workers, NEW u \in Workers, NEW s \in Subs,
               Holds(w, s)', Holds(u, s)', w # u, Current(u, s)'
        PROVE  token'[w][s].next <= start'[u]
    <3>1. s # r
      BY <1>4, <2>1
    <3>. QED BY <1>1, <2>1, <3>1 DEF ClaimInv, Lapsed, Current, Holds
  <2>. QED BY <2>1 DEF Lapsed
<1>. QED BY <1>3, <1>5, <1>6 DEF ClaimInv

-----------------------------------------------------------------------------
\* The steps that leave every child row and every claim alone.
LEMMA PassStep ==
  ASSUME Types, Types', ClaimInv, NEW v \in Workers,
         \/ ClaimEvent(v) \/ ReadTargets(v) \/ ReadParent(v) \/ SetInitialized(v)
         \/ ReadRows(v) \/ Tally(v) \/ Finish(v) \/ Throw(v) \/ Crash(v)
  PROVE  ClaimInv'
<1> USE Numbers DEF envVars, rowVars, passVars, taskVars, boundVars
<1>1. \A w \in Workers : start[w] <= now
  BY DEF ClaimInv, Starts
<1>2. CASE ClaimEvent(v)
  <2>1. \A s \in Subs : ~Holds(v, s)
    BY <1>2 DEF ClaimEvent, Working, Holds
  <2>2. \A w \in Workers, s \in Subs : Holds(w, s)' => Holds(w, s) /\ start'[w] = start[w]
    BY <1>2, <2>1 DEF ClaimEvent, Holds, Types
  <2>3. parent.status = "pending" /\ parent'.status = "pending"
    BY <1>2 DEF ClaimEvent, Due
  <2>4. \A w \in Workers : start'[w] <= now'
    BY <1>1, <1>2 DEF ClaimEvent, Types
  <2>. QED BY <1>2, <2>2, <2>3, <2>4, Frame DEF ClaimEvent, Gone
<1>3. CASE ReadTargets(v) \/ ReadParent(v) \/ SetInitialized(v) \/ Tally(v) \/ Throw(v)
  <2>1. UNCHANGED <<now, parent, sub, child, start, work, token, owner>>
    BY <1>3 DEF ReadTargets, ReadParent, SetInitialized, Tally, Throw
  <2>. QED BY <1>1, <2>1, Frame DEF Holds, Gone
<1>4. CASE ReadRows(v)
  <2>1. \A w \in Workers, s \in Subs : Holds(w, s)' => Holds(w, s)
    BY <1>4 DEF ReadRows, Holds, Types
  <2>. QED BY <1>1, <1>4, <2>1, Frame DEF ReadRows, Gone
<1>5. CASE Finish(v)
  <2>1. parent'.status = "deleted" <=> parent.status = "deleted"
    BY <1>5 DEF Finish, Types, ParentRows
  <2>2. /\ UNCHANGED <<now, sub, child, work, token, owner>>
        /\ start' = [start EXCEPT ![v] = IF Working(v) THEN @ ELSE 0]
    BY <1>5 DEF Finish, EndPass
  <2>3. \A w \in Workers : start'[w] <= now'
    BY <1>1, <2>2 DEF Types
  <2>4. \A w \in Workers, s \in Subs : Holds(w, s)' => Holds(w, s) /\ start'[w] = start[w]
    BY <2>2 DEF Types, Holds, Working
  <2>. QED BY <2>1, <2>2, <2>3, <2>4, Frame DEF Gone
<1>6. CASE Crash(v)
  <2>1. /\ UNCHANGED <<now, parent, sub, child, token, owner>>
        /\ start' = [start EXCEPT ![v] = IF Working(v) THEN @ ELSE 0]
        /\ work' = [work EXCEPT ![v] = [s \in Subs |-> "off"]]
    BY <1>6 DEF Crash, EndPass
  <2>2. \A w \in Workers : start'[w] <= now'
    BY <1>1, <2>1 DEF Types
  <2>3. \A w \in Workers, s \in Subs : Holds(w, s)' => Holds(w, s) /\ start'[w] = start[w]
    BY <2>1 DEF Types, Holds
  <2>. QED BY <2>1, <2>2, <2>3, Frame DEF Gone
<1>. QED BY <1>2, <1>3, <1>4, <1>5, <1>6

\* The steps of one task that do not claim or settle.
LEMMA TaskStep ==
  ASSUME Types, Types', ClaimInv, NEW v \in Workers, NEW r \in Subs,
         \/ FailUnavailable(v, r) \/ ThrowTask(v, r)
         \/ \E result \in {"ok", "refused", "unanswered"} : Attempt(v, r, result)
  PROVE  ClaimInv'
<1> USE DEF envVars, rowVars, passVars, boundVars
<1>1. \A w \in Workers : start[w] <= now
  BY DEF ClaimInv, Starts
<1>2. CASE FailUnavailable(v, r)
  <2>1. \A w \in Workers, s \in Subs : Holds(w, s)' => Holds(w, s)
    BY <1>2 DEF FailUnavailable, Holds, Types
  <2>2. \A s \in Subs :
          \/ child'[s] = child[s]
          \/ /\ Due(child[s], start[v])
             /\ child'[s].status \in Terminal
             /\ child'[s].next = child[s].next
             /\ child'[s].attempts = child[s].attempts
    BY <1>2 DEF FailUnavailable, Types, ChildRows, Terminal
  <2>. QED BY <1>2, <2>1, <2>2, SettleDue DEF FailUnavailable
<1>3. CASE ThrowTask(v, r)
  <2>1. \A w \in Workers, s \in Subs : Holds(w, s)' => Holds(w, s)
    BY <1>3 DEF ThrowTask, Holds, Types
  <2>. QED BY <1>1, <1>3, <2>1, Frame, Numbers DEF ThrowTask, Gone
<1>4. ASSUME NEW result \in {"ok", "refused", "unanswered"}, Attempt(v, r, result)
      PROVE  ClaimInv'
  <2>1. \A w \in Workers, s \in Subs : Holds(w, s)' => Holds(w, s)
    BY <1>4 DEF Attempt, Holds, Types
  <2>. QED BY <1>1, <1>4, <2>1, Frame, Numbers DEF Attempt, Gone
<1>. QED BY <1>2, <1>3, <1>4

\* The claim invariant is inductive.
LEMMA InvStep == Types /\ Types' /\ Blank /\ ClaimInv /\ [Next]_vars => ClaimInv'
<1>. SUFFICES ASSUME Types, Types', Blank, ClaimInv, [Next]_vars PROVE ClaimInv'
  OBVIOUS
<1>0. now \in Nat /\ \A w \in Workers : start[w] \in Nat /\ start[w] <= now
  BY DEF Types, ClaimInv, Starts
<1>1. CASE UNCHANGED vars
  BY <1>0, <1>1, Frame DEF vars, Holds, Gone
<1>2. CASE FailExhausted
  <2>1. parent'.status = "deleted" <=> parent.status = "deleted"
    BY <1>2 DEF FailExhausted, Due, Types, ParentRows
  <2>. QED BY <1>0, <1>2, <2>1, Frame
          DEF FailExhausted, Holds, Gone, envVars, passVars, taskVars
<1>3. ASSUME NEW v \in Workers, DeadLetterExpired(v) PROVE ClaimInv'
  <2>1. /\ UNCHANGED <<now, parent, sub, start, work, token, owner>>
        /\ child' = [s \in Subs |->
                       IF Due(child[s], start[v]) /\ child[s].attempts >= MaxAttempts
                       THEN [child[s] EXCEPT !.status = "dead_letter"] ELSE child[s]]
    BY <1>3 DEF DeadLetterExpired, envVars, passVars, taskVars
  <2>2. ASSUME NEW s \in Subs
        PROVE  \/ child'[s] = child[s]
               \/ /\ Due(child[s], start[v])
                  /\ child'[s].status \in Terminal
                  /\ child'[s].next = child[s].next
                  /\ child'[s].attempts = child[s].attempts
    <3>1. child[s] \in ChildRows
      BY DEF Types
    <3>. QED BY <2>1, <3>1 DEF ChildRows, Terminal
  <2>. QED BY <2>1, <2>2, SettleDue DEF Holds
<1>4. ASSUME NEW s \in Subs, Subscribe(s) PROVE ClaimInv'
  <2>1. \A r \in Subs : sub'[r] = "deleted" <=> sub[r] = "deleted"
    BY <1>4 DEF Subscribe, Types
  <2>. QED BY <1>0, <1>4, <2>1, Frame DEF Subscribe, Holds, Gone, rowVars, passVars, taskVars
<1>5. CASE Tick
  <2>1. now' = now + 1 /\ now' \in Nat /\ UNCHANGED <<parent, sub, child, start, work, token, owner>>
    BY <1>0, <1>5 DEF Tick, rowVars, passVars, taskVars
  <2>2. now <= now' /\ \A w \in Workers : start'[w] <= now'
    BY <1>0, <2>1
  <2>. QED BY <2>1, <2>2, Frame DEF Holds, Gone
<1>. QED BY <1>1, <1>2, <1>3, <1>4, <1>5, PassStep, TaskStep, InsertStep, ClaimStep, SettleStep,
            CleanupStep, UnsubscribeStep, ReplayStep DEF Next, Pass, Task

\* The types, the blank rows and the claims together.
OutboxInv == Types /\ Blank /\ ClaimInv

\* OutboxInv holds of every behaviour of the outbox.
LEMMA OutboxInvariant == Spec => []OutboxInv
<1>1. Init => OutboxInv
  <2>. SUFFICES ASSUME Init PROVE OutboxInv
    OBVIOUS
  <2>1. NoRow \in ChildRows /\ [attempts |-> 0, next |-> 0] \in Tokens
    BY DEF NoRow, ChildRows, Tokens
  <2>2. Types
    BY <2>1 DEF Init, Types, ParentRows, Phases, TaskStates
  <2>3. Blank
    BY DEF Init, Blank, NoRow
  <2>4. Starts /\ Deleted
    BY DEF Init, Starts, Deleted, NoRow
  <2>5. \A w \in Workers, s \in Subs : ~Holds(w, s)
    BY DEF Init, Holds
  <2>6. Claims /\ Lapsed
    BY <2>5 DEF Claims, Lapsed
  <2>. QED BY <2>2, <2>3, <2>4, <2>6 DEF OutboxInv, ClaimInv
<1>2. OutboxInv /\ [Next]_vars => OutboxInv'
  BY TypeStep, BlankStep, InvStep DEF OutboxInv, ClaimInv
<1>. QED BY <1>1, <1>2, PTL DEF Spec

\* Every row, lease and task of the outbox stays well formed: in particular
\* the delay of a retry is always defined, and the time a parent waits is
\* never negative.
THEOREM OutboxTypes == Spec => []TypeOK
BY OutboxInvariant, TypesAreTypeOK, PTL DEF OutboxInv

\* settleDelivery records an outcome only for the latest claimant of the row,
\* for any number of workers, subscribers, lapsed leases and replays.
THEOREM OnlyTheOwnerSettles == Spec => OwnerSettles
<1>1. OutboxInv /\ [Next]_vars =>
        [\A w \in Workers, s \in Subs :
           SettleDelivery(w, s) /\ child'[s] # child[s] => owner[s] = w]_vars
  <2>. SUFFICES ASSUME OutboxInv, NEW w \in Workers, NEW s \in Subs,
                       SettleDelivery(w, s), child'[s] # child[s]
                PROVE  owner[s] = w
    OBVIOUS
  <2>1. OwnsClaim(w, s) /\ Holds(w, s)
    BY DEF SettleDelivery, Holds
  <2>. QED BY <2>1, OwnerOfClaim DEF OutboxInv, Current
<1>. QED BY <1>1, OutboxInvariant, PTL DEF Spec, OwnerSettles

-----------------------------------------------------------------------------
(* One poller strands nothing *)

\* The database of one poller, in which nothing is replayed.
OnePoller(w) == Workers = {w} /\ MaxReplays = 0 /\ IsFiniteSet(Subs)

\* The claims that an event can use up: what its rows can move by, two for each
\* crash or error, and the claim of the pass that is under way.
Capacity == Cardinality(Subs) * (MaxAttempts + 1)
EnoughClaims == MaxClaims > Capacity + 2 * MaxFaults + 1

Rows ==
  \A s \in Subs : /\ child[s].attempts <= MaxAttempts
                  /\ child[s].status = "none" => child[s].attempts = 0

\* How far the row of a subscriber has come, and how far all of them have.
Level(s) ==
  IF sub[s] = "deleted" \/ child[s].status \in Terminal
  THEN MaxAttempts + 1 ELSE child[s].attempts
Levels == [s \in Subs |-> Level(s)]
Below(f) == {p \in Subs \X (1..(MaxAttempts + 1)) : p[2] <= f[p[1]]}
Count == Cardinality(Below(Levels))

\* What is left once the claims so far are paid for.
Slack == Count + 2 * faults - parent.attempts

DueRow(w) == \E s \in Subs : Due(child[s], start[w])
NoRows == \A s \in Subs : child[s].status = "none"
Whole(w) == \A s \in targets[w] : sub[s] # "deleted"

\* The pass goes on to move a row, or it settles the event.
WillPay(w) ==
  \/ pc[w] = "targets" /\ (~initialized \/ DueRow(w))
  \/ pc[w] = "parent" /\ IF initialized THEN DueRow(w) ELSE Whole(w)
  \/ pc[w] = "insert" /\ Whole(w)
  \/ pc[w] \in {"flag", "complete", "fail"}
  \/ pc[w] = "expire" /\ (DueRow(w) \/ NoRows)
  \/ /\ pc[w] = "rows"
     /\ NoRows \/ \E s \in Subs : Due(child[s], start[w]) /\ child[s].attempts < MaxAttempts
  \/ /\ pc[w] = "work"
     /\ \E s \in Subs : /\ Due(child[s], start[w]) /\ child[s].attempts < MaxAttempts
                        /\ work[w][s] \in {"claim", "drop"}

\* The next pass will find a row that is due, or add the rows.
Appointed(w) ==
  \/ ~initialized
  \/ pc[w] = "idle" /\ \E s \in Pending : child[s].next <= parent.next
  \/ pc[w] = "retry" /\ \E s \in Pending : child[s].next <= start[w] + wait[w]

\* Each pass is paid for by a row that it moves or by a crash or error.
Budget(w) ==
  parent.status = "pending" =>
    IF pc[w] \in {"idle", "retry"}
    THEN Slack >= 1 \/ (Slack >= 0 /\ ~Working(w) /\ Appointed(w))
    ELSE Slack >= 0 \/ (Slack >= -1 /\ WillPay(w))

\* Until the event is initialized its rows are new and due in the first pass.
Fresh(w) ==
  ~initialized =>
    /\ \A s \in Subs :
         \/ child[s].status = "none"
         \/ /\ child[s].status = "pending" /\ child[s].next <= now
            /\ pc[w] # "idle" => child[s].next <= start[w]
    /\ pc[w] \in {"idle", "targets", "parent", "insert", "flag", "retry"}
    /\ ~Working(w)

Early(w) ==
  /\ pc[w] \in {"insert", "flag"} => ~initialized
  /\ pc[w] \in {"targets", "parent", "insert", "flag", "expire", "rows"} => ~Working(w)
  /\ pc[w] # "idle" => claims[w] = parent.attempts

\* An event is settled, by the pass, only when no row is pending.
Settled(w) ==
  /\ parent.status # "pending" => Pending = {} /\ pc[w] = "idle"
  /\ pc[w] \in {"complete", "fail"} => Pending = {}

Limits == parent.attempts < MaxClaims /\ faults <= MaxFaults

Order(w) == Early(w) /\ Settled(w)
Kept(w) == Rows /\ Limits /\ Budget(w) /\ Fresh(w)
SettleInv(w) == Kept(w) /\ Order(w)

-----------------------------------------------------------------------------
\* What lies below the levels is finite and within the capacity.
LEMMA BelowCount ==
  ASSUME IsFiniteSet(Subs), NEW f
  PROVE  /\ IsFiniteSet(Below(f)) /\ Cardinality(Below(f)) \in Nat
         /\ Cardinality(Below(f)) <= Capacity /\ Capacity \in Nat
<1> DEFINE I == 1..(MaxAttempts + 1)
<1>1. IsFiniteSet(I) /\ Cardinality(I) = MaxAttempts + 1
  BY OutboxAssumption, FS_Interval
<1>2. IsFiniteSet(Subs \X I) /\ Cardinality(Subs \X I) = Cardinality(Subs) * Cardinality(I)
  BY <1>1, FS_Product
<1>3. Below(f) \in SUBSET (Subs \X I)
  BY DEF Below
<1>4. Cardinality(Subs \X I) = Capacity
  BY <1>1, <1>2 DEF Capacity
<1> HIDE DEF I
<1>5. IsFiniteSet(Below(f)) /\ Cardinality(Below(f)) <= Cardinality(Subs \X I)
  BY <1>2, <1>3, FS_Subset
<1>6. Cardinality(Below(f)) \in Nat /\ Cardinality(Subs \X I) \in Nat
  BY <1>2, <1>5, FS_CardinalityType
<1> QED BY <1>4, <1>5, <1>6

\* More lies below higher levels.
LEMMA BelowGrows ==
  ASSUME IsFiniteSet(Subs), NEW f \in [Subs -> Nat], NEW g \in [Subs -> Nat],
         \A s \in Subs : f[s] <= g[s]
  PROVE  /\ Cardinality(Below(f)) <= Cardinality(Below(g))
         /\ \A s \in Subs : f[s] < g[s] /\ g[s] <= MaxAttempts + 1
              => Cardinality(Below(f)) + 1 <= Cardinality(Below(g))
<1>0. /\ IsFiniteSet(Below(f)) /\ IsFiniteSet(Below(g))
      /\ Cardinality(Below(f)) \in Nat /\ Cardinality(Below(g)) \in Nat
  BY BelowCount
<1>1. ASSUME NEW p \in Below(f) PROVE p \in Below(g)
  <2>1. p \in Subs \X (1..(MaxAttempts + 1)) /\ p[2] <= f[p[1]]
    BY DEF Below
  <2>2. p[1] \in Subs /\ p[2] \in Nat
    BY <2>1
  <2>3. f[p[1]] <= g[p[1]] /\ f[p[1]] \in Nat /\ g[p[1]] \in Nat
    BY <2>2
  <2>4. p[2] <= g[p[1]]
    BY <2>1, <2>2, <2>3
  <2> QED BY <2>1, <2>4 DEF Below
<1>2. Below(f) \in SUBSET Below(g)
  BY <1>1
<1>3. Cardinality(Below(f)) <= Cardinality(Below(g))
  BY <1>0, <1>2, FS_Subset
<1>4. ASSUME NEW s \in Subs, f[s] < g[s], g[s] <= MaxAttempts + 1
      PROVE  Cardinality(Below(f)) + 1 <= Cardinality(Below(g))
  <2> DEFINE p == <<s, g[s]>>
  <2>1. f[s] \in Nat /\ g[s] \in Nat /\ MaxAttempts \in Nat
    BY OutboxAssumption
  <2>2. g[s] \in 1..(MaxAttempts + 1) /\ g[s] <= g[s] /\ ~(g[s] <= f[s])
    BY <1>4, <2>1
  <2>3. p \in Below(g) /\ p \notin Below(f)
    BY <2>2 DEF Below
  <2> HIDE DEF p
  <2>4. Below(f) \cup {p} \in SUBSET Below(g)
    BY <1>2, <2>3
  <2>5. /\ IsFiniteSet(Below(f) \cup {p})
        /\ Cardinality(Below(f) \cup {p}) = Cardinality(Below(f)) + 1
    BY <1>0, <2>3, FS_AddElement
  <2>6. Cardinality(Below(f) \cup {p}) <= Cardinality(Below(g))
    BY <1>0, <2>4, FS_Subset
  <2> QED BY <2>5, <2>6
<1> QED BY <1>3, <1>4

\* The rows as numbers.
LEMMA LevelType ==
  ASSUME IsFiniteSet(Subs), Types, Rows
  PROVE  /\ Levels \in [Subs -> Nat]
         /\ \A s \in Subs : Levels[s] = Level(s) /\ Level(s) \in Nat /\ Level(s) <= MaxAttempts + 1
         /\ Count \in Nat /\ Count <= Capacity /\ Capacity \in Nat
         /\ Slack \in Int /\ faults \in Nat /\ parent.attempts \in Nat
<1>1. ASSUME NEW s \in Subs PROVE Level(s) \in Nat /\ Level(s) <= MaxAttempts + 1
  <2>1. child[s] \in ChildRows /\ child[s].attempts <= MaxAttempts /\ MaxAttempts \in Nat
    BY OutboxAssumption DEF Types, Rows
  <2>2. child[s].attempts \in Nat
    BY <2>1 DEF ChildRows
  <2> QED BY <2>1, <2>2 DEF Level
<1>2. Count \in Nat /\ Count <= Capacity /\ Capacity \in Nat
  BY BelowCount DEF Count
<1>3. parent.attempts \in Nat /\ faults \in Nat
  BY DEF Types, ParentRows
<1> QED BY <1>1, <1>2, <1>3 DEF Levels, Slack

\* A step that moves no row back, and none of the parent's claims, keeps the
\* slack; it adds to it when it moves a row ahead.
LEMMA SlackGrows ==
  ASSUME IsFiniteSet(Subs), Types, Types', Rows, Rows', UNCHANGED faults,
         parent'.attempts = parent.attempts,
         \A s \in Subs : Level(s) <= Level(s)'
  PROVE  /\ Slack \in Int /\ Slack' \in Int /\ Slack <= Slack'
         /\ \A s \in Subs : Level(s) < Level(s)' => Slack + 1 <= Slack'
<1>1. /\ Levels \in [Subs -> Nat]
      /\ \A s \in Subs : Levels[s] = Level(s) /\ Level(s) \in Nat
      /\ Count \in Nat /\ faults \in Nat /\ parent.attempts \in Nat
  BY LevelType
<1>2. /\ Levels' \in [Subs -> Nat]
      /\ \A s \in Subs : Levels'[s] = Level(s)' /\ Level(s)' \in Nat /\ Level(s)' <= MaxAttempts + 1
      /\ Count' \in Nat
  <2>1. ASSUME NEW s \in Subs PROVE Level(s)' \in Nat /\ Level(s)' <= MaxAttempts + 1
    <3>1. child'[s] \in ChildRows /\ child'[s].attempts <= MaxAttempts /\ MaxAttempts \in Nat
      BY OutboxAssumption DEF Types, Rows
    <3>2. child'[s].attempts \in Nat
      BY <3>1 DEF ChildRows
    <3> QED BY <3>1, <3>2 DEF Level
  <2>2. Count' = Cardinality(Below(Levels'))
    BY DEF Count, Below
  <2>3. Count' \in Nat
    BY <2>2, BelowCount
  <2> QED BY <2>1, <2>3 DEF Levels
<1>3. Count = Cardinality(Below(Levels)) /\ Count' = Cardinality(Below(Levels'))
  BY DEF Count, Below
<1>4. /\ Count <= Count'
      /\ \A s \in Subs : Level(s) < Level(s)' => Count + 1 <= Count'
  <2>1. \A s \in Subs : Levels[s] <= Levels'[s]
    BY <1>1, <1>2
  <2> HIDE DEF Levels
  <2>2. /\ Cardinality(Below(Levels)) <= Cardinality(Below(Levels'))
        /\ \A s \in Subs : Levels[s] < Levels'[s] /\ Levels'[s] <= MaxAttempts + 1
             => Cardinality(Below(Levels)) + 1 <= Cardinality(Below(Levels'))
    BY <1>1, <1>2, <2>1, BelowGrows
  <2> QED BY <1>1, <1>2, <1>3, <2>2
<1> QED BY <1>1, <1>2, <1>4 DEF Slack

\* A step that leaves the rows and the subscriptions alone keeps the count.
LEMMA CountKept ==
  ASSUME child' = child, sub' = sub
  PROVE  Count' = Count /\ Rows' = Rows /\ NoRows' = NoRows /\ Pending' = Pending
BY DEF Count, Below, Levels, Level, Rows, NoRows, Pending

-----------------------------------------------------------------------------
(* What a step of the pass does to the rows *)

\* A row that is due and is claimed, dropped or given up moves ahead; so does
\* one that is deleted before it was settled.
LEMMA Moves ==
  ASSUME Types, Types', Rows, Rows', NEW s \in Subs
  PROVE  /\ (child'[s] = child[s] /\ (sub'[s] = "deleted" <=> sub[s] = "deleted"))
              => Level(s)' = Level(s)
         /\ (/\ child[s].status \in {"none", "pending"} /\ sub[s] # "deleted"
             /\ sub'[s] = "deleted" \/ child'[s].status \in Terminal)
              => Level(s) < Level(s)'
         /\ (/\ child[s].status \in {"none", "pending"} /\ sub[s] # "deleted"
             /\ child'[s].status \in {"none", "pending"} /\ sub'[s] # "deleted")
              => Level(s) = child[s].attempts /\ Level(s)' = child'[s].attempts
         /\ sub'[s] = "deleted" => Level(s) <= Level(s)'
         /\ Level(s) \in Nat /\ Level(s)' \in Nat
<1>1. /\ MaxAttempts \in Nat /\ child[s].attempts \in Nat /\ child'[s].attempts \in Nat
      /\ child[s].attempts <= MaxAttempts /\ child'[s].attempts <= MaxAttempts
  BY OutboxAssumption DEF Types, ChildRows, Rows
<1>2. child'[s] = child[s] /\ (sub'[s] = "deleted" <=> sub[s] = "deleted") => Level(s)' = Level(s)
  BY DEF Level
<1>3. ~(child[s].status \in Terminal) /\ sub[s] # "deleted" => Level(s) = child[s].attempts
  BY DEF Level
<1>4. ~(child'[s].status \in Terminal) /\ sub'[s] # "deleted" => Level(s)' = child'[s].attempts
  BY DEF Level
<1>5. sub'[s] = "deleted" \/ child'[s].status \in Terminal => Level(s)' = MaxAttempts + 1
  BY DEF Level
<1>6. Level(s) = MaxAttempts + 1 \/ Level(s) = child[s].attempts
  BY DEF Level
<1>7. \A x \in {"none", "pending"} : ~(x \in Terminal)
  BY DEF Terminal
<1> HIDE DEF Level
<1> QED BY <1>1, <1>2, <1>3, <1>4, <1>5, <1>6, <1>7

\* A step that moves a row ahead and none back pays for the pass.
LEMMA Paid ==
  ASSUME NEW w, OnePoller(w), Types, Types', Rows, Rows', Budget(w),
         UNCHANGED <<parent, faults>>, pc'[w] = pc[w],
         \A s \in Subs : Level(s) <= Level(s)',
         NEW r \in Subs, Level(r) < Level(r)'
  PROVE  Budget(w)'
<1>1. Slack \in Int /\ Slack' \in Int /\ Slack + 1 <= Slack'
  BY SlackGrows DEF OnePoller
<1> QED BY <1>1 DEF Budget

-----------------------------------------------------------------------------
\* While there are claims left, the passes of one poller keep their order.
LEMMA OrderStep ==
  ASSUME NEW w, OnePoller(w)
  PROVE  Types /\ Types' /\ Order(w) /\ parent.attempts < MaxClaims /\ [Next]_vars => Order(w)'
<1> SUFFICES ASSUME Types, Types', Early(w), Settled(w), parent.attempts < MaxClaims, [Next]_vars
             PROVE  Early(w)' /\ Settled(w)'
  BY DEF Order
<1>0. w \in Workers /\ Workers = {w}
  BY DEF OnePoller
<1> USE DEF envVars, rowVars, passVars, taskVars, boundVars
<1>1. CASE UNCHANGED vars
  BY <1>1 DEF vars, Early, Settled, Working, Pending
<1>2. CASE FailExhausted
  <2>1. parent.attempts \in Nat /\ MaxClaims \in Nat
    BY OutboxAssumption DEF Types, ParentRows
  <2> QED BY <1>2, <2>1 DEF FailExhausted
<1>3. CASE ClaimEvent(w)
  BY <1>0, <1>3 DEF ClaimEvent, Types, Early, Settled, Working, Pending
<1>4. CASE ReadTargets(w) \/ ReadParent(w) \/ SetInitialized(w)
  <2>1. /\ UNCHANGED <<parent, child, claims, work>>
        /\ pc[w] # "idle" /\ pc'[w] # "idle" /\ pc'[w] \in {"parent", "expire", "insert"}
        /\ pc'[w] = "insert" => ~initialized'
        /\ pc[w] \in {"targets", "parent", "flag"}
    BY <1>0, <1>4 DEF ReadTargets, ReadParent, SetInitialized, Types, Settled
  <2> QED BY <2>1 DEF Early, Settled, Working, Pending
<1>5. CASE InsertChildren(w)
  <2>1. /\ UNCHANGED <<parent, initialized, claims, work>>
        /\ pc[w] = "insert" /\ pc'[w] \in {"flag", "retry"}
    BY <1>0, <1>5 DEF InsertChildren, Types
  <2> QED BY <2>1 DEF Early, Settled, Working
<1>6. CASE DeadLetterExpired(w)
  <2>1. /\ UNCHANGED <<parent, initialized, claims, work>>
        /\ pc[w] = "expire" /\ pc'[w] = "rows"
    BY <1>0, <1>6 DEF DeadLetterExpired, Types
  <2> QED BY <2>1 DEF Early, Settled, Working
<1>7. CASE ReadRows(w)
  <2>1. /\ UNCHANGED <<parent, child, initialized, claims>>
        /\ pc[w] = "rows" /\ pc'[w] = (IF NoRows THEN "complete" ELSE "work")
    BY <1>0, <1>7 DEF ReadRows, Types, NoRows
  <2>2. NoRows => Pending' = {}
    BY <2>1 DEF NoRows, Pending
  <2> QED BY <2>1, <2>2 DEF Early, Settled
<1>8. CASE Tally(w)
  <2>1. /\ UNCHANGED <<parent, child, initialized, claims, work>>
        /\ pc[w] = "work" /\ pc'[w] \in {"retry", "complete", "fail"}
        /\ pc'[w] \in {"complete", "fail"} => Pending = {}
    BY <1>0, <1>8 DEF Tally, Types
  <2> QED BY <2>1 DEF Early, Settled, Pending
<1>9. CASE Finish(w)
  <2>1. /\ UNCHANGED <<child, initialized, work>>
        /\ pc[w] \in {"complete", "fail", "retry"} /\ pc'[w] = "idle"
        /\ pc[w] = "retry" => parent'.status = "pending"
    BY <1>0, <1>9 DEF Finish, EndPass, Types, ParentRows, Early, Settled
  <2> QED BY <2>1 DEF Early, Settled, Pending
<1>10. ASSUME NEW s \in Subs, Task(w, s) PROVE Early(w)' /\ Settled(w)'
  <2>0. child[s] \in ChildRows
    BY DEF Types
  <2>1. UNCHANGED <<parent, initialized, pc, claims>> /\ work[w][s] # "off"
    BY <1>10 DEF Task, FailUnavailable, ClaimDelivery, Attempt, SettleDelivery
  <2>2. Pending' \subseteq Pending
    <3>1. CASE FailUnavailable(w, s)
      BY <2>0, <3>1 DEF FailUnavailable, Types, Pending
    <3>2. CASE ClaimDelivery(w, s)
      <4>1. \/ child' = child
            \/ /\ child[s].status = "pending"
               /\ child' = [child EXCEPT ![s] = [status |-> "pending",
                              attempts |-> child[s].attempts + 1, next |-> start[w] + Lease]]
        BY <3>2, Zenon DEF ClaimDelivery, Due
      <4> QED BY <4>1 DEF Types, Pending
    <3>3. ASSUME NEW result \in {"ok", "refused", "unanswered"}, Attempt(w, s, result)
          PROVE  Pending' \subseteq Pending
      BY <3>3 DEF Attempt, Pending
    <3>4. CASE SettleDelivery(w, s)
      <4>1. \/ child' = child
            \/ /\ child[s].status = "pending"
               /\ child' = [child EXCEPT ![s] = Outcome(child[s], work[w][s], start[w])]
        BY <3>4 DEF SettleDelivery, OwnsClaim
      <4> QED BY <4>1 DEF Types, Pending
    <3> QED BY <1>10, <3>1, <3>2, <3>3, <3>4 DEF Task
  <2>3. Working(w)
    BY <2>1 DEF Working
  <2> QED BY <2>1, <2>2, <2>3 DEF Early, Settled
<1>11. CASE Throw(w) \/ Crash(w) \/ \E s \in Subs : ThrowTask(w, s)
  <2>1. /\ UNCHANGED <<parent, child, initialized>>
        /\ \/ pc'[w] = "idle"
           \/ pc[w] # "idle" /\ pc'[w] = "retry" /\ claims' = claims
    BY <1>0, <1>11 DEF Throw, Crash, EndPass, ThrowTask, Types
  <2> QED BY <2>1 DEF Early, Settled, Pending
<1>12. CASE Cleanup
  <2>1. pc' = pc /\ Pending' = {} /\ pc[w] = "idle"
    BY <1>12 DEF Cleanup, Pending, NoRow, Settled
  <2> QED BY <2>1 DEF Early, Settled
<1>13. ASSUME NEW s \in Subs, Replay(s) PROVE FALSE
  BY <1>13 DEF Replay, OnePoller, Types
<1>14. ASSUME NEW s \in Subs, Unsubscribe(s) PROVE Early(w)' /\ Settled(w)'
  <2>1. UNCHANGED <<parent, initialized, pc, claims, work>> /\ Pending' \subseteq Pending
    BY <1>14 DEF Unsubscribe, Types, Pending, NoRow
  <2> QED BY <2>1 DEF Early, Settled, Working
<1>15. CASE Tick \/ \E s \in Subs : Subscribe(s)
  <2>1. UNCHANGED <<parent, child, initialized, pc, claims, work>>
    BY <1>15 DEF Tick, Subscribe
  <2> QED BY <2>1 DEF Early, Settled, Working, Pending
<1> QED BY <1>0, <1>1, <1>2, <1>3, <1>4, <1>5, <1>6, <1>7, <1>8, <1>9, <1>10, <1>11, <1>12,
           <1>13, <1>14, <1>15 DEF Next, Pass

-----------------------------------------------------------------------------
\* A step of nothing but the clock or a new subscription.
LEMMA SettleIdle ==
  ASSUME NEW w, OnePoller(w), Types, Types', SettleInv(w),
         UNCHANGED <<parent, initialized, child, pc, start, claims, targets, wait, work, faults>>,
         now <= now',
         \A s \in Subs : sub'[s] = "deleted" <=> sub[s] = "deleted"
  PROVE  Kept(w)'
<1>1. Rows' /\ Limits'
  BY DEF SettleInv, Kept, Order, Rows, Limits, Early, Settled, Working, Pending
<1>2. \A s \in Subs : Level(s)' = Level(s) /\ Level(s) <= Level(s)'
  BY LevelType, Moves, <1>1 DEF OnePoller, SettleInv, Kept, Order
<1>3. Slack \in Int /\ Slack' \in Int /\ Slack <= Slack'
  BY <1>1, <1>2, SlackGrows DEF OnePoller, SettleInv, Kept, Order
<1>4. Budget(w)'
  <2>1. /\ NoRows' = NoRows /\ Pending' = Pending /\ Working(w)' = Working(w)
        /\ DueRow(w)' = DueRow(w) /\ Appointed(w)' = Appointed(w)
    BY DEF NoRows, Pending, Working, DueRow, Appointed
  <2>2. Whole(w)' <=> Whole(w)
    BY DEF Whole, OnePoller, Types
  <2>3. WillPay(w)' <=> WillPay(w)
    BY <2>1, <2>2 DEF WillPay
  <2> QED BY <1>3, <2>1, <2>3 DEF SettleInv, Kept, Order, Budget
<1>5. Fresh(w)'
  BY Numbers DEF SettleInv, Kept, Order, Fresh, Types, Working
<1> QED BY <1>1, <1>4, <1>5 DEF SettleInv, Kept, Order

\* The claim of the event is paid for by the slack, or by what is due.
LEMMA SettleClaimEvent ==
  ASSUME NEW w, OnePoller(w), EnoughClaims, Types, Types', SettleInv(w), ClaimEvent(w)
  PROVE  Kept(w)'
<1>0. w \in Workers
  BY DEF OnePoller
<1>1. /\ child' = child /\ sub' = sub /\ now' = now /\ work' = work /\ initialized' = initialized
      /\ faults' = faults
      /\ pc[w] = "idle" /\ ~Working(w) /\ parent.status = "pending" /\ parent.next <= now
      /\ parent'.status = "pending" /\ parent'.attempts = parent.attempts + 1
      /\ pc'[w] = "targets" /\ start'[w] = now /\ claims'[w] = parent'.attempts
  BY <1>0 DEF ClaimEvent, Due, Types, envVars, taskVars, boundVars
<1>2. /\ Count \in Nat /\ Count <= Capacity /\ Capacity \in Nat /\ Slack \in Int
      /\ faults \in Nat /\ parent.attempts \in Nat /\ faults <= MaxFaults
      /\ MaxFaults \in Nat /\ MaxClaims \in Nat
  BY LevelType, OutboxAssumption DEF OnePoller, SettleInv, Kept, Order, Limits
<1>3. Count' = Count /\ Rows' /\ Pending' = Pending
  BY <1>1, CountKept DEF SettleInv, Kept, Order
<1>4. Slack' = Slack - 1
  BY <1>1, <1>2, <1>3 DEF Slack
<1>5. Slack >= 1 \/ (Slack >= 0 /\ Appointed(w))
  BY <1>1 DEF SettleInv, Kept, Order, Budget
<1>6. Limits'
  BY <1>1, <1>2, <1>5 DEF Limits, Slack, EnoughClaims
<1>7. Budget(w)'
  <2>1. CASE Slack >= 1
    BY <1>1, <1>2, <1>4, <2>1 DEF Budget
  <2>2. CASE Slack >= 0 /\ Appointed(w)
    <3>1. ~initialized' \/ DueRow(w)'
      <4>1. CASE ~initialized
        BY <1>1, <4>1
      <4>2. CASE \E s \in Pending : child[s].next <= parent.next
        <5>1. PICK s \in Pending : child[s].next <= parent.next
          BY <4>2
        <5>2. s \in Subs /\ child[s].status = "pending"
          BY DEF Pending
        <5>3. child[s].next \in Nat /\ parent.next \in Nat /\ now \in Nat
          BY <5>2, Numbers DEF Types, ParentRows
        <5>4. child[s].next <= now
          BY <1>1, <5>1, <5>3
        <5> QED BY <1>1, <5>2, <5>4 DEF DueRow, Due
      <4> QED BY <1>1, <2>2, <4>1, <4>2 DEF Appointed
    <3> QED BY <1>1, <1>2, <1>4, <2>2, <3>1 DEF Budget, WillPay
  <2> QED BY <1>5, <2>1, <2>2
<1>8. Fresh(w)'
  BY <1>1, <1>3 DEF SettleInv, Kept, Order, Fresh, Early, Settled, Working
<1> QED BY <1>3, <1>6, <1>7, <1>8 DEF SettleInv, Kept, Order

\* Deleting a subscription moves its row ahead unless it was settled.
LEMMA SettleUnsubscribe ==
  ASSUME NEW w, OnePoller(w), Types, Types', SettleInv(w), NEW r \in Subs, Unsubscribe(r)
  PROVE  Kept(w)'
<1>0. w \in Workers
  BY DEF OnePoller
<1>1. /\ UNCHANGED <<now, parent, initialized, pc, start, claims, targets, wait, work, faults>>
      /\ sub[r] = "active" /\ sub'[r] = "deleted"
      /\ child'[r].status = "none" /\ child'[r].attempts = 0
      /\ \A s \in Subs : s # r => child'[s] = child[s] /\ sub'[s] = sub[s]
  BY DEF Unsubscribe, Types, NoRow, passVars, taskVars
<1>2. Pending' \subseteq Pending /\ Pending' = Pending \ {r}
  BY <1>1 DEF Pending
<1>3. Rows' /\ Limits'
  BY <1>1, <1>2, OutboxAssumption DEF SettleInv, Kept, Order, Rows, Limits, Early, Settled, Working
<1>4. \A s \in Subs : Level(s) <= Level(s)'
  <2>1. \A s \in Subs : Level(s) \in Nat
    BY LevelType DEF OnePoller, SettleInv, Kept, Order
  <2> QED BY <1>1, <1>3, <2>1, Moves DEF SettleInv, Kept, Order
<1>5. Budget(w)'
  <2>1. CASE child[r].status \in {"none", "pending"}
    <3>1. Level(r) < Level(r)'
      BY <1>1, <1>3, <2>1, Moves DEF SettleInv, Kept, Order
    <3> QED BY <1>1, <1>3, <1>4, <3>1, Paid DEF SettleInv, Kept, Order
  <2>2. CASE child[r].status \notin {"none", "pending"}
    <3>1. Slack \in Int /\ Slack' \in Int /\ Slack <= Slack'
      BY <1>1, <1>3, <1>4, SlackGrows DEF OnePoller, SettleInv, Kept, Order
    <3>2. Pending' = Pending /\ ~NoRows /\ initialized
      BY <1>2, <2>2 DEF Pending, NoRows, SettleInv, Kept, Order, Fresh
    <3>3. \A s \in Pending : child'[s] = child[s]
      BY <1>1, <2>2 DEF Pending
    <3>4. \A s \in Subs : Due(child[s], start[w]) =>
            Due(child'[s], start'[w]) /\ child'[s].attempts = child[s].attempts
      BY <1>1, <2>2 DEF Due
    <3>5. Appointed(w) => Appointed(w)'
      BY <1>1, <3>2, <3>3 DEF Appointed
    <3>6. Working(w)' = Working(w) /\ (DueRow(w) => DueRow(w)')
      BY <1>1, <3>4 DEF Working, DueRow
    <3>7. pc[w] # "insert"
      BY <3>2 DEF SettleInv, Kept, Order, Early
    <3>8. WillPay(w) => WillPay(w)'
      BY <1>1, <3>2, <3>4, <3>6, <3>7 DEF WillPay
    <3> QED BY <1>1, <3>1, <3>5, <3>6, <3>8 DEF SettleInv, Kept, Order, Budget
  <2> QED BY <2>1, <2>2
<1>6. Fresh(w)'
  <2>1. \A s \in Subs : child'[s] = child[s] \/ child'[s].status = "none"
    BY <1>1
  <2> QED BY <1>1, <2>1 DEF SettleInv, Kept, Order, Fresh, Working
<1> QED BY <1>3, <1>5, <1>6 DEF SettleInv, Kept, Order

\* Cleanup removes the rows of an event that is settled.
LEMMA SettleCleanup ==
  ASSUME NEW w, OnePoller(w), Types, Types', SettleInv(w), Cleanup
  PROVE  Kept(w)'
<1>0. w \in Workers
  BY DEF OnePoller
<1>1. /\ UNCHANGED <<now, initialized, pc, start, claims, targets, wait, work, faults>>
      /\ parent.status # "pending" /\ parent'.status = "deleted"
      /\ parent'.attempts = parent.attempts
      /\ \A s \in Subs : child'[s].status = "none" /\ child'[s].attempts = 0
  BY DEF Cleanup, Types, ParentRows, NoRow, envVars, passVars, taskVars, boundVars
<1>2. pc[w] = "idle"
  BY <1>1 DEF SettleInv, Kept, Order, Settled
<1>3. Rows' /\ Limits' /\ Pending' = {}
  BY <1>1, OutboxAssumption DEF SettleInv, Kept, Order, Rows, Limits, Pending
<1>4. Budget(w)' /\ Fresh(w)'
  BY <1>1, <1>2, <1>3 DEF SettleInv, Kept, Order, Budget, Fresh, Early, Settled, Working
<1> QED BY <1>3, <1>4 DEF SettleInv, Kept, Order

-----------------------------------------------------------------------------
\* A step that leaves the rows alone keeps the slack.
LEMMA SlackKept ==
  ASSUME NEW w, OnePoller(w), Types, Types', Rows, UNCHANGED <<child, sub, faults>>,
         parent'.attempts = parent.attempts
  PROVE  /\ Slack \in Int /\ Slack' = Slack
         /\ Rows' /\ NoRows' = NoRows /\ Pending' = Pending
<1>1. Count' = Count /\ Rows' /\ NoRows' = NoRows /\ Pending' = Pending
  BY CountKept
<1> QED BY <1>1, LevelType DEF OnePoller, Slack

\* The reads before the insert.
LEMMA SettleReads ==
  ASSUME NEW w, OnePoller(w), Types, Types', ClaimInv, SettleInv(w),
         ReadTargets(w) \/ ReadParent(w) \/ SetInitialized(w)
  PROVE  Kept(w)'
<1>0. w \in Workers
  BY DEF OnePoller
<1>1. /\ UNCHANGED <<now, parent, child, sub, start, claims, wait, work, faults>>
      /\ pc[w] # "idle"
  BY DEF ReadTargets, ReadParent, SetInitialized, envVars, rowVars, passVars, taskVars, boundVars
<1>2. parent.status = "pending" /\ claims[w] = parent.attempts
  BY <1>1 DEF SettleInv, Kept, Order, Settled, Early
<1>3. Slack \in Int /\ Slack' = Slack /\ Rows' /\ NoRows' = NoRows /\ Pending' = Pending
  BY <1>1, SlackKept DEF SettleInv, Kept, Order
<1>4. Working(w)' = Working(w) /\ Limits'
  BY <1>1 DEF Working, SettleInv, Kept, Order, Limits
<1>5. DueRow(w)' = DueRow(w)
  BY <1>1 DEF DueRow
<1>6. CASE ReadTargets(w)
  <2>1. pc[w] = "targets" /\ pc'[w] = "parent" /\ initialized' = initialized
        /\ targets'[w] = Subscribed
    BY <1>0, <1>6 DEF ReadTargets, Types, rowVars
  <2>2. Whole(w)'
    BY <1>1, <2>1 DEF Whole, Subscribed
  <2>3. Budget(w)'
    BY <1>1, <1>2, <1>3, <1>5, <2>1, <2>2 DEF SettleInv, Kept, Order, Budget, WillPay
  <2> QED BY <1>1, <1>2, <1>3, <1>4, <2>1, <2>3 DEF SettleInv, Kept, Order, Fresh, Early, Settled
<1>7. CASE ReadParent(w)
  <2>1. pc[w] = "parent" /\ pc'[w] = (IF initialized THEN "expire" ELSE "insert")
        /\ initialized' = initialized /\ targets' = targets
    BY <1>0, <1>2, <1>7 DEF ReadParent, Types, rowVars, passVars
  <2>2. Whole(w)' = Whole(w)
    BY <1>1, <2>1 DEF Whole
  <2>3. Budget(w)'
    BY <1>1, <1>2, <1>3, <1>5, <2>1, <2>2 DEF SettleInv, Kept, Order, Budget, WillPay
  <2> QED BY <1>1, <1>2, <1>3, <1>4, <2>1, <2>3 DEF SettleInv, Kept, Order, Fresh, Early, Settled
<1>8. CASE SetInitialized(w)
  <2>1. pc[w] = "flag" /\ pc'[w] = "expire" /\ initialized'
    BY <1>0, <1>2, <1>8 DEF SetInitialized, Types
  <2>2. DueRow(w) \/ NoRows
    BY <2>1 DEF SettleInv, Kept, Order, Early, Fresh, DueRow, NoRows, Due
  <2>3. Budget(w)'
    BY <1>2, <1>1, <1>3, <1>5, <2>1, <2>2 DEF SettleInv, Kept, Order, Budget, WillPay
  <2> QED BY <1>1, <1>2, <1>3, <1>4, <2>1, <2>3 DEF SettleInv, Kept, Order, Fresh, Early, Settled
<1> QED BY <1>6, <1>7, <1>8

\* The insert adds rows that are due in this pass.
LEMMA SettleInsert ==
  ASSUME NEW w, OnePoller(w), Types, Types', ClaimInv, SettleInv(w), InsertChildren(w)
  PROVE  Kept(w)'
<1>0. w \in Workers
  BY DEF OnePoller
<1>1. /\ UNCHANGED <<now, parent, sub, initialized, start, claims, targets, work, faults>>
      /\ pc[w] = "insert"
  BY DEF InsertChildren, envVars, rowVars, passVars, taskVars, boundVars
<1>2. parent.status = "pending" /\ claims[w] = parent.attempts /\ ~initialized /\ ~Working(w)
  BY <1>1 DEF SettleInv, Kept, Order, Settled, Early
<1>3. Working(w)' = Working(w) /\ Limits'
  BY <1>1 DEF Working, SettleInv, Kept, Order, Limits
<1>4. CASE Refused(w)
  <2>1. child' = child /\ pc'[w] = "retry"
    BY <1>0, <1>4 DEF InsertChildren, Types
  <2>2. Slack \in Int /\ Slack' = Slack /\ Rows' /\ Pending' = Pending
    BY <1>1, <2>1, SlackKept DEF SettleInv, Kept, Order
  <2>3. Slack >= 0
    BY <1>1, <1>2, <1>4 DEF Refused, SettleInv, Kept, Order, Budget, WillPay, Whole
  <2>4. Budget(w)'
    BY <1>1, <1>2, <1>3, <2>1, <2>2, <2>3 DEF Budget, Appointed
  <2> QED BY <1>1, <1>2, <1>3, <2>1, <2>2, <2>4 DEF SettleInv, Kept, Order, Fresh, Early, Settled
<1>5. CASE ~Refused(w)
  <2>1. /\ pc'[w] = "flag"
        /\ child' = [s \in Subs |->
                       IF s \in targets[w] /\ child[s].status = "none"
                       THEN [status |-> "pending", attempts |-> 0, next |-> start[w]]
                       ELSE child[s]]
    BY <1>0, <1>5 DEF InsertChildren, Types
  <2>2. \A s \in Subs :
          \/ child'[s] = child[s]
          \/ /\ s \in targets[w] /\ child[s].status = "none"
             /\ child'[s].status = "pending" /\ child'[s].attempts = 0 /\ child'[s].next = start[w]
    BY <2>1
  <2>3. Rows'
    BY <2>2, OutboxAssumption DEF SettleInv, Kept, Order, Rows
  <2>4. ASSUME NEW s \in Subs PROVE Level(s) <= Level(s)'
    <3>1. Level(s) \in Nat
      BY LevelType DEF OnePoller, SettleInv, Kept, Order
    <3>2. CASE child'[s] = child[s]
      BY <1>1, <2>3, <3>1, <3>2, Moves DEF SettleInv, Kept, Order
    <3>3. CASE child'[s] # child[s]
      <4>1. /\ sub[s] # "deleted" /\ child[s].status = "none" /\ child[s].attempts = 0
            /\ child'[s].status = "pending" /\ child'[s].attempts = 0
        BY <1>1, <1>5, <2>2, <3>3 DEF Refused, SettleInv, Kept, Order, Rows
      <4> QED BY <1>1, <2>3, <4>1, Moves DEF SettleInv, Kept, Order
    <3> QED BY <3>2, <3>3
  <2>5. Slack \in Int /\ Slack' \in Int /\ Slack <= Slack'
    BY <1>1, <2>3, <2>4, SlackGrows DEF OnePoller, SettleInv, Kept, Order
  <2>6. Budget(w)'
    BY <1>1, <1>2, <2>1, <2>5 DEF SettleInv, Kept, Order, Budget, WillPay
  <2>7. Fresh(w)'
    <3>1. start[w] \in Nat /\ start[w] <= now
      BY <1>0, Numbers DEF ClaimInv, Starts
    <3> QED BY <1>1, <1>2, <1>3, <2>1, <2>2, <3>1 DEF SettleInv, Kept, Order, Fresh
  <2> QED BY <1>1, <1>2, <1>3, <2>1, <2>3, <2>6, <2>7 DEF SettleInv, Kept, Order, Early, Settled
<1> QED BY <1>4, <1>5

\* A row whose last attempt has lapsed is given up, which pays for the pass;
\* otherwise a row that is due has attempts left.
LEMMA SettleExpire ==
  ASSUME NEW w, OnePoller(w), Types, Types', ClaimInv, SettleInv(w), DeadLetterExpired(w)
  PROVE  Kept(w)'
<1>0. w \in Workers
  BY DEF OnePoller
<1>1. /\ UNCHANGED <<now, parent, sub, initialized, start, claims, targets, wait, work, faults>>
      /\ pc[w] = "expire" /\ pc'[w] = "rows"
      /\ child' = [s \in Subs |->
                     IF Due(child[s], start[w]) /\ child[s].attempts >= MaxAttempts
                     THEN [child[s] EXCEPT !.status = "dead_letter"] ELSE child[s]]
  BY <1>0 DEF DeadLetterExpired, Types, envVars, rowVars, passVars, taskVars, boundVars
<1>2. parent.status = "pending" /\ claims[w] = parent.attempts /\ initialized /\ ~Working(w)
  BY <1>1 DEF SettleInv, Kept, Order, Settled, Early, Fresh
<1>3. Working(w)' = Working(w) /\ Limits'
  BY <1>1 DEF Working, SettleInv, Kept, Order, Limits
<1>4. ASSUME NEW s \in Subs
      PROVE  \/ /\ child'[s] = child[s]
                /\ Due(child[s], start[w]) => child[s].attempts < MaxAttempts
             \/ /\ Due(child[s], start[w]) /\ child'[s].status = "dead_letter"
                /\ child'[s].attempts = child[s].attempts
  <2>1. child[s] \in ChildRows /\ MaxAttempts \in Nat
    BY OutboxAssumption DEF Types
  <2> QED BY <1>1, <2>1 DEF ChildRows
<1>5. Rows'
  BY <1>4, OutboxAssumption DEF SettleInv, Kept, Order, Rows, Due
<1>6. ASSUME NEW s \in Subs
      PROVE  /\ Level(s) <= Level(s)'
             /\ child'[s] # child[s] => Level(s) < Level(s)'
  <2>1. Level(s) \in Nat /\ Level(s)' \in Nat
    BY <1>5, Moves DEF SettleInv, Kept, Order
  <2>2. CASE child'[s] = child[s]
    BY <1>1, <1>5, <2>1, <2>2, Moves DEF SettleInv, Kept, Order
  <2>3. CASE child'[s] # child[s]
    <3>1. child[s].status = "pending" /\ child'[s].status \in Terminal /\ sub[s] # "deleted"
      BY <1>4, <2>3 DEF Due, Terminal, ClaimInv, Deleted, Gone
    <3>2. Level(s) < Level(s)'
      BY <1>5, <3>1, Moves DEF SettleInv, Kept, Order
    <3> QED BY <2>1, <3>2
  <2> QED BY <2>2, <2>3
<1>7. Budget(w)'
  <2>1. Slack \in Int /\ Slack' \in Int /\ Slack <= Slack'
        /\ \A s \in Subs : Level(s) < Level(s)' => Slack + 1 <= Slack'
    BY <1>1, <1>5, <1>6, SlackGrows DEF OnePoller, SettleInv, Kept, Order
  <2>2. Slack >= 0 \/ (Slack >= -1 /\ (DueRow(w) \/ NoRows))
    BY <1>1, <1>2 DEF SettleInv, Kept, Order, Budget, WillPay
  <2>3. CASE Slack >= 0 \/ \E s \in Subs : child'[s] # child[s]
    <3>1. Slack' >= 0
      <4>1. CASE Slack >= 0
        BY <2>1, <4>1
      <4>2. CASE \E s \in Subs : child'[s] # child[s]
        <5>1. PICK s \in Subs : child'[s] # child[s]
          BY <4>2
        <5>2. Slack + 1 <= Slack'
          BY <1>6, <2>1, <5>1
        <5> QED BY <2>1, <2>2, <5>2
      <4> QED BY <2>3, <4>1, <4>2
    <3> QED BY <1>1, <3>1 DEF Budget
  <2>4. CASE Slack >= -1 /\ \A s \in Subs : child'[s] = child[s]
    <3>1. NoRows => NoRows'
      BY <2>4 DEF NoRows
    <3>2. DueRow(w) => \E s \in Subs : Due(child'[s], start'[w]) /\ child'[s].attempts < MaxAttempts
      <4>1. ASSUME NEW s \in Subs, Due(child[s], start[w])
            PROVE  Due(child'[s], start'[w]) /\ child'[s].attempts < MaxAttempts
        BY <1>1, <1>4, <2>4, <4>1 DEF Due
      <4> QED BY <4>1 DEF DueRow
    <3> QED BY <1>1, <1>2, <2>1, <2>2, <2>4, <3>1, <3>2 DEF Budget, WillPay
  <2> QED BY <2>1, <2>2, <2>3, <2>4
<1> QED BY <1>1, <1>2, <1>3, <1>5, <1>7 DEF SettleInv, Kept, Order, Fresh, Early, Settled

\* The pass finds what is due, or an event without rows.
LEMMA SettleReadRows ==
  ASSUME NEW w, OnePoller(w), Types, Types', ClaimInv, SettleInv(w), ReadRows(w)
  PROVE  Kept(w)'
<1>0. w \in Workers
  BY DEF OnePoller
<1>1. /\ UNCHANGED <<now, parent, child, sub, initialized, start, claims, targets, wait, faults>>
      /\ pc[w] = "rows" /\ pc'[w] = (IF NoRows THEN "complete" ELSE "work")
      /\ \A s \in Subs : Due(child[s], start[w]) => work'[w][s] \in {"claim", "drop"}
  BY <1>0 DEF ReadRows, NoRows, Types, envVars, rowVars, passVars, boundVars
<1>2. parent.status = "pending" /\ claims[w] = parent.attempts /\ initialized
  BY <1>1 DEF SettleInv, Kept, Order, Settled, Early, Fresh
<1>3. Slack \in Int /\ Slack' = Slack /\ Rows' /\ Pending' = Pending
  BY <1>1, SlackKept DEF SettleInv, Kept, Order
<1>4. Budget(w)'
  <2>1. CASE Slack >= 0 \/ NoRows
    BY <1>1, <1>2, <1>3, <2>1 DEF SettleInv, Kept, Order, Budget, WillPay
  <2>2. CASE Slack >= -1 /\ ~NoRows
             /\ \E s \in Subs : Due(child[s], start[w]) /\ child[s].attempts < MaxAttempts
    <3>1. PICK s \in Subs : Due(child[s], start[w]) /\ child[s].attempts < MaxAttempts
      BY <2>2
    <3>2. Due(child'[s], start'[w]) /\ child'[s].attempts < MaxAttempts
          /\ work'[w][s] \in {"claim", "drop"}
      BY <1>1, <3>1 DEF Due
    <3>3. WillPay(w)' /\ pc'[w] = "work"
      BY <1>1, <2>2, <3>2 DEF WillPay
    <3> QED BY <1>3, <2>2, <3>3 DEF Budget
  <2> QED BY <1>1, <1>2, <1>3, <2>1, <2>2 DEF SettleInv, Kept, Order, Budget, WillPay
<1>5. NoRows => Pending = {}
  BY DEF NoRows, Pending
<1> QED BY <1>1, <1>2, <1>3, <1>4, <1>5 DEF SettleInv, Kept, Order, Fresh, Early, Settled, Limits

\* A pass that leaves a row pending makes an appointment for it.
LEMMA SettleTally ==
  ASSUME NEW w, OnePoller(w), Types, Types', ClaimInv, SettleInv(w), Tally(w)
  PROVE  Kept(w)'
<1>0. w \in Workers
  BY DEF OnePoller
<1>1. /\ UNCHANGED <<now, parent, child, sub, initialized, start, claims, targets, work, faults>>
      /\ pc[w] = "work" /\ ~Working(w)
  BY DEF Tally, envVars, rowVars, taskVars, boundVars
<1>2. parent.status = "pending" /\ claims[w] = parent.attempts /\ initialized
  BY <1>1 DEF SettleInv, Kept, Order, Settled, Early, Fresh
<1>3. Slack \in Int /\ Slack' = Slack /\ Rows' /\ Pending' = Pending /\ ~Working(w)'
  BY <1>1, SlackKept DEF SettleInv, Kept, Order, Working
<1>4. Slack >= 0
  BY <1>1, <1>2 DEF SettleInv, Kept, Order, Budget, WillPay, Working
<1>5. /\ Pending # {} => pc'[w] = "retry"
      /\ Pending = {} => pc'[w] \in {"complete", "fail"}
  BY <1>0 DEF Tally, Types
<1>6. ASSUME Pending # {}
      PROVE  \E s \in Pending : child[s].next <= start[w] + wait'[w]
  <2>1. PICK s \in Pending : wait' = [wait EXCEPT ![w] = IF child[s].next < start[w] THEN 0
                                                         ELSE child[s].next - start[w]]
    BY <1>6 DEF Tally
  <2>2. s \in Subs /\ child[s].next \in Nat /\ start[w] \in Nat
    BY <1>0, Numbers DEF Pending
  <2>3. wait'[w] = IF child[s].next < start[w] THEN 0 ELSE child[s].next - start[w]
    BY <1>0, <2>1 DEF Types
  <2>4. child[s].next <= start[w] + wait'[w]
    BY <2>2, <2>3
  <2> QED BY <2>4
<1>7. Budget(w)'
  BY <1>1, <1>3, <1>4, <1>5, <1>6 DEF Budget, Appointed, WillPay
<1> QED BY <1>1, <1>2, <1>3, <1>5, <1>7 DEF SettleInv, Kept, Order, Fresh, Early, Settled, Limits

\* A pass settles the event only if no row is pending; it has claims left to
\* keep the appointment otherwise.
LEMMA SettleFinish ==
  ASSUME NEW w, OnePoller(w), Types, Types', ClaimInv, SettleInv(w), Finish(w)
  PROVE  Kept(w)'
<1>0. w \in Workers
  BY DEF OnePoller
<1>1. /\ UNCHANGED <<now, child, sub, initialized, work, faults>>
      /\ pc[w] \in {"complete", "fail", "retry"} /\ pc'[w] = "idle"
  BY <1>0 DEF Finish, EndPass, Types, envVars, taskVars, boundVars
<1>2. parent.status = "pending" /\ claims[w] < MaxClaims
  BY <1>1 DEF SettleInv, Kept, Order, Settled, Early, Limits
<1>3. /\ parent'.attempts = parent.attempts
      /\ pc[w] = "retry" => parent'.status = "pending" /\ parent'.next = now + wait[w]
      /\ pc[w] # "retry" => parent'.status # "pending"
  BY <1>1, <1>2 DEF Finish, Types, ParentRows
<1>4. Slack \in Int /\ Slack' = Slack /\ Rows' /\ Pending' = Pending /\ Working(w)' = Working(w)
  BY <1>1, <1>3, SlackKept DEF SettleInv, Kept, Order, Working
<1>5. Limits' /\ Fresh(w)'
  BY <1>1, <1>2, <1>3, <1>4 DEF SettleInv, Kept, Order, Limits, Early, Settled, Fresh
<1>6. Budget(w)'
  <2>1. CASE pc[w] = "retry"
    <3>1. Appointed(w) => Appointed(w)'
      <4>1. CASE ~initialized
        BY <1>1, <4>1 DEF Appointed
      <4>2. ASSUME NEW s \in Pending, child[s].next <= start[w] + wait[w]
            PROVE  Appointed(w)'
        <5>1. /\ s \in Subs /\ child[s].next \in Nat /\ start[w] \in Nat /\ now \in Nat
              /\ start[w] <= now /\ wait[w] \in Nat
          BY <1>0, Numbers DEF Pending, ClaimInv, Starts, Types
        <5>2. child[s].next <= now + wait[w]
          BY <4>2, <5>1
        <5> QED BY <1>1, <1>3, <1>4, <2>1, <5>2 DEF Appointed
      <4> QED BY <2>1, <4>1, <4>2 DEF Appointed
    <3> QED BY <1>1, <1>2, <1>4, <2>1, <3>1 DEF SettleInv, Kept, Order, Budget
  <2>2. CASE pc[w] # "retry"
    BY <1>3, <2>2 DEF Budget
  <2> QED BY <2>1, <2>2
<1> QED BY <1>4, <1>5, <1>6 DEF SettleInv, Kept, Order

-----------------------------------------------------------------------------
\* A task that handles a row the pass was to pay with moves it ahead.
LEMMA SettleTask ==
  ASSUME NEW w, OnePoller(w), Types, Types', SettleInv(w), NEW r \in Subs,
         UNCHANGED <<now, parent, sub, initialized, pc, start, claims, targets, wait, faults>>,
         work[w][r] # "off",
         \A s \in Subs : s # r => child'[s] = child[s] /\ work'[w][s] = work[w][s],
         child'[r].status = "none" => child[r].status = "none",
         child'[r].status = "pending" => child[r].status = "pending",
         Rows', Level(r) <= Level(r)',
         work[w][r] \in {"claim", "drop"} /\ Due(child[r], start[w]) /\ child[r].attempts < MaxAttempts
           => Level(r) < Level(r)'
  PROVE  Kept(w)'
<1>1. Working(w) /\ initialized
  BY DEF Working, SettleInv, Kept, Order, Fresh
<1>2. Pending' \subseteq Pending
  BY DEF Pending
<1>3. Limits' /\ Fresh(w)'
  BY <1>1, <1>2 DEF SettleInv, Kept, Order, Limits, Fresh, Early, Settled
<1>4. \A s \in Subs : Level(s) <= Level(s)'
  BY Moves DEF SettleInv, Kept, Order
<1>5. Slack \in Int /\ Slack' \in Int /\ Slack <= Slack'
      /\ \A s \in Subs : Level(s) < Level(s)' => Slack + 1 <= Slack'
  BY <1>4, SlackGrows DEF OnePoller, SettleInv, Kept, Order
<1>6. CASE pc[w] \in {"idle", "retry"} \/ parent.status # "pending"
  <2>1. Budget(w)'
    BY <1>1, <1>5, <1>6 DEF SettleInv, Kept, Order, Budget
  <2> QED BY <1>3, <2>1 DEF SettleInv, Kept, Order
<1>7. CASE pc[w] = "work" /\ parent.status = "pending"
  <2>1. CASE Slack >= 0 \/ Level(r) < Level(r)'
    <3>1. Slack' >= 0
      <4>1. Slack >= -1
        BY <1>5, <1>7 DEF SettleInv, Kept, Order, Budget
      <4>2. CASE Slack >= 0
        BY <1>5, <4>2
      <4>3. CASE Level(r) < Level(r)'
        <5>1. Slack + 1 <= Slack'
          BY <1>5, <4>3
        <5> QED BY <1>5, <4>1, <5>1
      <4> QED BY <2>1, <4>2, <4>3
    <3> QED BY <1>3, <1>7, <3>1 DEF SettleInv, Kept, Order, Budget
  <2>2. CASE ~(Slack >= 0) /\ ~(Level(r) < Level(r)')
    <3>1. /\ Slack >= -1
          /\ \E s \in Subs : /\ Due(child[s], start[w]) /\ child[s].attempts < MaxAttempts
                             /\ work[w][s] \in {"claim", "drop"}
      BY <1>7, <2>2 DEF SettleInv, Kept, Order, Budget, WillPay
    <3>2. PICK s \in Subs : /\ Due(child[s], start[w]) /\ child[s].attempts < MaxAttempts
                            /\ work[w][s] \in {"claim", "drop"}
      BY <3>1
    <3>3. s # r
      BY <2>2, <3>2
    <3>4. Due(child'[s], start'[w]) /\ child'[s].attempts < MaxAttempts
          /\ work'[w][s] \in {"claim", "drop"}
      BY <3>2, <3>3 DEF Due
    <3>5. WillPay(w)'
      BY <1>7, <3>4 DEF WillPay
    <3>6. Slack' >= -1
      BY <1>5, <3>1
    <3> QED BY <1>3, <1>7, <3>5, <3>6 DEF SettleInv, Kept, Order, Budget
  <2> QED BY <2>1, <2>2
<1>8. CASE pc[w] \in {"complete", "fail"} /\ parent.status = "pending"
  <2>1. Slack' >= -1
    BY <1>5, <1>8 DEF SettleInv, Kept, Order, Budget
  <2> QED BY <1>3, <1>8, <2>1 DEF SettleInv, Kept, Order, Budget, WillPay
<1>9. pc[w] \in {"idle", "retry", "work", "complete", "fail"}
  <2>1. w \in Workers /\ pc[w] \in Phases
    BY DEF OnePoller, Types
  <2> QED BY <1>1, <2>1 DEF Phases, SettleInv, Kept, Order, Early
<1> QED BY <1>6, <1>7, <1>8, <1>9

\* A settled row keeps its attempts.
LEMMA OutcomeRow ==
  ASSUME NEW row \in ChildRows, NEW answer \in {"ok", "refused", "unanswered"}, NEW t
  PROVE  /\ Outcome(row, answer, t).attempts = row.attempts
         /\ \/ Outcome(row, answer, t).status \in Terminal
            \/ Outcome(row, answer, t).status = row.status
<1>0. MaxAttempts \in Nat /\ row.attempts \in Nat
  BY OutboxAssumption DEF ChildRows
<1>1. \/ Outcome(row, answer, t) = [row EXCEPT !.status = "succeeded"]
      \/ Outcome(row, answer, t) = [row EXCEPT !.status = "failed"]
      \/ Outcome(row, answer, t) = [row EXCEPT !.status = "dead_letter"]
      \/ Outcome(row, answer, t) = [row EXCEPT !.next = t + Delays[row.attempts]]
  <2>1. CASE answer = "ok"
    BY <2>1 DEF Outcome
  <2>2. CASE answer = "refused"
    BY <2>2 DEF Outcome
  <2>3. CASE answer = "unanswered" /\ row.attempts >= MaxAttempts
    <3>1. ~(row.attempts < MaxAttempts)
      BY <1>0, <2>3
    <3> QED BY <2>3, <3>1, Zenon DEF Outcome
  <2>4. CASE answer = "unanswered" /\ row.attempts < MaxAttempts
    <3>1. ~(row.attempts >= MaxAttempts)
      BY <1>0, <2>4
    <3> QED BY <2>4, <3>1, Zenon DEF Outcome
  <2> QED BY <1>0, <2>1, <2>2, <2>3, <2>4
<1> QED BY <1>1 DEF ChildRows, Terminal

\* The steps of a task.
LEMMA SettleTasks ==
  ASSUME NEW w, OnePoller(w), Types, Types', ClaimInv, SettleInv(w), NEW r \in Subs, Task(w, r)
  PROVE  Kept(w)'
<1>0. w \in Workers /\ child[r] \in ChildRows /\ Rows /\ MaxAttempts \in Nat \ {0}
  BY OutboxAssumption DEF OnePoller, Types, SettleInv, Kept, Order
<1>1. child[r].status # "none" => sub[r] # "deleted"
  BY DEF ClaimInv, Deleted, Gone
<1>2. CASE FailUnavailable(w, r)
  <2>1. /\ UNCHANGED <<now, parent, sub, initialized, pc, start, claims, targets, wait, faults>>
        /\ work[w][r] = "drop" /\ work' = [work EXCEPT ![w][r] = "off"]
        /\ child' = IF Due(child[r], start[w])
                    THEN [child EXCEPT ![r].status = "failed"] ELSE child
    BY <1>2 DEF FailUnavailable, envVars, passVars, boundVars
  <2>2. \A s \in Subs : s # r => child'[s] = child[s] /\ work'[w][s] = work[w][s]
    BY <1>0, <2>1 DEF Types
  <2>3. /\ Due(child[r], start[w]) => child'[r].status = "failed" /\ child'[r].attempts = child[r].attempts
        /\ ~Due(child[r], start[w]) => child'[r] = child[r]
    BY <1>0, <2>1 DEF Types, ChildRows
  <2>4. Rows'
    BY <1>0, <2>2, <2>3 DEF Rows, Due
  <2>5. Due(child[r], start[w]) => Level(r) < Level(r)'
    BY <1>0, <1>1, <2>3, <2>4, Moves DEF Due, Terminal
  <2>6. Level(r) <= Level(r)'
    BY <1>0, <2>1, <2>3, <2>4, <2>5, Moves
  <2> QED BY <2>1, <2>2, <2>3, <2>4, <2>5, <2>6, SettleTask DEF Due
<1>3. CASE ClaimDelivery(w, r)
  <2> DEFINE Won == Due(child[r], start[w]) /\ child[r].attempts < MaxAttempts
  <2>1. /\ UNCHANGED <<now, parent, sub, initialized, pc, start, claims, targets, wait, faults>>
        /\ work[w][r] = "claim"
        /\ Won => /\ work' = [work EXCEPT ![w][r] = "post"]
                  /\ child' = [child EXCEPT ![r] = [status |-> "pending",
                                                    attempts |-> child[r].attempts + 1,
                                                    next |-> start[w] + Lease]]
        /\ ~Won => work' = [work EXCEPT ![w][r] = "off"] /\ child' = child
    BY <1>3 DEF ClaimDelivery, envVars, passVars, boundVars
  <2>2. \A s \in Subs : s # r => child'[s] = child[s] /\ work'[w][s] = work[w][s]
    BY <1>0, <2>1 DEF Types
  <2>3. /\ Won => child'[r].status = "pending" /\ child'[r].attempts = child[r].attempts + 1
        /\ ~Won => child'[r] = child[r]
    BY <1>0, <2>1 DEF Types
  <2>4. child[r].attempts \in Nat
    BY <1>0 DEF ChildRows
  <2>5. Rows'
    BY <1>0, <2>2, <2>3, <2>4 DEF Rows
  <2>6. Won => child[r].status = "pending"
    BY DEF Due
  <2> HIDE DEF Won
  <2>7. Won => Level(r) < Level(r)'
    BY <1>0, <1>1, <2>1, <2>3, <2>4, <2>5, <2>6, Moves
  <2>8. Level(r) <= Level(r)'
    BY <1>0, <2>1, <2>3, <2>5, <2>7, Moves
  <2>9. /\ child'[r].status = "none" => child[r].status = "none"
        /\ child'[r].status = "pending" => child[r].status = "pending"
    BY <2>3, <2>6
  <2>10. work[w][r] \in {"claim", "drop"} /\ Due(child[r], start[w]) /\ child[r].attempts < MaxAttempts
           => Level(r) < Level(r)'
    BY <2>7 DEF Won
  <2> QED BY <2>1, <2>2, <2>5, <2>8, <2>9, <2>10, SettleTask
<1>4. ASSUME NEW result \in {"ok", "refused", "unanswered"}, Attempt(w, r, result)
      PROVE  Kept(w)'
  <2>1. /\ UNCHANGED <<now, parent, sub, initialized, child, pc, start, claims, targets, wait, faults>>
        /\ work[w][r] = "post" /\ work' = [work EXCEPT ![w][r] = result]
    BY <1>4 DEF Attempt, envVars, rowVars, passVars, boundVars
  <2>2. \A s \in Subs : s # r => child'[s] = child[s] /\ work'[w][s] = work[w][s]
    BY <1>0, <2>1 DEF Types
  <2>3. Rows'
    BY <1>0, <2>1 DEF Rows
  <2>4. Level(r) <= Level(r)'
    BY <1>0, <2>1, <2>3, Moves
  <2> QED BY <2>1, <2>2, <2>3, <2>4, SettleTask
<1>5. CASE SettleDelivery(w, r)
  <2>1. /\ UNCHANGED <<now, parent, sub, initialized, pc, start, claims, targets, wait, faults>>
        /\ work[w][r] \in {"ok", "refused", "unanswered"}
        /\ work' = [work EXCEPT ![w][r] = "off"]
        /\ child' = IF OwnsClaim(w, r)
                    THEN [child EXCEPT ![r] = Outcome(@, work[w][r], start[w])] ELSE child
    BY <1>5 DEF SettleDelivery, envVars, passVars, boundVars
  <2>2. \A s \in Subs : s # r => child'[s] = child[s] /\ work'[w][s] = work[w][s]
    BY <1>0, <2>1 DEF Types
  <2>3. \/ child'[r] = child[r]
        \/ /\ child[r].status = "pending" /\ child'[r].attempts = child[r].attempts
           /\ child'[r].status \in Terminal \/ child'[r].status = "pending"
    <3>1. CASE OwnsClaim(w, r)
      <4>1. child'[r] = Outcome(child[r], work[w][r], start[w])
        BY <1>0, <2>1, <3>1 DEF Types
      <4>2. child[r].status = "pending"
        BY <3>1 DEF OwnsClaim
      <4> QED BY <1>0, <2>1, <4>1, <4>2, OutcomeRow
    <3>2. CASE ~OwnsClaim(w, r)
      BY <2>1, <3>2
    <3> QED BY <3>1, <3>2
  <2>4. Rows'
    BY <1>0, <2>2, <2>3 DEF Rows, Terminal
  <2>5. Level(r) <= Level(r)'
    <3>1. Level(r) \in Nat /\ Level(r)' \in Nat
      BY <1>0, <2>4, Moves
    <3>2. CASE child'[r] = child[r]
      BY <1>0, <2>1, <2>4, <3>1, <3>2, Moves
    <3>3. CASE child[r].status = "pending" /\ child'[r].status \in Terminal
      <4>1. Level(r) < Level(r)'
        BY <1>0, <1>1, <2>4, <3>3, Moves
      <4> QED BY <3>1, <4>1
    <3>4. CASE child[r].status = "pending" /\ child'[r].status = "pending"
               /\ child'[r].attempts = child[r].attempts
      <4>1. Level(r) = Level(r)'
        BY <1>0, <1>1, <2>1, <2>4, <3>4, Moves
      <4> QED BY <3>1, <4>1
    <3> QED BY <2>3, <3>2, <3>3, <3>4
  <2>6. /\ child'[r].status = "none" => child[r].status = "none"
        /\ child'[r].status = "pending" => child[r].status = "pending"
        /\ work[w][r] # "off" /\ work[w][r] \notin {"claim", "drop"}
    BY <2>1, <2>3 DEF Terminal
  <2> QED BY <2>1, <2>2, <2>4, <2>5, <2>6, SettleTask
<1> QED BY <1>2, <1>3, <1>4, <1>5 DEF Task

\* A crash or an error pays for the claim that it wastes and for the next one.
LEMMA SettleFault ==
  ASSUME NEW w, OnePoller(w), Types, Types', ClaimInv, SettleInv(w),
         Throw(w) \/ Crash(w) \/ \E s \in Subs : ThrowTask(w, s)
  PROVE  Kept(w)'
<1>0. w \in Workers
  BY DEF OnePoller
<1>1. /\ UNCHANGED <<now, parent, child, sub, initialized>>
      /\ faults < MaxFaults /\ faults' = faults + 1
      /\ \/ pc[w] # "idle" /\ pc'[w] = "retry" /\ start' = start /\ claims' = claims
         \/ pc'[w] = "idle"
      /\ Working(w)' => Working(w)
  <2>1. CASE Throw(w)
    BY <1>0, <2>1 DEF Throw, Types, Working, envVars, rowVars, taskVars
  <2>2. CASE Crash(w)
    BY <1>0, <2>2 DEF Crash, EndPass, Types, Working, envVars, rowVars
  <2>3. CASE \E s \in Subs : ThrowTask(w, s)
    BY <1>0, <2>3 DEF ThrowTask, Types, Working, envVars, rowVars
  <2> QED BY <2>1, <2>2, <2>3
<1>2. Count' = Count /\ Rows' /\ Pending' = Pending
  BY <1>1, CountKept DEF SettleInv, Kept, Order
<1>3. /\ Count \in Nat /\ faults \in Nat /\ parent.attempts \in Nat /\ Slack \in Int
      /\ MaxFaults \in Nat
  BY LevelType, OutboxAssumption DEF OnePoller, SettleInv, Kept, Order
<1>4. Slack' = Slack + 2
  BY <1>1, <1>2, <1>3 DEF Slack
<1>5. parent.status = "pending" => Slack >= -1
  BY <1>3 DEF SettleInv, Kept, Order, Budget
<1>6. Budget(w)'
  BY <1>1, <1>3, <1>4, <1>5 DEF Budget
<1>7. Limits'
  BY <1>1, <1>3 DEF SettleInv, Kept, Order, Limits
<1>8. Fresh(w)'
  BY <1>1, <1>2 DEF SettleInv, Kept, Order, Fresh, Early, Settled
<1> QED BY <1>2, <1>6, <1>7, <1>8 DEF SettleInv, Kept, Order

\* Every step keeps the budget.
LEMMA BudgetStep ==
  ASSUME NEW w, OnePoller(w), EnoughClaims
  PROVE  Types /\ Types' /\ ClaimInv /\ SettleInv(w) /\ [Next]_vars => Kept(w)'
<1> SUFFICES ASSUME Types, Types', ClaimInv, SettleInv(w), [Next]_vars PROVE Kept(w)'
  OBVIOUS
<1>1. CASE UNCHANGED vars
  <2>1. /\ UNCHANGED <<parent, initialized, child, pc, start, claims, targets, wait, work, faults>>
        /\ now \in Nat /\ now' = now /\ sub' = sub
    BY <1>1 DEF vars, Types
  <2>2. now <= now'
    BY <2>1
  <2> QED BY <2>1, <2>2, SettleIdle
<1>2. CASE Tick
  BY <1>2, SettleIdle, Numbers DEF Tick, rowVars, passVars, taskVars, boundVars
<1>3. ASSUME NEW s \in Subs, Subscribe(s) PROVE Kept(w)'
  <2>1. \A r \in Subs : sub'[r] = "deleted" <=> sub[r] = "deleted"
    BY <1>3 DEF Subscribe, Types
  <2> QED BY <1>3, <2>1, SettleIdle, Numbers DEF Subscribe, rowVars, passVars, taskVars
<1>4. ASSUME NEW s \in Subs, Replay(s) PROVE FALSE
  BY <1>4 DEF Replay, OnePoller, Types
<1>5. CASE FailExhausted
  <2>1. parent.attempts \in Nat /\ MaxClaims \in Nat
    BY OutboxAssumption DEF Types, ParentRows
  <2>2. parent.attempts >= MaxClaims /\ parent.attempts < MaxClaims
    BY <1>5 DEF FailExhausted, SettleInv, Kept, Order, Limits
  <2> QED BY <2>1, <2>2
<1>6. ASSUME NEW v \in Workers, Pass(v) PROVE Kept(w)'
  <2>1. v = w
    BY DEF OnePoller
  <2> QED BY <1>6, <2>1, SettleReads, SettleInsert, SettleExpire, SettleReadRows, SettleTally,
             SettleFinish, SettleTasks DEF Pass
<1>7. ASSUME NEW v \in Workers,
             ClaimEvent(v) \/ Throw(v) \/ Crash(v) \/ \E s \in Subs : ThrowTask(v, s)
      PROVE  Kept(w)'
  <2>1. v = w
    BY DEF OnePoller
  <2> QED BY <1>7, <2>1, SettleClaimEvent, SettleFault
<1> QED BY <1>1, <1>2, <1>3, <1>4, <1>5, <1>6, <1>7, SettleCleanup, SettleUnsubscribe DEF Next

\* A poller that has enough claims for all that its event can need strands no
\* delivery: the event is settled only once no subscriber's row is pending.
THEOREM OnePollerStrandsNothing ==
  ASSUME NEW w, OnePoller(w), EnoughClaims
  PROVE  Spec => []NoneStranded
<1>1. Init => SettleInv(w)
  <2> SUFFICES ASSUME Init PROVE SettleInv(w)
    OBVIOUS
  <2>0. w \in Workers /\ MaxAttempts \in Nat \ {0} /\ MaxClaims \in Nat \ {0} /\ MaxFaults \in Nat
    BY OutboxAssumption DEF OnePoller
  <2>1. /\ \A s \in Subs : child[s] = NoRow /\ sub[s] \in {"future", "active"}
        /\ parent.status = "pending" /\ parent.attempts = 0 /\ faults = 0
        /\ pc[w] = "idle" /\ ~Working(w) /\ ~initialized
    BY <2>0 DEF Init, Working
  <2>2. Rows /\ Limits /\ Fresh(w) /\ Order(w)
    BY <2>0, <2>1 DEF Rows, Limits, Fresh, Order, Early, Settled, NoRow
  <2>3. Count \in Nat
    BY BelowCount DEF OnePoller, Count
  <2>4. Slack >= 0
    BY <2>1, <2>3 DEF Slack
  <2> QED BY <2>1, <2>2, <2>4 DEF SettleInv, Kept, Budget, Appointed
<1>2. SettleInv(w) /\ OutboxInv /\ OutboxInv' /\ [Next]_vars => SettleInv(w)'
  BY BudgetStep, OrderStep DEF OutboxInv, SettleInv, Kept, Limits
<1>3. SettleInv(w) => NoneStranded
  BY DEF SettleInv, Kept, Order, Settled, NoneStranded
<1> QED BY <1>1, <1>2, <1>3, OutboxInvariant, PTL DEF Spec

-----------------------------------------------------------------------------
(* Without crashes and errors the number of subscribers does not matter *)

\* A claim for each attempt and one for each subscription that is deleted in
\* between: with 7 attempts and 32 claims, 24 of these.
Faultless == MaxFaults = 0 /\ MaxClaims > MaxAttempts + MaxChanges

\* The pass has taken up the row.
Taken(w, s) == pc[w] = "work" /\ work[w][s] \notin {"claim", "drop"}
Stage(w, s) == IF Taken(w, s) THEN 1 ELSE 0
Resting(w) == pc[w] \in {"idle", "retry"}

\* Where a pending row is, by the phase of the pass: the appointment keeps it,
\* the pass finds it due, its claim is in force or its retry is set.
Placed(w) ==
  \A s \in Pending :
    /\ ~Taken(w, s) => child[s].attempts < MaxAttempts
    /\ pc[w] = "idle" => child[s].next <= parent.next
    /\ pc[w] = "retry" => child[s].next <= start[w] + wait[w]
    /\ ~Resting(w) /\ ~Taken(w, s) => child[s].next <= start[w]
    /\ Taken(w, s) /\ work[w][s] # "off" => OwnsClaim(w, s)
    /\ Taken(w, s) /\ work[w][s] = "off" =>
         child[s].attempts < MaxAttempts /\ child[s].next = start[w] + Delays[child[s].attempts]

\* The pending rows have had as many attempts, and are due at the same time.
Together(w) ==
  \A r, s \in Pending :
    /\ child[r].attempts - Stage(w, r) = child[s].attempts - Stage(w, s)
    /\ pc[w] # "work" => child[r].next = child[s].next

\* Each claim of the event was for an attempt of all of them, or for an insert
\* that a deleted subscription has refused.
Toll(w) ==
  /\ parent.attempts <= MaxAttempts + changes
  /\ Resting(w) => parent.attempts < MaxAttempts + changes
  /\ \A s \in Pending :
       parent.attempts <= child[s].attempts + changes + (IF Resting(w) THEN 0 ELSE 1) - Stage(w, s)
  /\ ~initialized => parent.attempts <= changes + 1
  /\ ~initialized /\ (Resting(w) \/ (pc[w] \in {"parent", "insert"} /\ ~Whole(w)))
       => parent.attempts <= changes

Lockstep(w) ==
  parent.status = "pending" =>
    /\ Placed(w) /\ Together(w) /\ Toll(w)
    /\ ~initialized /\ pc[w] # "flag" => NoRows
    /\ Working(w) => pc[w] = "work"

LockInv(w) ==
  /\ Lockstep(w) /\ Order(w)
  /\ parent.attempts < MaxClaims /\ changes <= MaxChanges /\ faults = 0

-----------------------------------------------------------------------------
\* The numbers that the lockstep compares.
LEMMA LockNumbers ==
  ASSUME Types
  PROVE  /\ parent.attempts \in Nat /\ parent.next \in Nat /\ changes \in Nat /\ now \in Nat
         /\ MaxAttempts \in Nat \ {0} /\ MaxClaims \in Nat \ {0} /\ MaxChanges \in Nat
         /\ \A s \in Subs : child[s].attempts \in Nat /\ child[s].next \in Nat
         /\ \A w \in Workers : start[w] \in Nat /\ wait[w] \in Nat
BY OutboxAssumption DEF Types, ParentRows, ChildRows

\* A step of nothing but the clock or the subscriptions.
LEMMA LockIdle ==
  ASSUME NEW w \in Workers, Types, Types', Lockstep(w),
         UNCHANGED <<parent, initialized, pc, start, targets, wait, work, token>>,
         \A s \in Subs : child'[s] = child[s] \/ child'[s].status = "none",
         changes <= changes', Whole(w) /\ ~Whole(w)' => changes < changes'
  PROVE  Lockstep(w)'
<1> SUFFICES ASSUME parent.status = "pending" PROVE Lockstep(w)'
  BY DEF Lockstep
<1>1. \A s \in Pending' : s \in Pending /\ s \in Subs /\ child'[s] = child[s]
  BY DEF Pending
<1>2. \A s \in Subs : Taken(w, s)' = Taken(w, s) /\ Stage(w, s)' = Stage(w, s)
  BY DEF Taken, Stage
<1>3. Placed(w)'
  BY <1>1, <1>2 DEF Lockstep, Placed, Resting, OwnsClaim
<1>4. Together(w)'
  BY <1>1, <1>2 DEF Lockstep, Together
<1>5. Toll(w)'
  <2>1. /\ parent.attempts \in Nat /\ changes \in Nat /\ changes' \in Nat
        /\ MaxAttempts \in Nat /\ \A s \in Subs : child[s].attempts \in Nat
    BY LockNumbers DEF Types
  <2>2. \A s \in Subs : Stage(w, s) \in {0, 1}
    BY DEF Stage
  <2>3. \A s \in Pending' : parent'.attempts <= child'[s].attempts + changes'
                              + (IF Resting(w)' THEN 0 ELSE 1) - Stage(w, s)'
    BY <1>1, <1>2, <2>1, <2>2 DEF Lockstep, Toll, Resting
  <2> QED BY <2>1, <2>3 DEF Lockstep, Toll, Resting
<1>6. (~initialized' /\ pc'[w] # "flag" => NoRows') /\ (Working(w)' => pc'[w] = "work")
  BY DEF Lockstep, NoRows, Working
<1> QED BY <1>3, <1>4, <1>5, <1>6 DEF Lockstep

\* When the event comes due, so do its pending rows.
LEMMA LockClaimEvent ==
  ASSUME NEW w \in Workers, Types, Types', Lockstep(w), ClaimEvent(w)
  PROVE  Lockstep(w)'
<1>1. /\ UNCHANGED <<child, initialized, sub, targets, work, changes>>
      /\ pc[w] = "idle" /\ pc'[w] = "targets" /\ start'[w] = now
      /\ parent.status = "pending" /\ parent.next <= now
      /\ parent'.attempts = parent.attempts + 1
  BY DEF ClaimEvent, Due, Types, envVars, taskVars, boundVars
<1>2. Pending' = Pending /\ Pending \subseteq Subs /\ \A s \in Subs : Stage(w, s) = 0 /\ Stage(w, s)' = 0
                 /\ ~Taken(w, s) /\ ~Taken(w, s)'
  BY <1>1 DEF Pending, Stage, Taken
<1>3. Placed(w) /\ Together(w) /\ Toll(w)
  BY <1>1 DEF Lockstep
<1>4. /\ parent.attempts \in Nat /\ parent.next \in Nat /\ changes \in Nat /\ now \in Nat
      /\ MaxAttempts \in Nat
      /\ \A s \in Subs : child[s].attempts \in Nat /\ child[s].next \in Nat
  BY LockNumbers
<1>5. Placed(w)'
  BY <1>1, <1>2, <1>3, <1>4 DEF Placed
<1>6. Together(w)'
  BY <1>1, <1>2, <1>3 DEF Together
<1>7. Toll(w)'
  <2>1. ~Resting(w)' /\ Resting(w)
    BY <1>1 DEF Resting
  <2> QED BY <1>1, <1>2, <1>3, <1>4, <2>1 DEF Toll
<1> QED BY <1>1, <1>5, <1>6, <1>7 DEF Lockstep, NoRows, Working

\* The reads before the insert, and the rows that no attempt has exhausted.
LEMMA LockReads ==
  ASSUME NEW w \in Workers, Types, Types', Order(w), Lockstep(w),
         ReadTargets(w) \/ ReadParent(w) \/ SetInitialized(w) \/ DeadLetterExpired(w)
  PROVE  Lockstep(w)'
<1>0. /\ UNCHANGED <<parent, sub, start, work, changes>> /\ pc[w] # "idle"
  BY DEF ReadTargets, ReadParent, SetInitialized, DeadLetterExpired,
     envVars, rowVars, passVars, taskVars, boundVars
<1>1. parent.status = "pending" /\ Placed(w) /\ Together(w) /\ Toll(w)
  BY <1>0 DEF Order, Settled, Lockstep
<1>2. /\ pc[w] \in {"targets", "parent", "flag", "expire"}
      /\ pc'[w] \in {"parent", "expire", "insert", "rows"}
      /\ initialized => initialized'
      /\ ~initialized' => ~initialized /\ pc[w] # "flag"
                          /\ (pc[w] = "targets" \/ targets' = targets)
      /\ pc[w] = "targets" => targets'[w] = Subscribed
  BY <1>1 DEF ReadTargets, ReadParent, SetInitialized, DeadLetterExpired, Types, Order, Early,
     rowVars, passVars
<1>3. child' = child
  <2>1. CASE DeadLetterExpired(w)
    <3>1. \A s \in Subs : ~(Due(child[s], start[w]) /\ child[s].attempts >= MaxAttempts)
      <4>1. ASSUME NEW s \in Subs, Due(child[s], start[w]) PROVE child[s].attempts < MaxAttempts
        BY <1>1, <2>1, <4>1 DEF Placed, Pending, Due, Taken, DeadLetterExpired
      <4> QED BY <4>1, LockNumbers
    <3> QED BY <2>1, <3>1 DEF DeadLetterExpired, Types
  <2> QED BY <2>1 DEF ReadTargets, ReadParent, SetInitialized, DeadLetterExpired, rowVars
<1>4. /\ Pending' = Pending /\ Pending \subseteq Subs /\ ~Resting(w) /\ ~Resting(w)'
      /\ \A s \in Subs : Stage(w, s) = 0 /\ Stage(w, s)' = 0 /\ ~Taken(w, s) /\ ~Taken(w, s)'
  BY <1>2, <1>3 DEF Pending, Stage, Taken, Resting
<1>5. Placed(w)' /\ Together(w)'
  BY <1>0, <1>1, <1>2, <1>3, <1>4 DEF Placed, Together, Resting
<1>6. ~initialized' /\ pc'[w] \in {"parent", "insert"} /\ ~Whole(w)' => parent.attempts <= changes
  <2>1. CASE pc[w] = "targets"
    BY <1>0, <1>2, <2>1 DEF Whole, Subscribed
  <2>2. CASE pc[w] # "targets"
    <3> SUFFICES ASSUME ~initialized', pc'[w] \in {"parent", "insert"}, ~Whole(w)'
                 PROVE  parent.attempts <= changes
      OBVIOUS
    <3>1. pc[w] \in {"parent", "expire"} /\ ~initialized /\ ~Whole(w)
      BY <1>0, <1>2, <2>2 DEF Whole
    <3>2. pc[w] = "parent"
      <4>1. pc[w] = "expire" => DeadLetterExpired(w)
        BY <3>1 DEF ReadTargets, ReadParent, SetInitialized
      <4>2. DeadLetterExpired(w) => pc'[w] = "rows"
        BY DEF DeadLetterExpired, Types
      <4> QED BY <3>1, <4>1, <4>2
    <3> QED BY <1>1, <3>1, <3>2 DEF Toll
  <2> QED BY <2>1, <2>2
<1>7. Toll(w)'
  BY <1>0, <1>1, <1>2, <1>3, <1>4, <1>6 DEF Toll
<1> QED BY <1>0, <1>1, <1>2, <1>3, <1>5, <1>7 DEF Lockstep, NoRows, Working

\* The rows of an event are added all at once, or not at all.
LEMMA LockInsert ==
  ASSUME NEW w \in Workers, Types, Types', Order(w), Lockstep(w), InsertChildren(w)
  PROVE  Lockstep(w)'
<1>0. /\ UNCHANGED <<parent, initialized, sub, start, targets, work, changes>>
      /\ pc[w] = "insert" /\ ~Resting(w)
  BY DEF InsertChildren, Resting, envVars, taskVars, boundVars
<1>1. /\ parent.status = "pending" /\ Toll(w) /\ ~initialized /\ NoRows /\ ~Working(w)
  BY <1>0 DEF Order, Settled, Early, Lockstep
<1>2. MaxAttempts \in Nat \ {0} /\ parent.attempts \in Nat /\ changes \in Nat
  BY LockNumbers
<1>3. CASE Refused(w)
  <2>1. pc'[w] = "retry" /\ child' = child /\ ~Whole(w)
    BY <1>0, <1>1, <1>3 DEF InsertChildren, Types, Refused, Whole
  <2>2. Pending' = {}
    BY <1>1, <2>1 DEF Pending, NoRows
  <2>3. parent.attempts <= changes
    BY <1>0, <1>1, <2>1 DEF Toll
  <2>4. Toll(w)'
    BY <1>0, <1>2, <2>1, <2>2, <2>3 DEF Toll, Resting
  <2> QED BY <1>0, <1>1, <2>1, <2>2, <2>4 DEF Lockstep, Placed, Together, NoRows, Working
<1>4. CASE ~Refused(w)
  <2>1. /\ pc'[w] = "flag"
        /\ child' = [s \in Subs |-> IF s \in targets[w]
                                    THEN [status |-> "pending", attempts |-> 0, next |-> start[w]]
                                    ELSE child[s]]
    BY <1>1, <1>4 DEF InsertChildren, Types, NoRows
  <2>2. \A s \in Pending' : s \in Subs /\ child'[s].attempts = 0 /\ child'[s].next = start[w]
    BY <1>1, <2>1 DEF Pending, NoRows
  <2>3. ~Resting(w)' /\ \A s \in Subs : Stage(w, s)' = 0 /\ ~Taken(w, s)'
    BY <2>1 DEF Resting, Stage, Taken
  <2>4. start[w] \in Nat
    BY DEF Types
  <2>5. Together(w)'
    BY <2>2, <2>3 DEF Together
  <2>6. Placed(w)'
    <3>1. 0 < MaxAttempts /\ start[w] <= start[w] /\ pc'[w] # "idle" /\ pc'[w] # "retry"
      BY <1>2, <2>1, <2>4
    <3> QED BY <1>0, <2>2, <2>3, <3>1 DEF Placed
  <2>7. Toll(w)'
    BY <1>0, <1>1, <1>2, <2>1, <2>2, <2>3 DEF Toll, Resting
  <2> QED BY <1>0, <1>1, <2>1, <2>5, <2>6, <2>7 DEF Lockstep, Working
<1> QED BY <1>3, <1>4

\* All that is pending is due, so that the pass takes all of it up.
LEMMA LockReadRows ==
  ASSUME NEW w \in Workers, Types, Types', Order(w), Lockstep(w), ReadRows(w)
  PROVE  Lockstep(w)'
<1>1. /\ UNCHANGED <<parent, child, initialized, sub, start, targets, changes>>
      /\ pc[w] = "rows" /\ pc'[w] = (IF NoRows THEN "complete" ELSE "work")
      /\ \A s \in Subs : IF Due(child[s], start[w]) THEN work'[w][s] \in {"claim", "drop"}
                                                   ELSE work'[w][s] = "off"
  BY DEF ReadRows, NoRows, Types, envVars, rowVars, passVars, boundVars
<1>2. parent.status = "pending" /\ Placed(w) /\ Together(w) /\ Toll(w)
  BY <1>1 DEF Order, Settled, Lockstep
<1>3. /\ Pending' = Pending /\ Pending \subseteq Subs /\ ~Resting(w) /\ ~Resting(w)'
      /\ \A s \in Subs : Stage(w, s) = 0 /\ ~Taken(w, s)
  BY <1>1 DEF Pending, Stage, Taken, Resting
<1>4. \A s \in Pending : ~Taken(w, s)' /\ Stage(w, s)' = 0
  <2>1. \A s \in Pending : work'[w][s] \in {"claim", "drop"}
    BY <1>1, <1>2, <1>3 DEF Placed, Due, Pending
  <2> QED BY <2>1 DEF Taken, Stage
<1>5. Placed(w)'
  BY <1>1, <1>2, <1>3, <1>4 DEF Placed, Resting
<1>6. Together(w)'
  BY <1>1, <1>2, <1>3, <1>4 DEF Together
<1>7. Toll(w)'
  BY <1>1, <1>2, <1>3, <1>4 DEF Toll
<1>8. (~initialized' /\ pc'[w] # "flag" => NoRows') /\ (Working(w)' => pc'[w] = "work")
  <2>1. NoRows => \A s \in Subs : work'[w][s] = "off"
    BY <1>1 DEF NoRows, Due
  <2> QED BY <1>1, <1>2, <2>1 DEF Lockstep, NoRows, Working
<1> QED BY <1>5, <1>6, <1>7, <1>8 DEF Lockstep

\* The retries that the pass has set come due together.
LEMMA LockTally ==
  ASSUME NEW w \in Workers, Types, Types', Order(w), Lockstep(w), Tally(w)
  PROVE  Lockstep(w)'
<1>1. /\ UNCHANGED <<parent, child, initialized, sub, start, targets, work, changes>>
      /\ pc[w] = "work" /\ ~Working(w) /\ ~Working(w)'
      /\ Pending = {} => pc'[w] \in {"complete", "fail"}
      /\ Pending # {} => pc'[w] = "retry"
  BY DEF Tally, Types, Working, envVars, rowVars, taskVars, boundVars
<1>2. parent.status = "pending" /\ Placed(w) /\ Together(w) /\ Toll(w)
  BY <1>1 DEF Order, Settled, Lockstep
<1>3. /\ Pending' = Pending /\ Pending \subseteq Subs /\ ~Resting(w)
      /\ \A s \in Subs : Stage(w, s)' = 0 /\ ~Taken(w, s)'
      /\ \A s \in Subs : Stage(w, s) = 1 /\ Taken(w, s) /\ work[w][s] = "off"
  BY <1>1 DEF Pending, Stage, Taken, Resting, Working
<1>4. initialized \/ Pending = {}
  BY <1>1, <1>2 DEF Lockstep, NoRows, Pending
<1>5. /\ parent.attempts \in Nat /\ changes \in Nat /\ MaxAttempts \in Nat
      /\ \A s \in Pending : child[s].attempts \in Nat /\ child[s].next \in Nat
      /\ start[w] \in Nat
  BY <1>3, LockNumbers
<1>6. \A s \in Pending : /\ child[s].attempts < MaxAttempts
                         /\ child[s].next = start[w] + Delays[child[s].attempts]
  BY <1>2, <1>3 DEF Placed
<1>7. \A r, s \in Pending : child[r].attempts = child[s].attempts /\ child[r].next = child[s].next
  <2>1. \A r, s \in Pending : child[r].attempts - 1 = child[s].attempts - 1
    BY <1>2, <1>3 DEF Together
  <2>2. \A r, s \in Pending : child[r].attempts = child[s].attempts
    BY <1>5, <2>1
  <2> QED BY <1>6, <2>2
<1>8. CASE Pending = {}
  <2>1. ~Resting(w)' /\ pc'[w] \notin {"flag", "parent", "insert", "idle", "retry"}
    BY <1>1, <1>8 DEF Resting
  <2>2. Toll(w)'
    BY <1>1, <1>2, <1>3, <1>8, <2>1 DEF Toll
  <2> QED BY <1>1, <1>2, <1>3, <1>8, <2>1, <2>2 DEF Lockstep, Placed, Together, NoRows
<1>9. CASE Pending # {}
  <2>1. PICK s \in Pending :
          wait' = [wait EXCEPT ![w] = IF child[s].next < start[w] THEN 0
                                      ELSE child[s].next - start[w]]
    BY <1>9 DEF Tally
  <2>2. wait'[w] = IF child[s].next < start[w] THEN 0 ELSE child[s].next - start[w]
    BY <2>1 DEF Types
  <2>3. child[s].next <= start[w] + wait'[w]
    BY <1>5, <2>2
  <2>4. \A r \in Pending : child[r].next <= start'[w] + wait'[w]
    BY <1>1, <1>7, <2>3
  <2>5. Placed(w)'
    BY <1>1, <1>3, <1>6, <1>9, <2>4 DEF Placed, Resting
  <2>6. Together(w)'
    BY <1>1, <1>3, <1>7 DEF Together
  <2>7. \A r \in Pending : parent.attempts <= child[r].attempts + changes
    <3>1. \A r \in Pending : parent.attempts <= child[r].attempts + changes + 1 - 1
      BY <1>2, <1>3 DEF Toll
    <3> QED BY <1>5, <3>1
  <2>8. parent.attempts < MaxAttempts + changes
    <3>1. child[s].attempts < MaxAttempts /\ parent.attempts <= child[s].attempts + changes
      BY <1>6, <2>7
    <3> QED BY <1>5, <3>1
  <2>9. Resting(w)' /\ initialized'
    BY <1>1, <1>4, <1>9 DEF Resting
  <2>10. Toll(w)'
    <3>1. \A r \in Pending' : parent'.attempts <= child'[r].attempts + changes' + 0 - Stage(w, r)'
      BY <1>1, <1>3, <1>5, <2>7
    <3> QED BY <1>1, <1>5, <2>8, <2>9, <3>1 DEF Toll
  <2> QED BY <1>1, <2>5, <2>6, <2>9, <2>10 DEF Lockstep
<1> QED BY <1>8, <1>9

\* The event keeps the appointment of the pass, or is settled.
LEMMA LockFinish ==
  ASSUME NEW w \in Workers, Types, Types', ClaimInv, Order(w), Lockstep(w), Finish(w),
         parent.attempts < MaxClaims
  PROVE  Lockstep(w)'
<1>1. /\ UNCHANGED <<now, child, initialized, sub, work, changes>>
      /\ pc[w] \in {"complete", "fail", "retry"} /\ pc'[w] = "idle"
  BY DEF Finish, EndPass, Types, envVars, taskVars, boundVars
<1>2. parent.status = "pending" /\ claims[w] < MaxClaims
  BY <1>1 DEF Order, Settled, Early
<1>3. /\ parent'.attempts = parent.attempts
      /\ pc[w] = "retry" => parent'.next = now + wait[w]
      /\ pc[w] # "retry" => parent'.status # "pending"
  BY <1>1, <1>2 DEF Finish, Types, ParentRows
<1>4. CASE pc[w] # "retry"
  BY <1>3, <1>4 DEF Lockstep
<1>5. CASE pc[w] = "retry"
  <2>1. Placed(w) /\ Together(w) /\ Toll(w) /\ ~Working(w)
    BY <1>2, <1>5 DEF Lockstep
  <2>2. /\ Pending' = Pending /\ Pending \subseteq Subs /\ Resting(w) /\ Resting(w)'
        /\ \A s \in Subs : Stage(w, s) = 0 /\ Stage(w, s)' = 0 /\ ~Taken(w, s) /\ ~Taken(w, s)'
    BY <1>1, <1>5 DEF Pending, Stage, Taken, Resting
  <2>3. \A s \in Pending : child[s].next <= parent'.next
    <3>1. start[w] \in Nat /\ now \in Nat /\ start[w] <= now /\ wait[w] \in Nat
          /\ \A s \in Pending : child[s].next \in Nat
      BY <2>2, LockNumbers DEF ClaimInv, Starts
    <3>2. \A s \in Pending : child[s].next <= start[w] + wait[w]
      BY <1>5, <2>1 DEF Placed
    <3>3. parent'.next = now + wait[w]
      BY <1>3, <1>5
    <3> QED BY <3>1, <3>2, <3>3
  <2>4. Placed(w)'
    BY <1>1, <2>1, <2>2, <2>3 DEF Placed
  <2>5. Together(w)' /\ Toll(w)'
    BY <1>1, <1>3, <1>5, <2>1, <2>2 DEF Together, Toll
  <2> QED BY <1>1, <1>2, <1>5, <2>1, <2>4, <2>5 DEF Lockstep, NoRows, Working
<1> QED BY <1>4, <1>5

\* A step of one task leaves the other rows alone; its own row, while it is
\* pending, is one attempt ahead once the pass has taken it up.
LEMMA LockTask ==
  ASSUME NEW w \in Workers, Types, Types', Lockstep(w), NEW r \in Subs,
         UNCHANGED <<parent, initialized, pc, start, targets, wait, changes>>,
         work[w][r] # "off",
         \A s \in Subs : s # r => /\ child'[s] = child[s] /\ work'[w][s] = work[w][s]
                                  /\ token'[w][s] = token[w][s],
         child'[r].status = "none" <=> child[r].status = "none",
         pc[w] = "work" /\ Placed(w) /\ child'[r].status = "pending" =>
           /\ child[r].status = "pending" /\ Taken(w, r)'
           /\ child'[r].attempts - 1 = child[r].attempts - Stage(w, r)
           /\ work'[w][r] # "off" => OwnsClaim(w, r)'
           /\ work'[w][r] = "off" => /\ child'[r].attempts < MaxAttempts
                                     /\ child'[r].next = start[w] + Delays[child'[r].attempts]
  PROVE  Lockstep(w)'
<1> SUFFICES ASSUME parent.status = "pending" PROVE Lockstep(w)'
  BY DEF Lockstep
<1>1. Working(w) /\ pc[w] = "work" /\ Placed(w) /\ Together(w) /\ Toll(w)
  BY DEF Working, Lockstep
<1>2. ~Resting(w) /\ ~Resting(w)' /\ pc'[w] = "work"
  BY <1>1 DEF Resting
<1>3. \A s \in Pending' : s \in Subs /\ s \in Pending
  BY <1>1 DEF Pending
<1>4. \A s \in Subs : s # r => Taken(w, s)' = Taken(w, s) /\ Stage(w, s)' = Stage(w, s)
  BY DEF Taken, Stage
<1>5. \A s \in Pending' : child'[s].attempts - Stage(w, s)' = child[s].attempts - Stage(w, s)
  <2>1. ASSUME r \in Pending'
        PROVE  child'[r].attempts - Stage(w, r)' = child[r].attempts - Stage(w, r)
    <3>1. child'[r].attempts - 1 = child[r].attempts - Stage(w, r) /\ Taken(w, r)'
      BY <1>1, <2>1 DEF Pending
    <3> QED BY <3>1 DEF Stage
  <2> QED BY <1>3, <1>4, <2>1
<1>6. Placed(w)'
  <2>1. ASSUME NEW s \in Pending', s # r
        PROVE  /\ ~Taken(w, s)' => child'[s].attempts < MaxAttempts /\ child'[s].next <= start'[w]
               /\ Taken(w, s)' /\ work'[w][s] # "off" => OwnsClaim(w, s)'
               /\ Taken(w, s)' /\ work'[w][s] = "off" =>
                    child'[s].attempts < MaxAttempts
                    /\ child'[s].next = start'[w] + Delays[child'[s].attempts]
    BY <1>1, <1>2, <1>3, <1>4, <2>1 DEF Placed, OwnsClaim
  <2>2. ASSUME r \in Pending'
        PROVE  /\ Taken(w, r)'
               /\ work'[w][r] # "off" => OwnsClaim(w, r)'
               /\ work'[w][r] = "off" =>
                    child'[r].attempts < MaxAttempts
                    /\ child'[r].next = start'[w] + Delays[child'[r].attempts]
    BY <1>1, <2>2 DEF Pending
  <2> QED BY <1>2, <2>1, <2>2 DEF Placed
<1>7. Together(w)'
  BY <1>1, <1>2, <1>3, <1>5 DEF Together
<1>8. Toll(w)'
  <2>1. /\ parent.attempts \in Nat /\ changes \in Nat
        /\ \A s \in Subs : child[s].attempts \in Nat /\ child'[s].attempts \in Nat
        /\ \A s \in Subs : Stage(w, s) \in {0, 1} /\ Stage(w, s)' \in {0, 1}
    BY LockNumbers DEF Types, ChildRows, Stage
  <2>2. ASSUME NEW s \in Pending'
        PROVE  parent'.attempts <= child'[s].attempts + changes' + 1 - Stage(w, s)'
    <3>1. parent.attempts <= child[s].attempts + changes + 1 - Stage(w, s) /\ s \in Subs
      BY <1>1, <1>2, <1>3, <2>2 DEF Toll
    <3>2. child'[s].attempts - Stage(w, s)' = child[s].attempts - Stage(w, s)
      BY <1>5, <2>2
    <3> DEFINE a == child[s].attempts
               b == child'[s].attempts
               i == Stage(w, s)
               j == Stage(w, s)'
    <3>3. a \in Nat /\ b \in Nat /\ i \in {0, 1} /\ j \in {0, 1}
      BY <2>1, <3>1
    <3>4. parent.attempts <= a + changes + 1 - i /\ b - j = a - i
      BY <3>1, <3>2
    <3> HIDE DEF a, b, i, j
    <3>5. parent.attempts <= b + changes + 1 - j
      BY <2>1, <3>3, <3>4
    <3> QED BY <3>5 DEF b, j
  <2> QED BY <1>1, <1>2, <2>2 DEF Toll
<1>9. ~initialized' /\ pc'[w] # "flag" => NoRows'
  <2>1. \A s \in Subs : child'[s].status = "none" <=> child[s].status = "none"
    OBVIOUS
  <2> QED BY <2>1 DEF Lockstep, NoRows
<1> QED BY <1>2, <1>6, <1>7, <1>8, <1>9 DEF Lockstep

\* A row that is still pending after an attempt has attempts left.
LEMMA PendingOutcome ==
  ASSUME NEW row \in ChildRows, NEW answer \in {"ok", "refused", "unanswered"}, NEW t,
         Outcome(row, answer, t).status = "pending"
  PROVE  /\ row.attempts < MaxAttempts
         /\ Outcome(row, answer, t).next = t + Delays[row.attempts]
<1>0. MaxAttempts \in Nat /\ row.attempts \in Nat
  BY OutboxAssumption DEF ChildRows
<1>1. answer = "unanswered"
  BY DEF Outcome, ChildRows
<1>2. row.attempts < MaxAttempts
  <2>1. SUFFICES ASSUME row.attempts >= MaxAttempts, ~(row.attempts < MaxAttempts) PROVE FALSE
    BY <1>0
  <2>2. Outcome(row, answer, t) = [row EXCEPT !.status = "dead_letter"]
    BY <1>1, <2>1, Zenon DEF Outcome
  <2> QED BY <2>2 DEF ChildRows
<1>3. ~(row.attempts >= MaxAttempts)
  BY <1>0, <1>2
<1>4. Outcome(row, answer, t) = [row EXCEPT !.next = t + Delays[row.attempts]]
  BY <1>1, <1>2, <1>3, Zenon DEF Outcome
<1> QED BY <1>2, <1>4 DEF ChildRows

\* The steps of a task.
LEMMA LockTasks ==
  ASSUME NEW w \in Workers, Types, Types', Lockstep(w), NEW r \in Subs, Task(w, r)
  PROVE  Lockstep(w)'
<1>0. child[r] \in ChildRows /\ child[r].attempts \in Nat
  BY DEF Types, ChildRows
<1>1. CASE FailUnavailable(w, r)
  <2>1. /\ UNCHANGED <<parent, initialized, pc, start, targets, wait, changes, token>>
        /\ work[w][r] = "drop" /\ work' = [work EXCEPT ![w][r] = "off"]
        /\ child' = IF Due(child[r], start[w])
                    THEN [child EXCEPT ![r].status = "failed"] ELSE child
    BY <1>1 DEF FailUnavailable, passVars, boundVars
  <2>2. \A s \in Subs : s # r => /\ child'[s] = child[s] /\ work'[w][s] = work[w][s]
                                 /\ token'[w][s] = token[w][s]
    BY <2>1 DEF Types
  <2>3. /\ Due(child[r], start[w]) => child'[r].status = "failed"
        /\ ~Due(child[r], start[w]) => child'[r] = child[r]
    BY <1>0, <2>1 DEF Types, ChildRows
  <2>4. child'[r].status = "none" <=> child[r].status = "none"
    BY <2>3 DEF Due
  <2>5. pc[w] = "work" /\ Placed(w) => child'[r].status # "pending"
    <3>1. pc[w] = "work" /\ Placed(w) /\ child[r].status = "pending" => Due(child[r], start[w])
      BY <2>1 DEF Placed, Pending, Due, Taken, Resting
    <3> QED BY <2>3, <3>1
  <2> QED BY <2>1, <2>2, <2>4, <2>5, LockTask
<1>2. CASE ClaimDelivery(w, r)
  <2> DEFINE Won == Due(child[r], start[w]) /\ child[r].attempts < MaxAttempts
  <2>1. /\ UNCHANGED <<parent, initialized, pc, start, targets, wait, changes>>
        /\ work[w][r] = "claim"
        /\ Won => /\ work' = [work EXCEPT ![w][r] = "post"]
                  /\ child' = [child EXCEPT ![r] = [status |-> "pending",
                                                    attempts |-> child[r].attempts + 1,
                                                    next |-> start[w] + Lease]]
                  /\ token' = [token EXCEPT ![w][r] = [attempts |-> child[r].attempts + 1,
                                                       next |-> start[w] + Lease]]
        /\ ~Won => work' = [work EXCEPT ![w][r] = "off"] /\ child' = child /\ token' = token
    BY <1>2 DEF ClaimDelivery, passVars, boundVars
  <2>2. \A s \in Subs : s # r => /\ child'[s] = child[s] /\ work'[w][s] = work[w][s]
                                 /\ token'[w][s] = token[w][s]
    BY <2>1 DEF Types
  <2>3. /\ Won => /\ child'[r].status = "pending" /\ child'[r].attempts = child[r].attempts + 1
                  /\ work'[w][r] = "post" /\ OwnsClaim(w, r)'
        /\ ~Won => child'[r] = child[r]
    BY <1>0, <2>1 DEF Types, OwnsClaim
  <2>4. pc[w] = "work" /\ Placed(w) /\ child[r].status = "pending" => Won
    BY <2>1 DEF Placed, Pending, Due, Taken, Resting
  <2>5. Won => child[r].status = "pending"
    BY DEF Due
  <2> HIDE DEF Won
  <2>6. child'[r].status = "none" <=> child[r].status = "none"
    BY <2>3, <2>5
  <2>7. pc[w] = "work" => Stage(w, r) = 0
    BY <2>1 DEF Stage, Taken
  <2>8. Won /\ pc[w] = "work" => Taken(w, r)' /\ child'[r].attempts - 1 = child[r].attempts - Stage(w, r)
    BY <1>0, <2>1, <2>3, <2>7 DEF Taken
  <2>9. pc[w] = "work" /\ Placed(w) /\ child'[r].status = "pending" => Won /\ child[r].status = "pending"
    BY <2>3, <2>4, <2>5
  <2> QED BY <2>1, <2>2, <2>3, <2>6, <2>8, <2>9, LockTask
<1>3. ASSUME NEW result \in {"ok", "refused", "unanswered"}, Attempt(w, r, result)
      PROVE  Lockstep(w)'
  <2>1. /\ UNCHANGED <<parent, initialized, child, pc, start, targets, wait, changes, token>>
        /\ work[w][r] = "post" /\ work' = [work EXCEPT ![w][r] = result]
    BY <1>3 DEF Attempt, rowVars, passVars, boundVars
  <2>2. work'[w][r] = result /\ \A s \in Subs : s # r => work'[w][s] = work[w][s]
    BY <2>1 DEF Types
  <2>3. pc[w] = "work" => Taken(w, r) /\ Taken(w, r)' /\ Stage(w, r) = 1
    BY <2>1, <2>2 DEF Taken, Stage
  <2>4. pc[w] = "work" /\ Placed(w) /\ child[r].status = "pending" => OwnsClaim(w, r)'
    BY <2>1, <2>3 DEF Placed, Pending, OwnsClaim
  <2> QED BY <2>1, <2>2, <2>3, <2>4, LockTask
<1>4. CASE SettleDelivery(w, r)
  <2>1. /\ UNCHANGED <<parent, initialized, pc, start, targets, wait, changes, token>>
        /\ work[w][r] \in {"ok", "refused", "unanswered"}
        /\ work' = [work EXCEPT ![w][r] = "off"]
        /\ child' = IF OwnsClaim(w, r)
                    THEN [child EXCEPT ![r] = Outcome(@, work[w][r], start[w])] ELSE child
    BY <1>4 DEF SettleDelivery, passVars, boundVars
  <2>2. work'[w][r] = "off" /\ \A s \in Subs : s # r => child'[s] = child[s] /\ work'[w][s] = work[w][s]
    BY <2>1 DEF Types
  <2>3. pc[w] = "work" => Taken(w, r) /\ Taken(w, r)' /\ Stage(w, r) = 1
    BY <2>1, <2>2 DEF Taken, Stage
  <2>4. pc[w] = "work" /\ Placed(w) /\ child[r].status = "pending" => OwnsClaim(w, r)
    BY <2>1, <2>3 DEF Placed, Pending
  <2>5. CASE ~OwnsClaim(w, r)
    BY <2>1, <2>2, <2>4, <2>5, LockTask
  <2>6. CASE OwnsClaim(w, r)
    <3>1. child'[r] = Outcome(child[r], work[w][r], start[w]) /\ child[r].status = "pending"
      BY <2>1, <2>6 DEF Types, OwnsClaim
    <3>2. /\ child'[r].attempts = child[r].attempts
          /\ child'[r].status \in Terminal \/ child'[r].status = "pending"
      BY <1>0, <2>1, <3>1, OutcomeRow
    <3>3. child'[r].status = "pending" =>
            child[r].attempts < MaxAttempts /\ child'[r].next = start[w] + Delays[child[r].attempts]
      BY <1>0, <2>1, <3>1, PendingOutcome
    <3> QED BY <2>1, <2>2, <2>3, <3>1, <3>2, <3>3, LockTask DEF Terminal
  <2> QED BY <2>5, <2>6
<1> QED BY <1>1, <1>2, <1>3, <1>4 DEF Task

\* Every step keeps the lockstep.
LEMMA LockStep ==
  ASSUME NEW w, OnePoller(w), Faultless
  PROVE  Types /\ Types' /\ ClaimInv /\ LockInv(w) /\ [Next]_vars => LockInv(w)'
<1> SUFFICES ASSUME Types, Types', ClaimInv, LockInv(w), [Next]_vars PROVE LockInv(w)'
  OBVIOUS
<1>0. /\ w \in Workers /\ Workers = {w} /\ Order(w) /\ Lockstep(w)
      /\ parent.attempts < MaxClaims /\ changes <= MaxChanges /\ faults = 0
  BY DEF OnePoller, LockInv
<1>1. Order(w)'
  BY <1>0, OrderStep
<1>2. ~Throw(w) /\ ~Crash(w) /\ ~\E s \in Subs : ThrowTask(w, s)
  BY <1>0 DEF Throw, Crash, ThrowTask, Faultless
<1>3. \A s \in Subs : ~Replay(s)
  BY DEF Replay, OnePoller, Types
<1>4. ~FailExhausted
  <2>1. parent.attempts \in Nat /\ MaxClaims \in Nat
    BY LockNumbers
  <2> QED BY <1>0, <2>1 DEF FailExhausted
<1>5. faults' = 0 /\ changes \in Nat /\ changes' \in Nat /\ changes <= changes' /\ changes' <= MaxChanges
  BY <1>0, <1>2, <1>3, <1>4, LockNumbers DEF Next, Pass, Task, vars, ClaimEvent, ReadTargets,
     ReadParent, InsertChildren, SetInitialized, DeadLetterExpired, ReadRows, FailUnavailable,
     ClaimDelivery, Attempt, SettleDelivery, Tally, Finish, Cleanup, Subscribe, Unsubscribe, Tick,
     boundVars
<1>6. Lockstep(w)'
  <2>1. CASE UNCHANGED vars \/ Tick \/ \E s \in Subs : Subscribe(s) \/ Unsubscribe(s)
    <3>1. /\ UNCHANGED <<parent, initialized, pc, start, targets, wait, work, token>>
          /\ \A s \in Subs : child'[s] = child[s] \/ child'[s].status = "none"
      BY <2>1 DEF vars, Tick, Subscribe, Unsubscribe, NoRow, Types, rowVars, passVars, taskVars
    <3>2. Whole(w) /\ ~Whole(w)' => changes < changes'
      <4>1. CASE \E s \in Subs : Unsubscribe(s)
        BY <1>5, <4>1 DEF Unsubscribe
      <4>2. CASE UNCHANGED vars \/ Tick \/ \E s \in Subs : Subscribe(s)
        <5>1. \A s \in Subs : sub'[s] = "deleted" => sub[s] = "deleted"
          BY <4>2 DEF vars, Tick, Subscribe, Types
        <5>2. targets[w] \subseteq Subs
          BY <1>0 DEF Types
        <5> QED BY <3>1, <5>1, <5>2 DEF Whole
      <4> QED BY <2>1, <4>1, <4>2
    <3> QED BY <1>0, <1>5, <3>1, <3>2, LockIdle
  <2>2. CASE Cleanup
    BY <2>2 DEF Cleanup, Lockstep, Types, ParentRows
  <2>3. CASE ClaimEvent(w) \/ Pass(w)
    BY <1>0, <2>3, LockClaimEvent, LockReads, LockInsert, LockReadRows, LockTally, LockFinish,
       LockTasks DEF Pass
  <2> QED BY <1>0, <1>2, <1>3, <1>4, <2>1, <2>2, <2>3 DEF Next
<1>7. parent'.attempts < MaxClaims
  <2>1. CASE parent'.status = "pending"
    <3>1. parent'.attempts <= MaxAttempts + changes' /\ parent'.attempts \in Nat
      BY <1>6, <2>1 DEF Lockstep, Toll, Types, ParentRows
    <3> QED BY <1>5, <3>1, LockNumbers DEF Faultless
  <2>2. CASE parent'.status # "pending"
    <3>1. parent'.attempts = parent.attempts
      BY <1>0, <1>2, <1>3, <1>4, <2>2 DEF Next, Pass, Task, vars, ClaimEvent, ReadTargets,
         ReadParent, InsertChildren, SetInitialized, DeadLetterExpired, ReadRows, FailUnavailable,
         ClaimDelivery, Attempt, SettleDelivery, Tally, Finish, Cleanup, Subscribe, Unsubscribe,
         Tick, rowVars, Types, ParentRows
    <3> QED BY <1>0, <3>1
  <2> QED BY <2>1, <2>2
<1> QED BY <1>1, <1>5, <1>6, <1>7 DEF LockInv

\* One poller that does not fail strands no delivery, however many subscribers
\* an event has: their attempts go in step, so that the event is claimed once
\* for each attempt.
THEOREM FaultlessPollerStrandsNothing ==
  ASSUME NEW w, OnePoller(w), Faultless
  PROVE  Spec => []NoneStranded
<1>1. Init => LockInv(w)
  <2> SUFFICES ASSUME Init PROVE LockInv(w)
    OBVIOUS
  <2>0. /\ w \in Workers /\ MaxAttempts \in Nat \ {0} /\ MaxClaims \in Nat \ {0}
        /\ MaxChanges \in Nat
    BY OutboxAssumption DEF OnePoller
  <2>1. /\ \A s \in Subs : child[s] = NoRow
        /\ parent.status = "pending" /\ parent.attempts = 0 /\ faults = 0 /\ changes = 0
        /\ pc[w] = "idle" /\ ~Working(w) /\ ~initialized
    BY <2>0 DEF Init, Working
  <2>2. NoRows /\ Pending = {}
    BY <2>1 DEF NoRows, Pending, NoRow
  <2>3. Order(w)
    BY <2>1 DEF Order, Early, Settled
  <2>4. Toll(w)
    BY <2>0, <2>1, <2>2 DEF Toll, Resting
  <2> QED BY <2>0, <2>1, <2>2, <2>3, <2>4 DEF LockInv, Lockstep, Placed, Together
<1>2. LockInv(w) /\ OutboxInv /\ OutboxInv' /\ [Next]_vars => LockInv(w)'
  BY LockStep DEF OutboxInv
<1>3. LockInv(w) => NoneStranded
  BY DEF LockInv, Order, Settled, NoneStranded
<1> QED BY <1>1, <1>2, <1>3, OutboxInvariant, PTL DEF Spec

=============================================================================
