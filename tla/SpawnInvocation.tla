-------------------------- MODULE SpawnInvocation --------------------------
(***************************************************************************)
(* Built-in spawn invocations (engine/action.ts: dispatchSpawn,            *)
(* dispatchNodeInvocation, drainNodeInvocations, rescheduleNodeInvocation, *)
(* sweepTimedOutInvocations, completeNodeInvocation; engine/placement.ts). *)
(*                                                                         *)
(* A spawn takes a capacity slot of a node (nodes.reserved_agents), claims *)
(* its row before the action.invoke frame leaves, and the row then carries *)
(* the slot (spawn_reserved_at) until an answer or a retry gives it back.  *)
(* The request, the drain of a node that is back, the timeout sweep, the   *)
(* loss of a node and the answer of a node all work on the same row with   *)
(* no lock in common: each reads it, awaits, and writes it under a         *)
(* compare-and-swap on <<status, retry_after_at, dispatch_attempts>>.      *)
(* A worker is one such execution; every await is a step of its own.       *)
(*                                                                         *)
(* No spawn:<harness> action is registered here, so the native path is the *)
(* one taken; registered actions are in module ActionInvocation.           *)
(***************************************************************************)
EXTENDS Integers, FiniteSets

CONSTANTS
  Inv,         \* invocations
  Nodes,       \* nodes with the capability
  Anywhere,    \* the target of a spawn that names no node
  None,        \* a null node
  Target,      \* input.target_node of each invocation, or Anywhere
  Slots,       \* nodes.max_agents, less the active ones
  Workers,     \* executions that may be under way together
  MaxAttempts, \* bound: dispatch_attempts
  MaxDeadline, \* bound: distinct values of retry_after_at
  SameSecond,  \* whether two deadlines of a row may fall in the same second
  MaxFaults    \* bound: sends and writes that are refused or throw

ASSUME SpawnAssumption == /\ Target \in [Inv -> Nodes \cup {Anywhere}]
                          /\ Slots \in Nat \ {0}
                          /\ None \notin Nodes /\ Anywhere \notin Nodes
                          /\ MaxAttempts \in Nat /\ MaxDeadline \in Nat /\ MaxFaults \in Nat
                          /\ SameSecond \in BOOLEAN

VARIABLES
  row,       \* action_invocations
  reserved,  \* nodes.reserved_agents
  ready,     \* nodeReady: online, a fresh heartbeat and handlers_live
  conn,      \* isProviderConnected
  run,       \* <<i, n>>: a frame of i reached n and n has not answered it
  wk,        \* what each worker is doing
  faults     \* faults so far

vars == <<row, reserved, ready, conn, run, wk, faults>>
envVars == <<ready, conn, run, faults>>

Statuses == {"none", "pending", "dispatched", "completed", "failed", "deleted"}
Open == {"pending", "dispatched"}
Deadlines == 0..MaxDeadline          \* 0 is null

Row == [st : Statuses, node : Nodes \cup {None}, prov : BOOLEAN, placed : Nodes \cup {None},
        att : 0..MaxAttempts, retry : Deadlines, held : BOOLEAN, mark : BOOLEAN,
        tried : SUBSET Nodes]
NewRow == [st |-> "pending", node |-> None, prov |-> FALSE, placed |-> None, att |-> 0, retry |-> 0,
           held |-> FALSE, mark |-> FALSE, tried |-> {}]
NoRow == [NewRow EXCEPT !.st = "none"]

\* job: what the execution was started for.  obs: the row as it read it.
\* n: the node it works on.  res: it holds a slot of n that no row carries.
\* keep: it reuses the slot of the row.  queued: the placement is for a node
\* that is not ready.  verify: input.verify_ready.  st, att, retry: what its
\* claim wrote.  from: the node that answered.
Idle == [pc |-> "off", job |-> "none", i |-> None, obs |-> NoRow, n |-> None,
         res |-> FALSE, keep |-> FALSE, verify |-> FALSE, queued |-> FALSE, unknown |-> FALSE,
         st |-> "none", att |-> 0, retry |-> 0, from |-> None]

Init ==
  /\ row = [i \in Inv |-> NoRow]
  /\ reserved = [n \in Nodes |-> 0]
  /\ ready = [n \in Nodes |-> FALSE]
  /\ conn = [n \in Nodes |-> FALSE]
  /\ run = {}
  /\ wk = [w \in Workers |-> Idle]
  /\ faults = 0

-----------------------------------------------------------------------------
(* Helpers *)

\* reserveNodeCapacity, and releaseNodeCapacity, which stops at zero (mutant:
\* which does not).
HasSlot(n) == ready[n] /\ reserved[n] < Slots
TakeSlot(n) == reserved' = [reserved EXCEPT ![n] = @ + 1]
BugFreesBelowZero(n) == reserved' = [reserved EXCEPT ![n] = @ - 1]
FreeSlotOf(n) == reserved' = [reserved EXCEPT ![n] = IF @ > 1 THEN @ - 1 ELSE 0]

\* claimSpawnNode with a set of nodes to leave out: it reserves on a ready node
\* with room, or queues on the node the input names while that one is not ready.
Placeable(i, out) == {n \in Nodes \ out : Target[i] \in {Anywhere, n} /\ HasSlot(n)}
Queueable(i, out) == {n \in Nodes \ out : Target[i] = n /\ ~ready[n]}

\* A later deadline.  The column counts seconds, so two of them are the same
\* when SameSecond; none goes back.
Later(i) == {d \in 1..MaxDeadline : d > row[i].retry \/ (SameSecond /\ d = row[i].retry)}

\* The tokens an observer compares before it writes.
SameClaim(r, o) == r.st = o.st /\ r.att = o.att /\ r.retry = o.retry

\* unsentNativeSpawnOn: placed on n, and no attempt on record.
UnsentOn(r, n) == r.st = "pending" /\ r.node = None /\ r.att = 0 /\ r.placed = n

Step(w, pc) == wk' = [wk EXCEPT ![w].pc = pc]
Stop(w) == wk' = [wk EXCEPT ![w] = Idle]
At(w, pc) == wk[w].pc = pc
Write(i, r) == row' = [row EXCEPT ![i] = r]

\* Where an execution goes once a dispatch was not accepted.
Unaccepted(w) == IF wk[w].res THEN "giveback"
                 ELSE IF wk[w].job \in {"spawn", "unsent"} /\ ~wk[w].unknown THEN "mark"
                 ELSE IF wk[w].job = "unavailable" THEN "finish"
                 ELSE "off"
GoUnaccepted(w, pc) == IF pc = "off" THEN Stop(w) ELSE Step(w, pc)

-----------------------------------------------------------------------------
(* dispatchSpawn *)

\* createInvocation.
Request(w, i) ==
  /\ At(w, "off") /\ row[i].st = "none"
  /\ Write(i, NewRow)
  /\ \E v \in BOOLEAN :
       wk' = [wk EXCEPT ![w] = [Idle EXCEPT !.pc = "place", !.job = "spawn", !.i = i,
                                            !.obs = NewRow, !.verify = v]]
  /\ UNCHANGED <<reserved, envVars>>

\* claimSpawnNode; when it throws, the untouched claim is deleted.
PlaceSpawn(w) ==
  LET i == wk[w].i IN
  /\ At(w, "place")
  /\ \/ \E n \in Placeable(i, {}) :
          /\ TakeSlot(n)
          /\ wk' = [wk EXCEPT ![w].pc = "bind", ![w].n = n, ![w].res = TRUE]
          /\ UNCHANGED row
     \/ \E n \in Queueable(i, {}) :
          /\ wk' = [wk EXCEPT ![w].pc = "bind", ![w].n = n, ![w].queued = TRUE]
          /\ UNCHANGED <<row, reserved>>
     \/ /\ Placeable(i, {}) = {} /\ Queueable(i, {}) = {}
        /\ IF row[i].st = "pending" /\ row[i].placed = None /\ row[i].att = 0
           THEN Write(i, [row[i] EXCEPT !.st = "deleted"])
           ELSE UNCHANGED row
        /\ Stop(w)
        /\ UNCHANGED reserved
  /\ UNCHANGED envVars

\* verify_ready refuses a target that is queued or not live: the row fails if
\* nothing was dispatched, and the slot goes back.
RefuseUnready(w) ==
  LET i == wk[w].i  n == wk[w].n IN
  /\ At(w, "bind") /\ wk[w].verify
  /\ wk[w].queued \/ ~conn[n] \/ ~ready[n]
  /\ IF row[i].st \in Open /\ row[i].att = 0 /\ row[i].node = None
     THEN Write(i, [row[i] EXCEPT !.st = "failed", !.held = FALSE])
     ELSE UNCHANGED row
  /\ wk' = [wk EXCEPT ![w] = IF @.res THEN [Idle EXCEPT !.pc = "free", !.n = n] ELSE Idle]
  /\ UNCHANGED <<reserved, envVars>>

\* snapshotInvocationHandlerNode.
Bind(w) ==
  LET i == wk[w].i  n == wk[w].n IN
  /\ At(w, "bind")
  /\ wk[w].verify => ~wk[w].queued /\ conn[n] /\ ready[n]
  /\ IF row[i].st \in Open
     THEN /\ Write(i, [row[i] EXCEPT !.placed = IF @ = None THEN n ELSE @])
          /\ wk' = [wk EXCEPT ![w].pc = "claim", ![w].verify = FALSE]
     ELSE /\ wk' = [wk EXCEPT ![w] = IF @.res THEN [Idle EXCEPT !.pc = "free", !.n = n] ELSE Idle]
          /\ UNCHANGED row
  /\ UNCHANGED <<reserved, envVars>>

-----------------------------------------------------------------------------
(* dispatchNodeInvocation: claim, send, restore *)

\* Mutant: the claim does not compare the attempt count and the deadline.
BugClaimsOnStatusAlone(r, o) == r.st = o.st

ClaimMatches(r, o) == SameClaim(r, o)

\* The deadline and the attempt count of exclusiveClaimWrite.
ClaimRetries(w, st, att) ==
  LET o == wk[w].obs
      wanted == IF wk[w].job \in {"drain", "unsent", "timeout", "lost", "unavailable"}
                THEN Later(wk[w].i) ELSE {0}
  IN  IF st # o.st \/ att # o.att THEN wanted ELSE {d \in 1..MaxDeadline : d > o.retry}

\* Attempts count except when a drain sends the attempt that is queued on n.
ClaimAttempts(w) == IF wk[w].job \in {"drain", "unsent"} /\ wk[w].obs.node = wk[w].n
                    THEN wk[w].obs.att ELSE wk[w].obs.att + 1

Claim(w) ==
  LET i == wk[w].i  n == wk[w].n  o == wk[w].obs  r == row[i]
      st == IF wk[w].queued \/ ~conn[n] THEN "pending" ELSE "dispatched"
      att == ClaimAttempts(w)
  IN
  /\ At(w, "claim")
  /\ IF ClaimMatches(r, o) /\ (wk[w].keep => r.held)
     THEN /\ att <= MaxAttempts
          /\ \E d \in ClaimRetries(w, st, att) :
               /\ Write(i, [r EXCEPT !.st = st, !.node = n, !.prov = TRUE, !.att = att, !.retry = d,
                                     !.placed = IF @ = None THEN n ELSE @,
                                     !.held = wk[w].res \/ wk[w].keep,
                                     !.tried = IF att = o.att THEN @ ELSE @ \cup {n}])
               /\ wk' = [wk EXCEPT ![w].pc = "send", ![w].st = st, ![w].att = att, ![w].retry = d]
     ELSE /\ GoUnaccepted(w, Unaccepted(w))
          /\ UNCHANGED row
  /\ UNCHANGED <<reserved, envVars>>

\* The frame is handed to the socket, or kept in memory while there is none
\* (it is never flushed: the next drain reads the rows).  The row now carries
\* the slot.
SendAccepted(w) ==
  /\ At(w, "send")
  /\ run' = IF conn[wk[w].n] THEN run \cup {<<wk[w].i, wk[w].n>>} ELSE run
  /\ Stop(w)
  /\ UNCHANGED <<row, reserved, ready, conn, faults>>

\* A remote socket owner refuses the frame.
SendRefused(w) ==
  /\ At(w, "send") /\ faults < MaxFaults
  /\ Step(w, "restore")
  /\ faults' = faults + 1
  /\ UNCHANGED <<row, reserved, ready, conn, run>>

\* The send throws: the frame may have left.
SendThrows(w) ==
  /\ At(w, "send") /\ faults < MaxFaults
  /\ wk' = [wk EXCEPT ![w].pc = "restore", ![w].unknown = TRUE]
  /\ run' \in IF conn[wk[w].n] THEN {run, run \cup {<<wk[w].i, wk[w].n>>}} ELSE {run}
  /\ faults' = faults + 1
  /\ UNCHANGED <<row, reserved, ready, conn>>

\* Mutant: the claim is put back whatever became of the row.
BugRestoresAnyRow(r, w) == TRUE

RestoreMatches(r, w) == r.st \in Open /\ r.att = wk[w].att /\ r.retry = wk[w].retry

Restored(r, w) ==
  [r EXCEPT !.st = "pending", !.node = wk[w].obs.node, !.retry = wk[w].obs.retry,
            !.att = wk[w].obs.att, !.held = wk[w].keep]

\* restoreUnsentSpawnClaim.
Restore(w) ==
  LET i == wk[w].i IN
  /\ At(w, "restore")
  /\ IF RestoreMatches(row[i], w)
     THEN Write(i, Restored(row[i], w))
     ELSE UNCHANGED row
  /\ GoUnaccepted(w, Unaccepted(w))
  /\ UNCHANGED <<reserved, envVars>>

\* The restoring write fails: reservationStillHeld, and the slot stays with the row.
RestoreFails(w) ==
  /\ At(w, "restore") /\ faults < MaxFaults
  /\ IF wk[w].job = "unavailable" THEN wk' = [wk EXCEPT ![w].pc = "finish", ![w].res = FALSE]
     ELSE Stop(w)
  /\ faults' = faults + 1
  /\ UNCHANGED <<row, reserved, ready, conn, run>>

\* The caller returns the slot it reserved for an attempt that did not land.
ReturnSlot(w) ==
  /\ At(w, "giveback")
  /\ FreeSlotOf(wk[w].n)
  /\ wk' = [wk EXCEPT ![w] =
              LET x == [@ EXCEPT !.res = FALSE] IN
              IF x.job \in {"spawn", "unsent"} /\ ~x.unknown THEN [x EXCEPT !.pc = "mark"]
              ELSE IF x.job = "unavailable" THEN [x EXCEPT !.pc = "finish"]
              ELSE Idle]
  /\ UNCHANGED <<row, envVars>>

\* markUnsentNativeSpawn.
Mark(w) ==
  LET i == wk[w].i IN
  /\ At(w, "mark")
  /\ Write(i, IF UnsentOn(row[i], wk[w].n) THEN [row[i] EXCEPT !.mark = TRUE] ELSE row[i])
  /\ Stop(w)
  /\ UNCHANGED <<reserved, envVars>>

-----------------------------------------------------------------------------
(* drainNodeInvocations, one row of it *)

StartDrain(w, i, n) ==
  /\ At(w, "off")
  /\ conn[n] /\ ready[n]
  /\ row[i].st = "pending"
  /\ \/ row[i].node = n
     \/ UnsentOn(row[i], n) /\ row[i].mark
  /\ wk' = [wk EXCEPT ![w] = [Idle EXCEPT !.job = IF row[i].node = n THEN "drain" ELSE "unsent",
                                          !.pc = IF row[i].node = n THEN "reserve" ELSE "take",
                                          !.i = i, !.obs = row[i], !.n = n]]
  /\ UNCHANGED <<row, reserved, envVars>>

\* claimUnsentNativeSpawn: one drain wins the mark.
TakeMark(w) ==
  LET i == wk[w].i IN
  /\ At(w, "take")
  /\ IF UnsentOn(row[i], row[i].placed) /\ row[i].mark
     THEN Write(i, [row[i] EXCEPT !.mark = FALSE]) /\ Step(w, "reserve")
     ELSE UNCHANGED row /\ Stop(w)
  /\ UNCHANGED <<reserved, envVars>>

\* The row's own slot is reused; otherwise one is reserved, or the row is
\* marked again and put off.
DrainReserve(w) ==
  LET i == wk[w].i  n == wk[w].n IN
  /\ At(w, "reserve")
  /\ IF wk[w].obs.held
     THEN wk' = [wk EXCEPT ![w].pc = "claim", ![w].keep = TRUE] /\ UNCHANGED <<row, reserved>>
     ELSE IF HasSlot(n)
     THEN TakeSlot(n) /\ wk' = [wk EXCEPT ![w].pc = "claim", ![w].res = TRUE] /\ UNCHANGED row
     ELSE /\ IF wk[w].job = "unsent" /\ UnsentOn(row[i], n)
             THEN Write(i, [row[i] EXCEPT !.mark = TRUE]) ELSE UNCHANGED row
          /\ Step(w, "defer")
          /\ UNCHANGED reserved
  /\ UNCHANGED envVars

Defer(w) ==
  LET i == wk[w].i IN
  /\ At(w, "defer")
  /\ \/ /\ ready[wk[w].n] /\ row[i].st = "pending"
        /\ \E d \in Later(i) : Write(i, [row[i] EXCEPT !.retry = d])
     \/ ~(ready[wk[w].n] /\ row[i].st = "pending") /\ UNCHANGED row
  /\ Stop(w)
  /\ UNCHANGED <<reserved, envVars>>

-----------------------------------------------------------------------------
(* rescheduleNodeInvocation, for a timeout, a due retry and a lost node *)

StartReschedule(w, i, job) ==
  /\ At(w, "off")
  /\ wk' = [wk EXCEPT ![w] = [Idle EXCEPT !.pc = "drop", !.job = job, !.i = i, !.obs = row[i]]]
  /\ UNCHANGED <<row, reserved, envVars>>

\* sweepTimedOutInvocations: the time of a dispatched row is up at any moment,
\* a pending one is due when it has a deadline.
StartTimeout(w, i) == row[i].st = "dispatched" /\ StartReschedule(w, i, "timeout")
StartDue(w, i) == row[i].st = "pending" /\ row[i].retry # 0 /\ StartReschedule(w, i, "due")
\* rescheduleInvocationsForLostNode, after markNodeOffline.
StartLost(w, i, n) == ~ready[n] /\ row[i].node = n /\ row[i].st \in Open
                      /\ StartReschedule(w, i, "lost")

DropMatches(r, o) == SameClaim(r, o) /\ r.held

\* The marker is cleared and the counter decremented in one transaction.
DropHold(w) ==
  LET i == wk[w].i  o == wk[w].obs IN
  /\ At(w, "drop")
  /\ IF o.node # None /\ o.held /\ DropMatches(row[i], o)
     THEN Write(i, [row[i] EXCEPT !.held = FALSE]) /\ FreeSlotOf(o.node)
     ELSE UNCHANGED <<row, reserved>>
  /\ Step(w, "replace")
  /\ UNCHANGED envVars

\* selectRetryPlacement leaves out the nodes already tried; a due retry falls
\* back on them.
Excluded(w) == wk[w].obs.tried \cup {wk[w].obs.node}
Outs(w) == LET i == wk[w].i  e == Excluded(w) IN
           IF wk[w].job = "due" /\ Placeable(i, e) = {} /\ Queueable(i, e) = {} THEN {} ELSE e

Replace(w) ==
  LET i == wk[w].i  e == Outs(w) IN
  /\ At(w, "replace")
  /\ \/ \E n \in Placeable(i, e) :
          /\ TakeSlot(n)
          /\ wk' = [wk EXCEPT ![w].pc = "claim", ![w].n = n, ![w].res = TRUE]
     \/ \E n \in Queueable(i, e) :
          /\ wk' = [wk EXCEPT ![w].pc = "queue", ![w].n = n, ![w].queued = TRUE]
          /\ UNCHANGED reserved
     \/ /\ Placeable(i, e) = {} /\ Queueable(i, e) = {}
        /\ Step(w, "park")
        /\ UNCHANGED reserved
  /\ UNCHANGED <<row, envVars>>

\* A queued placement is recorded as a pending attempt; no frame is sent.
QueueRetry(w) ==
  LET i == wk[w].i  o == wk[w].obs  r == row[i]  n == wk[w].n IN
  /\ At(w, "queue")
  /\ IF SameClaim(r, o)
     THEN /\ o.att + 1 <= MaxAttempts
          /\ \E d \in IF wk[w].job = "due" THEN {0} ELSE Later(i) :
               Write(i, [r EXCEPT !.st = "pending", !.node = n, !.prov = TRUE, !.att = @ + 1,
                                  !.retry = d, !.held = FALSE, !.tried = @ \cup {n}])
          /\ Stop(w)
     ELSE UNCHANGED row /\ GoUnaccepted(w, Unaccepted(w))
  /\ UNCHANGED <<reserved, envVars>>

\* No candidate: the row waits, detached from its node.
Park(w) ==
  LET i == wk[w].i IN
  /\ At(w, "park")
  /\ IF SameClaim(row[i], wk[w].obs)
     THEN \E d \in Later(i) : Write(i, [row[i] EXCEPT !.st = "pending", !.node = None, !.prov = FALSE,
                                                      !.held = FALSE, !.retry = d])
     ELSE UNCHANGED row
  /\ GoUnaccepted(w, Unaccepted(w))
  /\ UNCHANGED <<reserved, envVars>>

-----------------------------------------------------------------------------
(* completeNodeInvocation *)

\* The answer of node n.  handler_unavailable takes the node out of placement
\* and tries another one first.
Answer(w, i, n, kind) ==
  /\ At(w, "off") /\ <<i, n>> \in run
  /\ run' = run \ {<<i, n>>}
  /\ ready' = IF kind = "unavailable" THEN [ready EXCEPT ![n] = FALSE] ELSE ready
  /\ wk' = IF row[i].st \in Open /\ row[i].prov /\ row[i].node \in {None, n}
           THEN [wk EXCEPT ![w] = [Idle EXCEPT !.pc = IF kind = "unavailable" THEN "drop" ELSE "finish",
                                               !.job = kind, !.i = i, !.obs = row[i], !.from = n]]
           ELSE wk
  /\ UNCHANGED <<row, reserved, conn, faults>>

AnswerMatches(r, n) == r.st \in Open /\ r.node = n

\* The update is bound to the node; the slot goes back if the row carried one
\* when it was read.
Finish(w) ==
  LET i == wk[w].i  o == wk[w].obs IN
  /\ At(w, "finish")
  /\ IF AnswerMatches(row[i], wk[w].from)
     THEN /\ Write(i, [row[i] EXCEPT !.st = IF wk[w].job = "ok" THEN "completed" ELSE "failed",
                                     !.held = FALSE])
          /\ wk' = [wk EXCEPT ![w] = IF o.held THEN [Idle EXCEPT !.pc = "free", !.n = wk[w].from] ELSE Idle]
     ELSE UNCHANGED row /\ Stop(w)
  /\ UNCHANGED <<reserved, envVars>>

FreeSlot(w) ==
  /\ At(w, "free")
  /\ FreeSlotOf(wk[w].n)
  /\ Stop(w)
  /\ UNCHANGED <<row, envVars>>

\* failNeverDispatchedExpiredInvocations.
Expire(i) ==
  /\ row[i].st = "pending" /\ row[i].att = 0
  /\ Write(i, [row[i] EXCEPT !.st = "failed", !.held = FALSE])
  /\ UNCHANGED <<reserved, wk, envVars>>

-----------------------------------------------------------------------------
(* The nodes *)

NodeUp(n) ==
  /\ ~(conn[n] /\ ready[n])
  /\ conn' = [conn EXCEPT ![n] = TRUE] /\ ready' = [ready EXCEPT ![n] = TRUE]
  /\ UNCHANGED <<row, reserved, run, wk, faults>>

\* The socket drops; the node stays ready until markNodeOffline or its heartbeat ages.
ConnLost(n) ==
  /\ conn[n]
  /\ conn' = [conn EXCEPT ![n] = FALSE]
  /\ UNCHANGED <<row, reserved, ready, run, wk, faults>>

NodeOffline(n) ==
  /\ ready[n] /\ ~conn[n]
  /\ ready' = [ready EXCEPT ![n] = FALSE]
  /\ UNCHANGED <<row, reserved, conn, run, wk, faults>>

\* The node dies with what it was running.
NodeCrash(n) ==
  /\ \E i \in Inv : <<i, n>> \in run
  /\ run' = {x \in run : x[2] # n} /\ conn' = [conn EXCEPT ![n] = FALSE]
  /\ UNCHANGED <<row, reserved, ready, wk, faults>>

-----------------------------------------------------------------------------
WorkerStep(w) ==
  \/ \E i \in Inv : Request(w, i)
  \/ PlaceSpawn(w)
  \/ RefuseUnready(w)
  \/ Bind(w)
  \/ Claim(w)
  \/ SendAccepted(w)
  \/ SendRefused(w)
  \/ SendThrows(w)
  \/ Restore(w)
  \/ RestoreFails(w)
  \/ ReturnSlot(w)
  \/ Mark(w)
  \/ \E i \in Inv, n \in Nodes : StartDrain(w, i, n)
  \/ TakeMark(w)
  \/ DrainReserve(w)
  \/ Defer(w)
  \/ \E i \in Inv : StartTimeout(w, i)
  \/ \E i \in Inv : StartDue(w, i)
  \/ \E i \in Inv, n \in Nodes : StartLost(w, i, n)
  \/ DropHold(w)
  \/ Replace(w)
  \/ QueueRetry(w)
  \/ Park(w)
  \/ \E i \in Inv, n \in Nodes, k \in {"ok", "error", "unavailable"} : Answer(w, i, n, k)
  \/ Finish(w)
  \/ FreeSlot(w)

NodeStep(n) == NodeUp(n) \/ ConnLost(n) \/ NodeOffline(n) \/ NodeCrash(n)

Next == \/ \E w \in Workers : WorkerStep(w)
        \/ \E i \in Inv : Expire(i)
        \/ \E n \in Nodes : NodeStep(n)

Spec == Init /\ [][Next]_vars

-----------------------------------------------------------------------------
(* Properties *)

\* The rows, the counters and the sockets have their types; in particular no
\* release takes a node's counter below zero (releaseNodeCapacity).
TypeOK ==
  /\ row \in [Inv -> Row]
  /\ reserved \in [Nodes -> Nat]
  /\ ready \in [Nodes -> BOOLEAN]
  /\ conn \in [Nodes -> BOOLEAN]
  /\ run \subseteq Inv \X Nodes
  /\ faults \in 0..MaxFaults

\* At most one execution owns a claim: of two that are sending the same
\* invocation, each wrote its own status, attempt and deadline
\* (dispatchNodeAttempt's compare-and-swap, restoreUnsentSpawnClaim).
OneSender == \A v, w \in Workers :
  (v # w /\ At(v, "send") /\ At(w, "send") /\ wk[v].i = wk[w].i)
     => <<wk[v].st, wk[v].att, wk[v].retry>> # <<wk[w].st, wk[w].att, wk[w].retry>>

\* No execution that read an invocation before it was settled brings it back or
\* changes it afterwards: late answers, drains, sweeps and restores all lose.
SettledStays ==
  [][\A i \in Inv : row[i].st \in {"completed", "failed", "deleted"} => row'[i] = row[i]]_vars

Carried(n) == {i \in Inv : row[i].st \in Open /\ row[i].held /\ row[i].node = n}

\* A slot is given back by the invocation that took it and once: a node counts
\* at least the slots its open invocations carry (completeNodeInvocation).
NoSlotFreedTwice == \A n \in Nodes : reserved[n] >= Cardinality(Carried(n))
=============================================================================
