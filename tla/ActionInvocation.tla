-------------------------- MODULE ActionInvocation --------------------------
(***************************************************************************)
(* One invocation of a registered action (engine/action.ts invokeAction,   *)
(* dispatchNodeInvocation, rescheduleNodeInvocation, deleteAction,         *)
(* registerAction; engine/taskInvocation.ts; the acceptance writes of      *)
(* adapters/node/realtime.ts sendAuthorizedActionToProvider).              *)
(*                                                                         *)
(* The action is hosted by an agent (one row, whose handler may be taken   *)
(* over) or by nodes (a row per node, materialized by its provider and     *)
(* pruned when the provider stops offering it).  An invocation points at   *)
(* the row (action_id, cleared by the foreign key when the row goes), at   *)
(* the node of its attempt, and records which attempt a provider accepted. *)
(* Requests with the same idempotency key, drains, sweeps, lost nodes and  *)
(* answers work on it with no common lock; every await is a step.          *)
(***************************************************************************)
EXTENDS Integers, FiniteSets

CONSTANTS
  Nodes,       \* nodes with one provider each
  Hosted,      \* stands for "hosted by an agent"
  None,
  Agents,      \* agents that may be the handler
  AgentNode,   \* agents.location_node_id
  Workers,     \* executions that may be under way together
  Modes,       \* actions.queue and actions.execution_mode, as registered
  Gens,        \* generations of a node's task worker
  MaxGen,      \* bound: action rows ever created per host
  MaxAttempts, \* bound: dispatch_attempts
  MaxDeadline  \* bound: distinct values of retry_after_at

ASSUME ActionAssumption == /\ Modes \subseteq [queue : BOOLEAN, task : BOOLEAN]
                           /\ AgentNode \in [Agents -> Nodes]
                           /\ Hosted \notin Nodes \cup {None} /\ None \notin Nodes \cup Agents \cup Gens
                           /\ MaxGen \in Nat \ {0} /\ MaxAttempts \in Nat /\ MaxDeadline \in Nat

VARIABLES
  mode,     \* how the action was registered
  live,     \* [host -> generation of its action row, or 0]
  last,     \* [host -> generations used so far]
  handler,  \* actions.handler_agent_id of the hosted row
  row,      \* action_invocations
  ready,    \* the provider's heartbeat says its handlers are live
  conn,     \* isProviderConnected
  run,      \* [n, att]: frames that reached a node and are not answered
  sent,     \* history: [attempt -> frames of it that reached a node]
  wk,       \* what each worker is doing
  over,     \* the deadline of the task has passed
  begun     \* history: how often a task worker was told newly_accepted

vars == <<mode, live, last, handler, row, ready, conn, run, sent, wk, over, begun>>
task == <<over, begun>>
actions == <<mode, live, last, handler>>
nodes == <<ready, conn>>
frames == <<run, sent>>

Hosts == Nodes \cup {Hosted}
Ids == Hosts \X (1..MaxGen)
NoId == <<None, 0>>
Open == {"pending", "dispatched"}
Ended == {"completed", "failed"}
Deadlines == 0..MaxDeadline

Row == [st : {"none", "running"} \cup Open \cup Ended, act : Ids \cup {NoId},
        agent : Agents \cup {None}, node : Nodes \cup {None}, att : 0..MaxAttempts,
        acc : 0..MaxAttempts, retry : Deadlines, unre : BOOLEAN, tried : SUBSET Nodes,
        err : {"none", "deleted", "unavailable", "deadline", "other"}, gen : Gens \cup {None}]
NoRow == [st |-> "none", act |-> NoId, agent |-> None, node |-> None, att |-> 0, acc |-> 0,
          retry |-> 0, unre |-> FALSE, tried |-> {}, err |-> "none", gen |-> None]

\* The columns that an execution carries from its read of the row.
Seen(r) == [st |-> r.st, act |-> r.act, node |-> r.node, att |-> r.att, retry |-> r.retry, tried |-> r.tried]

\* job: what started the execution.  act, agent, n: what it resolved.  obs: the
\* row as it read it.  att: the attempt its claim wrote, or a frame names.  gen:
\* the worker generation of a task frame.  from: the node that answered.
Idle == [pc |-> "off", job |-> "none", act |-> NoId, agent |-> None, n |-> None,
         obs |-> Seen(NoRow), att |-> 0, gen |-> None, from |-> None, rejected |-> {}]

Init ==
  /\ mode \in Modes
  /\ live \in {[h \in Hosts |-> IF h = Hosted THEN 1 ELSE 0],
               [h \in Hosts |-> IF h = Hosted THEN 0 ELSE 1]}
  /\ mode.task => live[Hosted] = 0
  /\ last = live
  /\ handler \in Agents
  /\ row = NoRow
  /\ ready = [n \in Nodes |-> TRUE] /\ conn = [n \in Nodes |-> TRUE]
  /\ run = {} /\ sent = [a \in 1..MaxAttempts |-> 0]
  /\ wk = [w \in Workers |-> Idle]
  /\ over = FALSE /\ begun = 0

-----------------------------------------------------------------------------
(* Helpers *)

Step(w, pc) == wk' = [wk EXCEPT ![w].pc = pc]
Stop(w) == wk' = [wk EXCEPT ![w] = Idle]
At(w, pc) == wk[w].pc = pc

IsLive(id) == id # NoId /\ live[id[1]] = id[2]
Later(d) == {e \in 1..MaxDeadline : e > d}
SameClaim(r, o) == r.st = o.st /\ r.att = o.att /\ r.retry = o.retry

\* isHandlerConnectionLive, isNodeProviderLive.
Reachable(n) == conn[n] /\ ready[n]

\* isDeletedRegisteredActionInvocation, isAcceptedDeletedRegisteredActionInvocation.
Deleted(r) == r.act = NoId /\ r.acc # r.att
AcceptedDeleted(r) == r.act = NoId /\ r.acc # 0 /\ r.acc = r.att

\* Mutant: the error is written and the status forgotten.
BugFailsInPlace(r, e) == IF r.st \in Open THEN [r EXCEPT !.err = e] ELSE r

\* failOpenInvocationRows.
Failed(r, e) == IF r.st \in Open THEN [r EXCEPT !.st = "failed", !.err = e] ELSE r

\* settleDeletedRegisteredAction.
SettleDeleted(r) == IF Deleted(r) THEN Failed(r, "deleted") ELSE r

\* openInvocationIdsForActions: the open rows of an action that no provider accepted.
Unaccepted(r, id) == r.act = id /\ r.st \in Open /\ (r.acc = 0 \/ r.acc # r.att)

Frame(n, a) ==
  IF conn[n] THEN run' = run \cup {<<n, a>>} /\ sent' = [sent EXCEPT ![a] = @ + 1]
  ELSE UNCHANGED frames

-----------------------------------------------------------------------------
(* invokeAction and its replays *)

\* No row with the key yet: fetchAction, where a hosted row comes first, and,
\* for a hosted action that does not queue, the liveness of its handler.
Invoke(w) ==
  /\ At(w, "off") /\ row.st = "none"
  /\ \E h \in Hosts :
       /\ live[h] # 0
       /\ h # Hosted => live[Hosted] = 0
       /\ (h = Hosted /\ ~mode.queue) => Reachable(AgentNode[handler])
       /\ wk' = [wk EXCEPT ![w] = [Idle EXCEPT !.pc = "insert", !.job = "winner", !.act = <<h, live[h]>>,
                   !.agent = IF h = Hosted THEN handler ELSE None,
                   !.n = IF h = Hosted THEN AgentNode[handler] ELSE h]]
  /\ UNCHANGED <<actions, row, nodes, frames, task>>

\* createInvocation: the insert loses to a claim with the same id (and the
\* request becomes a replay), and the foreign key refuses an action that is gone.
Insert(w) ==
  /\ At(w, "insert")
  /\ IF row.st = "none" /\ IsLive(wk[w].act)
     THEN /\ row' = [NoRow EXCEPT !.st = "pending", !.act = wk[w].act, !.agent = wk[w].agent]
          /\ wk' = [wk EXCEPT ![w].pc = IF wk[w].agent = None THEN "gate" ELSE "revalidate",
                              ![w].obs = Seen(row')]
     ELSE Stop(w) /\ UNCHANGED row
  /\ UNCHANGED <<actions, nodes, frames, task>>

\* The handler pointer is read again after the insert.
Revalidate(w) ==
  /\ At(w, "revalidate")
  /\ IF IsLive(wk[w].act) /\ handler = wk[w].agent
     THEN Step(w, "agentsend") /\ UNCHANGED row
     ELSE row' = Failed(row, "unavailable") /\ Stop(w)
  /\ UNCHANGED <<actions, nodes, frames, task>>

\* Mutant: a failure is reported whether or not the attempt was started.
BugFailureFirst(r) == IF r.st = "failed" THEN "error"
                      ELSE IF r.node # None \/ (r.agent # None /\ r.att > 0) THEN "ok"
                      ELSE IF r.st \in Open THEN "wait" ELSE "ok"

\* What a request with the key is told of the row (waitForInvocationReplayOutcome).
\* "wait": retryable, the key stays taken.
Outcome(r) == IF r.st = "failed" /\ r.err = "deleted" THEN "error"
              ELSE IF r.node # None \/ (r.agent # None /\ r.att > 0) THEN "ok"
              ELSE IF r.st = "failed" THEN "error"
              ELSE IF r.st \in Open THEN "wait" ELSE "ok"

\* The winner of a hosted action whose frame was not sent: the row fails only
\* if nothing was ever dispatched.
Unsent(w) ==
  LET r == IF row.st \in Open /\ row.att = 0 /\ row.node = None
           THEN Failed(row, "unavailable") ELSE row IN
  /\ At(w, "unsent")
  /\ row' = r
  /\ Stop(w)
  /\ UNCHANGED <<actions, nodes, frames, task>>

-----------------------------------------------------------------------------
(* Dispatch to a hosting agent: agent-action-v1 *)

\* Mutant: the status, the deadline and the attempt count are not compared.
BugAnyOpenClaim(w) ==
  /\ row.st \in Open /\ row.act = wk[w].act /\ row.agent = wk[w].agent
  /\ IsLive(wk[w].act) /\ handler = wk[w].agent

AgentClaimMatches(w) ==
  /\ SameClaim(row, wk[w].obs) /\ row.act = wk[w].act /\ row.agent = wk[w].agent
  /\ IsLive(wk[w].act) /\ handler = wk[w].agent

\* The socket owner commits route, attempt and acceptance in one update and
\* hands the frame to the socket; without one the frame stays in memory.
AgentSend(w) ==
  LET n == wk[w].n  o == wk[w].obs
      st == IF conn[n] THEN "dispatched" ELSE "pending"
      att == IF wk[w].job = "drain" /\ o.node = n THEN o.att ELSE o.att + 1
      wanted == IF wk[w].job \in {"winner", "due"} THEN {0} ELSE Later(row.retry)
      retries == IF st # o.st \/ att # o.att THEN wanted ELSE Later(o.retry)
  IN
  /\ At(w, "agentsend")
  /\ IF AgentClaimMatches(w)
     THEN /\ att <= MaxAttempts
          /\ \E d \in retries :
               row' = [row EXCEPT !.st = st, !.node = n, !.att = att, !.acc = att, !.retry = d,
                                  !.tried = IF att = o.att THEN @ ELSE @ \cup {n}]
          /\ Frame(n, att)
          /\ Stop(w)
     ELSE /\ IF wk[w].job = "winner" THEN Step(w, "unsent")
             ELSE IF wk[w].job = "unavailable" THEN Step(w, "finish")
             ELSE Stop(w)
          /\ UNCHANGED <<row, frames>>
  /\ UNCHANGED <<actions, nodes, task>>

-----------------------------------------------------------------------------
(* Dispatch to a node's provider: dispatchNodeProviderInvocation, registered-node-action-v2 *)

\* A provider that is not live fails the request, or queues it; a retry looks
\* for another node first.
Gate(w) ==
  LET n == wk[w].n IN
  /\ At(w, "gate")
  /\ IF Reachable(n) THEN Step(w, "claim") /\ UNCHANGED row
     ELSE IF mode.queue THEN Step(w, "queue") /\ UNCHANGED row
     ELSE IF wk[w].job = "winner"
     THEN row' = Failed(row, "unavailable") /\ Stop(w)
     ELSE /\ wk' = [wk EXCEPT ![w].pc = "replace", ![w].rejected = @ \cup {n}]
          /\ UNCHANGED row
  /\ UNCHANGED <<actions, nodes, frames, task>>

\* The offline queue is the row itself (dispatchNodeAttempt, pending).
Queue(w) ==
  LET n == wk[w].n  o == wk[w].obs
      ok == /\ row.st \in Open /\ row.act = o.act /\ IsLive(o.act) /\ IsLive(wk[w].act) IN
  /\ At(w, "queue")
  /\ ok => row.att + 1 <= MaxAttempts
  /\ row' = IF ok THEN [row EXCEPT !.st = "pending", !.node = n, !.att = @ + 1, !.retry = 0,
                                   !.act = wk[w].act, !.tried = @ \cup {n}]
            ELSE SettleDeleted(row)
  /\ IF wk[w].job = "unavailable" /\ ~ok THEN Step(w, "finish") ELSE Stop(w)
  /\ UNCHANGED <<actions, nodes, frames, task>>

\* Mutant: a task that runs is handed off like an open one.
BugHandsOffRunning(w) ==
  LET o == wk[w].obs IN
  row.st \notin Ended /\ row.act = o.act /\ IsLive(o.act) /\ IsLive(wk[w].act)

\* claimRegisteredActionHandoff: by the identity of the action, and not when
\* the same route is already dispatched.
HandoffMatches(w) ==
  LET o == wk[w].obs IN
  /\ row.st \in Open /\ row.act = o.act /\ IsLive(o.act) /\ IsLive(wk[w].act)
  /\ ~(row.act = wk[w].act /\ row.node = wk[w].n /\ row.st = "dispatched")

Claim(w) ==
  LET n == wk[w].n  o == wk[w].obs
      att == IF wk[w].job = "drain" /\ o.node = n THEN row.att ELSE row.att + 1
      retries == IF wk[w].job = "drain" THEN Later(row.retry) ELSE {0} IN
  /\ At(w, "claim")
  /\ IF HandoffMatches(w)
     THEN /\ att <= MaxAttempts
          /\ \E d \in retries :
               row' = [row EXCEPT !.st = IF conn[n] THEN "dispatched" ELSE "pending", !.node = n,
                                  !.act = wk[w].act, !.att = att, !.retry = d,
                                  !.tried = IF att = row.att THEN @ ELSE @ \cup {n}]
          /\ wk' = [wk EXCEPT ![w].pc = "accept", ![w].att = att]
     ELSE /\ row' = SettleDeleted(row)
          /\ IF wk[w].job = "unavailable" THEN Step(w, "finish") ELSE Stop(w)
  /\ UNCHANGED <<actions, nodes, frames, task>>

AcceptMatches(w) ==
  /\ row.act = wk[w].act /\ row.node = wk[w].n /\ row.att = wk[w].att /\ row.acc # wk[w].att
  /\ row.st = "dispatched" /\ IsLive(wk[w].act)

\* The acceptance is recorded, then the frame is handed over, with no await between.
Accept(w) ==
  /\ At(w, "accept")
  /\ IF AcceptMatches(w)
     THEN /\ row' = [row EXCEPT !.acc = wk[w].att]
          /\ Frame(wk[w].n, wk[w].att)
          /\ Stop(w)
     ELSE Step(w, "sendfail") /\ UNCHANGED <<row, frames>>
  /\ UNCHANGED <<actions, nodes, task>>

\* settleRegisteredActionSendFailure.
SendFail(w) ==
  LET mine == row.st \in Open /\ row.act = wk[w].act /\ row.node = wk[w].n /\ row.att = wk[w].att IN
  /\ At(w, "sendfail")
  /\ row' = IF mine THEN Failed(row, "other") ELSE SettleDeleted(row)
  /\ IF wk[w].job = "unavailable" THEN Step(w, "finish") ELSE Stop(w)
  /\ UNCHANGED <<actions, nodes, frames, task>>

-----------------------------------------------------------------------------
(* drainNodeInvocations *)

\* The rows queued for n or handled there, joined with the action as it is now.
StartDrain(w, n) ==
  LET h == row.act[1]
      target == IF h = Hosted THEN AgentNode[handler] ELSE IF h \in Nodes THEN h ELSE row.node IN
  /\ At(w, "off") /\ row.st = "pending"
  /\ row.node = n \/ target = n
  /\ IF Deleted(row)
     THEN wk' = [wk EXCEPT ![w] = [Idle EXCEPT !.pc = "faildeleted", !.job = "drain"]]
     ELSE /\ target = n /\ Reachable(n)
          /\ wk' = [wk EXCEPT ![w] =
               [Idle EXCEPT !.pc = IF h = Hosted THEN "agentsend" ELSE "claim",
                            !.job = "drain", !.obs = Seen(row), !.act = row.act, !.n = n,
                            !.agent = IF h = Hosted THEN handler ELSE None]]
  /\ UNCHANGED <<actions, row, nodes, frames, task>>

FailDeleted(w) ==
  /\ At(w, "faildeleted")
  /\ row' = Failed(row, "deleted")
  /\ IF wk[w].job = "unavailable" THEN Step(w, "finish") ELSE Stop(w)
  /\ UNCHANGED <<actions, nodes, frames, task>>

-----------------------------------------------------------------------------
(* rescheduleNodeInvocation *)

\* An accepted attempt of a deleted action is left to its provider, an
\* unaccepted one fails.
Rescheduled(r, job) ==
  [Idle EXCEPT !.pc = IF AcceptedDeleted(r) THEN (IF job = "unavailable" THEN "finish" ELSE "off")
                      ELSE IF Deleted(r) THEN "faildeleted" ELSE "target",
               !.job = job, !.obs = Seen(r)]

StartReschedule(w, job) ==
  /\ At(w, "off")
  /\ wk' = [wk EXCEPT ![w] = IF AcceptedDeleted(row) THEN Idle ELSE Rescheduled(row, job)]
  /\ UNCHANGED <<actions, row, nodes, frames, task>>

StartTimeout(w) == row.st = "dispatched" /\ StartReschedule(w, "timeout")
StartDue(w) == row.st = "pending" /\ row.retry # 0 /\ StartReschedule(w, "due")
StartLost(w, n) == ~ready[n] /\ row.node = n /\ row.st \in Open /\ StartReschedule(w, "lost")

\* targetAgentForInvocation: through the action the row points at by now.
Target(w) ==
  /\ At(w, "target")
  /\ wk' = [wk EXCEPT ![w] =
       IF row.act[1] = Hosted
       THEN [@ EXCEPT !.pc = "agentsend", !.act = row.act, !.agent = handler, !.n = AgentNode[handler]]
       ELSE [@ EXCEPT !.pc = "replace"]]
  /\ UNCHANGED <<actions, row, nodes, frames, task>>

\* The ready nodes that offer the name, less the attempted ones; a due retry
\* falls back on those.
Candidates(w) ==
  LET o == wk[w].obs
      offer == {n \in Nodes : ready[n] /\ live[n] # 0} \ wk[w].rejected
      fresh == offer \ (o.tried \cup {o.node})
  IN  IF wk[w].job = "due" /\ fresh = {} THEN offer ELSE fresh

Replace(w) ==
  /\ At(w, "replace")
  /\ \/ \E n \in Candidates(w) :
          wk' = [wk EXCEPT ![w].pc = "gate", ![w].n = n, ![w].act = <<n, live[n]>>]
     \/ Candidates(w) = {} /\ Step(w, "park")
  /\ UNCHANGED <<actions, row, nodes, frames, task>>

\* Providers that turned the retry down fail it; otherwise the row waits,
\* detached, if nobody touched it.
Park(w) ==
  /\ At(w, "park")
  /\ IF wk[w].rejected # {} THEN row' = Failed(row, "unavailable")
     ELSE IF SameClaim(row, wk[w].obs)
     THEN \E d \in Later(row.retry) :
            row' = [row EXCEPT !.st = "pending", !.node = None, !.retry = d]
     ELSE UNCHANGED row
  /\ IF wk[w].job = "unavailable" THEN Step(w, "finish") ELSE Stop(w)
  /\ UNCHANGED <<actions, nodes, frames, task>>

-----------------------------------------------------------------------------
(* Answers: completeNodeInvocation, completeInvocation *)

Answer(w, f, kind) ==
  LET n == f[1] IN
  /\ At(w, "off") /\ f \in run /\ ~mode.task
  /\ run' = run \ {f}
  /\ ready' = IF kind = "unavailable" /\ row.st \in Open /\ row.node = n
              THEN [ready EXCEPT ![n] = FALSE] ELSE ready
  /\ wk' = IF row.st \in Open /\ row.node = n
           THEN [wk EXCEPT ![w] = [(IF kind = "unavailable" THEN Rescheduled(row, kind)
                                    ELSE [Idle EXCEPT !.pc = "finish", !.job = kind])
                                   EXCEPT !.from = n]]
           ELSE wk
  /\ UNCHANGED <<actions, row, conn, sent, task>>

\* Mutant: the update is not bound to an open row.
BugAnswersAnyRow(r, n) == r.node = n

AnswerMatches(r, n) == r.st \in Open /\ r.node = n

Finish(w) ==
  /\ At(w, "finish")
  /\ row' = IF AnswerMatches(row, wk[w].from)
            THEN [row EXCEPT !.st = IF wk[w].job = "ok" THEN "completed" ELSE "failed",
                             !.err = IF wk[w].job = "ok" THEN "none" ELSE "other"]
            ELSE row
  /\ Stop(w)
  /\ UNCHANGED <<actions, nodes, frames, task>>

\* The handler agent answers over HTTP: the action must still be its own.
HttpComplete(w, a) ==
  /\ At(w, "off") /\ \E f \in run : f[1] = AgentNode[a]
  /\ row.st \in Open
  /\ row.act[1] = Hosted /\ a = handler
  /\ wk' = [wk EXCEPT ![w] = [Idle EXCEPT !.pc = "httpfinish"]]
  /\ UNCHANGED <<actions, row, nodes, frames, task>>

HttpFinish(w) ==
  /\ At(w, "httpfinish")
  /\ row' = IF row.st \in Open THEN [row EXCEPT !.st = "completed"] ELSE row
  /\ Stop(w)
  /\ UNCHANGED <<actions, nodes, frames, task>>

-----------------------------------------------------------------------------
(* Tasks: acceptTaskInvocation, completeTaskInvocation, expireTaskInvocation(s) *)

Expired(r) == IF over /\ r.st \in Open \cup {"running"}
              THEN [r EXCEPT !.st = "failed", !.err = "deadline"] ELSE r

\* owner and fence: the frame names the attempt (execution_id), the worker its
\* generation.
Fenced(r, n, a, g) == r.node = n /\ r.att = a /\ r.gen \in {None, g}

\* A worker with a frame accepts it, or reports its final result; either may be
\* sent again.  The read expires a task that is over.
TaskFrame(w, f, g, what) ==
  /\ At(w, "off") /\ mode.task /\ f \in run
  /\ Fenced(row, f[1], f[2], g)
  /\ row' = Expired(row)
  /\ \/ what = "taskaccept" /\ row'.st \in Open
     \/ what = "taskresult" /\ row'.gen # None /\ row'.st \notin Ended
  /\ wk' = [wk EXCEPT ![w] = [Idle EXCEPT !.pc = what, !.n = f[1], !.att = f[2], !.gen = g]]
  /\ UNCHANGED <<actions, nodes, frames, task>>

\* Mutant: the generation that accepted is not compared, nor the status.
BugTaskAcceptMatches(w) == row.node = wk[w].n /\ row.att = wk[w].att /\ ~over

TaskAcceptMatches(w) ==
  row.st = "dispatched" /\ row.node = wk[w].n /\ row.att = wk[w].att /\ row.gen = None /\ ~over

TaskAccept(w) ==
  /\ At(w, "taskaccept")
  /\ IF TaskAcceptMatches(w)
     THEN row' = [row EXCEPT !.st = "running", !.gen = wk[w].gen] /\ begun' = begun + 1
     ELSE UNCHANGED <<row, begun>>
  /\ Stop(w)
  /\ UNCHANGED <<actions, nodes, frames, over>>

TaskResultMatches(w) ==
  row.st = "running" /\ row.node = wk[w].n /\ row.att = wk[w].att /\ row.gen = wk[w].gen /\ ~over

TaskResult(w, st) ==
  /\ At(w, "taskresult")
  /\ row' = IF TaskResultMatches(w) THEN [row EXCEPT !.st = st] ELSE row
  /\ Stop(w)
  /\ UNCHANGED <<actions, nodes, frames, task>>

\* The deadline passes; any read of the row or the sweep then fails it.
TaskDeadline ==
  /\ mode.task /\ ~over /\ row.st # "none"
  /\ over' = TRUE
  /\ UNCHANGED <<actions, row, nodes, frames, wk, begun>>

TaskExpire ==
  /\ Expired(row) # row
  /\ row' = Expired(row)
  /\ UNCHANGED <<actions, nodes, frames, wk, task>>

-----------------------------------------------------------------------------
(* failUnreachableAgentInvocations, failNeverDispatchedExpiredInvocations *)

\* The first sweep that finds the handler unreachable stamps the row, one that
\* finds it reachable clears the stamp, one that finds the stamp old goes on to
\* fail the row.
UnreachableSweep(w) ==
  LET up == Reachable(AgentNode[handler]) IN
  /\ At(w, "off") /\ row.st \in Open /\ row.act[1] = Hosted
  /\ up => row.unre
  /\ IF row.unre /\ ~up
     THEN UNCHANGED row /\ wk' = [wk EXCEPT ![w] = [Idle EXCEPT !.pc = "failunreachable"]]
     ELSE row' = [row EXCEPT !.unre = ~up] /\ UNCHANGED wk
  /\ UNCHANGED <<actions, nodes, frames, task>>

FailUnreachable(w) ==
  /\ At(w, "failunreachable")
  /\ row' = Failed(row, "unavailable")
  /\ Stop(w)
  /\ UNCHANGED <<actions, nodes, frames, task>>

Expire ==
  /\ row.st = "pending" /\ row.att = 0
  /\ row' = Failed(row, "other")
  /\ UNCHANGED <<actions, nodes, frames, wk, task>>

-----------------------------------------------------------------------------
(* registerAction, deleteAction, materializeProviderActions *)

Unlinked(r, id) == IF r.act = id THEN [r EXCEPT !.act = NoId] ELSE r

\* A node offers the name, or an agent hosts it.
Register(h) ==
  /\ live[h] = 0 /\ last[h] < MaxGen
  /\ h = Hosted => ~mode.task
  /\ last' = [last EXCEPT ![h] = @ + 1]
  /\ live' = [live EXCEPT ![h] = last'[h]]
  /\ handler' \in IF h = Hosted THEN Agents ELSE {handler}
  /\ UNCHANGED <<mode, row, nodes, frames, wk, task>>

\* The provider stops offering the name: only the foreign key acts on the row.
Prune(n) ==
  /\ live[n] # 0
  /\ row' = Unlinked(row, <<n, live[n]>>)
  /\ live' = [live EXCEPT ![n] = 0]
  /\ UNCHANGED <<mode, last, handler, nodes, frames, wk, task>>

DeleteAction ==
  LET id == <<Hosted, live[Hosted]>> IN
  /\ live[Hosted] # 0
  /\ row' = Unlinked(IF Unaccepted(row, id) THEN Failed(row, "deleted") ELSE row, id)
  /\ live' = [live EXCEPT ![Hosted] = 0]
  /\ UNCHANGED <<mode, last, handler, nodes, frames, wk, task>>

\* Another agent takes the name over: accepted work is detached from the row,
\* the rest fails.
Takeover(a) ==
  LET id == <<Hosted, live[Hosted]>> IN
  /\ live[Hosted] # 0 /\ a # handler
  /\ row' = IF Unaccepted(row, id) THEN Failed(row, "unavailable")
            ELSE IF row.st \in Open THEN Unlinked(row, id) ELSE row
  /\ handler' = a
  /\ UNCHANGED <<mode, live, last, nodes, frames, wk, task>>

-----------------------------------------------------------------------------
(* The nodes *)

NodeUp(n) ==
  /\ ~Reachable(n)
  /\ conn' = [conn EXCEPT ![n] = TRUE] /\ ready' = [ready EXCEPT ![n] = TRUE]
  /\ UNCHANGED <<actions, row, frames, wk, task>>

\* The socket drops, with or without what the node was running.
ConnLost(n) ==
  /\ conn[n]
  /\ conn' = [conn EXCEPT ![n] = FALSE]
  /\ run' \in {run, {f \in run : f[1] # n}}
  /\ UNCHANGED <<actions, row, ready, sent, wk, task>>

NodeOffline(n) ==
  /\ ready[n] /\ ~conn[n]
  /\ ready' = [ready EXCEPT ![n] = FALSE]
  /\ UNCHANGED <<actions, row, conn, frames, wk, task>>

-----------------------------------------------------------------------------
WorkerStep(w) ==
  \/ Invoke(w)
  \/ Insert(w)
  \/ Revalidate(w)
  \/ Unsent(w)
  \/ AgentSend(w)
  \/ Gate(w)
  \/ Queue(w)
  \/ Claim(w)
  \/ Accept(w)
  \/ SendFail(w)
  \/ \E n \in Nodes : StartDrain(w, n)
  \/ FailDeleted(w)
  \/ StartTimeout(w)
  \/ StartDue(w)
  \/ \E n \in Nodes : StartLost(w, n)
  \/ Target(w)
  \/ Replace(w)
  \/ Park(w)
  \/ \E f \in run, k \in {"ok", "error", "unavailable"} : Answer(w, f, k)
  \/ Finish(w)
  \/ \E a \in Agents : HttpComplete(w, a)
  \/ HttpFinish(w)
  \/ \E f \in run, g \in Gens, k \in {"taskaccept", "taskresult"} : TaskFrame(w, f, g, k)
  \/ TaskAccept(w)
  \/ \E st \in Ended : TaskResult(w, st)
  \/ UnreachableSweep(w)
  \/ FailUnreachable(w)

Next ==
  \/ \E w \in Workers : WorkerStep(w)
  \/ TaskDeadline
  \/ TaskExpire
  \/ Expire
  \/ \E h \in Hosts : Register(h)
  \/ \E n \in Nodes : Prune(n)
  \/ DeleteAction
  \/ \E a \in Agents : Takeover(a)
  \/ \E n \in Nodes : NodeUp(n) \/ ConnLost(n) \/ NodeOffline(n)

Spec == Init /\ [][Next]_vars

-----------------------------------------------------------------------------
(* Properties *)

\* The row, the registrations and the histories have their types; only a failed
\* row carries an error, and no attempt is accepted before it is claimed.
TypeOK ==
  /\ mode \in Modes
  /\ live \in [Hosts -> 0..MaxGen] /\ last \in [Hosts -> 0..MaxGen]
  /\ handler \in Agents
  /\ row \in Row
  /\ row.err # "none" => row.st = "failed"
  /\ row.acc <= row.att
  /\ ready \in [Nodes -> BOOLEAN] /\ conn \in [Nodes -> BOOLEAN]
  /\ run \subseteq Nodes \X (1..MaxAttempts)
  /\ sent \in [1..MaxAttempts -> Nat]
  /\ over \in BOOLEAN /\ begun \in Nat

\* Drains, retries, sweeps and the request itself race to send an invocation:
\* no attempt of it is handed to a node twice (the acceptance writes of
\* sendAuthorizedActionToProvider).
FramedOnce == \A a \in 1..MaxAttempts : sent[a] <= 1

\* An invocation that ended stays as it ended, whatever its late senders,
\* sweeps, answers and task workers still do.
EndedStays == [][row.st \in Ended => row'.st = row.st /\ row'.err = row.err]_vars

\* One worker generation is told to run a task, though two ask and one retries
\* (acceptTaskInvocation).
TaskRunsOnce == begun <= 1

\* Once a worker runs the task no other frame of it leaves: timeouts, drains
\* and late sends all lose (claimRegisteredActionHandoff).
TaskNotResent == [][begun > 0 => run' \subseteq run]_vars

\* Of an action that an agent hosts: once a request with the key is given an
\* answer, every later one is given the same, or is told of the deletion, even
\* if a takeover or the loss of the handler fails the row (replayInvocationClaim).
ReplayStays ==
  [][(row.agent # None /\ Outcome(row) # "wait")
       => Outcome(row') = Outcome(row) \/ row'.err = "deleted"]_vars
=============================================================================
