-------------------------------- MODULE Fleet --------------------------------
(***************************************************************************)
(* Liveness of one node (engine/node.ts registerNode, heartbeatNode,       *)
(* handleProviderDisconnect, deregisterProvider, sweepOfflineNodes,        *)
(* claimNodeOffline, settleNodeOffline, deleteNode; engine/nodeProvider.ts;*)
(* the triggers of migration 0071).                                        *)
(*                                                                         *)
(* The node row is an aggregate of its provider rows; agents live on the   *)
(* node through a provider and invocations are dispatched to it.  All three*)
(* carry the liveness revision at which they were last written, so that an *)
(* offline transition can be claimed in one statement and its many writes  *)
(* run later, next to a reconnect, on the rows older than the claim.  The  *)
(* process that owns the node's sockets serializes control frames          *)
(* (serializeNodeOp); deletes come from other processes.  A handle without *)
(* interactive transactions commits each statement alone.                  *)
(***************************************************************************)
EXTENDS Integers, FiniteSetsExt

CONSTANTS
  Providers,
  Agents,
  AgentProvider, \* agents.provider_name
  Invocations,
  Workers,       \* executions that may be under way together
  None,
  MaxRev,        \* bound: nodes.liveness_revision
  MaxNews        \* bound: status events

ASSUME FleetAssumption == /\ AgentProvider \in [Agents -> Providers]
                          /\ MaxRev \in Nat /\ MaxNews \in Nat
                          /\ IsFiniteSet(Providers \cup Agents \cup Invocations)

VARIABLES
  node,  \* the row: status, fresh heartbeat, revision, events published before its heartbeat
  child, \* [provider, agent or invocation -> status and revision]
  conn,  \* providers with a bound connection at the owner
  wk,    \* what each worker is doing
  news,  \* the newest status event and the number of them
  old,   \* history: [revision at which the node went offline -> rows not written since]
  taken  \* history: the revisions that claims chose

vars == <<node, child, conn, wk, news, old, taken>>
history == <<old, taken>>

Children == Providers \cup Agents \cup Invocations
Revs == 0..MaxRev

\* st of a child: a provider is on, off or gone; an agent on, quiet (offline
\* with status_before_liveness_loss) or off; an invocation on while it is open
\* with this node as dispatched_node_id.
Idle == [pc |-> "off", job |-> "none", p |-> None, locked |-> FALSE, rev |-> 0, claim |-> 0,
         before |-> "offline", seen |-> {}]

Init ==
  /\ node = [st |-> "offline", fresh |-> FALSE, rev |-> 0, mark |-> 0]
  /\ child = [x \in Children |-> [st |-> IF x \in Providers THEN "gone" ELSE "off", rev |-> 0]]
  /\ conn = {}
  /\ wk = [w \in Workers |-> Idle]
  /\ news = [last |-> <<"none", 0>>, n |-> 0]
  /\ old = [r \in Revs |-> {}] /\ taken = {}

-----------------------------------------------------------------------------
(* Writes, with what the triggers add *)

At(w, pc) == wk[w].pc = pc
Go(w, pc) == wk' = [wk EXCEPT ![w].pc = pc]
Done(w) == wk' = [wk EXCEPT ![w] = Idle]
Exists == node.st # "deleted"
Locked == \E w \in Workers : wk[w].locked

\* Mutant: the row counts its own writes.
BugStampsOwn(x, st) == [st |-> st, rev |-> child[x].rev + 1]

\* node_providers_, agents_ and action_invocations_stamp_..._liveness_revision.
Stamped(x, st) == [st |-> st, rev |-> node.rev + 1]

\* Rows are written with st by someone who is not a claim's tail.
Write(xs, st) ==
  /\ child' = [x \in Children |-> IF x \in xs THEN Stamped(x, st) ELSE child[x]]
  /\ old' = [r \in Revs |-> old[r] \ xs] /\ UNCHANGED taken

\* nodes_advance_liveness_revision.
NodeWrite(st) ==
  /\ node.rev < MaxRev
  /\ node' = [st |-> st, fresh |-> TRUE, rev |-> node.rev + 1, mark |-> news.n]
  /\ old' = [old EXCEPT ![node.rev + 1] = IF st = "offline" THEN Children ELSE {}]
  /\ UNCHANGED taken

Publish(type, claim) ==
  /\ news.n < MaxNews
  /\ news' = [last |-> <<type, claim>>, n |-> news.n + 1]

OnNode(xs) == {x \in xs : child[x].st = "on"}

\* recomputeNodeAggregate and refreshNodeAggregate.
Aggregate(on) == IF on = {} THEN "offline" ELSE "online"

-----------------------------------------------------------------------------
(* Control frames, one at a time *)

Start(w, job, p, pc) ==
  /\ At(w, "off") /\ ~Locked /\ Exists
  /\ wk' = [wk EXCEPT ![w] = [Idle EXCEPT !.pc = pc, !.job = job, !.p = p, !.locked = TRUE,
                                          !.before = node.st]]

\* node.register: the provider attaches, its row is upserted; the aggregate is
\* read and then written.
Register(w, p) ==
  /\ Start(w, "register", p, "list")
  /\ conn' = conn \cup {p}
  /\ Write({p}, "on")
  /\ UNCHANGED <<node, news>>

\* node.heartbeat: the aggregate is derived in the UPDATE.
Heartbeat(w, p) ==
  /\ p \in conn /\ child[p].st # "gone"
  /\ Start(w, "heartbeat", p, "refresh")
  /\ Write({p}, "on")
  /\ UNCHANGED <<node, conn, news>>

Refresh(w) ==
  /\ At(w, "refresh")
  /\ IF Exists
     THEN NodeWrite(Aggregate(OnNode(Providers))) /\ Go(w, "online")
     ELSE UNCHANGED <<node, history>> /\ Done(w)
  /\ UNCHANGED <<child, conn, news>>

\* handleProviderDisconnect: a newer connection makes it stale; the last one
\* takes the node with it.
Disconnect(w, p) ==
  /\ p \in conn
  /\ conn' = conn \ {p}
  /\ IF conn' = {}
     THEN Start(w, "disconnect", p, "before") /\ UNCHANGED <<child, history>>
     ELSE Start(w, "disconnect", p, "agents") /\ Write({p} \cap {x \in Providers : child[x].st # "gone"}, "off")
  /\ UNCHANGED <<node, news>>

\* deregisterProvider: removeProvider deletes the row.
Deregister(w, p) ==
  /\ p \in conn /\ child[p].st # "gone"
  /\ conn' = conn \ {p}
  /\ Start(w, "deregister", p, "agents")
  /\ Write({p}, "gone")
  /\ UNCHANGED <<node, news>>

\* The agents of one provider lose their route (lost and then quiet ones).
AgentsOff(w) ==
  LET own == {a \in Agents : AgentProvider[a] = wk[w].p} IN
  /\ At(w, "agents")
  /\ child' = [x \in Children |-> IF x \in own /\ child[x].st \in {"on", "quiet"}
                                  THEN Stamped(x, "quiet") ELSE child[x]]
  /\ old' = [r \in Revs |-> old[r] \ {x \in own : child[x].st \in {"on", "quiet"}}] /\ UNCHANGED taken
  /\ Go(w, IF wk[w].job = "deregister" /\ \A p \in Providers : child[p].st = "gone"
           THEN "before" ELSE "list")
  /\ UNCHANGED <<node, conn, news>>

\* recomputeNodeAggregate reads the providers.
List(w) ==
  /\ At(w, "list")
  /\ wk' = [wk EXCEPT ![w].pc = "write", ![w].seen = OnNode(Providers), ![w].before =
              IF wk[w].job = "deregister" THEN node.st ELSE @]
  /\ UNCHANGED <<node, child, conn, news, history>>

\* It writes the node from what it read.
WriteAggregate(w) ==
  LET st == Aggregate(wk[w].seen) IN
  /\ At(w, "write")
  /\ IF Exists THEN NodeWrite(st) ELSE UNCHANGED <<node, history>>
  /\ IF Exists /\ wk[w].job = "register" THEN Go(w, "online")
     ELSE IF Exists /\ wk[w].job = "deregister" /\ wk[w].before = "online" /\ st = "offline"
     THEN Go(w, "emit")
     ELSE Done(w)
  /\ UNCHANGED <<child, conn, news>>

\* emitNodeOnlineTransition, from the status read before the write.
EmitOnline(w) ==
  /\ At(w, "online")
  /\ IF wk[w].before # "online" THEN Publish("online", 0) ELSE UNCHANGED news
  /\ Done(w)
  /\ UNCHANGED <<node, child, conn, history>>

\* sweepOfflineNodes, the node being stale when it is read under the lock.
Sweep(w) ==
  /\ node.st = "online" /\ ~node.fresh
  /\ Start(w, "sweep", None, "before")
  /\ UNCHANGED <<node, child, conn, news, history>>

\* markNodeOffline: the status is read, the row flipped whatever it is by then.
ReadBefore(w) ==
  /\ At(w, "before")
  /\ wk' = [wk EXCEPT ![w].pc = "mark", ![w].before = node.st]
  /\ UNCHANGED <<node, child, conn, news, history>>

Mark(w) ==
  /\ At(w, "mark")
  /\ IF Exists THEN NodeWrite("offline") /\ Go(w, "providers")
     ELSE UNCHANGED <<node, history>> /\ Done(w)
  /\ UNCHANGED <<child, conn, news>>

-----------------------------------------------------------------------------
(* claimNodeOffline and settleNodeOffline *)

\* The owner reads a row it holds no connection for.
OwnerStart(w) ==
  /\ node.st = "online" /\ conn = {}
  /\ At(w, "off") /\ ~Locked
  /\ wk' = [wk EXCEPT ![w] = [Idle EXCEPT !.pc = "claim", !.job = "owner", !.locked = TRUE, !.rev = node.rev]]
  /\ UNCHANGED <<node, child, conn, news, history>>

\* Mutant: the boundary is taken above the node's revision only.
BugClaimsAboveNode == node.rev + 1

\* Above the node and every child row the tail may have to take down.
NextRevision ==
  1 + Max({node.rev} \cup {child[p].rev : p \in {q \in Providers : child[q].st # "gone"}}
                     \cup {child[x].rev : x \in OnNode(Agents \cup Invocations)})

Claim(w) ==
  LET won == node.st = "online" /\ node.rev = wk[w].rev IN
  /\ At(w, "claim")
  /\ won => NextRevision <= MaxRev
  /\ IF won
     THEN /\ node' = [st |-> "offline", fresh |-> TRUE, rev |-> NextRevision, mark |-> news.n]
          /\ old' = [old EXCEPT ![NextRevision] = Children] /\ taken' = taken \cup {NextRevision}
          /\ wk' = [wk EXCEPT ![w].pc = "providers", ![w].claim = NextRevision, ![w].locked = FALSE,
                              ![w].before = "online", ![w].rev = NextRevision]
     ELSE /\ IF wk[w].job = "forced" /\ Exists
             THEN wk' = [wk EXCEPT ![w].pc = "reread"] ELSE Done(w)
          /\ UNCHANGED <<node, history>>
  /\ UNCHANGED <<child, conn, news>>

\* Mutant: the legacy sweep, for a claim too.
BugCoversAll(x, claim) == TRUE

Covered(x, claim) == claim = 0 \/ child[x].rev < claim

\* One UPDATE of the tail: the covered rows among xs that have one of the
\* statuses from get st.
Settle(w, xs, from, st) ==
  LET hit == {x \in xs : child[x].st \in from /\ Covered(x, wk[w].claim)} IN
  child' = [x \in Children |-> IF x \in hit THEN Stamped(x, st) ELSE child[x]]

SettleProviders(w) ==
  /\ At(w, "providers")
  /\ Settle(w, Providers, {"on", "off"}, "off")
  /\ Go(w, "agentslost")
  /\ UNCHANGED <<node, conn, news, history>>

SettleAgents(w) ==
  /\ At(w, "agentslost")
  /\ Settle(w, Agents, {"on"}, "quiet")
  /\ Go(w, "agentsquiet")
  /\ UNCHANGED <<node, conn, news, history>>

SettleQuiet(w) ==
  /\ At(w, "agentsquiet")
  /\ Settle(w, Agents, {"quiet"}, "quiet")
  /\ Go(w, "invocations")
  /\ UNCHANGED <<node, conn, news, history>>

\* rescheduleInvocationsForLostNode and detachInvocationsFromLostNode read the
\* covered attempts, then move each one by its revision.
ListInvocations(w) ==
  /\ At(w, "invocations")
  /\ wk' = [wk EXCEPT ![w].pc = "move", ![w].seen =
              {<<x, child[x].rev>> : x \in {y \in OnNode(Invocations) : Covered(y, wk[w].claim)}}]
  /\ UNCHANGED <<node, child, conn, news, history>>

MoveInvocation(w) ==
  /\ At(w, "move")
  /\ \/ \E s \in wk[w].seen :
          /\ child' = IF child[s[1]].st = "on" /\ (wk[w].claim # 0 => child[s[1]].rev = s[2])
                      THEN [child EXCEPT ![s[1]] = [st |-> "off", rev |-> @.rev]] ELSE child
          /\ wk' = [wk EXCEPT ![w].seen = @ \ {s}]
     \/ wk[w].seen = {} /\ Go(w, "emit") /\ UNCHANGED child
  /\ UNCHANGED <<node, conn, news, history>>

\* Mutant: whether the transition was published already is not asked.
BugPublishesAgain(claim, same) == node.st = "offline" /\ node.rev = claim

\* emitNodeStatusEffects: a claimed transition is published if the row is still
\* at the claim and the newest status event since its heartbeat (or in the same
\* second) is not offline already.
EmitMatches(claim, same) ==
  /\ node.st = "offline" /\ node.rev = claim
  /\ ~(news.last[1] = "offline" /\ (news.n > node.mark \/ same))

EmitOffline(w) ==
  /\ At(w, "emit")
  /\ \E same \in BOOLEAN :
       IF wk[w].before = "online" /\ (wk[w].claim # 0 => EmitMatches(wk[w].claim, same))
       THEN Publish("offline", wk[w].claim) ELSE UNCHANGED news
  /\ IF wk[w].job \in {"forced", "unforced"} THEN Go(w, "delete") ELSE Done(w)
  /\ UNCHANGED <<node, child, conn, history>>

\* The process dies between two statements of a claim's tail.
Crash(w) ==
  /\ wk[w].claim # 0
  /\ Done(w)
  /\ UNCHANGED <<node, child, conn, news, history>>

-----------------------------------------------------------------------------
(* deleteNode, in another process *)

\* Unforced, a live or connected node refuses.  An offline row may be a claim
\* whose tail has not run; a recent one is finished first.
FromRow(w, job) ==
  wk' = [wk EXCEPT ![w] =
    [Idle EXCEPT !.job = job, !.rev = node.rev,
                 !.pc = IF node.st = "online" THEN "claim" ELSE IF node.fresh THEN "providers" ELSE "delete",
                 !.claim = IF node.st = "offline" /\ node.fresh THEN node.rev ELSE 0,
                 !.before = "online"]]

DeleteNode(w, job) ==
  /\ At(w, "off") /\ Exists
  /\ job = "unforced" => ~(node.st = "online" /\ node.fresh) /\ conn = {}
  /\ FromRow(w, job)
  /\ UNCHANGED <<node, child, conn, news, history>>

Reread(w) ==
  /\ At(w, "reread")
  /\ IF Exists THEN FromRow(w, wk[w].job) ELSE Done(w)
  /\ UNCHANGED <<node, child, conn, news, history>>

\* One atomic unit: open work fails, agents lose their route, the row and its
\* providers go.
Delete(w) ==
  LET ok == Exists /\ (wk[w].job = "unforced" => node.st # "online" /\ node.rev = wk[w].rev) IN
  /\ At(w, "delete")
  /\ IF ok
     THEN /\ node' = [node EXCEPT !.st = "deleted", !.fresh = FALSE]
          /\ child' = [x \in Children |->
               [st |-> IF x \in Providers THEN "gone"
                       ELSE IF x \in Agents /\ child[x].st = "on" THEN "quiet"
                       ELSE IF x \in Invocations THEN "off" ELSE child[x].st,
                rev |-> child[x].rev]]
          /\ old' = [r \in Revs |-> {}] /\ UNCHANGED taken
     ELSE UNCHANGED <<node, child, history>>
  /\ Done(w)
  /\ UNCHANGED <<conn, news>>

-----------------------------------------------------------------------------
(* Agents, invocations and time *)

\* agent.register, touchLastSeen: the agent is seen on the node.
AgentSeen(a) ==
  /\ Exists /\ child[a].st # "on"
  /\ Write({a}, "on")
  /\ UNCHANGED <<node, conn, wk, news>>

\* sweepStaleAgents: a quiet agent, its route being healthy or not.
AgentSweep(a) ==
  /\ Exists /\ child[a].st = "on"
  /\ Write({a}, "quiet")
  /\ UNCHANGED <<node, conn, wk, news>>

\* A claim of action.ts stamps the row, an answer ends it.
Dispatch(i) ==
  /\ node.st = "online" /\ child[i].st = "off"
  /\ Write({i}, "on")
  /\ UNCHANGED <<node, conn, wk, news>>

Complete(i) ==
  /\ child[i].st = "on"
  /\ Write({i}, "off")
  /\ UNCHANGED <<node, conn, wk, news>>

Stale ==
  /\ node.fresh
  /\ node' = [node EXCEPT !.fresh = FALSE]
  /\ UNCHANGED <<child, conn, wk, news, history>>

\* The socket is gone before the owner handles its close.
LoseConnection(p) ==
  /\ p \in conn
  /\ conn' = conn \ {p}
  /\ UNCHANGED <<node, child, wk, news, history>>

-----------------------------------------------------------------------------
Step(w) ==
  \/ \E p \in Providers : Register(w, p) \/ Heartbeat(w, p) \/ Disconnect(w, p) \/ Deregister(w, p)
  \/ Refresh(w)
  \/ AgentsOff(w)
  \/ List(w)
  \/ WriteAggregate(w)
  \/ EmitOnline(w)
  \/ Sweep(w)
  \/ ReadBefore(w)
  \/ Mark(w)
  \/ OwnerStart(w)
  \/ Claim(w)
  \/ SettleProviders(w)
  \/ SettleAgents(w)
  \/ SettleQuiet(w)
  \/ ListInvocations(w)
  \/ MoveInvocation(w)
  \/ EmitOffline(w)
  \/ Crash(w)
  \/ \E job \in {"forced", "unforced"} : DeleteNode(w, job)
  \/ Reread(w)
  \/ Delete(w)

Next ==
  \/ \E w \in Workers : Step(w)
  \/ \E a \in Agents : AgentSeen(a) \/ AgentSweep(a)
  \/ \E i \in Invocations : Dispatch(i) \/ Complete(i)
  \/ Stale
  \/ \E p \in Providers : LoseConnection(p)

Spec == Init /\ [][Next]_vars

-----------------------------------------------------------------------------
(* Properties *)

\* The rows, the workers and the histories have their types; no row is stamped
\* beyond the revision after its node's.
TypeOK ==
  /\ node \in [st : {"online", "offline", "deleted"}, fresh : BOOLEAN, rev : Revs, mark : 0..MaxNews]
  /\ \A x \in Children : /\ child[x].rev \in 0..(node.rev + 1)
                         /\ child[x].st \in {"on", "off"} \cup (IF x \in Providers THEN {"gone"} ELSE {})
                                              \cup (IF x \in Agents THEN {"quiet"} ELSE {})
  /\ conn \subseteq Providers
  /\ news.n \in 0..MaxNews
  /\ old \in [Revs -> SUBSET Children] /\ taken \subseteq Revs

Tail == {"providers", "agentslost", "agentsquiet", "move"}

\* The tail of a claim, run late and next to a reconnect, never takes down a
\* provider, an agent or an attempt that was written after the claim
\* (settleNodeOffline: "never clobbered").
PostClaimKept ==
  [][\A w \in Workers :
       (wk[w].pc \in Tail /\ wk[w].claim # 0 /\ wk'[w] # wk[w])
         => \A x \in Children : child'[x] # child[x] => x \in old[wk[w].claim] \/ node'.st = "deleted"]_vars

\* A tail that ran through leaves no row of before its claim up: nothing is
\* stranded on a node that is offline.
PreClaimSettled ==
  \A w \in Workers : (At(w, "emit") /\ wk[w].claim \in taken)
                       => \A x \in old[wk[w].claim] : child[x].st # "on"

\* One claim publishes one offline event, though its claimer and a delete that
\* finishes it both try (emitNodeStatusEffects).
ClaimPublishedOnce ==
  [][(news'.n # news.n /\ news'.last[1] = "offline" /\ news'.last[2] # 0) => news'.last # news.last]_vars
=============================================================================
