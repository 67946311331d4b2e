# Relaycast in TLA+

Relaycast is a messaging service for agents. An agent posts to a channel, a
group or another agent; the engine (`packages/engine`) stores the message,
writes one delivery per recipient, and gets the delivery to the recipient over
one of three transports: a websocket of the node that hosts it, an HTTP push to
that node, or a long poll by the recipient itself. Subscribers outside the
workspace are told of events by webhooks with an outbox of their own. Agents
also invoke actions and spawn other agents: such an invocation is a row that is
placed on a node, sent to one of its providers, retried, and answered.

This directory models that core: what the engine stores, what it sends, and
what must still be true when requests, timers, reconnects and restarts
interleave. Paths below are relative to `src/packages/engine/src` unless they
start with `packages/`.

## 1. The system

| component | state it keeps | operations | talks to |
|---|---|---|---|
| delivery queue | `deliveries` rows (status, seq, due and expiry times), `agents.delivery_seq` and `delivery_ack_seq`, read receipts and read cursors | insert with admission, ack, cumulative ack, fail, defer, mark delivered, mark read, expiry, dead-lettering, release, retention | written by every message route, by the node protocol and by the sweeps |
| dispatch to ws nodes | in-memory provider registry, connection readiness, the pages of a replay | background dispatch per request, periodic redrive, replay at registration | node sockets, delivery queue |
| http_push dispatch | `next_attempt_at`, which is also the claim token | claim, POST, retry, ack in the response | the node's URL, delivery queue |
| delivery long poll | in-process waiters, time of the last notify per agent | wait, notify, timeout, abort, close | delivery queue |
| webhook outbox | `pending_events`, `webhook_deliveries`, subscriptions | enqueue, claim, attempt, settle, reschedule, replay, cleanup | subscriber URLs |
| node liveness and placement | `nodes`, `node_providers`, liveness revisions, reserved capacity | register, heartbeat, disconnect, stale sweep, offline claim and its tail, delete, placement | decides which rows are unreachable and where invocations go |
| provider registry | provider rows, their actions, which connection serves which provider | attach, detach, materialize and prune actions | dispatch, invocations |
| action invocations | `action_invocations`: status, node, attempt, deadline, reservation, accepted attempt, task state | invoke by key, spawn, claim, send, restore, drain, time out, move off a lost node, answer, expire, delete, take over | nodes, task workers, HTTP completion |
| idempotency middleware | a lock and a record per key in a key-value store | read, lock, recheck, store, replay | every keyed route |
| messages, channels, threads, reactions | their tables | CRUD | delivery queue, events |
| direct and group messages | conversations, the claim row of a keyed message | find or reserve, post, replay | delivery queue, A2A egress |
| agents and credentials | agents, tokens | register, rotate, release, retain | delivery queue (release) |
| workspaces and admission | workspaces, policies | create, expire, drain | cap of the delivery queue |
| workspace events and observers | event log, observer tokens | append, fan out | sockets |
| realtime gateway and presence | agent and observer sockets | attach, broadcast, presence | clients |
| inbound webhooks and triggers | targets, triggers | verify, post | delivery queue |
| A2A federation | peers, cards, leased egress intents | register, lease, send, settle, sweep, clean up, certify | external services |
| retention and maintenance | cursors of bounded deletes | prune | all tables |
| search, inbox, files, console, routing | queries | read | tables |
| durable-actor adapters | a second host of the same engine code | sockets, event queue, alarms | engine |
| SDKs, CLI, MCP server, dashboards | client side | connect, ack, reconnect | engine |

What is hard in it, and what makes each part correct:

* **The queue is written by everyone and locked by no one.** Each write is one
  atomic statement or batch, but an operation is often several: the cumulative
  ack reads, then writes in chunks, then moves a cursor; a sweep reads a batch
  and writes it later. Correct means: no number is given twice, the cursor hides
  nothing that is still owed, a settled row stays settled, an acked row is read,
  a dropped row is reported once and only dropped for cause, and the caps hold.
* **Three senders share one socket without a lock.** Correct means: the sender
  of a message hears once that it was delivered, nothing is acknowledged that
  the agent has not been given, and nothing is forgotten when a frame, a
  connection or the process is lost.
* **Leases instead of locks.** The push dispatcher and the webhook outbox claim
  a row by moving its due time. Correct means: no second attempt starts while
  one is running (push), and a claimant that was overtaken changes nothing
  (outbox).
* **A wait beside a queue.** The poll's read and its registration are separated
  by an await. Correct means: no wake-up is lost, and every poll is answered.
* **Five kinds of execution work on an invocation.** The request, the drain of a
  node that is back, the timeout sweep, the loss of a node and the answer read
  the row, await, and write it under a compare-and-swap on its status, attempt
  and deadline. Correct means: one owner per attempt, one frame per attempt, one
  run per task, no way back from an end, one release per slot.
* **An offline transition is claimed at once and carried out later.** Its writes
  run next to a reconnect. Correct means: they cover what is older than the
  claim and nothing that is newer, and the transition is announced once.
* **Retries that carry a key.** The lock in the key-value store is best effort,
  leases lapse under slow senders, and a recipient may move to another server
  between two tries. Correct means: one message per window, an answer that is
  about the caller's own request, and a transport that is settled once.

## 2. Modules

| module | models | state against code |
|---|---|---|
| `Mailbox` | the promise of the queue, no code | `box` (where a delivery is), `seq`, `cursor` |
| `Delivery` | `engine/delivery.ts`, `engine/deliveryWrites.ts`, `engine/receipt.ts`, `engine/workspaceDeliveryPolicy.ts`, the release in `engine/agent.ts`, `engine/rowidRetention.ts` | one variable per column; `acks` and `sweeps` hold what an operation carries over an await |
| `Dispatch` | `routes/deliveryRouting.ts`, the replay in `engine/delivery.ts`, the node messages of `engine/node.ts`, `adapters/node/realtime.ts`, the auto-acking client `packages/sdk-typescript/src/ws.ts` | `inline`, `redrive`, `replay`: the three senders; `bound`, `ready`: the registry; `link`, `wire`, `acks`: the socket; `received`, `injected`: the client |
| `HttpPush` | `dispatchHttpPush` and what it races with | `next` is `next_attempt_at`; `job` is the attempt of each dispatcher |
| `DeliveryWaiters` | `ports/deliveryWaiters.ts`, `GET /deliveries` of `routes/delivery.ts` | `lastNotified` is the holder's map for this agent; `poll` the loop of each request |
| `EventOutbox` | `engine/eventQueue.ts`, `engine/eventDelivery.ts`, `adapters/node/event-queue.ts`, `engine/eventSubscription.ts` | `parent` and `child` are the two rows; `pc`, `start`, `targets`, `work`, `token` are a pass of `deliverEvent`; `owner` is history |
| `SpawnInvocation` | native spawns of `engine/action.ts`, capacity of `engine/placement.ts`, `engine/invocationClaim.ts` | `row` is the invocation, `reserved` is `nodes.reserved_agents`, `wk` is what each execution carries over its awaits (the row as it read it, the slot it holds, the claim it wrote), `run` the frames at a node |
| `ActionInvocation` | registered actions of `engine/action.ts`, `engine/taskInvocation.ts`, the acceptance writes of `adapters/node/realtime.ts`, pruning in `engine/nodeProvider.ts` | `live`, `last`, `handler` are the action rows, `row` the invocation, `wk` as above; `sent` and `begun` are history |
| `Fleet` | `engine/node.ts` (registration to deletion of a node), `engine/nodeProvider.ts`, `engine/nodeLock.ts`, the triggers of migration 0071, `emitNodeStatusEffects` | `node` and `child` are the rows with their revisions, `conn` the bound sockets, `news` the status events; `old` and `taken` are history |
| `DirectMessage` | `middleware/idempotency.ts`, the keyed part of `engine/dm.ts` and `engine/message.ts`, `engine/a2aEgress.ts`, peers of `engine/a2a.ts` | `record` and `lock` are the key-value store, `claim` and `egress` the two rows of a key, `req` and `trip` the requests and their transports |
| `MC*` | instances for TLC | |
| `*Proofs` | theorems and proofs | |

`Delivery` and `Dispatch` use `Mailbox` through refinement mappings (`BoxOf`). `Dispatch`,
`HttpPush` and `DeliveryWaiters` each look closely at one consumer of the queue
and keep of its rows only what that consumer can tell apart: their row
transitions are those of `Delivery`, and each says so where it abbreviates one
(in `Dispatch` the cumulative ack is one step, since the node's control lock
keeps it apart from a replay). `Fleet` is where the facts come from that the
others take as given: `Delivery` (`NodeLost`, `NodeBack`), `SpawnInvocation` and
`ActionInvocation` (`NodeUp`, `NodeOffline`) use a node that comes and goes, and
`Fleet` keeps of an invocation only that it is open on the node.

**Atomicity.** One action is one statement, one batch, or one stretch of
JavaScript without an await. A read whose only effect is an early return has no
action when the write behind it repeats its condition in its WHERE clause; a
read whose result is used later does have one.

**Data.** A message is a number in creation order (ids are snowflakes), a
payload does not exist, times are small naturals. What is kept of a row is its
status, its number, whether it has expired and, where it is a lease, its due
time.

**Clients.** The sdk acknowledges the number of each frame it has handed on.
The broker is not in the repository: it is modelled from what the engine's
comments and messages require of it, which is that it accepts only the successor
of what it has, drops any other frame, and takes a cursor from the reply to
`agent.register` when it has lost its own.

## 3. Runs

`tlc -config <cfg> <module>`. Deadlock is not checked in any of them: messages,
connections, replays and the clock are bounded, and once the bounds are used up
and everything is settled the system really has nothing more to do.

| run | cfg | question | result |
|---|---|---|---|
| queue | `MCDelivery_queue.cfg` | do all interleavings of posts, single and cumulative acks (in chunks of one, and stopped half way), failures, deferrals, reads, release, retention and two overlapping sweeps keep numbers unique, the cursor honest and acked rows read, report a drop once and only for cause, and do no more than the mailbox allows? | holds |
| dispatch | `MCDispatch_dispatch.cfg` | is each row reported once; is a row a broker settles always one the agent was given, although the broker loses its cursor; is every row for an sdk client settled in the end, with lost frames and a restart? | holds |
| longpoll | `MCDeliveryWaiters.cfg` | can a poll sleep beside a row whose notify has run, and is every poll answered? | holds |
| httppush | `MCHttpPush.cfg` | can two POSTs of a row overlap, or its ack be reported twice? | holds |
| owner | `MCEventOutbox_owner.cfg` | can a worker that was overtaken record an outcome? | holds |
| settle | `MCEventOutbox_settle.cfg` | is every event settled, and no delivery left pending under a settled event? | holds |
| spawn | `MCSpawnInvocation_spawn.cfg` | can two executions own one claim of a spawn, or a late one change a spawn that was settled? | holds |
| action | `MCActionInvocation_action.cfg` | can an attempt be framed twice, an ended invocation change, a task run twice or be resent while it runs, or two replays of a key disagree? | holds |
| fleet | `MCFleet_fleet.cfg` | does the tail of an offline claim settle exactly what is older than it, and announce it once, next to reconnects, crashes and deletes? | holds |
| keyed | `MCDirectMessage_keyed.cfg` | can a key make two direct messages in a window, answer with another body, name two messages, count a transport twice, reopen it, or be answered beyond its window? | holds |
| autoack | `MCDispatch_autoack.cfg` | does a higher number never overtake an unsent lower one? | violated |
| slots | `MCSpawnInvocation_slots.cfg` | does a node count every slot its spawns carry? | violated |

Bounds, and why they are enough:

* *queue*: one recipient, since no write relates two recipients except through
  the caps; two messages, so that one row can be below the cursor and one above;
  `Batch = 1`, so that an ack of two rows has two chunks and can stop between
  them, and a sweep of two rows has two batches; two sweep invocations, of the
  same or of different kinds; a node that is lost and comes back any number of
  times. One node has one ack in flight, as its control lock demands; acks of
  two nodes for one agent are covered by the theorems, which are about any set
  of nodes.
* *dispatch*, *autoack*: two rows and two connections, the second of which stays
  up. One row sent and one not is what makes overtaking possible, `PageSize = 1`
  makes a replay of two rows two pages, and the second connection is the one on
  which a broker that lost its cursor is given one back.
* *longpoll*: two polls, so that one can be woken for what the other takes; one
  row, created, notified late, failed, deferred and settled (the theorem is about
  any number); `MaxWait = Memory`, the tightest case the assumption allows (the
  code has 25 s and 60 s); the clock runs to 3, so that a poll can begin, read
  and park after the memory of an earlier notify was dropped.
* *httppush*: three dispatchers: one that attempts, one that holds a token from
  before the attempt, and one that fetches after it; `Attempt = 2 < Delay = 3`
  keeps the order of the code's 10 s and 30 s; up to four fails and defers; time for three claims.
* *owner*: two workers and `Lease = 2` under a clock that reaches the lapse, one
  replay, one subscription change; two claims of the parent. *settle* has one
  worker, which is what the Node adapter runs (a poll is skipped while another
  one is active), two subscribers, so that one succeeds while another is
  retried, one crash or rejected statement anywhere and one subscription change;
  `MaxClaims = 10` lies just above what two subscribers with two attempts each and
  one fault can use up (`EnoughClaims`, section 4).
* *spawn*: every hazard is about two executions and one row, so one invocation,
  one node and two executions, each of which may start again as any other kind;
  two attempts and two deadlines, so that a claim can be superseded by a later
  one; two faults (a refused or thrown send and a restoring write that fails);
  one slot, so that a drain can find the node full. *slots* has two invocations
  and two slots: the second release must come from another spawn's slot.
* *action*: one invocation of one action, hosted by either of two agents of one
  node or by the node itself, queueing or not, as a task or not; two executions;
  two attempts and one generation of action rows, which is enough for a
  deletion, a prune and a takeover to fall between any two steps; two
  generations of the task's worker, one of which may repeat itself.
* *fleet*: two providers, so that the node can stay up when one goes; one agent
  and one invocation; two executions, of which one can be a claimer that stalls
  or dies while the other reconnects, sweeps or deletes; revisions up to 3, so
  that two transitions with a reconnect between them fit; two status events.
* *keyed*: two request slots that are used again by retries, one sweeper; three
  hosts: a channel route and a direct-message route with a key-value store and
  two bodies, and a direct-message route without a store whose recipient is
  registered once with an external peer and may be removed; a window of three
  units under a clock that reaches its end, so that a second message of the same
  key can be due; requests of at most one unit; two messages.

**Fairness.** Stated in `Dispatch`, `DeliveryWaiters` and `EventOutbox`; the newer
modules state safety only. Each is weak fairness of something the code does by itself: the
sweep, the poller and the waiters run from timers; a pass, a replay and a redrive
that were started continue because nothing but a fault stops them; the client
reconnects with backoff and registers when it is connected; a frame that arrived
is handled; time passes. No fairness is given to posts, losses, faults, crashes,
replays by an operator or what the recipient does over REST, nor to the engine
seeing that a socket is dead: the registration on the next one supersedes it. In `Dispatch` the last connection the bound allows is not
lost, which reads "the client is connected for long enough once": without it
nothing can be promised of a client that flaps for ever. `InlineSend` and
`InlineMark` have no fairness: what the background dispatch never finishes, the
sweep must pick up.

## 4. Theorems

The runs look at small instances; these hold for every value of the constants.

| module | theorem | statement |
|---|---|---|
| `DeliveryProofs` | `TypeCorrect` | `Spec => []TypeOK` |
| | `SequencesUnique` | `Spec => []SeqUnique` |
| | `CursorHidesNothing` | `OverAck = 0` implies `Spec => []ReplayVisible` |
| | `QueueImplementsMailbox` | `OverAck = 0` implies `Spec => ImplementsMailbox` |
| | `AckedDeliveriesAreRead` | `Spec => []AckedIsRead` |
| | `SendersNoticedOnce` | `Spec => []NoticedOnce` |
| | `ReachableMailIsKept` | `Spec => DropOnlyIfUnreachable` |
| | `WorkspaceStaysBounded` | `Spec => []WorkspaceBounded` |
| `DeliveryWaitersProofs` | `NoWakeUpIsLost` | `Spec => []NoMissedWake` |
| | `WaiterTypes` | `Spec => []TypeOK` |
| `DispatchProofs` | `DispatchTypeCorrect` | `Spec => []TypeOK` |
| | `DispatchReportedOnce` | `Spec => []ReportedOnce` |
| | `DispatchAckedWasInjected` | `Spec => []AckedWasInjected` |
| | `DispatchImplementsMailbox` | `Spec => ImplementsMailbox` |
| | `AttemptsAreExclusive` | `PushSpec => []OneAttempt` (`HttpPush`) |
| | `AcksAreReportedOnce` | `PushSpec => []AckedOnce` (`HttpPush`) |
| `EventOutboxProofs` | `OutboxTypes` | `Spec => []TypeOK` |
| | `OnlyTheOwnerSettles` | `Spec => OwnerSettles` |
| | `OnePollerStrandsNothing` | `OnePoller(w)` and `EnoughClaims` imply `Spec => []NoneStranded` |
| | `FaultlessPollerStrandsNothing` | `OnePoller(w)` and `Faultless` imply `Spec => []NoneStranded` |
| `SpawnInvocationProofs` | `SpawnTypeCorrect` | `Spec => []TypeOK` |
| | `SpawnSettledStays` | `Spec => SettledStays` |
| | `SpawnOneSender` | `SameSecond = FALSE` implies `Spec => []OneSender` |
| `FleetProofs` | `FleetTypeCorrect` | `Spec => []TypeOK` |
| | `FleetPreClaimSettled` | `Spec => []PreClaimSettled` |
| | `FleetPostClaimKept` | `Spec => PostClaimKept` |
| | `FleetClaimPublishedOnce` | `Spec => ClaimPublishedOnce` |
| `ActionInvocationProofs` | `ActionTypeCorrect` | `Spec => []TypeOK` |
| | `ActionFramedOnce` | `Spec => []FramedOnce` |
| | `ActionTaskRunsOnce` | `Spec => []TaskRunsOnce` |
| | `ActionEndedStays` | `Spec => EndedStays` |
| | `ActionTaskNotResent` | `Spec => TaskNotResent` |
| | `ActionReplayStays` | `Spec => ReplayStays` |
| `DirectMessageProofs` | `DMTypeCorrect` | `Spec => []TypeOK` |
| | `DMOnePerWindow` | `Spec => []OnePerWindow` |
| | `DMAnswerIsOwn` | `Spec => []AnswerIsOwn` |
| | `DMOneIdentity` | `Spec => []OneIdentity` |
| | `DMCountedOnce` | `Spec => []CountedOnce` |
| | `DMRecordWithinWindow` | `Spec => []RecordWithinWindow` |
| | `DMSettledStays` | `Spec => SettledStays` |

Besides what a theorem names, the proofs use only the assumption of the module they
are about (`DeliveryAssumption`, `DirectMessageAssumption` and so on, each next to
its constants).

**Delivery.** Most of its twenty actions do the same to the mailbox: some rows
move along a permitted move and nothing else happens. `StepShape` says that
every step is such a quiet step, an insert, the read of a cumulative ack or one
of its writes, and the invariants are proved from these four.

* `SeqInv`: the numbers of a recipient lie at or below its high-water mark and
  are distinct, and rows of unposted messages do not exist yet. Without the
  last part an insert could overwrite a row.
* `CursorInv`: `ReplayVisible` is not inductive, because the write of the cursor
  trusts a read made long before. The invariant therefore says of every ack in
  flight (`JobComplete`) that each row at or below its `up_to_seq` that can still
  be acked is in its `todo`. A post keeps that because it takes a number above
  the high-water mark, which the ack cannot exceed: this is where `OverAck = 0` is
  used, and it is needed (section 6). The same invariant
  gives the refinement of `Mailbox`, action by action.
* `ReadInv` adds that an ack in flight holds rows of its own agent only
  (`JobsOwn`); otherwise a chunk would move the wrong read cursor.
* `SweepInv`: a row that was noticed is settled, so no later write of a sweep
  matches it, and a TTL batch holds expired rows only.
* The workspace bound, which is proved and has no run, is a counting argument: only an insert and the deferral of
  a failed row make the set of live rows grow, each by what it was admitted for.

**Dispatch.** The three senders share no lock, so `DispatchInv` says nothing of
their order. `Numbered` and `OnlyRows` say that the posted rows are the first ones
and that every backlog, frame and ack is about a posted row: no ack settles a
row before it is posted, and no row is posted over another. `Reports` keeps a row that
was not marked unreported. `AckedWasInjected` rests on `HandedOn`: whatever the row of the agent
(`ackSeq`), an ack on its way or the broker's own memory covers was handed on.
The three have to be said together, because the cursor moves from one to the next
and, when a broker that has lost its own registers, back again. The numbers of a
page or of a backlog always go out in ascending order, so `Dispatch` keeps a backlog as
the set of its rows; the proof needs of it only that the least element of a set of
rows is one of them (`LeastOK`, by well-founded induction on the naturals). For
the refinement of `Mailbox` a step does one of three things to the queue (`QueueSteps`): nothing
it could see, a post, or an ack that moves the cursor; that the cursor
stands on a posted row (`OnRow`) makes the number of a post larger. The refinement is
proved and in no run; TLC was run on it once, on the instance of *dispatch*.

**DeliveryWaiters.** `WakeInv` adds to `NoMissedWake` how a poll's read and its
deadline lie in time (`Clocks`), and that a poll that has read an empty queue and
was overtaken by a notify will find it remembered or is out of time
(`Overtaken`). It needs `MaxWait <= Memory`: a shorter memory could be dropped
while a reader is still on its way to park.

**HttpPush.** `PushInv` says that the token of a row under attempt lies beyond
the end of the attempt (`Lease`), while every token a dispatcher may still hold
was due when it was fetched (`TokensAreDue`), so no other claim matches. It needs
`Attempt < Delay`. `AckReported` ties the reports to the status.

**EventOutbox.** `OwnerSettles` is about a worker that is late, so the invariant
says what has become of its claim. A row is either as the claim left it, and
then its holder is the owner (`Current`), or it has moved past the claim for
good (`Stale`): its due time is beyond the claim's, or a replay has reset its
attempts to zero at a time when the claim had lapsed, or it was deleted and its
foreign keys keep it from coming back (`Deleted`). `Lapsed` says that every other
claim had run out when the current one was made; with it a retry, which moves
the due time back below that of the current claim, still stays above all the
others. The proof has one step per action, with a lemma for each kind of step
that writes rows (`ClaimStep`, `SettleStep`, `InsertStep`, `CleanupStep`,
`UnsubscribeStep`, `ReplayStep`). It needs `Lease >= 1` and positive retry delays.

`NoneStranded` of the same module is about the other end of the protocol: an event
that fails because its claims are used up (`FailExhausted`) must not leave a delivery
pending. Its theorems are about the one poller the Node adapter runs, and an
event whose deliveries no operator replays; section 6 says why each is needed. `Order` says that the phases of a
pass follow each other: no row is pending when it settles the event (`Settled`), and rows
come before the flag that says so (`Early`). What remains is that the claims of an event
outlast the attempts of its rows, and there are two arguments for that.

* `OnePollerStrandsNothing` counts. A row that is claimed rises by a level, up to
  `MaxAttempts + 1` when it has an outcome, and `Count` is the sum of the levels, as the
  cardinality of a set of pairs. `Budget` says that the claims of the event never
  exceed `Count`, two for each fault, and one for the pass under way; each
  action keeps it because a pass that moves no row has met a fault, or is one that is
  going to move one (`WillPay`), or settles the event. Subscribers are deleted
  and rows are cleaned up in any phase, and both count as progress. `EnoughClaims` asks for more claims
  than subscribers times `MaxAttempts + 1`, plus the faults. With the
  code's 32 claims and 7 attempts that is three subscribers and up to three faults.
* `FaultlessPollerStrandsNothing` has no bound on the subscribers. Without
  faults the pending rows of an event go in step (`Together`): they have had as many
  attempts and are due at the same time, so one claim of the event pays
  for an attempt of all of them. Only the deletion of a subscription between the read of the
  targets and the insert costs a claim of its own (`Toll`). `Faultless` asks for
  more claims than attempts and subscription changes: 32 against 7 leaves
  room for 24 changes while one event is delivered.

Neither covers an event with many subscribers and faults: a fault can put its rows out
of step, and every row may then claim the event by itself. With enough faults the
property fails, since a pass that dies right after its claim has used it up for nothing;
how few of them suffice with many subscribers is not known.

**SpawnInvocation.** `SpawnInv` adds to `TypeOK` what an execution carries: it read
the invocation while it was open (`Sound`, `Known`). That is enough for
`SettledStays`, since every write repeats a condition on the status.
`OneSender` is about the order of claims. A claim is recognised by its attempt and its
deadline; `ClaimInv` orders these pairs lexicographically and says that a claim is
newer than the row it was made from, that the row is never older than a claim
somebody still owns (`ClaimAdvances`), and that of two owners the older one's claim
is not newer than what the younger one found (`ClaimsApart`). The last part is why a
restore, which puts the row back to what its execution had read, cannot uncover the
claim of another. It needs deadlines to move on with every claim, which is
`SameSecond = FALSE`; TLC violates `OneSender` without it.

**Fleet.** `FleetInv` says where revisions lie. A row that is not in the history `old[r]`
of a claim carries `r` or a later revision (`Boundaries`), so that the comparison of a
late tail cannot match it: `PostClaimKept`. A revision that a claim chose is above all
that was up when it chose (`TakenAbove`), so each statement of the tail matches all
that is older; `TailSettles` says after which statement which kind of row is down, and
the last of them gives `PreClaimSettled`. `Published` says that an offline event of
the row's revision came after the heartbeat that wrote its mark, which is what lets at
most one offline event of a claim through: `ClaimPublishedOnce`.

**ActionInvocation.** Its thirty-odd operations do one of seven things to the row
(`RowStep`): nothing but a stamp, the insert, an end, the claim of a hosting agent, the
claim or detachment of a node's row, an acceptance, the begin of a task. The
properties are proved from these seven. `ActionInv` says of the row and its frames that only accepted
attempts were framed, once, and that an attempt that waits for its hosting agent was
not (`FramesOK`); and of a worker after an await (`Linked`) that the row is at or after
the claim it read, in the order of attempts and deadlines, that a worker on its way to a
node does not hold an agent's row, and that a drain which would send the attempt it
read once more finds it unsent or finds another claim. `FramedOnce` is not
inductive without the last.

**DirectMessage.** The rows change in six ways (`RowStep`: a post, the batch, the end of a
claim or an intent after its window, a move of the intent, the clock), and a request in
one (`Moves`). `OnePerWindow` rests on time: a message is claimed as
long as its window lasts (`MadeOK`), so whoever finds no claim knows that every message is a window
old, and `ReqKnows` keeps of that, over the awaits of `sendDm`, that every message is a
window older than the send or was written while the request ran. The second kind cannot be there
when the batch finds the claim gone, because `2 * Stall < Window`. The same
argument gives `OneIdentity`: an intent that the request did not see when it
prepared belongs to a message whose claim is still there. `AnswerIsOwn` needs that a row, a record and
a request are each about a message of their body (`About`), `CountedOnce` and
`SettledStays` that a token stands exactly on a row that is being sent, so that a
sender that lost its lease owns nothing.

Each of these invariants was checked with TLC before it was proved, and so was that every
step is a `RowStep`.

Every invariant and action property of the passing runs is stated by a theorem. Only
model-checked are the liveness properties `EventuallyAcked`, `PollEnds` and
`EventSettles`: fairness is out of this prover's reach.

## 5. Findings

Two places where the code does something else than a comment or a document
says; each is a run that TLC answers with a trace.

1. *autoack*. `docs/design/sdk-push-not-poll.md:44` promises that "a higher seq never
   overtakes" a failed lower send. The replay and the redrive keep that; the
   background dispatch sends its own row whether or not a lower one is still
   queued, and the sdk's cumulative ack settles the lower row unseen. A
   broker drops the higher frame, and the run *dispatch* shows that it is safe.
2. *slots*. `engine/action.ts:4425-4427` says "Release only capacity this invocation
   actually reserved". `completeNodeInvocation` decides that on the reservation it
   read before its update, and the update does not compare it. If the timeout
   sweep drops the reservation and frees the slot in between
   (`engine/action.ts:3864-3888`), the answer frees it again, and the node counts one
   spawn less than it carries.

## 6. Limits of the model

* `OverAck` bounds how far an ack may run ahead; the engine does not validate
  `up_to_seq`. The run uses 0, that is, clients that acknowledge what they were
  sent. With 1 a row that is posted between the read of such an ack and its
  cursor write stays queued below the cursor, and `ReplayVisible` fails: the
  allocation (`engine/deliveryWrites.ts:112-113`) looks at the cursor once it is
  written, not at one that is on its way.
* No bound on a single mailbox is claimed: `deferDelivery` brings a failed row
  back under the workspace cap only, and fail, post, defer takes a mailbox over
  the depth cap that `packages/actors-workspace/README.md:28` names.
* The workspace cap and its reserve are constants; a host may change its policy
  between two writes, and then the bound is the largest cap in force.
* `Dispatch` has one agent, one provider and one node, and its replay stops on a
  lost connection but not on a rejected read. A registration whose replay is
  rejected swallows the error (`engine/node.ts:4025`): rows marked delivered on
  the dead connection then wait for the next reconnect.
* A broker that has dropped a frame above a gap gets it again only after another
  reconnect, which nothing forces, so `EventuallyAcked` is stated for the sdk.
* `NoneStranded` is proved, and `EventSettles` checked, for one poller. With several, a
  pass that stalls past its lease before its first insert can add rows under an
  event that another pass has completed (`engine/eventDelivery.ts:265`).
  Both are also stated without an operator's replay: one that falls between the
  last read of a pass and its settlement of the event leaves the replayed
  delivery pending under a failed event, against the comment at
  `engine/eventDelivery.ts:614-615`.
* The lease of a webhook claim counts from the start of the pass. Attempts at the
  same delivery can therefore overlap; delivery is at least once by design, and
  `OwnerSettles` says that the outcome is still recorded once.
* *spawn* is checked with `SameSecond = FALSE`: `restoreUnsentSpawnClaim` knows its
  claim by attempt and deadline, and deadlines are whole seconds. A spawn whose
  send threw may be sent again by a drain once it was put back; sending is at
  least once there.
* `ReplayStays` is about actions an agent hosts. A node-hosted row that is parked
  has no node, and its replays wait again; a queued invocation that was answered
  is answered with the deletion once its action is gone; a request whose row
  `Revalidate` or `Gate` fails after a drain has sent it is refused although a
  replay of it was accepted.
* A reschedule works on the row it was given. If the provider accepts the attempt
  and its action is pruned meanwhile, `Park` detaches an accepted attempt
  (`engine/action.ts:4113`). An accepted invocation whose action was deleted and
  whose handler then dies is ended by no sweep (`engine/action.ts:4457`).
* `ClaimPublishedOnce` is about claimed transitions; the sweep's unconditional
  mark reads the status before it writes it and may publish twice. A claim that
  falls between the provider write and the aggregate of a registration leaves
  the node online beside an offline provider until the next heartbeat.
* A keyed channel post has only the key-value lock, which is best effort
  (`middleware/idempotency.ts:215-217`), so `OnePerWindow` is about direct messages.
  `RecordWithinWindow` leaves federated messages out: a replayed intent names no
  remaining lifetime and is stored for a whole window. `2 * Stall < Window` says
  that a request does not last half a day.
* A row the agent itself defers does not wake its own polls; `NoMissedWake` says
  so (`quiet`).

Not modelled, and why:

| part | why |
|---|---|
| release invocations (`dispatchRelease`, `completeReleaseNodeInvocation`), spawns shadowed by a registered action | variants of the claim, send and settle protocol of `SpawnInvocation` and `ActionInvocation` that add checks of the agent's token generation; they would double both modules' state |
| several connections per provider, the sweep's redrive cursor | planned, section 7 |
| messages, threads, reactions, channels, agents, credentials, workspaces, inbound webhooks | CRUD and authentication in single statements; what they write to the queue is in `Delivery` |
| workspace events, observers, presence | append-only logs and best-effort broadcasts that promise little to check |
| retention | which rows may go is in `Delivery`, `EventOutbox` and `DirectMessage`; paging and scheduling are not |
| durable-actor adapters | a second host of the same engine code; the modules above apply to the engine in it |
| clients in TypeScript, Rust, Swift and Python, search, inbox, files, console, dashboards, CLI, MCP | typed wrappers, queries, storage and presentation |

The engine's protocols are where the map is dense (about two thirds of
`engine/delivery.ts` and of the webhook outbox, half of `engine/action.ts`, of
`middleware/idempotency.ts` and of the routing). Measured against the whole repository
its share stays small, because most of the repository is clients,
routes, schemas, queries, scripts and presentation that keep no protocol state.

## 7. Plan

1. Release invocations, with the generation of the agent's token.
2. `ProviderRegistry`: attach, supersede and close for several providers and
   connections, whose promise `Dispatch` and `Fleet` then use in place of `bound` and
   `conn`.
3. `RedriveCursor`: the sweep's paging over agents and nodes. No due row is passed
   over for ever.
4. For events with many subscribers, a bound on claims by faults that does not multiply
   the attempts by the subscribers.
