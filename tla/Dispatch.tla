------------------------------ MODULE Dispatch ------------------------------
(***************************************************************************)
(* Sending the queue of one agent to the ws node that hosts it             *)
(* (routes/deliveryRouting.ts, deliverPendingToNode of engine/delivery.ts, *)
(* the provider registry of adapters/node/realtime.ts, node.register,      *)
(* agent.register, inventory.sync and delivery.ack of engine/node.ts) and  *)
(* the two kinds of client at the other end of the socket.                 *)
(*                                                                         *)
(* Three paths send the same rows and share no lock: the background        *)
(* dispatch of the request that posted a message, the redrive of the       *)
(* periodic sweep, and the replay that a registration triggers.  Only the  *)
(* replay runs under the node's control lock, as delivery.ack does.        *)
(*                                                                         *)
(* A row is known by its seq.  Its writes are those of module Delivery;    *)
(* here the cumulative ack is one step.                                    *)
(***************************************************************************)
EXTENDS Integers, Sequences, FiniteSetsExt, Functions

CONSTANTS
  MaxSeq,      \* bound: how many rows are posted
  Clients,     \* kinds of client a behaviour may have: "sdk", "broker"
  MaxConn,     \* bound: how many connections each kind opens; the last one stays up
  Redrivers,   \* overlapping invocations of sweepDueNodeDeliveries
  PageSize     \* rows per page of a replay (50)

ASSUME DispatchAssumption == /\ MaxSeq \in Nat
                             /\ Clients \subseteq {"sdk", "broker"}
                             /\ MaxConn \in [Clients -> Nat \ {0}]
                             /\ PageSize \in Nat \ {0}

VARIABLES
  client,    \* the kind of client of this behaviour
  status,    \* deliveries.status of each row
  ackSeq,    \* agents.delivery_ack_seq
  reported,  \* delivery.delivered reports made to the sender of each row
  inline,    \* the background dispatch of each row
  redrive,   \* what each redriver still has to send
  replay,    \* the replay, which holds the node's control lock
  bound,     \* the connection providerIndex names, 0 if none
  ready,     \* whether deliveryReadyAgentIds of that connection admits the agent
  conns,     \* connections opened so far
  link,      \* the connection the client has now, 0 if none
  wire,      \* deliver frames under way on that connection
  acks,      \* delivery.ack frames under way or waiting for the control lock
  received,  \* the broker's received_up_to_seq; Lost after a restart
  injected   \* rows the client has handed to the agent

rowVars == <<status, ackSeq, reported>>
connVars == <<client, bound, ready, conns, link>>
clientVars == <<acks, received, injected>>
vars == <<client, status, ackSeq, reported, inline, redrive, replay,
          bound, ready, conns, link, wire, acks, received, injected>>

Seqs == 1..MaxSeq
Lost == -1
NoReplay == [phase |-> "off", cursor |-> 0, high |-> 0, todo |-> {}, sent |-> {}]
Idle == [todo |-> {}, sent |-> FALSE]

\* A backlog is read ordered by seq and worked off from its front: it is kept as
\* the set of its rows, of which the least comes next.
HighWater == Cardinality({s \in Seqs : status[s] # "none"})

-----------------------------------------------------------------------------
(* Sending a frame and settling the row *)

\* socket.send on the bound connection succeeds as long as the engine has not
\* seen it close; if the client is gone, the frame is lost.
SendFrame(s) == wire' = IF bound = link THEN Append(wire, s) ELSE wire

\* Mutant: a row that was sent is reported, whether or not it was queued.
BugMarkReportsEverySend(S) ==
  /\ status' = [s \in Seqs |-> IF s \in S /\ status[s] = "queued" THEN "delivered" ELSE status[s]]
  /\ reported' = [s \in Seqs |-> IF s \in S THEN reported[s] + 1 ELSE reported[s]]
  /\ UNCHANGED ackSeq

\* queued -> delivered, and the report for the rows that made the transition.
MarkDelivered(S) ==
  LET T == {s \in S : status[s] = "queued"}
  IN  /\ status' = [s \in Seqs |-> IF s \in T THEN "delivered" ELSE status[s]]
      /\ reported' = [s \in Seqs |-> IF s \in T THEN reported[s] + 1 ELSE reported[s]]
      /\ UNCHANGED ackSeq

-----------------------------------------------------------------------------
(* The request that posts a message, and its background dispatch *)

Post(s) ==
  /\ s = HighWater + 1
  /\ status' = [status EXCEPT ![s] = "queued"]
  /\ inline' = [inline EXCEPT ![s] = "route"]
  /\ UNCHANGED <<ackSeq, reported, redrive, replay, wire>>
  /\ UNCHANGED connVars
  /\ UNCHANGED clientVars

\* The readiness check and the send are one synchronous step.  A connection
\* that is not ready leaves the row queued and stamped for the sweep.
InlineSend(s) ==
  /\ inline[s] = "route"
  /\ IF ready
     THEN SendFrame(s) /\ inline' = [inline EXCEPT ![s] = "mark"]
     ELSE UNCHANGED wire /\ inline' = [inline EXCEPT ![s] = "off"]
  /\ UNCHANGED rowVars
  /\ UNCHANGED <<redrive, replay>>
  /\ UNCHANGED connVars
  /\ UNCHANGED clientVars

InlineMark(s) ==
  /\ inline[s] = "mark"
  /\ MarkDelivered({s})
  /\ inline' = [inline EXCEPT ![s] = "off"]
  /\ UNCHANGED <<redrive, replay, wire>>
  /\ UNCHANGED connVars
  /\ UNCHANGED clientVars

\* A read or a write of the dispatch is rejected: Promise.allSettled drops it.
InlineLost(s) ==
  /\ inline[s] # "off"
  /\ inline' = [inline EXCEPT ![s] = "off"]
  /\ UNCHANGED rowVars
  /\ UNCHANGED <<redrive, replay, wire>>
  /\ UNCHANGED connVars
  /\ UNCHANGED clientVars

-----------------------------------------------------------------------------
(* redriveWsBacklogForAgent *)

\* Once one row is due, all queued rows are fetched, whatever their own
\* next_attempt_at.
RedriveFetch(w) ==
  /\ redrive[w] = Idle
  /\ \E s \in Seqs : status[s] = "queued"
  /\ redrive' = [redrive EXCEPT ![w].todo = {s \in Seqs : status[s] = "queued"}]
  /\ UNCHANGED rowVars
  /\ UNCHANGED <<inline, replay, wire>>
  /\ UNCHANGED connVars
  /\ UNCHANGED clientVars

\* The next row of the backlog as it was fetched; the first one that cannot be
\* sent ends the redrive.
RedriveSend(w) ==
  /\ redrive[w].todo # {} /\ ~redrive[w].sent
  /\ IF ready
     THEN /\ SendFrame(Min(redrive[w].todo))
          /\ redrive' = [redrive EXCEPT ![w].sent = TRUE]
     ELSE UNCHANGED wire /\ redrive' = [redrive EXCEPT ![w] = Idle]
  /\ UNCHANGED rowVars
  /\ UNCHANGED <<inline, replay>>
  /\ UNCHANGED connVars
  /\ UNCHANGED clientVars

RedriveMark(w) ==
  /\ redrive[w].sent
  /\ MarkDelivered({Min(redrive[w].todo)})
  /\ redrive' = [redrive EXCEPT ![w] = [todo |-> @.todo \ {Min(@.todo)}, sent |-> FALSE]]
  /\ UNCHANGED <<inline, replay, wire>>
  /\ UNCHANGED connVars
  /\ UNCHANGED clientVars

-----------------------------------------------------------------------------
(* replayPendingToNode, under the node's control lock *)

\* Mutant: a row that was sent once is not replayed.
BugReplaysQueuedOnly(s) == s > ackSeq /\ status[s] = "queued"

\* What a page selects and what is checked again before each send.
Replayable(s) == s > ackSeq /\ status[s] \in {"queued", "delivered"}

\* The cursor and the high-water mark, read while the lock keeps acks out.
ReplayStart ==
  /\ replay.phase = "roster"
  /\ replay' = IF ready
               THEN [replay EXCEPT !.phase = "page", !.cursor = ackSeq, !.high = HighWater]
               ELSE NoReplay
  /\ UNCHANGED rowVars
  /\ UNCHANGED <<inline, redrive, wire>>
  /\ UNCHANGED connVars
  /\ UNCHANGED clientVars

ReplayPage ==
  /\ replay.phase = "page"
  /\ LET due == {s \in replay.cursor + 1 .. replay.high : Replayable(s)}
         page == {s \in due : Cardinality({t \in due : t <= s}) <= PageSize}
     IN  replay' = IF ready /\ page # {}
                   THEN [replay EXCEPT !.phase = "send", !.cursor = Max(page),
                                       !.todo = page, !.sent = {}]
                   ELSE NoReplay
  /\ UNCHANGED rowVars
  /\ UNCHANGED <<inline, redrive, wire>>
  /\ UNCHANGED connVars
  /\ UNCHANGED clientVars

\* A row settled since the page was read is skipped; a row that cannot be sent
\* interrupts the replay.
ReplaySend ==
  /\ replay.phase = "send" /\ replay.todo # {}
  /\ LET s == Min(replay.todo)
     IN  \/ /\ ~Replayable(s)
            /\ replay' = [replay EXCEPT !.todo = @ \ {s}]
            /\ UNCHANGED wire
         \/ /\ Replayable(s) /\ ready
            /\ SendFrame(s)
            /\ replay' = [replay EXCEPT !.todo = @ \ {s}, !.sent = @ \cup {s}]
         \/ /\ Replayable(s) /\ ~ready
            /\ replay' = [replay EXCEPT !.phase = "interrupted", !.todo = {}]
            /\ UNCHANGED wire
  /\ UNCHANGED rowVars
  /\ UNCHANGED <<inline, redrive>>
  /\ UNCHANGED connVars
  /\ UNCHANGED clientVars

ReplayMark ==
  /\ replay.phase \in {"send", "interrupted"} /\ replay.todo = {}
  /\ MarkDelivered(replay.sent)
  /\ replay' = IF replay.phase = "interrupted" THEN NoReplay
               ELSE [replay EXCEPT !.phase = "page", !.sent = {}]
  /\ UNCHANGED <<inline, redrive, wire>>
  /\ UNCHANGED connVars
  /\ UNCHANGED clientVars

-----------------------------------------------------------------------------
(* Connections *)

Connect ==
  /\ link = 0 /\ conns < MaxConn[client]
  /\ conns' = conns + 1
  /\ link' = conns + 1
  /\ UNCHANGED rowVars
  /\ UNCHANGED <<client, inline, redrive, replay, bound, ready, wire>>
  /\ UNCHANGED clientVars

\* The provider moves to this connection.  An sdk has not asked for the cursor
\* handshake and is ready at once; a broker waits for each agent's own
\* registration.
AttachProvider ==
  /\ bound' = link
  /\ ready' = (client = "sdk")

\* node.register: a provider that is ready is replayed to at once.
NodeRegister ==
  /\ link # 0 /\ bound # link
  /\ replay.phase = "off"
  /\ AttachProvider
  /\ replay' = IF client = "sdk" THEN [NoReplay EXCEPT !.phase = "roster"] ELSE replay
  /\ UNCHANGED rowVars
  /\ UNCHANGED <<client, inline, redrive, conns, link, wire>>
  /\ UNCHANGED clientVars

\* Mutant: the reply carries the allocation high-water mark.
BugAgentUpSeedsHighWater ==
  /\ client = "broker"
  /\ link # 0 /\ bound = link /\ ~ready
  /\ replay.phase = "off"
  /\ received' = IF received = Lost THEN HighWater ELSE received
  /\ ready' = TRUE
  /\ replay' = [NoReplay EXCEPT !.phase = "roster"]
  /\ UNCHANGED rowVars
  /\ UNCHANGED <<client, inline, redrive, bound, conns, link, wire, acks, injected>>

\* agent.register or agent.recover of a session that was restarted: the reply,
\* sent before any frame, carries delivery_ack_seq.  Or inventory.sync of one
\* that survived the reconnect and has its own cursor.
AgentUp ==
  /\ client = "broker"
  /\ link # 0 /\ bound = link /\ ~ready
  /\ replay.phase = "off"
  /\ received' = IF received = Lost THEN ackSeq ELSE received
  /\ ready' = TRUE
  /\ replay' = [NoReplay EXCEPT !.phase = "roster"]
  /\ UNCHANGED rowVars
  /\ UNCHANGED <<client, inline, redrive, bound, conns, link, wire, acks, injected>>

\* The client loses its connection; the engine may not know for a while.
Drop ==
  /\ link # 0 /\ conns < MaxConn[client]
  /\ link' = 0
  /\ wire' = <<>>
  /\ acks' \in SUBSET acks
  /\ received' \in {received, IF client = "broker" THEN Lost ELSE received}
  /\ UNCHANGED rowVars
  /\ UNCHANGED <<client, inline, redrive, replay, bound, ready, conns, injected>>

\* onNodeConnectionClose of the connection that held the provider.
NodeConnectionClose ==
  /\ bound # 0 /\ bound # link
  /\ bound' = 0
  /\ ready' = FALSE
  /\ UNCHANGED rowVars
  /\ UNCHANGED <<client, inline, redrive, replay, conns, link, wire>>
  /\ UNCHANGED clientVars

\* The engine restarts: nothing but the rows survives.
Crash ==
  /\ link # 0 /\ conns < MaxConn[client]
  /\ link' = 0 /\ bound' = 0 /\ ready' = FALSE
  /\ wire' = <<>> /\ acks' = {}
  /\ inline' = [s \in Seqs |-> "off"]
  /\ redrive' = [w \in Redrivers |-> Idle]
  /\ replay' = NoReplay
  /\ UNCHANGED rowVars
  /\ UNCHANGED <<client, conns, received, injected>>

-----------------------------------------------------------------------------
(* Acknowledgement *)

\* Mutant: the client acks the next seq it expects.
BugClientAcksNext ==
  /\ wire # <<>>
  /\ wire' = Tail(wire)
  /\ injected' = injected \cup {Head(wire)}
  /\ acks' = acks \cup {Head(wire) + 1}
  /\ UNCHANGED <<received, inline, redrive, replay>>
  /\ UNCHANGED rowVars
  /\ UNCHANGED connVars

\* The sdk hands on every frame and acks its seq.  The broker hands on only
\* the successor of what it has, and drops any other frame.
ClientReceive ==
  /\ wire # <<>>
  /\ wire' = Tail(wire)
  /\ LET s == Head(wire)
     IN  IF client = "sdk" \/ s = received + 1
         THEN /\ injected' = injected \cup {s}
              /\ acks' = acks \cup {s}
              /\ received' = IF client = "broker" THEN s ELSE received
         ELSE UNCHANGED clientVars
  /\ UNCHANGED rowVars
  /\ UNCHANGED <<inline, redrive, replay>>
  /\ UNCHANGED connVars

\* delivery.ack settles every row up to its seq; the frame of a connection
\* that was superseded is still executed.
DeliveryAck(u) ==
  /\ u \in acks
  /\ replay.phase = "off"
  /\ acks' = acks \ {u}
  /\ IF u > ackSeq
     THEN /\ status' = [s \in Seqs |-> IF s <= u THEN "acked" ELSE status[s]]
          /\ ackSeq' = u
     ELSE UNCHANGED <<status, ackSeq>>
  /\ UNCHANGED <<reported, inline, redrive, replay, wire, received, injected>>
  /\ UNCHANGED connVars

-----------------------------------------------------------------------------
Init ==
  /\ client \in Clients
  /\ status = [s \in Seqs |-> "none"]
  /\ ackSeq = 0
  /\ reported = [s \in Seqs |-> 0]
  /\ inline = [s \in Seqs |-> "off"]
  /\ redrive = [w \in Redrivers |-> Idle]
  /\ replay = NoReplay
  /\ bound = 0 /\ ready = FALSE
  /\ conns = 0 /\ link = 0
  /\ wire = <<>> /\ acks = {}
  /\ received = IF client = "broker" THEN Lost ELSE 0
  /\ injected = {}

Redrive(w) == RedriveFetch(w) \/ RedriveSend(w) \/ RedriveMark(w)
Replay == ReplayStart \/ ReplayPage \/ ReplaySend \/ ReplayMark

Next ==
  \/ \E s \in Seqs : Post(s) \/ InlineSend(s) \/ InlineMark(s) \/ InlineLost(s)
  \/ \E w \in Redrivers : Redrive(w)
  \/ Replay
  \/ Connect \/ NodeRegister \/ AgentUp \/ Drop \/ NodeConnectionClose \/ Crash
  \/ ClientReceive
  \/ \E u \in acks : DeliveryAck(u)

\* The sweep runs from a timer, the client reconnects with backoff, and what
\* was started is finished.  Nothing makes a post, a loss or a crash happen.
Fairness ==
  /\ \A w \in Redrivers : WF_vars(Redrive(w))
  /\ WF_vars(Replay)
  /\ WF_vars(Connect) /\ WF_vars(NodeRegister) /\ WF_vars(AgentUp)
  /\ WF_vars(ClientReceive)
  /\ \A u \in Seqs : WF_vars(DeliveryAck(u))

Spec == Init /\ [][Next]_vars /\ Fairness

-----------------------------------------------------------------------------
(* Properties *)

\* Rows, connections and frames are well formed: nothing is sent or
\* acknowledged that was not numbered.
TypeOK ==
  /\ client \in Clients
  /\ status \in [Seqs -> {"none", "queued", "delivered", "acked"}]
  /\ ackSeq \in 0..MaxSeq
  /\ reported \in [Seqs -> Nat]
  /\ inline \in [Seqs -> {"off", "route", "mark"}]
  /\ redrive \in [Redrivers -> [todo : SUBSET Seqs, sent : BOOLEAN]]
  /\ replay \in [phase : {"off", "roster", "page", "send", "interrupted"},
                 cursor : 0..MaxSeq, high : 0..MaxSeq,
                 todo : SUBSET Seqs, sent : SUBSET Seqs]
  /\ {bound, conns, link} \subseteq 0..MaxConn[client]
  /\ ready \in BOOLEAN
  /\ wire \in Seq(Seqs)
  /\ acks \in SUBSET Seqs
  /\ received \in {Lost} \cup (0..MaxSeq)
  /\ injected \in SUBSET Seqs

\* However many of the three paths send a row, its sender is told once that it
\* was delivered (a later one is `resent`, not `delivered`).
ReportedOnce == \A s \in Seqs : reported[s] <= 1

\* With a broker a row is settled only if its message was handed to the agent:
\* no cumulative ack covers a row that was skipped, and the cursor that a broker
\* is given back never lies beyond what it had.
AckedWasInjected ==
  client = "broker" => \A s \in Seqs : status[s] = "acked" => s \in injected

\* Where the queue has a row: a row that was sent is open until it is acknowledged.
BoxOf(s) ==
  CASE s = "none" -> "absent"
    [] s \in {"queued", "delivered"} -> "open"
    [] s = "acked" -> "read"

\* The stream of the one agent, whose messages are known by their seq.
Stream == Seqs \X {"agent"}
Queue == INSTANCE Mailbox WITH
           Agents <- {"agent"}, MsgIds <- Seqs,
           box <- [r \in Stream |-> BoxOf(status[r[1]])],
           seq <- [r \in Stream |-> IF status[r[1]] = "none" THEN 0 ELSE r[1]],
           cursor <- [a \in {"agent"} |-> ackSeq]

\* Three senders, lost frames, superseded connections and restarts do nothing to the
\* queue that its promise does not allow: acks settle rows that were posted, the cursor
\* goes forward only and hides no row that is open, and no number lies below it.
ImplementsMailbox == Queue!BoxSpec

\* Some path still holds the row or has put it on the socket.
Underway(s) ==
  \/ inline[s] = "route"
  \/ s \in Range(wire)
  \/ \E w \in Redrivers : s \in redrive[w].todo

\* No row is passed over: one that a cumulative ack has settled was handed to
\* the agent or is still on its way.
NonePassedOver ==
  \A s \in Seqs : status[s] = "acked" => s \in injected \/ Underway(s)

\* With the sdk every posted row is settled in the end, whichever path lost it: what the
\* background dispatch lost the sweep sends, what a dead socket swallowed the
\* replay of the next registration sends again.
EventuallyAcked ==
  client = "sdk" => \A s \in Seqs : status[s] # "none" ~> status[s] = "acked"

=============================================================================
