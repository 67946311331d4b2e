--------------------------- MODULE DispatchProofs ---------------------------
(***************************************************************************)
(* Sending the rows of an agent, over the socket of a ws node (module      *)
(* Dispatch) and as POSTs to an http_push node (module HttpPush).          *)
(*                                                                         *)
(* Over a socket three paths send the same rows and share no lock.  That a *)
(* row is reported once rests on the numbering: rows are posted in the     *)
(* order of their seqs and no frame or ack is under way for a row that is  *)
(* not there, so that no cumulative ack settles a row before it is posted  *)
(* and no row is posted twice.  That a broker's row is settled only after  *)
(* it was handed on rests on one cursor: all that an ack on its way, the   *)
(* row of the agent or the broker's own memory covers was handed on.       *)
(*                                                                         *)
(* OneAttempt of HttpPush holds because the token of a row under attempt   *)
(* lies in the future, beyond the end of the attempt, while every token a  *)
(* dispatcher may still hold was due when fetched.                         *)
(***************************************************************************)
EXTENDS Dispatch, HttpPush, FiniteSetTheorems, WellFoundedInduction, TLAPS

-----------------------------------------------------------------------------
(* The inductive invariant of Dispatch *)

\* TypeOK with the shapes of the backlogs under a name.
Backlogs == [todo : SUBSET Seqs, sent : BOOLEAN]
Replays == [phase : {"off", "roster", "page", "send", "interrupted"},
            cursor : 0..MaxSeq, high : 0..MaxSeq,
            todo : SUBSET Seqs, sent : SUBSET Seqs]
Statuses == {"none", "queued", "delivered", "acked"}

Posted(s) == status[s] # "none"

\* The rows that are posted are the first ones.
Numbered == \E h \in 0..MaxSeq : \A s \in Seqs : Posted(s) <=> s <= h

\* Whatever is to be sent, was sent or is acknowledged is a row.
OnlyRows ==
  /\ \A s \in Seqs : inline[s] # "off" => Posted(s)
  /\ \A w \in Redrivers : \A s \in redrive[w].todo : Posted(s)
  /\ \A s \in replay.todo : Posted(s)
  /\ \A i \in 1..Len(wire) : Posted(wire[i])
  /\ \A u \in acks : Posted(u)

\* A row is reported when it leaves the queue, if at all.
Reports ==
  \A s \in Seqs : /\ status[s] \in {"none", "queued"} => reported[s] = 0
                  /\ reported[s] <= 1

\* A settled row lies below the cursor.
Cursor == \A s \in Seqs : status[s] = "acked" => s <= ackSeq

\* All that a broker, one of its acks or the row of the agent covers was handed on.
Covered(s) == s <= ackSeq \/ s <= received \/ \E u \in acks : s <= u
HandedOn == client = "broker" => \A s \in Seqs : Covered(s) => s \in injected

DispatchInv == TypeOK /\ Numbered /\ OnlyRows /\ Reports /\ Cursor /\ HandedOn

-----------------------------------------------------------------------------
(* Lemmas *)

\* A set of naturals that is not empty has a least element.
LEMMA LeastExists == ASSUME NEW T \in SUBSET Nat, T # {} PROVE \E x \in T : \A y \in T : x <= y
<1> DEFINE R == {ss \in Nat \X Nat : ss[1] < ss[2]}
<1>1. IsWellFoundedOn(R, Nat)
  BY NatLessThanWellFounded, Zenon DEF OpToRel
<1> HIDE DEF R
<1>2. PICK x \in T : \A y \in T : ~(<<y, x>> \in R)
  BY <1>1, WFMin
<1>3. ASSUME NEW y \in T PROVE x <= y
  <2>1. <<y, x>> \in Nat \X Nat /\ ~(<<y, x>> \in R)
    BY <1>2
  <2>2. ~(y < x)
    BY <2>1 DEF R
  <2> QED BY <2>2
<1> QED BY <1>3

\* The next row of a backlog is one of its rows.
LEMMA LeastOK == ASSUME NEW T \in SUBSET Seqs, T # {} PROVE Min(T) \in T
<1>1. T \in SUBSET Nat
  BY DispatchAssumption DEF Seqs
<1>2. \E x \in T : \A y \in T : x <= y
  BY <1>1, LeastExists
<1> QED BY <1>2 DEF Min

\* A page ends with one of its rows.
LEMMA GreatestOK == ASSUME NEW T \in SUBSET Seqs, T # {} PROVE Max(T) \in T
<1> DEFINE U == {MaxSeq - t : t \in T}
<1>0. \A t \in T : MaxSeq - t \in Nat
  BY DispatchAssumption DEF Seqs
<1>1. U \in SUBSET Nat /\ U # {}
  BY <1>0
<1> HIDE DEF U
<1>2. PICK u \in U : \A v \in U : u <= v
  BY <1>1, LeastExists
<1>3. PICK x \in T : u = MaxSeq - x
  BY <1>2 DEF U
<1>4. ASSUME NEW y \in T PROVE x >= y
  <2>1. MaxSeq - y \in U
    BY DEF U
  <2>2. u <= MaxSeq - y
    BY <1>2, <2>1
  <2> QED BY <1>3, <2>2, DispatchAssumption DEF Seqs
<1> QED BY <1>4 DEF Max

\* The allocation high-water mark is the last seq that was posted.
LEMMA HighWaterOK == ASSUME Numbered
                     PROVE  HighWater \in 0..MaxSeq /\ \A s \in Seqs : Posted(s) <=> s <= HighWater
<1>1. PICK h \in 0..MaxSeq : \A s \in Seqs : Posted(s) <=> s <= h
  BY DEF Numbered
<1>2. {s \in Seqs : status[s] # "none"} = 1..h
  BY <1>1, DispatchAssumption DEF Seqs, Posted
<1>3. Cardinality(1..h) = h
  BY FS_Interval, DispatchAssumption
<1> QED BY <1>1, <1>2, <1>3 DEF HighWater

\* What MarkDelivered does to the rows.
LEMMA MarkOK ==
  ASSUME DispatchInv, NEW S, MarkDelivered(S)
  PROVE  /\ status' \in [Seqs -> Statuses] /\ reported' \in [Seqs -> Nat] /\ ackSeq' = ackSeq
         /\ \A s \in Seqs : (status'[s] = "none" <=> status[s] = "none")
                            /\ (status'[s] = "acked" <=> status[s] = "acked")
         /\ Reports'
<1>0. status \in [Seqs -> Statuses] /\ reported \in [Seqs -> Nat] /\ Reports
  BY DEF DispatchInv, TypeOK, Statuses
<1>1. /\ status' = [s \in Seqs |-> IF s \in S /\ status[s] = "queued" THEN "delivered" ELSE status[s]]
      /\ reported' = [s \in Seqs |-> IF s \in S /\ status[s] = "queued" THEN reported[s] + 1 ELSE reported[s]]
      /\ ackSeq' = ackSeq
  BY DEF MarkDelivered
<1> QED BY <1>0, <1>1 DEF Reports, Statuses

\* What SendFrame does to the wire, for a row.
LEMMA SendOK ==
  ASSUME DispatchInv, NEW s \in Seqs, Posted(s), SendFrame(s)
  PROVE  wire' \in Seq(Seqs) /\ \A i \in 1..Len(wire') : Posted(wire'[i])
<1>0. wire \in Seq(Seqs) /\ \A i \in 1..Len(wire) : Posted(wire[i])
  BY DEF DispatchInv, TypeOK, OnlyRows
<1> QED BY <1>0 DEF SendFrame

\* A step that leaves the rows alone.
LEMMA RowsKept == ASSUME DispatchInv, UNCHANGED rowVars PROVE Numbered' /\ Reports' /\ Cursor'
BY DEF DispatchInv, rowVars, Numbered, Reports, Cursor, Posted

\* A step that leaves the client and the cursor alone.
LEMMA ClientKept ==
  ASSUME DispatchInv, client' = client, ackSeq' = ackSeq, UNCHANGED clientVars PROVE HandedOn'
BY DEF DispatchInv, clientVars, HandedOn, Covered

-----------------------------------------------------------------------------
(* Every step keeps the invariant *)

LEMMA DispatchStart == Init => DispatchInv
<1> SUFFICES ASSUME Init PROVE DispatchInv
  OBVIOUS
<1> USE DispatchAssumption DEF Init
<1>1. TypeOK
  <2>1. Idle \in [todo : SUBSET Seqs, sent : BOOLEAN]
    BY DEF Idle
  <2>2. NoReplay \in [phase : {"off", "roster", "page", "send", "interrupted"},
                      cursor : 0..MaxSeq, high : 0..MaxSeq,
                      todo : SUBSET Seqs, sent : SUBSET Seqs]
    BY DEF NoReplay
  <2>3. MaxConn[client] \in Nat
    OBVIOUS
  <2>4. {bound, conns, link} \subseteq 0..MaxConn[client] /\ ackSeq \in 0..MaxSeq
    BY <2>3
  <2>5. redrive \in [Redrivers -> [todo : SUBSET Seqs, sent : BOOLEAN]]
    BY <2>1
  <2>6. status \in [Seqs -> {"none", "queued", "delivered", "acked"}] /\ reported \in [Seqs -> Nat]
        /\ inline \in [Seqs -> {"off", "route", "mark"}] /\ wire \in Seq(Seqs)
        /\ received \in {Lost} \cup (0..MaxSeq)
    OBVIOUS
  <2> QED BY <2>2, <2>4, <2>5, <2>6 DEF TypeOK
<1>2. Numbered
  <2>1. 0 \in 0..MaxSeq /\ \A s \in Seqs : Posted(s) <=> s <= 0
    BY DEF Posted, Seqs
  <2> QED BY <2>1 DEF Numbered
<1>3. OnlyRows
  BY DEF OnlyRows, Idle, NoReplay
<1>4. Reports /\ Cursor
  BY DEF Reports, Cursor
<1>5. HandedOn
  BY DEF HandedOn, Covered, Lost, Seqs
<1> QED BY <1>1, <1>2, <1>3, <1>4, <1>5 DEF DispatchInv

\* The request that posts a row, and its background dispatch.
LEMMA InlineStep ==
  ASSUME DispatchInv, NEW s \in Seqs, Post(s) \/ InlineSend(s) \/ InlineMark(s) \/ InlineLost(s)
  PROVE  DispatchInv'
<1> USE DEF connVars, clientVars
<1>0. TypeOK /\ Numbered /\ OnlyRows /\ Reports /\ Cursor /\ HandedOn
  BY DEF DispatchInv
<1>1. CASE Post(s)
  <2>0. HighWater \in 0..MaxSeq /\ (\A t \in Seqs : Posted(t) <=> t <= HighWater) /\ s = HighWater + 1
    BY <1>0, <1>1, HighWaterOK DEF Post
  <2>1. status' = [status EXCEPT ![s] = "queued"] /\ status[s] = "none"
        /\ inline' = [inline EXCEPT ![s] = "route"]
    BY <1>1, <2>0, DispatchAssumption DEF Post, Posted, Seqs
  <2>2. TypeOK'
    BY <1>0, <1>1, <2>1 DEF Post, TypeOK
  <2>3. Numbered'
    <3>1. s \in 0..MaxSeq /\ \A t \in Seqs : Posted(t)' <=> t <= s
      BY <1>0, <2>0, <2>1, DispatchAssumption DEF Posted, Seqs, TypeOK
    <3> QED BY <3>1 DEF Numbered
  <2>4. \A t \in Seqs : Posted(t) => Posted(t)'
    BY <1>0, <2>1 DEF Posted, TypeOK
  <2>5. OnlyRows'
    <3>1. Posted(s)'
      BY <1>0, <2>1 DEF Posted, TypeOK
    <3> QED BY <1>0, <1>1, <2>1, <2>4, <3>1 DEF OnlyRows, Post, TypeOK, Posted
  <2>6. Reports' /\ Cursor'
    BY <1>0, <1>1, <2>1 DEF Post, Reports, Cursor, TypeOK
  <2>7. HandedOn'
    BY <1>1, ClientKept DEF Post
  <2> QED BY <2>2, <2>3, <2>5, <2>6, <2>7 DEF DispatchInv
<1>2. CASE InlineSend(s) /\ ready
  <2>1. wire' \in Seq(Seqs) /\ (\A i \in 1..Len(wire') : Posted(wire'[i])) /\ UNCHANGED rowVars
    BY <1>0, <1>2, SendOK DEF InlineSend, OnlyRows
  <2>2. TypeOK'
    BY <1>0, <1>2, <2>1 DEF InlineSend, TypeOK, rowVars
  <2>3. OnlyRows'
    BY <1>0, <1>2, <2>1 DEF InlineSend, OnlyRows, Posted, rowVars, TypeOK
  <2> QED BY <1>2, <2>1, <2>2, <2>3, RowsKept, ClientKept DEF InlineSend, DispatchInv, rowVars
<1>3. CASE InlineLost(s) \/ (InlineSend(s) /\ ~ready)
  <2>1. /\ inline' = [inline EXCEPT ![s] = "off"] /\ UNCHANGED rowVars
        /\ UNCHANGED <<redrive, replay, wire, connVars, clientVars>>
    BY <1>3 DEF InlineSend, InlineLost
  <2>2. TypeOK'
    BY <1>0, <2>1 DEF TypeOK, rowVars
  <2>3. OnlyRows'
    BY <1>0, <2>1 DEF OnlyRows, Posted, rowVars, TypeOK
  <2> QED BY <2>1, <2>2, <2>3, RowsKept, ClientKept DEF DispatchInv, rowVars
<1>4. CASE InlineMark(s)
  <2>1. MarkDelivered({s})
    BY <1>4 DEF InlineMark
  <2>2. /\ status' \in [Seqs -> Statuses] /\ reported' \in [Seqs -> Nat] /\ ackSeq' = ackSeq /\ Reports'
        /\ \A t \in Seqs : (status'[t] = "none" <=> status[t] = "none")
                           /\ (status'[t] = "acked" <=> status[t] = "acked")
    BY <2>1, MarkOK
  <2>3. TypeOK'
    BY <1>0, <1>4, <2>2 DEF InlineMark, TypeOK, Statuses
  <2>4. OnlyRows'
    <3>1. \A t \in Seqs : Posted(t) => Posted(t)'
      BY <2>2 DEF Posted
    <3>2. \A t \in Seqs : inline'[t] # "off" => inline[t] # "off"
      BY <1>0, <1>4 DEF InlineMark, TypeOK
    <3>3. UNCHANGED <<redrive, replay, wire, acks>>
      BY <1>4 DEF InlineMark
    <3>4. /\ \A w \in Redrivers : redrive[w].todo \subseteq Seqs
          /\ replay.todo \subseteq Seqs /\ acks \subseteq Seqs
          /\ \A i \in 1..Len(wire) : wire[i] \in Seqs
      BY <1>0 DEF TypeOK
    <3> HIDE DEF Posted
    <3> QED BY <1>0, <3>1, <3>2, <3>3, <3>4 DEF OnlyRows
  <2>5. Numbered' /\ Cursor'
    BY <1>0, <2>2 DEF Numbered, Posted, Cursor
  <2> QED BY <1>4, <2>2, <2>3, <2>4, <2>5, ClientKept DEF InlineMark, DispatchInv
<1> QED BY <1>1, <1>2, <1>3, <1>4

\* The redrive of the sweep.
LEMMA RedriveStep == ASSUME DispatchInv, NEW w \in Redrivers, Redrive(w) PROVE DispatchInv'
<1> USE DEF connVars, clientVars
<1>0. TypeOK /\ Numbered /\ OnlyRows /\ Reports /\ Cursor /\ HandedOn
  BY DEF DispatchInv
<1>b. redrive \in [Redrivers -> Backlogs] /\ redrive[w] \in Backlogs
  BY <1>0 DEF TypeOK, Backlogs
<1>1. CASE RedriveFetch(w)
  <2> DEFINE S == {s \in Seqs : status[s] = "queued"}
             y == [redrive[w] EXCEPT !.todo = S]
  <2>1. UNCHANGED rowVars /\ UNCHANGED <<inline, replay, wire, connVars, clientVars>>
        /\ redrive' = [redrive EXCEPT ![w] = y]
    BY <1>1, <1>b DEF RedriveFetch, Backlogs
  <2>2. y \in Backlogs /\ y.todo = S /\ S \in SUBSET Seqs /\ \A s \in S : Posted(s)
    BY <1>b DEF Backlogs, Posted
  <2> HIDE DEF S, y
  <2>3. redrive' \in [Redrivers -> Backlogs]
    BY <1>b, <2>1, <2>2
  <2>4. TypeOK'
    BY <1>0, <2>1, <2>3 DEF TypeOK, rowVars, Backlogs
  <2>5. OnlyRows'
    BY <1>0, <1>b, <2>1, <2>2 DEF OnlyRows, Posted, rowVars
  <2> QED BY <2>1, <2>4, <2>5, RowsKept, ClientKept DEF DispatchInv, rowVars
<1>2. CASE RedriveSend(w)
  <2> DEFINE y == IF ready THEN [redrive[w] EXCEPT !.sent = TRUE] ELSE Idle
  <2>1. UNCHANGED rowVars /\ UNCHANGED <<inline, replay, connVars, clientVars>>
        /\ redrive' = [redrive EXCEPT ![w] = y]
    BY <1>2, <1>b DEF RedriveSend, Backlogs
  <2>2. y \in Backlogs /\ y.todo \subseteq redrive[w].todo
    BY <1>b DEF Backlogs, Idle
  <2> HIDE DEF y
  <2>3. wire' \in Seq(Seqs) /\ \A i \in 1..Len(wire') : Posted(wire'[i])
    <3>1. CASE ready
      <4>1. Min(redrive[w].todo) \in redrive[w].todo /\ redrive[w].todo \in SUBSET Seqs
        BY <1>2, <1>b, LeastOK DEF RedriveSend, Backlogs
      <4>2. Posted(Min(redrive[w].todo))
        BY <1>0, <4>1 DEF OnlyRows
      <4> QED BY <1>2, <3>1, <4>1, <4>2, SendOK DEF RedriveSend
    <3>2. CASE ~ready
      BY <1>0, <1>2, <3>2 DEF RedriveSend, TypeOK, OnlyRows
    <3> QED BY <3>1, <3>2
  <2>4. redrive' \in [Redrivers -> Backlogs]
    BY <1>b, <2>1, <2>2
  <2>5. TypeOK'
    BY <1>0, <2>1, <2>3, <2>4 DEF TypeOK, rowVars, Backlogs
  <2>6. OnlyRows'
    BY <1>0, <1>b, <2>1, <2>2, <2>3 DEF OnlyRows, Posted, rowVars
  <2> QED BY <2>1, <2>5, <2>6, RowsKept, ClientKept DEF DispatchInv, rowVars
<1>3. CASE RedriveMark(w)
  <2> DEFINE m == Min(redrive[w].todo)
             y == [todo |-> redrive[w].todo \ {m}, sent |-> FALSE]
  <2>1. MarkDelivered({m}) /\ UNCHANGED <<inline, replay, wire, connVars, clientVars>>
        /\ redrive' = [redrive EXCEPT ![w] = y]
    BY <1>3 DEF RedriveMark
  <2>2. y \in Backlogs /\ y.todo \subseteq redrive[w].todo
    BY <1>b DEF Backlogs
  <2> HIDE DEF m, y
  <2>3. /\ status' \in [Seqs -> Statuses] /\ reported' \in [Seqs -> Nat] /\ ackSeq' = ackSeq /\ Reports'
        /\ \A t \in Seqs : (status'[t] = "none" <=> status[t] = "none")
                           /\ (status'[t] = "acked" <=> status[t] = "acked")
    BY <2>1, MarkOK
  <2>4. redrive' \in [Redrivers -> Backlogs]
    BY <1>b, <2>1, <2>2
  <2>5. TypeOK'
    BY <1>0, <2>1, <2>3, <2>4 DEF TypeOK, Statuses, Backlogs
  <2>6. OnlyRows'
    BY <1>0, <1>b, <2>1, <2>2, <2>3 DEF OnlyRows, Posted, TypeOK, Backlogs
  <2>7. Numbered' /\ Cursor'
    BY <1>0, <2>3 DEF Numbered, Posted, Cursor
  <2> QED BY <2>1, <2>3, <2>5, <2>6, <2>7, ClientKept DEF DispatchInv
<1> QED BY <1>1, <1>2, <1>3 DEF Redrive

\* A step of the replay that only changes the replay, to one with fewer rows to send.
LEMMA ReplayMoves ==
  ASSUME DispatchInv, replay' \in Replays, \A s \in replay'.todo : Posted(s),
         UNCHANGED rowVars, UNCHANGED <<inline, redrive, connVars, clientVars>>,
         wire' \in Seq(Seqs), \A i \in 1..Len(wire') : Posted(wire'[i])
  PROVE  DispatchInv'
<1> USE DEF connVars, clientVars
<1>0. TypeOK /\ OnlyRows
  BY DEF DispatchInv
<1>1. TypeOK'
  BY <1>0 DEF TypeOK, Replays, rowVars
<1>2. OnlyRows'
  BY <1>0 DEF OnlyRows, Posted, rowVars
<1> QED BY <1>1, <1>2, RowsKept, ClientKept DEF DispatchInv, rowVars

\* The replay of a registration.
LEMMA ReplayStep == ASSUME DispatchInv, Replay PROVE DispatchInv'
<1> USE DEF connVars, clientVars
<1>0. TypeOK /\ Numbered /\ OnlyRows /\ Reports /\ Cursor /\ HandedOn
  BY DEF DispatchInv
<1>b. replay \in Replays /\ ackSeq \in 0..MaxSeq /\ wire \in Seq(Seqs)
      /\ (\A i \in 1..Len(wire) : Posted(wire[i])) /\ \A s \in replay.todo : Posted(s)
  BY <1>0 DEF TypeOK, Replays, OnlyRows
<1>n. NoReplay \in Replays /\ NoReplay.todo = {}
  BY DispatchAssumption DEF NoReplay, Replays
<1>1. CASE ReplayStart
  <2>1. HighWater \in 0..MaxSeq
    BY <1>0, HighWaterOK
  <2> HIDE DEF HighWater
  <2>2. replay' \in Replays /\ \A s \in replay'.todo : Posted(s)
    BY <1>1, <1>b, <1>n, <2>1 DEF ReplayStart, Replays
  <2> QED BY <1>1, <1>b, <2>2, ReplayMoves DEF ReplayStart
<1>2. CASE ReplayPage
  <2> DEFINE due == {s \in replay.cursor + 1 .. replay.high : Replayable(s)}
             page == {s \in due : Cardinality({t \in due : t <= s}) <= PageSize}
  <2>1. replay' = IF ready /\ page # {}
                  THEN [replay EXCEPT !.phase = "send", !.cursor = Max(page), !.todo = page, !.sent = {}]
                  ELSE NoReplay
    BY <1>2 DEF ReplayPage
  <2>2. page \subseteq due
    OBVIOUS
  <2>3. due \in SUBSET Seqs /\ \A s \in due : Posted(s)
    BY <1>b, DispatchAssumption DEF Replays, Seqs, Replayable, Posted
  <2> HIDE DEF page, due
  <2>4. page # {} => Max(page) \in 0..MaxSeq
    <3>1. page \in SUBSET Seqs
      BY <2>2, <2>3
    <3>2. page # {} => Max(page) \in Seqs
      BY <3>1, GreatestOK
    <3> QED BY <3>2, DispatchAssumption DEF Seqs
  <2>5. replay' \in Replays /\ \A s \in replay'.todo : Posted(s)
    <3>1. CASE ready /\ page # {}
      BY <1>b, <2>1, <2>2, <2>3, <2>4, <3>1 DEF Replays
    <3>2. CASE ~(ready /\ page # {})
      BY <1>n, <2>1, <3>2
    <3> QED BY <3>1, <3>2
  <2> QED BY <1>2, <1>b, <2>5, ReplayMoves DEF ReplayPage
<1>3. CASE ReplaySend
  <2> DEFINE m == Min(replay.todo)
  <2>1. m \in replay.todo /\ m \in Seqs /\ Posted(m)
    BY <1>3, <1>b, LeastOK DEF ReplaySend, Replays
  <2>2. UNCHANGED rowVars /\ UNCHANGED <<inline, redrive, connVars, clientVars>>
    BY <1>3 DEF ReplaySend
  <2>3. \/ replay' = [replay EXCEPT !.todo = @ \ {m}] /\ wire' = wire
        \/ replay' = [replay EXCEPT !.todo = @ \ {m}, !.sent = @ \cup {m}] /\ SendFrame(m)
        \/ replay' = [replay EXCEPT !.phase = "interrupted", !.todo = {}] /\ wire' = wire
    BY <1>3 DEF ReplaySend
  <2> HIDE DEF m
  <2>4. replay' \in Replays /\ replay'.todo \subseteq replay.todo
    <3>1. CASE replay' = [replay EXCEPT !.todo = @ \ {m}]
      BY <1>b, <3>1 DEF Replays
    <3>2. CASE replay' = [replay EXCEPT !.todo = @ \ {m}, !.sent = @ \cup {m}]
      BY <1>b, <2>1, <3>2 DEF Replays
    <3>3. CASE replay' = [replay EXCEPT !.phase = "interrupted", !.todo = {}]
      BY <1>b, <3>3 DEF Replays
    <3> QED BY <2>3, <3>1, <3>2, <3>3
  <2>5. wire' \in Seq(Seqs) /\ \A i \in 1..Len(wire') : Posted(wire'[i])
    BY <1>b, <2>1, <2>3, SendOK
  <2> QED BY <1>b, <2>2, <2>4, <2>5, ReplayMoves
<1>4. CASE ReplayMark
  <2>1. MarkDelivered(replay.sent) /\ UNCHANGED <<inline, redrive, wire, connVars, clientVars>>
    BY <1>4 DEF ReplayMark
  <2>2. replay' \in Replays /\ replay'.todo = {}
    BY <1>4, <1>b, <1>n DEF ReplayMark, Replays
  <2>3. /\ status' \in [Seqs -> Statuses] /\ reported' \in [Seqs -> Nat] /\ ackSeq' = ackSeq /\ Reports'
        /\ \A t \in Seqs : (status'[t] = "none" <=> status[t] = "none")
                           /\ (status'[t] = "acked" <=> status[t] = "acked")
    BY <2>1, MarkOK
  <2>4. TypeOK'
    BY <1>0, <2>1, <2>2, <2>3 DEF TypeOK, Statuses, Replays
  <2>5. OnlyRows'
    BY <1>0, <2>1, <2>2, <2>3 DEF OnlyRows, Posted, TypeOK
  <2>6. Numbered' /\ Cursor'
    BY <1>0, <2>3 DEF Numbered, Posted, Cursor
  <2> QED BY <2>1, <2>3, <2>4, <2>5, <2>6, ClientKept DEF DispatchInv
<1> QED BY <1>1, <1>2, <1>3, <1>4 DEF Replay

\* Connections come and go.
LEMMA ConnectionStep ==
  ASSUME DispatchInv, Connect \/ NodeRegister \/ AgentUp \/ Drop \/ NodeConnectionClose \/ Crash
  PROVE  DispatchInv'
<1>0. TypeOK /\ Numbered /\ OnlyRows /\ Reports /\ Cursor /\ HandedOn
  BY DEF DispatchInv
<1>b. /\ replay \in Replays /\ MaxConn[client] \in Nat /\ client \in Clients
      /\ bound \in 0..MaxConn[client] /\ conns \in 0..MaxConn[client] /\ link \in 0..MaxConn[client]
  BY <1>0, DispatchAssumption DEF TypeOK, Replays
<1>n. NoReplay \in Replays /\ NoReplay.todo = {} /\ [NoReplay EXCEPT !.phase = "roster"] \in Replays
      /\ [NoReplay EXCEPT !.phase = "roster"].todo = {}
  BY DispatchAssumption DEF NoReplay, Replays
<1>1. UNCHANGED rowVars /\ client' = client
  BY DEF Connect, NodeRegister, AgentUp, Drop, NodeConnectionClose, Crash
<1>2. Numbered' /\ Reports' /\ Cursor'
  BY <1>1, RowsKept
<1>3. CASE Connect
  <2>1. TypeOK'
    <3>1. conns' \in 0..MaxConn[client] /\ link' \in 0..MaxConn[client] /\ bound' = bound
      BY <1>b, <1>3 DEF Connect
    <3> QED BY <1>0, <1>1, <1>3, <1>b, <3>1 DEF Connect, TypeOK, rowVars, clientVars
  <2>2. OnlyRows'
    BY <1>0, <1>1, <1>3 DEF Connect, OnlyRows, Posted, rowVars, clientVars
  <2> QED BY <1>1, <1>2, <1>3, <2>1, <2>2, ClientKept DEF Connect, DispatchInv, rowVars
<1>4. CASE NodeRegister
  <2>1. replay' \in Replays /\ replay'.todo \subseteq replay.todo
    BY <1>4, <1>b, <1>n DEF NodeRegister
  <2>2. TypeOK'
    BY <1>0, <1>1, <1>4, <1>b, <2>1 DEF NodeRegister, AttachProvider, TypeOK, rowVars, clientVars, Replays
  <2>3. OnlyRows'
    BY <1>0, <1>1, <1>4, <2>1 DEF NodeRegister, OnlyRows, Posted, rowVars, clientVars
  <2> QED BY <1>1, <1>2, <1>4, <2>2, <2>3, ClientKept DEF NodeRegister, DispatchInv, rowVars
<1>5. CASE AgentUp
  <2>1. replay' \in Replays /\ replay'.todo = {}
    BY <1>5, <1>n DEF AgentUp
  <2>2. received' \in {Lost} \cup (0..MaxSeq)
    BY <1>0, <1>5 DEF AgentUp, TypeOK
  <2>3. TypeOK'
    BY <1>0, <1>1, <1>5, <1>b, <2>1, <2>2 DEF AgentUp, TypeOK, rowVars, Replays
  <2>4. OnlyRows'
    BY <1>0, <1>1, <1>5, <2>1 DEF AgentUp, OnlyRows, Posted, rowVars
  <2>5. HandedOn'
    BY <1>0, <1>1, <1>5 DEF AgentUp, HandedOn, Covered, rowVars
  <2> QED BY <1>2, <2>3, <2>4, <2>5 DEF DispatchInv
<1>6. CASE Drop
  <2>1. acks' \subseteq acks /\ received' \in {received, Lost} /\ link' = 0 /\ wire' = <<>>
    BY <1>6 DEF Drop
  <2>2. TypeOK'
    BY <1>0, <1>1, <1>6, <1>b, <2>1 DEF Drop, TypeOK, rowVars
  <2>3. OnlyRows'
    BY <1>0, <1>1, <1>6, <2>1 DEF Drop, OnlyRows, Posted, rowVars
  <2>4. HandedOn'
    BY <1>0, <1>1, <1>6, <2>1, DispatchAssumption DEF Drop, HandedOn, Covered, rowVars, Lost, Seqs, TypeOK
  <2> QED BY <1>2, <2>2, <2>3, <2>4 DEF DispatchInv
<1>7. CASE NodeConnectionClose
  <2>1. TypeOK'
    <3>0. bound' = 0 /\ conns' = conns /\ link' \in {0, link} /\ ready' = FALSE
      BY <1>7 DEF NodeConnectionClose
    <3>1. {bound', conns', link'} \subseteq 0..MaxConn[client]
      BY <1>b, <3>0
    <3> QED BY <1>0, <1>1, <1>7, <3>0, <3>1 DEF NodeConnectionClose, TypeOK, rowVars, clientVars
  <2>2. OnlyRows'
    BY <1>0, <1>1, <1>7 DEF NodeConnectionClose, OnlyRows, Posted, rowVars, clientVars
  <2> QED BY <1>1, <1>2, <1>7, <2>1, <2>2, ClientKept DEF NodeConnectionClose, DispatchInv, rowVars
<1>8. CASE Crash
  <2>1. Idle \in Backlogs /\ Idle.todo = {}
    BY DEF Idle, Backlogs
  <2>2. redrive' \in [Redrivers -> Backlogs] /\ \A w \in Redrivers : redrive'[w].todo = {}
    BY <1>8, <2>1 DEF Crash
  <2>3. TypeOK'
    <3>0. bound' = 0 /\ conns' = conns /\ link' \in {0, link} /\ ready' = FALSE
      BY <1>8 DEF Crash
    <3>1. {bound', conns', link'} \subseteq 0..MaxConn[client]
      BY <1>b, <3>0
    <3>2. replay' \in Replays /\ wire' \in Seq(Seqs) /\ acks' \in SUBSET Seqs
          /\ inline' \in [Seqs -> {"off", "route", "mark"}]
      BY <1>8, <1>n DEF Crash
    <3>3. received' = received /\ injected' = injected
      BY <1>8 DEF Crash
    <3> QED BY <1>0, <1>1, <2>2, <3>0, <3>1, <3>2, <3>3 DEF TypeOK, rowVars, Backlogs, Replays
  <2>4. OnlyRows'
    BY <1>n, <1>8, <2>2 DEF Crash, OnlyRows
  <2>5. HandedOn'
    BY <1>0, <1>1, <1>8 DEF Crash, HandedOn, Covered, rowVars
  <2> QED BY <1>2, <2>3, <2>4, <2>5 DEF DispatchInv
<1> QED BY <1>3, <1>4, <1>5, <1>6, <1>7, <1>8

\* The client takes a frame and acknowledges it; a broker only the next row it expects.
LEMMA ReceiveStep == ASSUME DispatchInv, ClientReceive PROVE DispatchInv'
<1> USE DEF connVars, clientVars
<1>0. TypeOK /\ Numbered /\ OnlyRows /\ Reports /\ Cursor /\ HandedOn
  BY DEF DispatchInv
<1> DEFINE s == Head(wire)
<1>1. UNCHANGED rowVars /\ UNCHANGED <<inline, redrive, replay, connVars>>
      /\ wire # <<>> /\ wire' = Tail(wire)
      /\ \/ /\ client = "sdk" \/ s = received + 1
            /\ injected' = injected \cup {s} /\ acks' = acks \cup {s}
            /\ received' = IF client = "broker" THEN s ELSE received
         \/ UNCHANGED clientVars
  BY DEF ClientReceive
<1>2. s \in Seqs /\ Posted(s) /\ wire' \in Seq(Seqs) /\ \A i \in 1..Len(wire') : Posted(wire'[i])
  <2>1. wire \in Seq(Seqs) /\ wire # <<>> /\ \A i \in 1..Len(wire) : Posted(wire[i])
    BY <1>0, <1>1 DEF TypeOK, OnlyRows
  <2>2. Len(wire) >= 1 /\ s = wire[1]
    BY <2>1
  <2>3. wire' \in Seq(Seqs) /\ Len(wire') = Len(wire) - 1 /\ \A i \in 1..Len(wire') : wire'[i] = wire[i + 1]
    BY <1>1, <2>1
  <2> QED BY <2>1, <2>2, <2>3
<1> HIDE DEF s
<1>3. TypeOK'
  <2>1. received' \in {Lost} \cup (0..MaxSeq) /\ acks' \in SUBSET Seqs /\ injected' \in SUBSET Seqs
    <3>1. acks \in SUBSET Seqs /\ injected \in SUBSET Seqs /\ received \in {Lost} \cup (0..MaxSeq)
      BY <1>0 DEF TypeOK
    <3>2. s \in 0..MaxSeq
      BY <1>2, DispatchAssumption DEF Seqs
    <3> HIDE DEF Lost
    <3> QED BY <1>1, <1>2, <3>1, <3>2
  <2> QED BY <1>0, <1>1, <1>2, <2>1 DEF TypeOK, rowVars
<1>4. OnlyRows'
  BY <1>0, <1>1, <1>2 DEF OnlyRows, Posted, rowVars
<1>5. HandedOn'
  <2>1. CASE UNCHANGED clientVars
    BY <1>1, <2>1, ClientKept DEF rowVars
  <2>2. CASE client = "broker" /\ s = received + 1 /\ injected' = injected \cup {s} /\ acks' = acks \cup {s}
             /\ received' = s
    <3> SUFFICES ASSUME NEW t \in Seqs, Covered(t)' PROVE t \in injected'
      BY DEF HandedOn
    <3>1. t \in Nat /\ s \in Nat /\ received \in Int
      BY <1>0, <1>2, <2>2, DispatchAssumption DEF Seqs, TypeOK, Lost
    <3>2. ackSeq' = ackSeq
      BY <1>1 DEF rowVars
    <3>3. t # s /\ t <= s => t <= received
      BY <2>2, <3>1
    <3>4. t = s \/ Covered(t)
      BY <2>2, <3>2, <3>3 DEF Covered
    <3> QED BY <1>0, <2>2, <3>4 DEF HandedOn
  <2>3. CASE client # "broker"
    BY <1>1, <2>3 DEF HandedOn
  <2>4. client \in {"sdk", "broker"}
    BY <1>0, DispatchAssumption DEF TypeOK
  <2> QED BY <1>1, <2>1, <2>2, <2>3, <2>4
<1> QED BY <1>1, <1>3, <1>4, <1>5, RowsKept DEF DispatchInv

\* A cumulative ack.
LEMMA AckStep == ASSUME DispatchInv, NEW u \in acks, DeliveryAck(u) PROVE DispatchInv'
<1> USE DEF connVars
<1>0. TypeOK /\ Numbered /\ OnlyRows /\ Reports /\ Cursor /\ HandedOn
  BY DEF DispatchInv
<1>1. acks' = acks \ {u} /\ UNCHANGED <<reported, inline, redrive, replay, wire, received, injected, connVars>>
  BY DEF DeliveryAck
<1>2. u \in Seqs /\ Posted(u) /\ ackSeq \in 0..MaxSeq
  BY <1>0 DEF TypeOK, OnlyRows
<1>3. CASE u > ackSeq
  <2>1. status' = [s \in Seqs |-> IF s <= u THEN "acked" ELSE status[s]] /\ ackSeq' = u
    BY <1>3 DEF DeliveryAck
  <2>2. \A s \in Seqs : s <= u => Posted(s)
    <3>1. PICK h \in 0..MaxSeq : \A s \in Seqs : Posted(s) <=> s <= h
      BY <1>0 DEF Numbered
    <3> QED BY <1>2, <3>1, DispatchAssumption DEF Seqs
  <2>3. \A s \in Seqs : Posted(s)' <=> Posted(s)
    BY <2>1, <2>2 DEF Posted
  <2>4. TypeOK'
    <3>1. ackSeq' \in 0..MaxSeq /\ acks' \in SUBSET Seqs
      BY <1>0, <1>1, <1>2, <2>1, DispatchAssumption DEF TypeOK, Seqs
    <3>2. status' \in [Seqs -> {"none", "queued", "delivered", "acked"}]
      BY <1>0, <2>1 DEF TypeOK
    <3> QED BY <1>0, <1>1, <3>1, <3>2 DEF TypeOK
  <2>5. Numbered'
    BY <1>0, <2>3 DEF Numbered
  <2>6. OnlyRows'
    <3>1. \A s \in Seqs : inline'[s] # "off" => Posted(s)'
      BY <1>0, <1>1, <2>3 DEF OnlyRows
    <3>2. \A w \in Redrivers : \A s \in redrive'[w].todo : Posted(s)'
      BY <1>0, <1>1, <2>3 DEF OnlyRows, TypeOK
    <3>3. (\A s \in replay'.todo : Posted(s)') /\ \A v \in acks' : Posted(v)'
      BY <1>0, <1>1, <2>3 DEF OnlyRows, TypeOK
    <3>4. \A i \in 1..Len(wire') : status'[wire'[i]] # "none"
      <4>1. \A i \in 1..Len(wire) : wire[i] \in Seqs /\ Posted(wire[i])
        BY <1>0 DEF OnlyRows, TypeOK
      <4> QED BY <1>1, <2>3, <4>1 DEF Posted
    <3> QED BY <3>1, <3>2, <3>3, <3>4 DEF OnlyRows, Posted
  <2>7. Reports'
    BY <1>0, <1>1, <2>1 DEF Reports
  <2>8. Cursor'
    <3>1. \A s \in Seqs : s \in Nat
      BY DispatchAssumption DEF Seqs
    <3> QED BY <1>0, <1>2, <1>3, <2>1, <3>1 DEF Cursor
  <2>9. HandedOn'
    <3> SUFFICES ASSUME client = "broker", NEW s \in Seqs, Covered(s)' PROVE s \in injected
      BY <1>1 DEF HandedOn
    <3>1. Covered(s)
      BY <1>1, <2>1 DEF Covered
    <3> QED BY <1>0, <3>1 DEF HandedOn
  <2> QED BY <2>4, <2>5, <2>6, <2>7, <2>8, <2>9 DEF DispatchInv
<1>4. CASE ~(u > ackSeq)
  <2>1. UNCHANGED rowVars
    BY <1>1, <1>4 DEF DeliveryAck, rowVars
  <2>2. TypeOK'
    BY <1>0, <1>1, <2>1 DEF TypeOK, rowVars
  <2>3. OnlyRows'
    BY <1>0, <1>1, <2>1 DEF OnlyRows, Posted, rowVars
  <2>4. HandedOn'
    BY <1>0, <1>1, <2>1 DEF HandedOn, Covered, rowVars
  <2> QED BY <2>1, <2>2, <2>3, <2>4, RowsKept DEF DispatchInv
<1> QED BY <1>3, <1>4

\* Every step keeps the invariant.
LEMMA DispatchStep == DispatchInv /\ [Next]_vars => DispatchInv'
<1> SUFFICES ASSUME DispatchInv, [Next]_vars PROVE DispatchInv'
  OBVIOUS
<1>1. CASE UNCHANGED vars
  BY <1>1 DEF vars, DispatchInv, TypeOK, Numbered, OnlyRows, Posted, Reports, Cursor, HandedOn, Covered
<1> QED BY <1>1, InlineStep, RedriveStep, ReplayStep, ConnectionStep, ReceiveStep, AckStep DEF Next

\* The inductive invariant holds throughout.
LEMMA DispatchInvariant == Spec => []DispatchInv
BY DispatchStart, DispatchStep, PTL DEF Spec

-----------------------------------------------------------------------------
(* Theorems about Dispatch *)

\* Rows, connections, backlogs and frames are well formed: nothing is sent or
\* acknowledged that was not numbered.
THEOREM DispatchTypeCorrect == Spec => []TypeOK
<1>1. DispatchInv => TypeOK
  BY DEF DispatchInv
<1> QED BY <1>1, DispatchInvariant, PTL

\* The sender of a row is told once that it was delivered, whichever of the background
\* dispatch, the redrive and the replay send it and however often (markDelivered).
THEOREM DispatchReportedOnce == Spec => []ReportedOnce
<1>1. DispatchInv => ReportedOnce
  BY DEF DispatchInv, Reports, ReportedOnce
<1> QED BY <1>1, DispatchInvariant, PTL

\* With a broker a row is settled only if its message was handed to the agent: neither a
\* cumulative ack nor the cursor that agent.register gives back skips one.
THEOREM DispatchAckedWasInjected == Spec => []AckedWasInjected
<1>1. DispatchInv => AckedWasInjected
  BY DEF DispatchInv, Cursor, HandedOn, Covered, AckedWasInjected
<1> QED BY <1>1, DispatchInvariant, PTL

\* The queue sees nothing of a step.
Unseen ==
  /\ \A s \in Seqs : (status'[s] = "none" <=> status[s] = "none")
                     /\ (status'[s] = "acked" <=> status[s] = "acked")
  /\ ackSeq' = ackSeq

\* What a step can do to the queue: nothing, post a row, or settle the rows up to an ack.
LEMMA QueueSteps ==
  ASSUME DispatchInv, [Next]_vars
  PROVE  Unseen \/ (\E s \in Seqs : Post(s)) \/ \E u \in acks : DeliveryAck(u) /\ u > ackSeq
<1>1. UNCHANGED rowVars => Unseen
  BY DEF rowVars, Unseen
<1>2. ASSUME NEW S, MarkDelivered(S) PROVE Unseen
  BY <1>2, MarkOK DEF Unseen
<1>3. ASSUME NEW s \in Seqs, InlineSend(s) \/ InlineMark(s) \/ InlineLost(s) PROVE Unseen
  BY <1>1, <1>2, <1>3 DEF InlineSend, InlineMark, InlineLost
<1>4. ASSUME NEW w \in Redrivers, Redrive(w) PROVE Unseen
  BY <1>1, <1>2, <1>4 DEF Redrive, RedriveFetch, RedriveSend, RedriveMark
<1>5. ASSUME Replay PROVE Unseen
  BY <1>1, <1>2, <1>5 DEF Replay, ReplayStart, ReplayPage, ReplaySend, ReplayMark
<1>6. ASSUME Connect \/ NodeRegister \/ AgentUp \/ Drop \/ NodeConnectionClose \/ Crash PROVE Unseen
  BY <1>1, <1>6 DEF Connect, NodeRegister, AgentUp, Drop, NodeConnectionClose, Crash
<1>7. ASSUME ClientReceive PROVE Unseen
  BY <1>1, <1>7 DEF ClientReceive
<1>8. ASSUME NEW u \in acks, DeliveryAck(u), ~(u > ackSeq) PROVE Unseen
  BY <1>1, <1>8 DEF DeliveryAck, rowVars
<1>9. ASSUME UNCHANGED vars PROVE Unseen
  BY <1>1, <1>9 DEF vars, rowVars
<1> QED BY <1>3, <1>4, <1>5, <1>6, <1>7, <1>8, <1>9 DEF Next

\* The cursor stands on a row.
OnRow == ackSeq # 0 => Posted(ackSeq)

LEMMA OnRowStep == DispatchInv /\ OnRow /\ [Next]_vars => OnRow'
<1> SUFFICES ASSUME DispatchInv, OnRow, [Next]_vars PROVE OnRow'
  OBVIOUS
<1>1. /\ status \in [Seqs -> Statuses] /\ ackSeq \in 0..MaxSeq
      /\ \A u \in acks : u \in Seqs /\ Posted(u)
  BY DEF DispatchInv, TypeOK, Statuses, OnlyRows
<1>2. ackSeq # 0 => ackSeq \in Seqs
  BY <1>1, DispatchAssumption DEF Seqs
<1>3. ASSUME NEW s \in Seqs, Post(s) PROVE OnRow'
  BY <1>1, <1>2, <1>3 DEF Post, OnRow, Posted
<1>4. ASSUME NEW u \in acks, DeliveryAck(u), u > ackSeq PROVE OnRow'
  <2>1. ackSeq' = u /\ status' = [s \in Seqs |-> IF s <= u THEN "acked" ELSE status[s]]
    BY <1>4 DEF DeliveryAck
  <2>2. u \in Seqs /\ status'[u] \in Statuses /\ status'[u] # "none"
    BY <1>1, <2>1 DEF Statuses, Posted
  <2> QED BY <2>1, <2>2 DEF OnRow, Posted
<1> QED BY <1>2, <1>3, <1>4, QueueSteps DEF Unseen, OnRow, Posted

\* The values of BoxOf.
LEMMA BoxTable ==
  /\ BoxOf("none") = "absent"
  /\ BoxOf("queued") = "open" /\ BoxOf("delivered") = "open"
  /\ BoxOf("acked") = "read"
BY DEF BoxOf

\* A post accepts the row under the next number.
LEMMA PostAccepts == ASSUME DispatchInv, OnRow, NEW s \in Seqs, Post(s) PROVE Queue!Accept(s)
<1>1. /\ status \in [Seqs -> Statuses] /\ ackSeq \in 0..MaxSeq
      /\ s = HighWater + 1 /\ status' = [status EXCEPT ![s] = "queued"] /\ ackSeq' = ackSeq
  BY DEF DispatchInv, TypeOK, Statuses, Post
<1>2. HighWater \in Nat /\ \A t \in Seqs : t \in Nat /\ (Posted(t) <=> t <= HighWater)
  BY HighWaterOK, DispatchAssumption DEF DispatchInv, Seqs
<1>3. status[s] = "none" /\ ackSeq < s /\ \A t \in Seqs : status[t] # "none" => t < s
  <2>1. ackSeq # 0 => ackSeq \in Seqs
    BY <1>1, DispatchAssumption DEF Seqs
  <2> QED BY <1>1, <1>2, <2>1 DEF OnRow, Posted
<1>4. \A t \in Seqs : status'[t] = IF t = s THEN "queued" ELSE status[t]
  BY <1>1
<1>5. \A r \in Stream : r[1] \in Seqs /\ r[2] = "agent" /\ (BoxOf(status'[r[1]]) # BoxOf(status[r[1]]) => r[1] = s)
  BY <1>4 DEF Stream
<1>6. ASSUME NEW r \in Stream, BoxOf(status'[r[1]]) # BoxOf(status[r[1]])
      PROVE  /\ r[1] = s /\ BoxOf(status[r[1]]) = "absent" /\ BoxOf(status'[r[1]]) = "open"
             /\ (IF status'[r[1]] = "none" THEN 0 ELSE r[1]) > ackSeq
             /\ \A k \in Stream : (IF status[k[1]] = "none" THEN 0 ELSE k[1])
                                     < (IF status'[r[1]] = "none" THEN 0 ELSE r[1])
  <2>1. r[1] = s /\ status'[s] = "queued"
    BY <1>4, <1>5, <1>6
  <2>2. \A k \in Stream : k[1] \in Seqs
    BY DEF Stream
  <2>3. s \in Nat /\ s > 0 /\ ackSeq \in Nat /\ \A t \in Seqs : t \in Nat
    BY <1>1, <1>2, DispatchAssumption DEF Seqs
  <2>4. \A k \in Stream : (IF status[k[1]] = "none" THEN 0 ELSE k[1]) < s
    BY <1>3, <2>2, <2>3
  <2> QED BY <1>3, <2>1, <2>3, <2>4, BoxTable
<1>7. ASSUME NEW r \in Stream, BoxOf(status'[r[1]]) = BoxOf(status[r[1]])
      PROVE  status'[r[1]] = status[r[1]]
  BY <1>3, <1>4, <1>5, <1>7, BoxTable
<1> QED BY <1>1, <1>5, <1>6, <1>7 DEF Queue!Accept, Queue!Items, Stream

\* A cumulative ack that moves the cursor.
LEMMA AckAcknowledges ==
  ASSUME DispatchInv, NEW u \in acks, DeliveryAck(u), u > ackSeq
  PROVE  Queue!Acknowledge("agent")
<1>1. /\ status \in [Seqs -> Statuses] /\ ackSeq \in 0..MaxSeq /\ u \in Seqs /\ Posted(u)
      /\ ackSeq' = u /\ status' = [s \in Seqs |-> IF s <= u THEN "acked" ELSE status[s]]
  BY DEF DispatchInv, TypeOK, Statuses, OnlyRows, DeliveryAck
<1>2. \A s \in Seqs : s \in Nat /\ (s <= u => status[s] # "none")
  <2>1. HighWater \in Nat /\ \A t \in Seqs : t \in Nat /\ (Posted(t) <=> t <= HighWater)
    BY HighWaterOK, DispatchAssumption DEF DispatchInv, Seqs
  <2> QED BY <1>1, <2>1 DEF Posted
<1>3. \A s \in Seqs : status'[s] = IF s <= u THEN "acked" ELSE status[s]
  BY <1>1
<1>4. \A r \in Stream : r[1] \in Seqs /\ r[2] = "agent"
  BY DEF Stream
<1>5. ASSUME NEW r \in Stream, BoxOf(status'[r[1]]) # BoxOf(status[r[1]])
      PROVE  BoxOf(status[r[1]]) = "open" /\ BoxOf(status'[r[1]]) = "read"
  BY <1>1, <1>2, <1>3, <1>4, <1>5, BoxTable DEF Statuses
<1>6. ASSUME NEW r \in Stream, BoxOf(status'[r[1]]) \in {"open", "parked"}
      PROVE  status'[r[1]] # "none" /\ r[1] > u
  BY <1>1, <1>2, <1>3, <1>4, <1>6, BoxTable
<1>7. \A r \in Stream : (IF status'[r[1]] = "none" THEN 0 ELSE r[1]) = (IF status[r[1]] = "none" THEN 0 ELSE r[1])
  BY <1>2, <1>3, <1>4
<1> DEFINE cur == [a \in {"agent"} |-> ackSeq]
           new == [a \in {"agent"} |-> u]
<1>8. new = [cur EXCEPT !["agent"] = new["agent"]] /\ new["agent"] = u /\ cur["agent"] = ackSeq
  OBVIOUS
<1>9. u \in Nat /\ u >= ackSeq
  BY <1>1, <1>2
<1>10. /\ [a \in {"agent"} |-> ackSeq]' = new
       /\ [r \in Stream |-> IF status[r[1]] = "none" THEN 0 ELSE r[1]]'
          = [r \in Stream |-> IF status[r[1]] = "none" THEN 0 ELSE r[1]]
  BY <1>1, <1>7
<1> QED BY <1>4, <1>5, <1>6, <1>8, <1>9, <1>10 DEF Queue!Acknowledge, Queue!Items, Queue!Outstanding, Stream

\* Posting, sending over three paths, replaying and acknowledging the rows of an agent
\* does to its queue what the mailbox allows.
THEOREM DispatchImplementsMailbox == Spec => ImplementsMailbox
<1>1. Init => Queue!BoxInit /\ OnRow
  BY BoxTable DEF Init, OnRow, Queue!BoxInit, Queue!Items, Stream
<1>2. DispatchInv /\ OnRow /\ [Next]_vars => [Queue!BoxNext]_(Queue!boxVars)
  <2> SUFFICES ASSUME DispatchInv, OnRow, [Next]_vars
               PROVE  Queue!BoxNext \/ UNCHANGED Queue!boxVars
    OBVIOUS
  <2>1. CASE \E s \in Seqs : Post(s)
    BY <2>1, PostAccepts DEF Queue!BoxNext
  <2>2. CASE \E u \in acks : DeliveryAck(u) /\ u > ackSeq
    BY <2>2, AckAcknowledges DEF Queue!BoxNext
  <2>3. CASE Unseen
    <3>1. status \in [Seqs -> Statuses] /\ status' \in [Seqs -> Statuses]
      BY DispatchStep DEF DispatchInv, TypeOK, Statuses
    <3>2. \A s \in Seqs : BoxOf(status'[s]) = BoxOf(status[s])
      <4> SUFFICES ASSUME NEW s \in Seqs PROVE BoxOf(status'[s]) = BoxOf(status[s])
        OBVIOUS
      <4>1. status[s] \in Statuses /\ status'[s] \in Statuses
        BY <3>1
      <4>2. \/ status[s] = status'[s]
            \/ status[s] \in {"queued", "delivered"} /\ status'[s] \in {"queued", "delivered"}
        BY <2>3, <4>1 DEF Unseen, Statuses
      <4> QED BY <4>2, BoxTable
    <3>3. \A r \in Stream : r[1] \in Seqs
      BY DEF Stream
    <3>4. /\ [r \in Stream |-> BoxOf(status'[r[1]])] = [r \in Stream |-> BoxOf(status[r[1]])]
          /\ [r \in Stream |-> IF status'[r[1]] = "none" THEN 0 ELSE r[1]]
             = [r \in Stream |-> IF status[r[1]] = "none" THEN 0 ELSE r[1]]
      BY <2>3, <3>2, <3>3 DEF Unseen
    <3> QED BY <2>3, <3>4 DEF Unseen, Queue!boxVars
  <2> QED BY <2>1, <2>2, <2>3, QueueSteps
<1> QED BY <1>1, <1>2, OnRowStep, DispatchInvariant, PTL
        DEF Spec, ImplementsMailbox, Queue!BoxSpec

-----------------------------------------------------------------------------
(* HttpPush *)

\* An attempt ends in time, and before the token of its claim comes due.
Lease ==
  \A d \in Dispatchers : Attempting(d) =>
    /\ now <= job[d].until
    /\ job[d].until <= now + Attempt
    /\ rowStatus # "acked" => next > job[d].until

\* A token that was fetched was due.
TokensAreDue ==
  \A d \in Dispatchers : job[d].pc = "claim" => job[d].token <= now

\* The row's ack is reported with the transition, which is the last one.
AckReported == acked = (IF rowStatus = "acked" THEN 1 ELSE 0)

PushInv == PushTypeOK /\ Lease /\ TokensAreDue /\ OneAttempt /\ AckReported

\* Every step keeps the types.
LEMMA PushTypeStep == PushTypeOK /\ [PushNext]_pushVars => PushTypeOK'
<1> SUFFICES ASSUME PushTypeOK, [PushNext]_pushVars PROVE PushTypeOK'
  OBVIOUS
<1> USE PushAssumption DEF PushTypeOK, Jobs, IdleJob, Null
<1>1. ASSUME NEW d \in Dispatchers, Fetch(d) PROVE PushTypeOK'
  BY <1>1 DEF Fetch
<1>2. ASSUME NEW d \in Dispatchers, Claim(d) PROVE PushTypeOK'
  BY <1>2 DEF Claim
<1>3. ASSUME NEW d \in Dispatchers, Misconfigured(d) \/ RecordRetry(d) PROVE PushTypeOK'
  BY <1>3 DEF Misconfigured, RecordRetry
<1>4. ASSUME NEW d \in Dispatchers, Response(d, "accepted") \/ Response(d, "rejected") PROVE PushTypeOK'
  BY <1>4 DEF Response
<1>5. ASSUME NEW d \in Dispatchers, PushMarkDelivered(d) \/ AckInResponse(d) \/ Die(d) PROVE PushTypeOK'
  BY <1>5 DEF PushMarkDelivered, AckInResponse, Die
<1>6. CASE Ack \/ Fail \/ Defer \/ Tick
  BY <1>6 DEF Ack, Fail, Defer, Tick
<1>7. CASE UNCHANGED pushVars
  BY <1>7 DEF pushVars
<1>8. QED BY <1>1, <1>2, <1>3, <1>4, <1>5, <1>6, <1>7 DEF PushNext

\* Every step keeps the four parts that relate token, lease and report.
LEMMA PushStep == PushInv /\ [PushNext]_pushVars => PushInv'
<1> SUFFICES ASSUME PushInv, [PushNext]_pushVars PROVE PushInv'
  OBVIOUS
<1> DEFINE Rest == Lease /\ TokensAreDue /\ OneAttempt /\ AckReported
<1>0. PushTypeOK'
  BY PushTypeStep DEF PushInv
<1> USE PushAssumption DEF PushInv, PushTypeOK, Jobs, IdleJob, Null, Lease, TokensAreDue,
      OneAttempt, AckReported, Attempting
<1>1. ASSUME NEW d \in Dispatchers, Fetch(d) PROVE Rest'
  BY <1>1 DEF Fetch, Due
<1>2. ASSUME NEW d \in Dispatchers, Claim(d) PROVE Rest'
  <2>1. CASE rowStatus = "queued" /\ next = job[d].token
    <3>1. \A e \in Dispatchers : ~Attempting(e)
      BY <1>2, <2>1 DEF Claim
    <3>2. QED BY <1>2, <2>1, <3>1 DEF Claim
  <2>2. CASE ~(rowStatus = "queued" /\ next = job[d].token)
    BY <1>2, <2>2 DEF Claim
  <2>3. QED BY <2>1, <2>2
<1>3. ASSUME NEW d \in Dispatchers, Misconfigured(d) \/ RecordRetry(d) PROVE Rest'
  BY <1>3 DEF Misconfigured, RecordRetry
<1>4. ASSUME NEW d \in Dispatchers, Response(d, "accepted") \/ Response(d, "rejected") PROVE Rest'
  BY <1>4 DEF Response
<1>5. ASSUME NEW d \in Dispatchers, PushMarkDelivered(d) PROVE Rest'
  BY <1>5 DEF PushMarkDelivered
<1>6. ASSUME NEW d \in Dispatchers, AckInResponse(d) PROVE Rest'
  BY <1>6 DEF AckInResponse
<1>7. ASSUME NEW d \in Dispatchers, Die(d) PROVE Rest'
  BY <1>7 DEF Die
<1>8. CASE Ack \/ Fail \/ Defer
  BY <1>8 DEF Ack, Fail, Defer
<1>9. CASE Tick
  BY <1>9 DEF Tick
<1>10. CASE UNCHANGED pushVars
  BY <1>10 DEF pushVars
<1>11. QED BY <1>0, <1>1, <1>2, <1>3, <1>4, <1>5, <1>6, <1>7, <1>8, <1>9, <1>10 DEF PushNext

\* The inductive invariant holds throughout.
LEMMA PushInvariant == PushSpec => []PushInv
<1>1. PushInit => PushInv
  BY PushAssumption DEF PushInit, PushInv, PushTypeOK, Jobs, IdleJob, Null, Lease, TokensAreDue,
     OneAttempt, AckReported, Attempting
<1>2. QED BY <1>1, PushStep, PTL DEF PushSpec

\* dispatchHttpPush never POSTs a row twice at the same time.
THEOREM AttemptsAreExclusive == PushSpec => []OneAttempt
<1>1. PushInv => OneAttempt
  BY DEF PushInv
<1>2. QED BY <1>1, PushInvariant, PTL

\* The sender of an http_push row is told of its ack at most once.
THEOREM AcksAreReportedOnce == PushSpec => []AckedOnce
<1>1. PushInv => AckedOnce
  BY DEF PushInv, AckReported, AckedOnce
<1>2. QED BY <1>1, PushInvariant, PTL

=============================================================================
