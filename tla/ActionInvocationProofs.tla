---------------------- MODULE ActionInvocationProofs ----------------------
(***************************************************************************)
(* Proofs about ActionInvocation.  What every execution may do to the      *)
(* invocation row is one of seven writes (RowStep below); what a worker    *)
(* still knows of the row after an await is stated by Linked.              *)
(***************************************************************************)
EXTENDS ActionInvocation, TLAPS

-----------------------------------------------------------------------------
(* The inductive invariant *)

\* Where a worker can be in its operation.
Pcs == {"off", "insert", "revalidate", "unsent", "agentsend", "gate", "queue", "claim", "accept", "sendfail",
        "faildeleted", "target", "replace", "park", "finish", "httpfinish", "taskaccept", "taskresult",
        "failunreachable"}
\* What a worker is about.
Jobs == {"none", "winner", "drain", "timeout", "due", "lost", "ok", "error", "unavailable"}
\* The statuses of the row, and its errors.
Status == {"none", "running"} \cup Open \cup Ended
Errors == {"none", "deleted", "unavailable", "deadline", "other"}
\* The row as an execution read it.
Obs == [st : Status, act : Ids \cup {NoId}, node : Nodes \cup {None}, att : 0..MaxAttempts,
        retry : Deadlines, tried : SUBSET Nodes]
\* What a worker carries.
Worker == [pc : Pcs, job : Jobs, act : Ids \cup {NoId}, agent : Agents \cup {None}, n : Nodes \cup {None},
           obs : Obs, att : 0..MaxAttempts, gen : Gens \cup {None}, from : Nodes \cup {None},
           rejected : SUBSET Nodes]

\* Steps of an execution that works on a row it read open, of one that has a
\* route, and of one for a node's action.
Reading == {"revalidate", "agentsend", "gate", "queue", "claim", "target", "replace", "park"}
Routed == {"insert", "revalidate", "agentsend", "gate", "queue", "claim", "accept", "taskaccept", "taskresult"}
NodeSide == {"gate", "queue", "claim", "accept", "sendfail", "replace", "park"}

\* What holds of a worker whatever the row has become.
Carried(x) ==
  /\ x \in Worker
  /\ x.pc \in Reading => x.obs.st \in Open
  /\ x.pc \in Routed => x.n \in Nodes
  /\ x.pc = "insert" => x.act \in Ids /\ (x.agent = None <=> x.act[1] # Hosted)
  /\ x.pc \in {"revalidate", "agentsend"} => x.act[1] = Hosted
  /\ x.pc \in {"gate", "queue", "claim", "accept"} => x.act[1] # Hosted
  /\ x.pc \in {"insert", "revalidate"} => x.job = "winner"
  /\ x.pc = "target" => x.job # "drain"
  /\ x.pc = "accept" => x.att >= 1
  /\ x.pc = "taskaccept" => x.gen \in Gens
  /\ x.obs.node # None => x.obs.att >= 1

\* Attempt and deadline of a row only grow, in lexicographic order.
NotAfter(o, r) == o.att < r.att \/ (o.att = r.att /\ o.retry <= r.retry)

\* What a worker still knows of the row: it is at or after the observed claim; it is
\* not an agent's when the worker is on the way to a node; a drain that would send the
\* observed attempt of an agent again finds it unsent, or finds another claim.
Linked(x, r, s) ==
  /\ NotAfter(x.obs, r)
  /\ r.st = "none" => x.pc \in {"off", "insert"}
  /\ x.pc \in NodeSide => r.act[1] # Hosted
  /\ (/\ x.pc = "agentsend" /\ x.obs.node # None /\ x.job = "drain"
      /\ r.act[1] = Hosted /\ r.att = x.obs.att /\ r.retry = x.obs.retry)
     => s[r.att] = 0

\* The row: an attempt stands behind every route, and the row starts empty.
RowOK ==
  /\ row.node # None => row.att >= 1
  /\ row.st = "running" => row.att >= 1
  /\ row.st = "none" => row = NoRow

\* Frames: of accepted attempts only, once; none of an attempt that waits for its agent.
FramesOK ==
  /\ \A a \in 1..MaxAttempts : sent[a] \in {0, 1} /\ (sent[a] = 1 => a <= row.acc)
  /\ (row.st = "pending" /\ row.node # None /\ row.act[1] = Hosted) => sent[row.att] = 0

\* A task that was begun has its generation, and is not open any more.
BegunOK == begun = 0 \/ (begun = 1 /\ row.gen # None /\ row.st \in {"running"} \cup Ended)

\* The types, with those of the workers.
ActionType == TypeOK /\ RowOK /\ wk \in [Workers -> Worker] /\ \A w \in Workers : Carried(wk[w])

\* The inductive invariant.
ActionInv == ActionType /\ FramesOK /\ BegunOK /\ \A w \in Workers : Linked(wk[w], row, sent)

-----------------------------------------------------------------------------
(* What a step does to the row and the frames *)

\* No frame leaves, no task begins.
Quiet == sent' = sent /\ run' \subseteq run /\ begun' = begun
\* The row is left alone, but for the reachability stamp and the foreign key.
Still == /\ \E a \in {row.act, NoId}, u \in BOOLEAN : row' = [row EXCEPT !.act = a, !.unre = u]
         /\ row.st = "none" => row' = row
         /\ Quiet
\* createInvocation.
Begin ==
  /\ row.st = "none"
  /\ \E id \in Ids, a \in Agents \cup {None} :
       /\ a = None <=> id[1] # Hosted
       /\ row' = [NoRow EXCEPT !.st = "pending", !.act = id, !.agent = a]
  /\ Quiet
\* The row ends.
End ==
  /\ row.st \in Open \cup {"running"}
  /\ \E st \in Ended, e \in Errors, a \in {row.act, NoId} :
       /\ e # "none" => st = "failed"
       /\ row' = [row EXCEPT !.st = st, !.err = e, !.act = a]
  /\ Quiet
\* The claim of a hosting agent, with its acceptance and perhaps its frame.
HostedSend ==
  /\ row.st \in Open /\ row.act[1] = Hosted /\ begun' = begun
  /\ \E n \in Nodes, st \in Open, att \in 1..MaxAttempts, d \in Deadlines, t \in SUBSET Nodes :
       /\ row' = [row EXCEPT !.st = st, !.node = n, !.att = att, !.acc = att, !.retry = d, !.tried = t]
       /\ att = row.att + 1 \/ (att = row.att /\ d > row.retry /\ sent[att] = 0)
       /\ \/ run' = run /\ sent' = sent
          \/ st = "dispatched" /\ run' = run \cup {<<n, att>>} /\ sent' = [sent EXCEPT ![att] = @ + 1]
\* The claim of a node's provider, the offline queue, and a row that is detached.
NodeWrite ==
  /\ row.st \in Open /\ row.act[1] # Hosted
  /\ \E n \in Nodes \cup {None}, st \in Open, id \in Ids \cup {NoId}, att \in 0..MaxAttempts,
        d \in Deadlines, t \in SUBSET Nodes :
       /\ row' = [row EXCEPT !.st = st, !.node = n, !.act = id, !.att = att, !.retry = d, !.tried = t]
       /\ id[1] # Hosted
       /\ n # None => att >= 1
       /\ att = row.att + 1 \/ (att = row.att /\ d > row.retry)
  /\ Quiet
\* The acceptance of a provider, and perhaps its frame.
Accepted ==
  /\ row.st = "dispatched" /\ row.act[1] # Hosted /\ row.acc # row.att /\ row.att >= 1 /\ row.node \in Nodes
  /\ row' = [row EXCEPT !.acc = row.att] /\ begun' = begun
  /\ \/ run' = run /\ sent' = sent
     \/ run' = run \cup {<<row.node, row.att>>} /\ sent' = [sent EXCEPT ![row.att] = @ + 1]
\* A task worker is told to run the task.
TaskBegin ==
  /\ row.st = "dispatched" /\ row.node # None /\ row.gen = None
  /\ \E g \in Gens : row' = [row EXCEPT !.st = "running", !.gen = g]
  /\ begun' = begun + 1 /\ run' = run /\ sent' = sent

\* One of these.
RowStep == Still \/ Begin \/ End \/ HostedSend \/ NodeWrite \/ Accepted \/ TaskBegin

-----------------------------------------------------------------------------
(* Every operation takes one of these steps *)

\* Nothing happens to the row.
LEMMA StillOK == ASSUME ActionInv, row' = row, Quiet PROVE RowStep
<1>1. row \in Row /\ row.unre \in BOOLEAN
  BY DEF ActionInv, ActionType, TypeOK, Row
<1>2. row' = [row EXCEPT !.act = row.act, !.unre = row.unre]
  BY <1>1 DEF Row
<1> QED BY <1>1, <1>2 DEF RowStep, Still

\* The row loses its action.
LEMMA UnlinkedOK == ASSUME ActionInv, NEW id, row' = Unlinked(row, id), Quiet PROVE RowStep
<1>1. row \in Row /\ row.unre \in BOOLEAN
  BY DEF ActionInv, ActionType, TypeOK, Row
<1>2. CASE row.act = id
  <2>1. row' = [row EXCEPT !.act = NoId, !.unre = row.unre]
    BY <1>1, <1>2 DEF Row, Unlinked
  <2>2. row.st = "none" => row.act = NoId
    BY DEF ActionInv, ActionType, RowOK, NoRow
  <2>3. row.st = "none" => row' = row
    <3> SUFFICES ASSUME row.st = "none" PROVE row' = row
      OBVIOUS
    <3>1. row' = [row EXCEPT !.act = row.act, !.unre = row.unre]
      BY <2>1, <2>2
    <3> QED BY <1>1, <3>1 DEF Row
  <2> QED BY <1>1, <2>1, <2>3 DEF RowStep, Still
<1>3. CASE row.act # id
  BY <1>3, StillOK DEF Unlinked
<1> QED BY <1>2, <1>3

\* failOpenInvocationRows ends an open row, and leaves any other.
LEMMA FailedOK ==
  ASSUME ActionInv, NEW e \in Errors \ {"none"}, row' = Failed(row, e), Quiet
  PROVE  RowStep
<1>1. row \in Row
  BY DEF ActionInv, ActionType, TypeOK
<1>2. CASE row.st \in Open
  <2>1. row' = [row EXCEPT !.st = "failed", !.err = e, !.act = row.act]
    BY <1>1, <1>2 DEF Row, Failed
  <2> QED BY <1>2, <2>1 DEF RowStep, End, Ended
<1>3. CASE row.st \notin Open
  BY <1>3, StillOK DEF Failed
<1> QED BY <1>2, <1>3

\* So does the settlement of a row whose action is gone.
LEMMA SettleDeletedOK == ASSUME ActionInv, row' = SettleDeleted(row), Quiet PROVE RowStep
BY FailedOK, StillOK DEF SettleDeleted, Errors

\* What the invariant says of a worker and the row, in one place.
LEMMA Facts ==
  ASSUME ActionInv, NEW w \in Workers
  PROVE  /\ row \in Row /\ wk[w] \in Worker /\ Carried(wk[w]) /\ Linked(wk[w], row, sent) /\ RowOK
         /\ ready \in [Nodes -> BOOLEAN] /\ conn \in [Nodes -> BOOLEAN]
         /\ live \in [Hosts -> 0..MaxGen] /\ handler \in Agents
BY DEF ActionInv, ActionType, TypeOK

\* A frame leaves or not.
LEMMA FrameOK ==
  ASSUME NEW n, NEW a, Frame(n, a)
  PROVE  (run' = run /\ sent' = sent) \/
         (conn[n] /\ run' = run \cup {<<n, a>>} /\ sent' = [sent EXCEPT ![a] = @ + 1])
BY DEF Frame, frames

\* createInvocation.
LEMMA InsertRow == ASSUME ActionInv, NEW w \in Workers, Insert(w) PROVE RowStep
<1>1. Quiet
  BY DEF Insert, Quiet, frames, task
<1>2. CASE row.st = "none" /\ IsLive(wk[w].act)
  <2>1. wk[w].pc = "insert" /\ wk[w].act \in Ids /\ wk[w].agent \in Agents \cup {None}
        /\ (wk[w].agent = None <=> wk[w].act[1] # Hosted)
    BY Facts DEF Insert, At, Carried, Worker
  <2>2. row' = [NoRow EXCEPT !.st = "pending", !.act = wk[w].act, !.agent = wk[w].agent]
    BY <1>2 DEF Insert
  <2> QED BY <1>1, <1>2, <2>1, <2>2 DEF RowStep, Begin
<1>3. CASE ~(row.st = "none" /\ IsLive(wk[w].act))
  BY <1>1, <1>3, StillOK DEF Insert
<1> QED BY <1>2, <1>3

\* The claim of a hosting agent.
LEMMA AgentSendRow == ASSUME ActionInv, NEW w \in Workers, AgentSend(w) PROVE RowStep
<1> DEFINE x == wk[w]
           n == x.n
           o == x.obs
           st == IF conn[n] THEN "dispatched" ELSE "pending"
           att == IF x.job = "drain" /\ o.node = n THEN o.att ELSE o.att + 1
<1>0. /\ row \in Row /\ x \in Worker /\ Carried(x) /\ Linked(x, row, sent) /\ x.pc = "agentsend"
      /\ x.obs \in Obs
  BY Facts DEF AgentSend, At, Worker
<1>1. CASE AgentClaimMatches(w)
  <2>1. /\ row.st = o.st /\ row.att = o.att /\ row.retry = o.retry /\ row.act[1] = Hosted /\ row.st \in Open
        /\ n \in Nodes
    BY <1>0, <1>1 DEF AgentClaimMatches, SameClaim, Carried, Reading, Routed
  <2>2. PICK d \in IF st # o.st \/ att # o.att THEN IF x.job \in {"winner", "due"} THEN {0} ELSE Later(row.retry)
                   ELSE Later(o.retry) :
          row' = [row EXCEPT !.st = st, !.node = n, !.att = att, !.acc = att, !.retry = d,
                             !.tried = IF att = o.att THEN @ ELSE @ \cup {n}]
    BY <1>1 DEF AgentSend
  <2>3. att <= MaxAttempts /\ Frame(n, att) /\ begun' = begun
    BY <1>1 DEF AgentSend, task
  <2> DEFINE t == IF att = o.att THEN row.tried ELSE row.tried \cup {n}
  <2>4. row' = [row EXCEPT !.st = st, !.node = n, !.att = att, !.acc = att, !.retry = d, !.tried = t]
        /\ t \in SUBSET Nodes
    BY <1>0, <2>1, <2>2 DEF Row
  <2>5. d \in Deadlines
    BY <1>0, <2>2, ActionAssumption DEF Later, Deadlines
  <2>6. st \in Open /\ (conn[n] => st = "dispatched")
    BY DEF Open
  <2>7. att \in 1..MaxAttempts /\ (att = row.att + 1 \/ (att = row.att /\ d > row.retry /\ sent[att] = 0))
    <3>1. o.att \in 0..MaxAttempts /\ o.retry \in Nat /\ row.retry \in Nat
      BY <1>0, ActionAssumption DEF Obs, Row, Deadlines
    <3>2. CASE x.job = "drain" /\ o.node = n
      <4>1. o.node # None
        BY <2>1, <3>2, ActionAssumption
      <4>2. o.att >= 1 /\ sent[row.att] = 0
        BY <1>0, <2>1, <3>2, <4>1 DEF Carried, Linked
      <4>3. d \in Later(row.retry)
        BY <2>1, <2>2, <3>2
      <4> QED BY <2>1, <3>1, <3>2, <4>2, <4>3, ActionAssumption DEF Later
    <3>3. CASE ~(x.job = "drain" /\ o.node = n)
      BY <2>1, <2>3, <3>1, <3>3, ActionAssumption
    <3> QED BY <3>2, <3>3
  <2>8. (run' = run /\ sent' = sent) \/
        (st = "dispatched" /\ run' = run \cup {<<n, att>>} /\ sent' = [sent EXCEPT ![att] = @ + 1])
    BY <2>3, <2>6, FrameOK
  <2> HIDE DEF st, att, t, n
  <2>9. HostedSend
    BY <2>1, <2>3, <2>4, <2>5, <2>6, <2>7, <2>8 DEF HostedSend
  <2> QED BY <2>9 DEF RowStep
<1>2. CASE ~AgentClaimMatches(w)
  BY <1>2, StillOK DEF AgentSend, Quiet, frames, task
<1> QED BY <1>1, <1>2

\* The offline queue.
LEMMA QueueRow == ASSUME ActionInv, NEW w \in Workers, Queue(w) PROVE RowStep
<1> DEFINE x == wk[w]
           ok == row.st \in Open /\ row.act = x.obs.act /\ IsLive(x.obs.act) /\ IsLive(x.act)
<1>0. /\ row \in Row /\ x \in Worker /\ Carried(x) /\ Linked(x, row, sent) /\ x.pc = "queue"
  BY Facts DEF Queue, At
<1>q. Quiet
  BY DEF Queue, Quiet, frames, task
<1>1. CASE ok
  <2>1. /\ row.att + 1 <= MaxAttempts
        /\ row' = [row EXCEPT !.st = "pending", !.node = x.n, !.att = @ + 1, !.retry = 0,
                              !.act = x.act, !.tried = @ \cup {x.n}]
    BY <1>1 DEF Queue
  <2>2. /\ row.act[1] # Hosted /\ x.n \in Nodes /\ x.act[1] # Hosted /\ x.act \in Ids \cup {NoId}
    BY <1>0 DEF Carried, Linked, Worker, NodeSide, Routed
  <2>3. row.att + 1 \in 0..MaxAttempts /\ row.att + 1 >= 1 /\ row.tried \cup {x.n} \in SUBSET Nodes
        /\ 0 \in Deadlines
    BY <1>0, <2>1, <2>2, ActionAssumption DEF Row, Deadlines
  <2>4. row' = [row EXCEPT !.st = "pending", !.node = x.n, !.act = x.act, !.att = row.att + 1, !.retry = 0,
                           !.tried = row.tried \cup {x.n}]
    BY <1>0, <2>1 DEF Row
  <2>5. NodeWrite
    BY <1>1, <1>q, <2>2, <2>3, <2>4 DEF NodeWrite, Open
  <2> QED BY <2>5 DEF RowStep
<1>2. CASE ~ok
  BY <1>2, <1>q, SettleDeletedOK DEF Queue
<1> QED BY <1>1, <1>2

\* The claim of a node's provider.
LEMMA ClaimRow == ASSUME ActionInv, NEW w \in Workers, Claim(w) PROVE RowStep
<1> DEFINE x == wk[w]
           st == IF conn[x.n] THEN "dispatched" ELSE "pending"
           att == IF x.job = "drain" /\ x.obs.node = x.n THEN row.att ELSE row.att + 1
<1>0. /\ row \in Row /\ x \in Worker /\ Carried(x) /\ Linked(x, row, sent) /\ x.pc = "claim" /\ x.obs \in Obs
  BY Facts DEF Claim, At, Worker
<1>q. Quiet
  BY DEF Claim, Quiet, frames, task
<1>1. CASE HandoffMatches(w)
  <2>1. PICK d \in IF x.job = "drain" THEN Later(row.retry) ELSE {0} :
          row' = [row EXCEPT !.st = st, !.node = x.n, !.act = x.act, !.att = att, !.retry = d,
                             !.tried = IF att = row.att THEN @ ELSE @ \cup {x.n}]
    BY <1>1 DEF Claim
  <2>2. /\ att <= MaxAttempts /\ row.st \in Open
        /\ row.act[1] # Hosted /\ x.n \in Nodes /\ x.act[1] # Hosted /\ x.act \in Ids \cup {NoId}
    BY <1>0, <1>1 DEF Claim, HandoffMatches, Carried, Linked, Worker, NodeSide, Routed
  <2> DEFINE t == IF att = row.att THEN row.tried ELSE row.tried \cup {x.n}
  <2>3. t \in SUBSET Nodes /\ row' = [row EXCEPT !.st = st, !.node = x.n, !.act = x.act, !.att = att, !.retry = d,
                             !.tried = t]
    BY <1>0, <2>1, <2>2 DEF Row
  <2>4. d \in Deadlines /\ st \in Open
    BY <1>0, <2>1, ActionAssumption DEF Later, Deadlines, Open
  <2>5. att \in 0..MaxAttempts /\ att >= 1 /\ (att = row.att + 1 \/ (att = row.att /\ d > row.retry))
    <3>1. row.att \in 0..MaxAttempts /\ row.retry \in Nat /\ x.obs.att \in 0..MaxAttempts
      BY <1>0, ActionAssumption DEF Row, Deadlines, Obs
    <3>2. CASE x.job = "drain" /\ x.obs.node = x.n
      <4>1. x.obs.att >= 1 /\ x.obs.att <= row.att
        BY <1>0, <2>2, <3>1, <3>2, ActionAssumption DEF Carried, Linked, NotAfter
      <4>2. d \in Later(row.retry)
        BY <2>1, <3>2
      <4> QED BY <3>1, <3>2, <4>1, <4>2, ActionAssumption DEF Later
    <3>3. CASE ~(x.job = "drain" /\ x.obs.node = x.n)
      BY <2>2, <3>1, <3>3, ActionAssumption
    <3> QED BY <3>2, <3>3
  <2> HIDE DEF st, att, t
  <2>6. NodeWrite
    BY <1>q, <2>2, <2>3, <2>4, <2>5 DEF NodeWrite
  <2> QED BY <2>6 DEF RowStep
<1>2. CASE ~HandoffMatches(w)
  BY <1>2, <1>q, SettleDeletedOK DEF Claim
<1> QED BY <1>1, <1>2

\* The acceptance of a provider.
LEMMA AcceptRow == ASSUME ActionInv, NEW w \in Workers, Accept(w) PROVE RowStep
<1> DEFINE x == wk[w]
<1>0. /\ row \in Row /\ x \in Worker /\ Carried(x) /\ Linked(x, row, sent) /\ x.pc = "accept"
  BY Facts DEF Accept, At
<1>1. CASE AcceptMatches(w)
  <2>1. /\ row.st = "dispatched" /\ row.act[1] # Hosted /\ row.acc # row.att /\ row.att >= 1
        /\ row.node \in Nodes /\ row.att = x.att /\ row.node = x.n
    BY <1>0, <1>1 DEF AcceptMatches, Carried, Linked, NodeSide, Routed
  <2>2. row' = [row EXCEPT !.acc = row.att] /\ Frame(row.node, row.att) /\ begun' = begun
    BY <1>1, <2>1 DEF Accept, task
  <2> QED BY <2>1, <2>2, FrameOK DEF RowStep, Accepted
<1>2. CASE ~AcceptMatches(w)
  BY <1>2, StillOK DEF Accept, Quiet, frames, task
<1> QED BY <1>1, <1>2

\* A row that waits, detached.
LEMMA ParkRow == ASSUME ActionInv, NEW w \in Workers, Park(w) PROVE RowStep
<1> DEFINE x == wk[w]
<1>0. /\ row \in Row /\ x \in Worker /\ Carried(x) /\ Linked(x, row, sent) /\ x.pc = "park"
  BY Facts DEF Park, At
<1>q. Quiet
  BY DEF Park, Quiet, frames, task
<1>1. CASE x.rejected # {}
  BY <1>1, <1>q, FailedOK DEF Park, Errors
<1>2. CASE x.rejected = {} /\ SameClaim(row, x.obs)
  <2>1. PICK d \in Later(row.retry) : row' = [row EXCEPT !.st = "pending", !.node = None, !.retry = d]
    BY <1>2 DEF Park
  <2>2. row.st \in Open /\ row.act[1] # Hosted /\ row.act \in Ids \cup {NoId} /\ row.att \in 0..MaxAttempts
        /\ row.tried \in SUBSET Nodes
    BY <1>0, <1>2 DEF SameClaim, Carried, Linked, Reading, NodeSide, Row
  <2>3. d \in Deadlines /\ d > row.retry
    BY <1>0, <2>1, ActionAssumption DEF Later, Deadlines, Row
  <2>4. row' = [row EXCEPT !.st = "pending", !.node = None, !.act = row.act, !.att = row.att, !.retry = d,
                           !.tried = row.tried]
    BY <1>0, <2>1 DEF Row
  <2>5. NodeWrite
    BY <1>q, <2>2, <2>3, <2>4 DEF NodeWrite, Open
  <2> QED BY <2>5 DEF RowStep
<1>3. CASE x.rejected = {} /\ ~SameClaim(row, x.obs)
  BY <1>3, <1>q, StillOK DEF Park
<1> QED BY <1>1, <1>2, <1>3

\* An answer ends an open row of the node that answers.
LEMMA FinishRow == ASSUME ActionInv, NEW w \in Workers, Finish(w) \/ HttpFinish(w) PROVE RowStep
<1>0. row \in Row /\ row.err \in Errors /\ row.act \in Ids \cup {NoId} /\ (row.err # "none" => row.st = "failed")
  BY DEF ActionInv, ActionType, TypeOK, Row, Errors
<1>q. Quiet
  BY DEF Finish, HttpFinish, Quiet, frames, task
<1>1. CASE Finish(w)
  <2> DEFINE st == IF wk[w].job = "ok" THEN "completed" ELSE "failed"
             e == IF wk[w].job = "ok" THEN "none" ELSE "other"
  <2>1. CASE AnswerMatches(row, wk[w].from)
    <3>1. row' = [row EXCEPT !.st = st, !.err = e, !.act = row.act]
      BY <1>0, <1>1, <2>1 DEF Finish, Row
    <3>2. st \in Ended /\ e \in Errors /\ (e # "none" => st = "failed") /\ row.st \in Open
      BY <2>1 DEF Ended, Errors, AnswerMatches
    <3> HIDE DEF st, e
    <3> QED BY <1>q, <3>1, <3>2 DEF RowStep, End
  <2>2. CASE ~AnswerMatches(row, wk[w].from)
    BY <1>1, <1>q, <2>2, StillOK DEF Finish
  <2> QED BY <2>1, <2>2
<1>2. CASE HttpFinish(w)
  <2>1. CASE row.st \in Open
    <3>1. row' = [row EXCEPT !.st = "completed", !.err = "none", !.act = row.act]
      BY <1>0, <1>2, <2>1 DEF HttpFinish, Row, Open
    <3> QED BY <1>q, <2>1, <3>1 DEF RowStep, End, Ended, Errors
  <2>2. CASE row.st \notin Open
    BY <1>2, <1>q, <2>2, StillOK DEF HttpFinish
  <2> QED BY <2>1, <2>2
<1> QED BY <1>1, <1>2

\* The deadline of a task.
LEMMA ExpiredOK == ASSUME ActionInv, row' = Expired(row), Quiet PROVE RowStep
<1>0. row \in Row /\ row.act \in Ids \cup {NoId}
  BY DEF ActionInv, ActionType, TypeOK, Row
<1>1. CASE over /\ row.st \in Open \cup {"running"}
  <2>1. row' = [row EXCEPT !.st = "failed", !.err = "deadline", !.act = row.act]
    BY <1>0, <1>1 DEF Expired, Row
  <2> QED BY <1>1, <2>1 DEF RowStep, End, Ended, Errors
<1>2. CASE ~(over /\ row.st \in Open \cup {"running"})
  BY <1>2, StillOK DEF Expired
<1> QED BY <1>1, <1>2

\* A task worker begins, or reports.
LEMMA TaskRow ==
  ASSUME ActionInv, NEW w \in Workers, TaskAccept(w) \/ \E st \in Ended : TaskResult(w, st)
  PROVE  RowStep
<1> DEFINE x == wk[w]
<1>0. /\ row \in Row /\ x \in Worker /\ Carried(x) /\ row.act \in Ids \cup {NoId} /\ row.err \in Errors
      /\ (row.err # "none" => row.st = "failed")
  BY Facts DEF ActionInv, ActionType, TypeOK, Row, Errors
<1>1. CASE TaskAccept(w)
  <2>1. CASE TaskAcceptMatches(w)
    <3>1. x.n \in Nodes /\ x.gen \in Gens /\ x.n # None
      BY <1>0, <1>1, ActionAssumption DEF TaskAccept, At, Carried, Routed
    <3> QED BY <1>1, <2>1, <3>1 DEF TaskAccept, TaskAcceptMatches, RowStep, TaskBegin, frames
  <2>2. CASE ~TaskAcceptMatches(w)
    BY <1>1, <2>2, StillOK DEF TaskAccept, Quiet, frames
  <2> QED BY <2>1, <2>2
<1>2. ASSUME NEW st \in Ended, TaskResult(w, st)
      PROVE  RowStep
  <2>q. Quiet
    BY <1>2 DEF TaskResult, Quiet, frames, task
  <2>1. CASE TaskResultMatches(w)
    <3>1. row' = [row EXCEPT !.st = st, !.err = "none", !.act = row.act] /\ row.st = "running"
      BY <1>0, <1>2, <2>1 DEF TaskResult, TaskResultMatches, Row
    <3> QED BY <2>q, <3>1 DEF RowStep, End, Errors
  <2>2. CASE ~TaskResultMatches(w)
    BY <1>2, <2>q, <2>2, StillOK DEF TaskResult
  <2> QED BY <2>1, <2>2
<1> QED BY <1>1, <1>2


\* Steps of one worker.
LEMMA WorkerRow == ASSUME ActionInv, NEW w \in Workers, WorkerStep(w) PROVE RowStep
<1>1. ASSUME row' = row /\ sent' = sent /\ run' \subseteq run /\ begun' = begun
      PROVE  RowStep
  BY <1>1, StillOK DEF Quiet
<1>2. CASE Invoke(w)
  BY <1>1, <1>2 DEF Invoke, frames, task
<1>3. CASE Insert(w)
  BY <1>3, InsertRow
<1>4. CASE Revalidate(w)
  BY <1>1, <1>4, FailedOK DEF Revalidate, Quiet, frames, task, Errors
<1>5. CASE Unsent(w)
  BY <1>1, <1>5, FailedOK DEF Unsent, Quiet, frames, task, Errors
<1>6. CASE AgentSend(w)
  BY <1>6, AgentSendRow
<1>7. CASE Gate(w)
  BY <1>1, <1>7, FailedOK DEF Gate, Quiet, frames, task, Errors
<1>8. CASE Queue(w)
  BY <1>8, QueueRow
<1>9. CASE Claim(w)
  BY <1>9, ClaimRow
<1>10. CASE Accept(w)
  BY <1>10, AcceptRow
<1>11. CASE SendFail(w)
  BY <1>11, FailedOK, SettleDeletedOK DEF SendFail, Quiet, frames, task, Errors
<1>12. CASE \E n \in Nodes : StartDrain(w, n)
  BY <1>1, <1>12 DEF StartDrain, frames, task
<1>13. CASE FailDeleted(w)
  BY <1>13, FailedOK DEF FailDeleted, Quiet, frames, task, Errors
<1>14. CASE StartTimeout(w) \/ StartDue(w) \/ \E n \in Nodes : StartLost(w, n)
  BY <1>1, <1>14 DEF StartTimeout, StartDue, StartLost, StartReschedule, frames, task
<1>15. CASE Target(w)
  BY <1>1, <1>15 DEF Target, frames, task
<1>16. CASE Replace(w)
  BY <1>1, <1>16 DEF Replace, frames, task
<1>17. CASE Park(w)
  BY <1>17, ParkRow
<1>18. CASE \E f \in run, k \in {"ok", "error", "unavailable"} : Answer(w, f, k)
  BY <1>1, <1>18 DEF Answer, task
<1>19. CASE Finish(w) \/ HttpFinish(w)
  BY <1>19, FinishRow
<1>20. CASE \E a \in Agents : HttpComplete(w, a)
  BY <1>1, <1>20 DEF HttpComplete, frames, task
<1>21. CASE \E f \in run, g \in Gens, k \in {"taskaccept", "taskresult"} : TaskFrame(w, f, g, k)
  BY <1>21, ExpiredOK DEF TaskFrame, Quiet, frames, task
<1>22. CASE TaskAccept(w) \/ \E st \in Ended : TaskResult(w, st)
  BY <1>22, TaskRow
<1>23. CASE UnreachableSweep(w)
  <2>0. row \in Row /\ row.act \in Ids \cup {NoId} /\ ready \in [Nodes -> BOOLEAN] /\ conn \in [Nodes -> BOOLEAN]
    BY Facts DEF Row
  <2> DEFINE u == ~Reachable(AgentNode[handler])
  <2>1. CASE row' = [row EXCEPT !.unre = u]
    <3>1. row' = [row EXCEPT !.act = row.act, !.unre = u] /\ u \in BOOLEAN
      BY <2>0, <2>1 DEF Row
    <3>2. Quiet
      BY <1>23 DEF UnreachableSweep, Quiet, frames, task
    <3> HIDE DEF u
    <3>3. row.st # "none"
      BY <1>23 DEF UnreachableSweep, Open
    <3> QED BY <3>1, <3>2, <3>3 DEF RowStep, Still
  <2>2. CASE row' = row
    BY <1>1, <1>23, <2>2 DEF UnreachableSweep, frames, task
  <2> QED BY <1>23, <2>1, <2>2 DEF UnreachableSweep
<1>24. CASE FailUnreachable(w)
  BY <1>24, FailedOK DEF FailUnreachable, Quiet, frames, task, Errors
<1> QED
  BY <1>2, <1>3, <1>4, <1>5, <1>6, <1>7, <1>8, <1>9, <1>10, <1>11, <1>12, <1>13, <1>14, <1>15, <1>16, <1>17,
     <1>18, <1>19, <1>20, <1>21, <1>22, <1>23, <1>24 DEF WorkerStep

\* deleteAction: an unaccepted row fails and loses its action in one step.
LEMMA DeleteRow == ASSUME ActionInv, DeleteAction PROVE RowStep
<1> DEFINE id == <<Hosted, live[Hosted]>>
<1>0. row \in Row /\ row.act \in Ids \cup {NoId}
  BY DEF ActionInv, ActionType, TypeOK, Row
<1>q. Quiet
  BY DEF DeleteAction, Quiet, frames, task
<1>1. CASE Unaccepted(row, id)
  <2>1. row' = [row EXCEPT !.st = "failed", !.err = "deleted", !.act = NoId] /\ row.st \in Open
    BY <1>0, <1>1 DEF DeleteAction, Unaccepted, Failed, Unlinked, Row
  <2> QED BY <1>q, <2>1 DEF RowStep, End, Ended, Errors
<1>2. CASE ~Unaccepted(row, id)
  BY <1>q, <1>2, UnlinkedOK DEF DeleteAction
<1> QED BY <1>1, <1>2

\* Every step is one of the seven.
LEMMA RowSteps == ASSUME ActionInv, [Next]_vars PROVE RowStep
<1>1. ASSUME row' = row /\ sent' = sent /\ run' \subseteq run /\ begun' = begun
      PROVE  RowStep
  BY <1>1, StillOK DEF Quiet
<1>2. CASE \E w \in Workers : WorkerStep(w)
  BY <1>2, WorkerRow
<1>3. CASE TaskDeadline
  BY <1>1, <1>3 DEF TaskDeadline, frames
<1>4. CASE TaskExpire
  BY <1>4, ExpiredOK DEF TaskExpire, Quiet, frames, task
<1>5. CASE Expire
  BY <1>5, FailedOK DEF Expire, Quiet, frames, task, Errors
<1>6. CASE \E h \in Hosts : Register(h)
  BY <1>1, <1>6 DEF Register, frames, task
<1>7. CASE \E n \in Nodes : Prune(n)
  BY <1>7, UnlinkedOK DEF Prune, Quiet, frames, task
<1>8. CASE DeleteAction
  BY <1>8, DeleteRow
<1>9. CASE \E a \in Agents : Takeover(a)
  BY <1>1, <1>9, FailedOK, UnlinkedOK DEF Takeover, Quiet, frames, task, Errors
<1>10. CASE \E n \in Nodes : NodeUp(n) \/ ConnLost(n) \/ NodeOffline(n)
  BY <1>1, <1>10 DEF NodeUp, ConnLost, NodeOffline, frames, task
<1>11. CASE UNCHANGED vars
  BY <1>1, <1>11 DEF vars
<1> QED BY <1>2, <1>3, <1>4, <1>5, <1>6, <1>7, <1>8, <1>9, <1>10, <1>11 DEF Next

-----------------------------------------------------------------------------
(* What the steps keep of the row and the histories *)

\* The row keeps its type, and an attempt behind every route.
LEMMA RowKept ==
  ASSUME ActionInv, RowStep
  PROVE  /\ row' \in Row /\ (row'.err # "none" => row'.st = "failed") /\ row'.acc <= row'.att /\ RowOK'
         /\ (row'.st = "none" => row.st = "none") /\ NotAfter(row, row')
         /\ (row'.act[1] = Hosted => row.act[1] = Hosted \/ row.st = "none")
<1>0. /\ row \in Row /\ (row.err # "none" => row.st = "failed") /\ row.acc <= row.att /\ RowOK
      /\ Hosted # None /\ NoId[1] = None /\ MaxAttempts \in Nat /\ MaxDeadline \in Nat
      /\ row.att \in Nat /\ row.acc \in Nat /\ row.retry \in Nat
  BY ActionAssumption DEF ActionInv, ActionType, TypeOK, NoId, Row, Deadlines
<1>1. CASE Still
  <2>1. PICK a \in {row.act, NoId}, u \in BOOLEAN : row' = [row EXCEPT !.act = a, !.unre = u]
    BY <1>1 DEF Still
  <2>2. row' \in Row
    BY <1>0, <2>1 DEF Row
  <2>3. row.st = "none" => a = NoId /\ row.node = None
    BY <1>0 DEF RowOK, NoRow
  <2>4. row'.st = "none" => row' = NoRow
    BY <1>0, <1>1, <2>1 DEF RowOK, Still, Row
  <2> QED BY <1>0, <2>1, <2>2, <2>3, <2>4 DEF RowOK, NotAfter, Row
<1>2. CASE Begin
  <2>1. PICK id \in Ids, a \in Agents \cup {None} :
          row' = [NoRow EXCEPT !.st = "pending", !.act = id, !.agent = a]
    BY <1>2 DEF Begin
  <2>2. row.st = "none" /\ row = NoRow
    BY <1>0, <1>2 DEF Begin, RowOK
  <2>3. row' = [st |-> "pending", act |-> id, agent |-> a, node |-> None, att |-> 0, acc |-> 0,
                retry |-> 0, unre |-> FALSE, tried |-> {}, err |-> "none", gen |-> None]
    BY <2>1 DEF NoRow
  <2>4. row' \in Row
    BY <1>0, <2>3 DEF Row, Open, Deadlines
  <2>5. row.att = 0 /\ row.retry = 0
    BY <2>2 DEF NoRow
  <2> QED BY <1>0, <2>2, <2>3, <2>4, <2>5 DEF RowOK, NotAfter
<1>3. CASE End
  <2>1. PICK st \in Ended, e \in Errors, a \in {row.act, NoId} :
          (e # "none" => st = "failed") /\ row' = [row EXCEPT !.st = st, !.err = e, !.act = a]
    BY <1>3 DEF End
  <2>2. row' \in Row
    BY <1>0, <2>1 DEF Row, Errors
  <2>3. row'.st = st /\ row'.err = e /\ row'.act = a /\ row'.att = row.att /\ row'.acc = row.acc
        /\ row'.node = row.node /\ row'.retry = row.retry /\ st # "none" /\ st # "running"
    BY <1>0, <2>1 DEF Row, Ended
  <2> QED BY <1>0, <2>1, <2>2, <2>3 DEF RowOK, NotAfter
<1>4. CASE HostedSend
  <2>1. PICK n \in Nodes, st \in Open, att \in 1..MaxAttempts, d \in Deadlines, t \in SUBSET Nodes :
          /\ row' = [row EXCEPT !.st = st, !.node = n, !.att = att, !.acc = att, !.retry = d, !.tried = t]
          /\ att = row.att + 1 \/ (att = row.att /\ d > row.retry /\ sent[att] = 0)
    BY <1>4 DEF HostedSend
  <2>2. row' = [row EXCEPT !.st = st, !.node = n, !.att = att, !.acc = att, !.retry = d, !.tried = t]
    BY <2>1
  <2>3. att \in 0..MaxAttempts /\ att >= 1 /\ d \in Nat /\ st \in Status /\ st # "none" /\ st # "running"
        /\ row.st # "failed"
    BY <1>0, <1>4 DEF Deadlines, Status, Open, HostedSend
  <2>4. row' \in Row
    BY <1>0, <2>2, <2>3 DEF Row, Status
  <2>5. row'.st = st /\ row'.err = row.err /\ row'.act = row.act /\ row'.att = att /\ row'.acc = att
        /\ row'.node = n /\ row'.retry = d
    BY <1>0, <2>2 DEF Row
  <2> QED BY <1>0, <2>1, <2>3, <2>4, <2>5 DEF RowOK, NotAfter
<1>5. CASE NodeWrite
  <2>1. PICK n \in Nodes \cup {None}, st \in Open, id \in Ids \cup {NoId}, att \in 0..MaxAttempts,
             d \in Deadlines, t \in SUBSET Nodes :
          /\ row' = [row EXCEPT !.st = st, !.node = n, !.act = id, !.att = att, !.retry = d, !.tried = t]
          /\ id[1] # Hosted
          /\ n # None => att >= 1
          /\ att = row.att + 1 \/ (att = row.att /\ d > row.retry)
    BY <1>5 DEF NodeWrite
  <2>2. row' = [row EXCEPT !.st = st, !.node = n, !.act = id, !.att = att, !.retry = d, !.tried = t]
    BY <2>1
  <2>3. d \in Nat /\ st \in Status /\ st # "none" /\ st # "running" /\ row.st # "failed" /\ row.st # "none"
    BY <1>0, <1>5 DEF Deadlines, Status, Open, NodeWrite
  <2>4. row' \in Row
    <3>1. row \in Row /\ st \in Status /\ n \in Nodes \cup {None} /\ id \in Ids \cup {NoId}
      BY <1>0, <2>3
    <3> QED BY <2>2, <3>1 DEF Row, Status
  <2>5. row'.st = st /\ row'.err = row.err /\ row'.act = id /\ row'.att = att /\ row'.acc = row.acc
        /\ row'.node = n /\ row'.retry = d
    BY <1>0, <2>2 DEF Row
  <2> QED BY <1>0, <2>1, <2>3, <2>4, <2>5 DEF RowOK, NotAfter
<1>6. CASE Accepted
  BY <1>0, <1>6 DEF Accepted, Row, RowOK, NotAfter
<1>7. CASE TaskBegin
  <2>1. PICK g \in Gens : row' = [row EXCEPT !.st = "running", !.gen = g]
    BY <1>7 DEF TaskBegin
  <2>2. row' \in Row
    BY <1>0, <2>1 DEF Row
  <2>3. row'.st = "running" /\ row'.err = row.err /\ row'.act = row.act /\ row'.att = row.att
        /\ row'.acc = row.acc /\ row'.node = row.node /\ row'.retry = row.retry /\ row.st # "failed"
        /\ row.node # None
    BY <1>0, <1>7, <2>1 DEF Row, TaskBegin
  <2> QED BY <1>0, <2>1, <2>2, <2>3 DEF RowOK, NotAfter
<1> QED BY <1>1, <1>2, <1>3, <1>4, <1>5, <1>6, <1>7 DEF RowStep


\* The frames keep their types, and no attempt is framed twice.
LEMMA FramesKept ==
  ASSUME ActionInv, RowStep
  PROVE  run' \subseteq Nodes \X (1..MaxAttempts) /\ sent' \in [1..MaxAttempts -> Nat] /\ FramesOK'
<1>0. /\ row \in Row /\ row.acc <= row.att /\ RowOK /\ run \subseteq Nodes \X (1..MaxAttempts)
      /\ sent \in [1..MaxAttempts -> Nat] /\ FramesOK
      /\ Hosted # None /\ NoId[1] = None /\ MaxAttempts \in Nat
      /\ row.att \in 0..MaxAttempts /\ row.acc \in 0..MaxAttempts
  BY ActionAssumption DEF ActionInv, ActionType, TypeOK, NoId, Row
<1>1. CASE Still
  <2>1. PICK a \in {row.act, NoId}, u \in BOOLEAN : row' = [row EXCEPT !.act = a, !.unre = u]
    BY <1>1 DEF Still
  <2>2. row'.st = row.st /\ row'.node = row.node /\ row'.att = row.att /\ row'.acc = row.acc /\ row'.act = a
    BY <1>0, <2>1 DEF Row
  <2> QED BY <1>0, <1>1, <2>2 DEF Still, Quiet, FramesOK
<1>2. CASE Begin
  <2>1. PICK id \in Ids, a \in Agents \cup {None} :
          row' = [NoRow EXCEPT !.st = "pending", !.act = id, !.agent = a]
    BY <1>2 DEF Begin
  <2>2. row'.node = None /\ row'.acc = 0
    BY <2>1 DEF NoRow
  <2>3. row.acc = 0
    BY <1>0, <1>2 DEF Begin, RowOK, NoRow
  <2> QED BY <1>0, <1>2, <2>2, <2>3 DEF Begin, Quiet, FramesOK
<1>3. CASE End
  <2>1. PICK st \in Ended, e \in Errors, a \in {row.act, NoId} : row' = [row EXCEPT !.st = st, !.err = e, !.act = a]
    BY <1>3 DEF End
  <2>2. row'.st # "pending" /\ row'.acc = row.acc
    BY <1>0, <2>1 DEF Row, Ended
  <2> QED BY <1>0, <1>3, <2>2 DEF End, Quiet, FramesOK
<1>4. CASE HostedSend
  <2>1. PICK n \in Nodes, st \in Open, att \in 1..MaxAttempts, d \in Deadlines, t \in SUBSET Nodes :
          /\ row' = [row EXCEPT !.st = st, !.node = n, !.att = att, !.acc = att, !.retry = d, !.tried = t]
          /\ att = row.att + 1 \/ (att = row.att /\ d > row.retry /\ sent[att] = 0)
          /\ \/ run' = run /\ sent' = sent
             \/ st = "dispatched" /\ run' = run \cup {<<n, att>>} /\ sent' = [sent EXCEPT ![att] = @ + 1]
    BY <1>4 DEF HostedSend
  <2>2. row'.st = st /\ row'.att = att /\ row'.acc = att
    BY <1>0, <2>1 DEF Row
  <2>3. sent[att] = 0
    BY <1>0, <2>1 DEF FramesOK
  <2>4. row.acc <= att
    BY <1>0, <2>1
  <2>5. CASE run' = run /\ sent' = sent
    BY <1>0, <2>2, <2>3, <2>4, <2>5 DEF FramesOK
  <2>6. CASE st = "dispatched" /\ run' = run \cup {<<n, att>>} /\ sent' = [sent EXCEPT ![att] = @ + 1]
    BY <1>0, <2>2, <2>3, <2>4, <2>6 DEF FramesOK
  <2> QED BY <2>1, <2>5, <2>6
<1>5. CASE NodeWrite
  <2>1. PICK n \in Nodes \cup {None}, st \in Open, id \in Ids \cup {NoId}, att \in 0..MaxAttempts,
             d \in Deadlines, t \in SUBSET Nodes :
          /\ row' = [row EXCEPT !.st = st, !.node = n, !.act = id, !.att = att, !.retry = d, !.tried = t]
          /\ id[1] # Hosted
          /\ n # None => att >= 1
          /\ att = row.att + 1 \/ (att = row.att /\ d > row.retry)
    BY <1>5 DEF NodeWrite
  <2>2. row'.act[1] # Hosted /\ row'.acc = row.acc
    BY <1>0, <2>1 DEF Row
  <2> QED BY <1>0, <1>5, <2>2 DEF NodeWrite, Quiet, FramesOK
<1>6. CASE Accepted
  <2>1. row'.act[1] # Hosted /\ row'.acc = row.att /\ row.acc < row.att /\ row.att \in 1..MaxAttempts
    BY <1>0, <1>6 DEF Accepted, Row
  <2>2. sent[row.att] = 0
    BY <1>0, <2>1 DEF FramesOK
  <2>3. CASE run' = run /\ sent' = sent
    BY <1>0, <2>1, <2>3 DEF FramesOK
  <2>4. CASE run' = run \cup {<<row.node, row.att>>} /\ sent' = [sent EXCEPT ![row.att] = @ + 1]
    BY <1>0, <1>6, <2>1, <2>2, <2>4 DEF FramesOK, Accepted
  <2> QED BY <1>6, <2>3, <2>4 DEF Accepted
<1>7. CASE TaskBegin
  <2>1. row'.st = "running" /\ row'.acc = row.acc
    BY <1>0, <1>7 DEF TaskBegin, Row
  <2> QED BY <1>0, <1>7, <2>1 DEF TaskBegin, FramesOK
<1> QED BY <1>1, <1>2, <1>3, <1>4, <1>5, <1>6, <1>7 DEF RowStep

\* A begun task keeps its generation, and no other begins.
LEMMA BegunKept == ASSUME ActionInv, RowStep PROVE begun' \in Nat /\ BegunOK'
<1>0. row \in Row /\ RowOK /\ begun \in Nat /\ BegunOK /\ None \notin Gens
  BY ActionAssumption DEF ActionInv, ActionType, TypeOK
<1>1. CASE Still
  BY <1>0, <1>1 DEF Still, Quiet, BegunOK, Row
<1>2. CASE Begin
  <2>1. row.gen = None
    BY <1>0, <1>2 DEF Begin, RowOK, NoRow
  <2> QED BY <1>0, <1>2, <2>1 DEF Begin, Quiet, BegunOK
<1>3. CASE End
  BY <1>0, <1>3 DEF End, Quiet, BegunOK, Row
<1>4. CASE HostedSend
  BY <1>0, <1>4 DEF HostedSend, BegunOK, Open, Ended
<1>5. CASE NodeWrite
  BY <1>0, <1>5 DEF NodeWrite, Quiet, BegunOK, Open, Ended
<1>6. CASE Accepted
  BY <1>0, <1>6 DEF Accepted, BegunOK, Ended
<1>7. CASE TaskBegin
  <2>1. PICK g \in Gens : row' = [row EXCEPT !.st = "running", !.gen = g]
    BY <1>7 DEF TaskBegin
  <2>2. row'.st = "running" /\ row'.gen # None
    BY <1>0, <2>1 DEF Row
  <2> QED BY <1>0, <1>7, <2>2 DEF TaskBegin, BegunOK
<1> QED BY <1>1, <1>2, <1>3, <1>4, <1>5, <1>6, <1>7 DEF RowStep

\* What a worker knows of the row outlives any step of the others.
LEMMA LinkedKept ==
  ASSUME ActionInv, RowStep, NEW x \in Worker, Linked(x, row, sent)
  PROVE  Linked(x, row', sent')
<1>a. row \in Row /\ row' \in Row /\ RowOK /\ NotAfter(row, row')
  BY RowKept DEF ActionInv, ActionType, TypeOK
<1>b. x.obs \in Obs
  BY DEF Worker
<1>c. row.att \in Nat /\ row.retry \in Nat /\ row'.att \in Nat /\ row'.retry \in Nat
  BY <1>a, ActionAssumption DEF Row, Deadlines
<1>d. x.obs.att \in Nat /\ x.obs.retry \in Nat
  BY <1>b, ActionAssumption DEF Obs, Deadlines
<1>0. /\ row \in Row /\ row' \in Row /\ RowOK /\ NotAfter(row, row') /\ x.obs \in Obs
      /\ row.att \in Nat /\ row.retry \in Nat /\ row'.att \in Nat /\ row'.retry \in Nat
      /\ x.obs.att \in Nat /\ x.obs.retry \in Nat
  BY <1>a, <1>b, <1>c, <1>d
<1>1. NotAfter(x.obs, row')
  BY <1>0 DEF NotAfter, Linked
<1>2. (row'.st = "none" => x.pc \in {"off", "insert"}) /\ (x.pc \in NodeSide => row'.act[1] # Hosted)
  BY RowKept DEF Linked, NodeSide
<1>3. ASSUME x.pc = "agentsend" /\ x.obs.node # None /\ x.job = "drain" /\ row'.act[1] = Hosted
             /\ row'.att = x.obs.att /\ row'.retry = x.obs.retry
      PROVE  sent'[row'.att] = 0
  <2>1. row.att = x.obs.att /\ row.retry = x.obs.retry
    BY <1>0, <1>3 DEF NotAfter, Linked
  <2>2. row.act[1] = Hosted /\ row.st # "none"
    BY <1>3, RowKept DEF Linked
  <2>3. sent[row.att] = 0
    BY <1>3, <2>1, <2>2 DEF Linked
  <2>4. sent' = sent
    <3>1. CASE HostedSend
      <4>1. PICK n \in Nodes, st \in Open, att \in 1..MaxAttempts, d \in Deadlines, t \in SUBSET Nodes :
              /\ row' = [row EXCEPT !.st = st, !.node = n, !.att = att, !.acc = att, !.retry = d, !.tried = t]
              /\ att = row.att + 1 \/ (att = row.att /\ d > row.retry /\ sent[att] = 0)
        BY <3>1 DEF HostedSend
      <4>2. row'.att = att /\ row'.retry = d
        BY <1>0, <4>1 DEF Row
      <4> QED BY <1>0, <1>3, <2>1, <4>1, <4>2
    <3>2. CASE ~HostedSend
      BY <2>2, <3>2 DEF RowStep, Still, Begin, End, NodeWrite, Accepted, TaskBegin, Quiet
    <3> QED BY <3>1, <3>2
  <2> QED BY <1>3, <2>1, <2>3, <2>4
<1> QED BY <1>1, <1>2, <1>3 DEF Linked


-----------------------------------------------------------------------------
(* What a step does to the workers *)

\* One worker moves, to a state the invariant allows.
Moved(w) == \E y : wk' = [wk EXCEPT ![w] = y] /\ Carried(y) /\ Linked(y, row', sent')

\* Nobody is doing anything at first, or when done.
LEMMA IdleOK == Carried(Idle) /\ Idle.obs \in Obs /\ Idle.obs.att = 0 /\ Idle.obs.retry = 0
<1>1. Idle.obs = [st |-> "none", act |-> NoId, node |-> None, att |-> 0, retry |-> 0, tried |-> {}]
  BY DEF Idle, Seen, NoRow
<1>2. Idle.obs \in Obs
  BY <1>1, ActionAssumption DEF Obs, Status, Deadlines
<1>3. Idle \in Worker
  BY <1>2, ActionAssumption DEF Idle, Worker, Pcs, Jobs
<1> QED BY <1>1, <1>2, <1>3 DEF Carried, Idle, Reading, Routed

\* Being idle is a state of a worker.
LEMMA IdleWorker == Idle \in Worker
BY IdleOK DEF Carried

\* An idle worker knows nothing.
LEMMA IdleLinked == ASSUME NEW r \in Row, NEW s PROVE Linked(Idle, r, s)
<1>1. r.att \in Nat /\ r.retry \in Nat
  BY ActionAssumption DEF Row, Deadlines
<1> QED BY <1>1, IdleOK DEF Linked, NotAfter, Idle, NodeSide

\* An execution ends.
LEMMA StopOK == ASSUME ActionInv, RowStep, NEW w \in Workers, Stop(w) PROVE Moved(w)
BY RowKept, IdleOK, IdleLinked DEF Moved, Stop

\* An execution that had begun with the row goes on to answer, or to give up.
LEMMA StepOK ==
  ASSUME ActionInv, RowStep, NEW w \in Workers, NEW pc \in {"unsent", "finish"}, Step(w, pc),
         wk[w].pc \notin {"off", "insert"}
  PROVE  Moved(w)
<1> DEFINE x == wk[w]
           y == [x EXCEPT !.pc = pc]
<1>1. x \in Worker /\ Carried(x) /\ Linked(x, row, sent) /\ wk \in [Workers -> Worker]
  BY Facts DEF ActionInv, ActionType
<1>2. wk' = [wk EXCEPT ![w] = y]
  BY <1>1 DEF Step, Worker
<1>3. y \in Worker /\ y.obs = x.obs /\ y.pc = pc
  BY <1>1 DEF Worker, Pcs
<1>4. Linked(x, row', sent')
  BY <1>1, LinkedKept
<1>5. row'.st # "none"
  BY <1>4 DEF Linked
<1> HIDE DEF y
<1>6. Carried(y)
  BY <1>1, <1>3 DEF Carried, Reading, Routed
<1>7. Linked(y, row', sent')
  BY <1>3, <1>4, <1>5 DEF Linked, NodeSide
<1> QED BY <1>2, <1>6, <1>7 DEF Moved

\* What a worker reads of the row.
LEMMA SeenOK ==
  ASSUME NEW r \in Row, r.node # None => r.att >= 1
  PROVE  /\ Seen(r) \in Obs /\ Seen(r).st = r.st /\ NotAfter(Seen(r), r) /\ Seen(r).node = r.node
         /\ Seen(r).att = r.att /\ Seen(r).retry = r.retry
<1>1. /\ r.st \in Status /\ r.act \in Ids \cup {NoId} /\ r.node \in Nodes \cup {None} /\ r.att \in 0..MaxAttempts
      /\ r.retry \in Deadlines /\ r.tried \in SUBSET Nodes
  BY DEF Row, Status
<1>2. r.att \in Nat /\ r.retry \in Nat
  BY <1>1, ActionAssumption DEF Deadlines
<1>3. Seen(r) = [st |-> r.st, act |-> r.act, node |-> r.node, att |-> r.att, retry |-> r.retry, tried |-> r.tried]
  BY DEF Seen
<1>4. Seen(r) \in Obs
  BY <1>1, <1>3 DEF Obs
<1> QED BY <1>2, <1>3, <1>4 DEF NotAfter


\* An execution that goes on with what it read.
LEMMA GoOn ==
  ASSUME ActionInv, RowStep, NEW w \in Workers, wk[w].pc \notin {"off", "insert"}, NEW y \in Worker,
         y.obs = wk[w].obs, y.pc \in NodeSide => row'.act[1] # Hosted, y.pc = "agentsend" => y.job # "drain"
  PROVE  Linked(y, row', sent')
<1>1. Linked(wk[w], row', sent')
  BY Facts, LinkedKept
<1> QED BY <1>1 DEF Linked

\* The row stays another's than an agent's while a worker is on the way to a node.
LEMMA NodeSideKept ==
  ASSUME ActionInv, RowStep, NEW w \in Workers, wk[w].pc \in NodeSide
  PROVE  row'.act[1] # Hosted
BY Facts, LinkedKept DEF Linked

\* invokeAction.
LEMMA InvokeWk == ASSUME ActionInv, RowStep, NEW w \in Workers, Invoke(w) PROVE Moved(w)
<1>0. /\ wk \in [Workers -> Worker] /\ row' \in Row /\ live \in [Hosts -> 0..MaxGen] /\ handler \in Agents
      /\ AgentNode \in [Agents -> Nodes] /\ None \notin Agents
  BY Facts, RowKept, ActionAssumption DEF ActionInv, ActionType
<1>1. PICK h \in Hosts :
        /\ live[h] # 0
        /\ wk' = [wk EXCEPT ![w] = [Idle EXCEPT !.pc = "insert", !.job = "winner", !.act = <<h, live[h]>>,
                    !.agent = IF h = Hosted THEN handler ELSE None,
                    !.n = IF h = Hosted THEN AgentNode[handler] ELSE h]]
  BY DEF Invoke
<1> DEFINE id == <<h, live[h]>>
           a == IF h = Hosted THEN handler ELSE None
           n == IF h = Hosted THEN AgentNode[handler] ELSE h
<1>2. id \in Ids /\ id[1] = h /\ a \in Agents \cup {None} /\ n \in Nodes /\ (a = None <=> h # Hosted)
  BY <1>0, <1>1, ActionAssumption DEF Ids, Hosts
<1> HIDE DEF id, a, n
<1> DEFINE y == [Idle EXCEPT !.pc = "insert", !.job = "winner", !.act = id, !.agent = a, !.n = n]
<1>3. wk' = [wk EXCEPT ![w] = y]
  BY <1>1 DEF id, a, n
<1>4. y \in Worker /\ y.pc = "insert" /\ y.job = "winner" /\ y.act = id /\ y.agent = a /\ y.n = n /\ y.obs = Idle.obs
  BY <1>2, IdleWorker DEF Worker, Pcs, Jobs
<1> HIDE DEF y
<1>5. Carried(y)
  BY <1>2, <1>4, IdleOK DEF Carried, Reading, Routed, Idle, Seen, NoRow
<1>6. Linked(y, row', sent')
  BY <1>0, <1>4, IdleLinked DEF Linked, NodeSide
<1> QED BY <1>3, <1>5, <1>6 DEF Moved

\* createInvocation.
LEMMA InsertWk == ASSUME ActionInv, RowStep, NEW w \in Workers, Insert(w) PROVE Moved(w)
<1> DEFINE x == wk[w]
<1>0. /\ wk \in [Workers -> Worker] /\ row' \in Row /\ x \in Worker /\ Carried(x) /\ x.pc = "insert"
  BY Facts, RowKept DEF ActionInv, ActionType, Insert, At
<1>1. CASE row.st = "none" /\ IsLive(x.act)
  <2> DEFINE pc == IF x.agent = None THEN "gate" ELSE "revalidate"
             o == Seen(row')
             y == [x EXCEPT !.pc = pc, !.obs = o]
  <2>1. row' = [NoRow EXCEPT !.st = "pending", !.act = x.act, !.agent = x.agent]
    BY <1>1 DEF Insert
  <2>2. row'.st = "pending" /\ row'.act = x.act /\ row'.node = None
    BY <2>1 DEF NoRow
  <2>3. o \in Obs /\ o.st = "pending" /\ o.node = None /\ NotAfter(o, row')
    BY <1>0, <2>2, SeenOK
  <2>4. wk' = [wk EXCEPT ![w].pc = pc, ![w].obs = o]
    BY <1>1 DEF Insert
  <2>5. pc \in {"gate", "revalidate"} /\ (pc = "gate" <=> x.act[1] # Hosted)
    BY <1>0 DEF Carried
  <2> HIDE DEF pc, o
  <2>6. wk' = [wk EXCEPT ![w] = y]
    BY <1>0, <2>4 DEF Worker
  <2>7. y \in Worker /\ y.pc = pc /\ y.obs = o /\ y.act = x.act /\ y.n = x.n /\ y.job = x.job
    <3>1. pc \in Pcs /\ x \in Worker
      BY <1>0, <2>5 DEF Pcs
    <3> HIDE DEF x, y
    <3>2. y = [x EXCEPT !.pc = pc, !.obs = o]
      BY DEF y
    <3> QED BY <2>3, <3>1, <3>2 DEF Worker
  <2> HIDE DEF y
  <2>8. Carried(y)
    BY <1>0, <2>3, <2>5, <2>7 DEF Carried, Reading, Routed, Open
  <2>9. Linked(y, row', sent')
    BY <2>2, <2>3, <2>5, <2>7 DEF Linked, NodeSide
  <2> QED BY <2>6, <2>8, <2>9 DEF Moved
<1>2. CASE ~(row.st = "none" /\ IsLive(x.act))
  BY <1>2, StopOK DEF Insert
<1> QED BY <1>1, <1>2

\* The handler pointer is read again.
LEMMA RevalidateWk == ASSUME ActionInv, RowStep, NEW w \in Workers, Revalidate(w) PROVE Moved(w)
<1> DEFINE x == wk[w]
           y == [x EXCEPT !.pc = "agentsend"]
<1>0. wk \in [Workers -> Worker] /\ x \in Worker /\ Carried(x) /\ x.pc = "revalidate"
  BY Facts DEF ActionInv, ActionType, Revalidate, At
<1>1. CASE Step(w, "agentsend")
  <2>1. wk' = [wk EXCEPT ![w] = y]
    BY <1>0, <1>1 DEF Step, Worker
  <2>2. y \in Worker /\ y.pc = "agentsend" /\ y.obs = x.obs /\ y.act = x.act /\ y.n = x.n /\ y.job = x.job
    BY <1>0 DEF Worker, Pcs
  <2> HIDE DEF y
  <2>3. Carried(y) /\ y.job # "drain"
    BY <1>0, <2>2 DEF Carried, Reading, Routed
  <2>4. Linked(y, row', sent')
    BY <1>0, <2>2, <2>3, GoOn DEF NodeSide
  <2> QED BY <2>1, <2>3, <2>4 DEF Moved
<1>2. CASE Stop(w)
  BY <1>2, StopOK
<1> QED BY <1>1, <1>2 DEF Revalidate

\* The liveness of the provider is looked at.
LEMMA GateWk == ASSUME ActionInv, RowStep, NEW w \in Workers, Gate(w) PROVE Moved(w)
<1> DEFINE x == wk[w]
<1>0. /\ wk \in [Workers -> Worker] /\ x \in Worker /\ Carried(x) /\ x.pc = "gate" /\ row'.act[1] # Hosted
      /\ x.n \in Nodes
  BY Facts, NodeSideKept DEF ActionInv, ActionType, Gate, At, NodeSide, Carried, Routed
<1>1. ASSUME NEW pc \in {"claim", "queue"}, Step(w, pc)
      PROVE  Moved(w)
  <2> DEFINE y == [x EXCEPT !.pc = pc]
  <2>1. wk' = [wk EXCEPT ![w] = y]
    BY <1>0, <1>1 DEF Step, Worker
  <2>2. y \in Worker /\ y.pc = pc /\ y.obs = x.obs /\ y.act = x.act /\ y.n = x.n
    BY <1>0 DEF Worker, Pcs
  <2> HIDE DEF y
  <2>3. Carried(y)
    BY <1>0, <2>2 DEF Carried, Reading, Routed
  <2>4. Linked(y, row', sent')
    BY <1>0, <2>2, GoOn
  <2> QED BY <2>1, <2>3, <2>4 DEF Moved
<1>2. CASE wk' = [wk EXCEPT ![w].pc = "replace", ![w].rejected = @ \cup {x.n}]
  <2> DEFINE y == [x EXCEPT !.pc = "replace", !.rejected = x.rejected \cup {x.n}]
  <2>1. wk' = [wk EXCEPT ![w] = y]
    BY <1>0, <1>2 DEF Worker
  <2>2. y \in Worker /\ y.pc = "replace" /\ y.obs = x.obs
    BY <1>0 DEF Worker, Pcs
  <2> HIDE DEF y
  <2>3. Carried(y)
    BY <1>0, <2>2 DEF Carried, Reading, Routed
  <2>4. Linked(y, row', sent')
    BY <1>0, <2>2, GoOn
  <2> QED BY <2>1, <2>3, <2>4 DEF Moved
<1>3. CASE Stop(w)
  BY <1>3, StopOK
<1> QED BY <1>1, <1>2, <1>3 DEF Gate

\* The claim of a node's provider.
LEMMA ClaimWk == ASSUME ActionInv, RowStep, NEW w \in Workers, Claim(w) PROVE Moved(w)
<1> DEFINE x == wk[w]
           att == IF x.job = "drain" /\ x.obs.node = x.n THEN row.att ELSE row.att + 1
           y == [x EXCEPT !.pc = "accept", !.att = att]
<1>0. /\ wk \in [Workers -> Worker] /\ x \in Worker /\ Carried(x) /\ x.pc = "claim" /\ row'.act[1] # Hosted
      /\ row \in Row /\ Linked(x, row, sent)
  BY Facts, NodeSideKept DEF ActionInv, ActionType, Claim, At, NodeSide
<1>1. CASE HandoffMatches(w)
  <2>1. att <= MaxAttempts /\ wk' = [wk EXCEPT ![w].pc = "accept", ![w].att = att]
    BY <1>1 DEF Claim
  <2>2. att \in 0..MaxAttempts /\ att >= 1
    <3>1. row.att \in 0..MaxAttempts /\ x.obs \in Obs
      BY <1>0 DEF Row, Worker
    <3>2. x.obs.att \in 0..MaxAttempts
      BY <3>1 DEF Obs
    <3>3. CASE x.job = "drain" /\ x.obs.node = x.n
      <4>1. x.obs.att >= 1 /\ x.obs.att <= row.att
        BY <1>0, <3>1, <3>2, <3>3, ActionAssumption DEF Carried, Linked, NotAfter, Routed
      <4> QED BY <3>1, <3>2, <3>3, <4>1, ActionAssumption
    <3>4. CASE ~(x.job = "drain" /\ x.obs.node = x.n)
      BY <2>1, <3>1, <3>4, ActionAssumption
    <3> QED BY <3>3, <3>4
  <2> HIDE DEF att
  <2>3. wk' = [wk EXCEPT ![w] = y]
    BY <1>0, <2>1 DEF Worker
  <2>4. y \in Worker /\ y.pc = "accept" /\ y.obs = x.obs /\ y.act = x.act /\ y.n = x.n /\ y.att = att
    BY <1>0, <2>2 DEF Worker, Pcs
  <2> HIDE DEF y
  <2>5. Carried(y)
    BY <1>0, <2>2, <2>4 DEF Carried, Reading, Routed
  <2>6. Linked(y, row', sent')
    BY <1>0, <2>4, GoOn
  <2> QED BY <2>3, <2>5, <2>6 DEF Moved
<1>2. CASE ~HandoffMatches(w)
  BY <1>0, <1>2, StopOK, StepOK DEF Claim
<1> QED BY <1>1, <1>2

\* The acceptance of a provider.
LEMMA AcceptWk == ASSUME ActionInv, RowStep, NEW w \in Workers, Accept(w) PROVE Moved(w)
<1> DEFINE x == wk[w]
           y == [x EXCEPT !.pc = "sendfail"]
<1>0. wk \in [Workers -> Worker] /\ x \in Worker /\ Carried(x) /\ x.pc = "accept" /\ row'.act[1] # Hosted
  BY Facts, NodeSideKept DEF ActionInv, ActionType, Accept, At, NodeSide
<1>1. CASE Step(w, "sendfail")
  <2>1. wk' = [wk EXCEPT ![w] = y]
    BY <1>0, <1>1 DEF Step, Worker
  <2>2. y \in Worker /\ y.pc = "sendfail" /\ y.obs = x.obs
    BY <1>0 DEF Worker, Pcs
  <2> HIDE DEF y
  <2>3. Carried(y)
    BY <1>0, <2>2 DEF Carried, Reading, Routed
  <2>4. Linked(y, row', sent')
    BY <1>0, <2>2, GoOn
  <2> QED BY <2>1, <2>3, <2>4 DEF Moved
<1>2. CASE Stop(w)
  BY <1>2, StopOK
<1> QED BY <1>1, <1>2 DEF Accept


\* drainNodeInvocations.
LEMMA DrainWk == ASSUME ActionInv, RowStep, NEW w \in Workers, NEW n \in Nodes, StartDrain(w, n) PROVE Moved(w)
<1>0. /\ wk \in [Workers -> Worker] /\ row \in Row /\ RowOK /\ FramesOK /\ row' = row /\ sent' = sent
      /\ handler \in Agents /\ row.st = "pending" /\ row.act \in Ids \cup {NoId}
  BY Facts DEF ActionInv, ActionType, StartDrain, frames, Row
<1>1. CASE Deleted(row)
  <2> DEFINE y == [Idle EXCEPT !.pc = "faildeleted", !.job = "drain"]
  <2>1. wk' = [wk EXCEPT ![w] = y]
    BY <1>1 DEF StartDrain
  <2>2. y \in Worker /\ y.pc = "faildeleted" /\ y.obs = Idle.obs
    BY IdleWorker DEF Worker, Pcs, Jobs
  <2> HIDE DEF y
  <2>3. Carried(y)
    BY <2>2, IdleOK DEF Carried, Reading, Routed, Idle
  <2>4. Linked(y, row', sent')
    BY <1>0, <2>2, IdleLinked DEF Linked, NodeSide
  <2> QED BY <2>1, <2>3, <2>4 DEF Moved
<1>2. CASE ~Deleted(row)
  <2> DEFINE pc == IF row.act[1] = Hosted THEN "agentsend" ELSE "claim"
             a == IF row.act[1] = Hosted THEN handler ELSE None
             o == Seen(row)
             id == row.act
             y == [Idle EXCEPT !.pc = pc, !.job = "drain", !.obs = o, !.act = id, !.n = n, !.agent = a]
  <2>1. wk' = [wk EXCEPT ![w] = y]
    BY <1>2 DEF StartDrain
  <2>2. /\ pc \in {"agentsend", "claim"} /\ (pc = "agentsend" <=> id[1] = Hosted)
        /\ a \in Agents \cup {None} /\ id \in Ids \cup {NoId}
    BY <1>0
  <2>3. /\ o \in Obs /\ o.st = row.st /\ NotAfter(o, row) /\ o.node = row.node /\ o.att = row.att
        /\ (o.node # None => o.att >= 1)
    BY <1>0, SeenOK DEF RowOK
  <2>x. id = row.act
    OBVIOUS
  <2> HIDE DEF pc, a, o, id
  <2>4. y \in Worker /\ y.pc = pc /\ y.job = "drain" /\ y.obs = o /\ y.act = id /\ y.n = n
    <3>1. pc \in Pcs /\ "drain" \in Jobs
      BY <2>2 DEF Pcs, Jobs
    <3> HIDE DEF y
    <3>2. y = [Idle EXCEPT !.pc = pc, !.job = "drain", !.obs = o, !.act = id, !.n = n, !.agent = a]
      BY DEF y
    <3> QED BY <2>2, <2>3, <3>1, <3>2, IdleWorker DEF Worker
  <2> HIDE DEF y
  <2>5. Carried(y)
    BY <1>0, <2>2, <2>3, <2>4 DEF Carried, Reading, Routed, Open
  <2>6. Linked(y, row, sent)
    BY <1>0, <2>2, <2>3, <2>4, <2>x DEF Linked, NodeSide, FramesOK
  <2> QED BY <1>0, <2>1, <2>5, <2>6 DEF Moved
<1> QED BY <1>1, <1>2

\* rescheduleNodeInvocation, of a row read open.
LEMMA RescheduledOK ==
  ASSUME ActionInv, NEW job \in {"timeout", "due", "lost", "unavailable"}, NEW n \in Nodes \cup {None},
         row.st \in Open
  PROVE  LET y == [Rescheduled(row, job) EXCEPT !.from = n] IN Carried(y) /\ Linked(y, row, sent)
<1> DEFINE pc == IF AcceptedDeleted(row) THEN (IF job = "unavailable" THEN "finish" ELSE "off")
                 ELSE IF Deleted(row) THEN "faildeleted" ELSE "target"
           o == Seen(row)
           y == [Rescheduled(row, job) EXCEPT !.from = n]
<1>0. row \in Row /\ RowOK
  BY DEF ActionInv, ActionType, TypeOK
<1>1. pc \in {"finish", "off", "faildeleted", "target"}
  OBVIOUS
<1>2. o \in Obs /\ o.st = row.st /\ NotAfter(o, row) /\ (o.node # None => o.att >= 1)
  BY <1>0, SeenOK DEF RowOK
<1>3. y = [[Idle EXCEPT !.pc = pc, !.job = job, !.obs = o] EXCEPT !.from = n]
  BY DEF Rescheduled
<1> HIDE DEF pc, o, y
<1>4. y \in Worker /\ y.pc = pc /\ y.job = job /\ y.obs = o
  BY <1>1, <1>2, <1>3, IdleWorker DEF Worker, Pcs, Jobs
<1>5. Carried(y)
  BY <1>1, <1>2, <1>4 DEF Carried, Reading, Routed
<1>6. Linked(y, row, sent)
  BY <1>1, <1>2, <1>4 DEF Linked, NodeSide, Open
<1> QED BY <1>5, <1>6 DEF y

\* A timeout, a due retry, a lost node.
LEMMA RescheduleWk ==
  ASSUME ActionInv, RowStep, NEW w \in Workers, NEW job \in {"timeout", "due", "lost"},
         StartReschedule(w, job), row.st \in Open
  PROVE  Moved(w)
<1>0. row' = row /\ sent' = sent /\ row \in Row
  BY Facts DEF StartReschedule, frames
<1>1. CASE AcceptedDeleted(row)
  BY <1>0, <1>1, IdleOK, IdleLinked DEF StartReschedule, Moved
<1>2. CASE ~AcceptedDeleted(row)
  <2>1. wk' = [wk EXCEPT ![w] = Rescheduled(row, job)]
    BY <1>2 DEF StartReschedule
  <2>2. Rescheduled(row, job) = [Rescheduled(row, job) EXCEPT !.from = None]
    <3> DEFINE pc == IF AcceptedDeleted(row) THEN (IF job = "unavailable" THEN "finish" ELSE "off")
                     ELSE IF Deleted(row) THEN "faildeleted" ELSE "target"
               o == Seen(row)
    <3>1. Rescheduled(row, job) = [Idle EXCEPT !.pc = pc, !.job = job, !.obs = o]
      BY DEF Rescheduled
    <3> HIDE DEF pc, o
    <3> QED BY <3>1 DEF Idle
  <2>3. Carried(Rescheduled(row, job)) /\ Linked(Rescheduled(row, job), row, sent)
    BY <2>2, RescheduledOK
  <2> QED BY <1>0, <2>1, <2>3 DEF Moved
<1> QED BY <1>1, <1>2

\* targetAgentForInvocation.
LEMMA TargetWk == ASSUME ActionInv, RowStep, NEW w \in Workers, Target(w) PROVE Moved(w)
<1> DEFINE x == wk[w]
<1>0. /\ wk \in [Workers -> Worker] /\ x \in Worker /\ Carried(x) /\ x.pc = "target" /\ row' = row /\ row \in Row
      /\ handler \in Agents /\ AgentNode[handler] \in Nodes /\ row.act \in Ids \cup {NoId}
  BY Facts, ActionAssumption DEF ActionInv, ActionType, Target, At, Row
<1>1. CASE row.act[1] = Hosted
  <2> DEFINE id == row.act
             n == AgentNode[handler]
             y == [x EXCEPT !.pc = "agentsend", !.act = id, !.agent = handler, !.n = n]
  <2>1. wk' = [wk EXCEPT ![w] = y]
    BY <1>1 DEF Target
  <2>2. id[1] = Hosted /\ id \in Ids \cup {NoId} /\ n \in Nodes
    BY <1>0, <1>1
  <2> HIDE DEF id, n
  <2>3. y \in Worker /\ y.pc = "agentsend" /\ y.job = x.job /\ y.obs = x.obs /\ y.act = id /\ y.n = n
    BY <1>0, <2>2 DEF Worker, Pcs
  <2> HIDE DEF y
  <2>4. Carried(y) /\ y.job # "drain"
    BY <1>0, <2>2, <2>3 DEF Carried, Reading, Routed
  <2>5. Linked(y, row', sent')
    BY <1>0, <2>3, <2>4, GoOn DEF NodeSide
  <2> QED BY <2>1, <2>4, <2>5 DEF Moved
<1>2. CASE row.act[1] # Hosted
  <2> DEFINE y == [x EXCEPT !.pc = "replace"]
  <2>1. wk' = [wk EXCEPT ![w] = y]
    BY <1>2 DEF Target
  <2>2. y \in Worker /\ y.pc = "replace" /\ y.obs = x.obs
    BY <1>0 DEF Worker, Pcs
  <2> HIDE DEF y
  <2>3. Carried(y)
    BY <1>0, <2>2 DEF Carried, Reading, Routed
  <2>4. Linked(y, row', sent')
    BY <1>0, <1>2, <2>2, GoOn
  <2> QED BY <2>1, <2>3, <2>4 DEF Moved
<1> QED BY <1>1, <1>2

\* Another node is looked for.
LEMMA ReplaceWk == ASSUME ActionInv, RowStep, NEW w \in Workers, Replace(w) PROVE Moved(w)
<1> DEFINE x == wk[w]
<1>0. /\ wk \in [Workers -> Worker] /\ x \in Worker /\ Carried(x) /\ x.pc = "replace" /\ row'.act[1] # Hosted
      /\ live \in [Hosts -> 0..MaxGen]
  BY Facts, NodeSideKept DEF ActionInv, ActionType, Replace, At, NodeSide
<1>1. ASSUME NEW n \in Candidates(w), wk' = [wk EXCEPT ![w].pc = "gate", ![w].n = n, ![w].act = <<n, live[n]>>]
      PROVE  Moved(w)
  <2> DEFINE id == <<n, live[n]>>
             y == [x EXCEPT !.pc = "gate", !.n = n, !.act = id]
  <2>1. n \in Nodes /\ live[n] # 0
    BY <1>1 DEF Candidates
  <2>2. id \in Ids /\ id[1] # Hosted
    BY <1>0, <2>1, ActionAssumption DEF Ids, Hosts
  <2> HIDE DEF id
  <2>3. wk' = [wk EXCEPT ![w] = y]
    BY <1>0, <1>1 DEF Worker, id
  <2>4. y \in Worker /\ y.pc = "gate" /\ y.obs = x.obs /\ y.act = id /\ y.n = n
    BY <1>0, <2>1, <2>2 DEF Worker, Pcs
  <2> HIDE DEF y
  <2>5. Carried(y)
    BY <1>0, <2>1, <2>2, <2>4 DEF Carried, Reading, Routed
  <2>6. Linked(y, row', sent')
    BY <1>0, <2>4, GoOn
  <2> QED BY <2>3, <2>5, <2>6 DEF Moved
<1>2. CASE Step(w, "park")
  <2> DEFINE y == [x EXCEPT !.pc = "park"]
  <2>1. wk' = [wk EXCEPT ![w] = y]
    BY <1>0, <1>2 DEF Step, Worker
  <2>2. y \in Worker /\ y.pc = "park" /\ y.obs = x.obs
    BY <1>0 DEF Worker, Pcs
  <2> HIDE DEF y
  <2>3. Carried(y)
    BY <1>0, <2>2 DEF Carried, Reading, Routed
  <2>4. Linked(y, row', sent')
    BY <1>0, <2>2, GoOn
  <2> QED BY <2>1, <2>3, <2>4 DEF Moved
<1> QED BY <1>1, <1>2 DEF Replace

\* A node answers.
LEMMA AnswerWk ==
  ASSUME ActionInv, RowStep, NEW w \in Workers, NEW f \in run, NEW kind \in {"ok", "error", "unavailable"},
         Answer(w, f, kind)
  PROVE  Moved(w) \/ wk' = wk
<1> DEFINE n == f[1]
<1>0. wk \in [Workers -> Worker] /\ row' = row /\ sent' = sent /\ row \in Row /\ n \in Nodes
  BY Facts DEF ActionInv, ActionType, TypeOK, Answer
<1>1. CASE row.st \in Open /\ row.node = n /\ kind = "unavailable"
  <2> DEFINE y == [Rescheduled(row, kind) EXCEPT !.from = n]
  <2>1. wk' = [wk EXCEPT ![w] = y]
    BY <1>1 DEF Answer
  <2>2. Carried(y) /\ Linked(y, row, sent)
    BY <1>0, <1>1, RescheduledOK
  <2> QED BY <1>0, <2>1, <2>2 DEF Moved
<1>2. CASE row.st \in Open /\ row.node = n /\ kind # "unavailable"
  <2> DEFINE y == [Idle EXCEPT !.pc = "finish", !.job = kind, !.from = n]
  <2>1. wk' = [wk EXCEPT ![w] = y]
    BY <1>2 DEF Answer, Idle
  <2>2. y \in Worker /\ y.pc = "finish" /\ y.obs = Idle.obs
    <3>1. "finish" \in Pcs /\ kind \in Jobs
      BY DEF Pcs, Jobs
    <3> HIDE DEF y
    <3>2. y = [Idle EXCEPT !.pc = "finish", !.job = kind, !.from = n]
      BY DEF y
    <3> QED BY <1>0, <3>1, <3>2, IdleWorker DEF Worker
  <2> HIDE DEF y
  <2>3. Carried(y)
    BY <2>2, IdleOK DEF Carried, Reading, Routed, Idle
  <2>4. Linked(y, row', sent')
    BY <1>0, <1>2, <2>2, IdleLinked DEF Linked, NodeSide, Open
  <2> QED BY <2>1, <2>3, <2>4 DEF Moved
<1>3. CASE ~(row.st \in Open /\ row.node = n)
  BY <1>3 DEF Answer
<1> QED BY <1>1, <1>2, <1>3

\* An execution that carries nothing of the row.
LEMMA FreshWk ==
  ASSUME ActionInv, RowStep, NEW w \in Workers, row.st # "none",
         NEW pc \in {"httpfinish", "failunreachable", "taskaccept", "taskresult"}, NEW n \in Nodes \cup {None},
         NEW a \in 0..MaxAttempts, NEW g \in Gens \cup {None},
         pc \in {"taskaccept", "taskresult"} => n \in Nodes /\ g \in Gens,
         wk' = [wk EXCEPT ![w] = [Idle EXCEPT !.pc = pc, !.n = n, !.att = a, !.gen = g]]
  PROVE  Moved(w)
<1> DEFINE y == [Idle EXCEPT !.pc = pc, !.n = n, !.att = a, !.gen = g]
<1>0. row' \in Row /\ row'.st # "none"
  BY RowKept
<1>1. y \in Worker /\ y.pc = pc /\ y.obs = Idle.obs /\ y.n = n /\ y.gen = g
  <2>1. pc \in Pcs
    BY DEF Pcs
  <2> HIDE DEF y
  <2>2. y = [Idle EXCEPT !.pc = pc, !.n = n, !.att = a, !.gen = g]
    BY DEF y
  <2> QED BY <2>1, <2>2, IdleWorker DEF Worker
<1> HIDE DEF y
<1>2. Carried(y)
  BY <1>1, IdleOK DEF Carried, Reading, Routed, Idle
<1>3. Linked(y, row', sent')
  BY <1>0, <1>1, IdleLinked DEF Linked, NodeSide
<1> QED BY <1>2, <1>3 DEF Moved, y


\* Every step of a worker moves it, or nobody.
LEMMA WorkerWk == ASSUME ActionInv, RowStep, NEW w \in Workers, WorkerStep(w) PROVE Moved(w) \/ wk' = wk
<1>0. /\ row \in Row /\ handler \in Agents /\ run \subseteq Nodes \X (1..MaxAttempts) /\ RowOK
      /\ 0 \in 0..MaxAttempts /\ None \notin Nodes
  BY Facts, ActionAssumption DEF ActionInv, ActionType, TypeOK
<1>i. Idle \in Worker /\ Idle.n = None /\ Idle.att = 0 /\ Idle.gen = None
  BY IdleOK DEF Carried, Idle
<1>1. CASE Invoke(w)
  BY <1>1, InvokeWk
<1>2. CASE Insert(w)
  BY <1>2, InsertWk
<1>3. CASE Revalidate(w)
  BY <1>3, RevalidateWk
<1>4. CASE Unsent(w)
  BY <1>4, StopOK DEF Unsent
<1>5. CASE AgentSend(w)
  BY <1>5, StopOK, StepOK DEF AgentSend, At
<1>6. CASE Gate(w)
  BY <1>6, GateWk
<1>7. CASE Queue(w)
  BY <1>7, StopOK, StepOK DEF Queue, At
<1>8. CASE Claim(w)
  BY <1>8, ClaimWk
<1>9. CASE Accept(w)
  BY <1>9, AcceptWk
<1>10. CASE SendFail(w)
  BY <1>10, StopOK, StepOK DEF SendFail, At
<1>11. CASE \E n \in Nodes : StartDrain(w, n)
  BY <1>11, DrainWk
<1>12. CASE FailDeleted(w)
  BY <1>12, StopOK, StepOK DEF FailDeleted, At
<1>13. CASE StartTimeout(w) \/ StartDue(w) \/ \E n \in Nodes : StartLost(w, n)
  BY <1>13, RescheduleWk DEF StartTimeout, StartDue, StartLost, Open
<1>14. CASE Target(w)
  BY <1>14, TargetWk
<1>15. CASE Replace(w)
  BY <1>15, ReplaceWk
<1>16. CASE Park(w)
  BY <1>16, StopOK, StepOK DEF Park, At
<1>17. CASE \E f \in run, k \in {"ok", "error", "unavailable"} : Answer(w, f, k)
  BY <1>17, AnswerWk
<1>18. CASE Finish(w) \/ HttpFinish(w)
  BY <1>18, StopOK DEF Finish, HttpFinish
<1>19. CASE \E a \in Agents : HttpComplete(w, a)
  <2>1. row.st # "none" /\ wk' = [wk EXCEPT ![w] = [Idle EXCEPT !.pc = "httpfinish"]]
    BY <1>19 DEF HttpComplete, Open
  <2>2. [Idle EXCEPT !.pc = "httpfinish"]
          = [Idle EXCEPT !.pc = "httpfinish", !.n = None, !.att = 0, !.gen = None]
    BY <1>i DEF Worker
  <2> QED BY <1>0, <2>1, <2>2, FreshWk
<1>20. CASE \E f \in run, g \in Gens, k \in {"taskaccept", "taskresult"} : TaskFrame(w, f, g, k)
  <2>1. PICK f \in run, g \in Gens, k \in {"taskaccept", "taskresult"} : TaskFrame(w, f, g, k)
    BY <1>20
  <2>2. f[1] \in Nodes /\ f[2] \in 0..MaxAttempts
    BY <1>0
  <2>3. row.st # "none"
    BY <1>0, <2>1, <2>2 DEF TaskFrame, Fenced, RowOK, NoRow
  <2>4. wk' = [wk EXCEPT ![w] = [Idle EXCEPT !.pc = k, !.n = f[1], !.att = f[2], !.gen = g]]
    BY <2>1 DEF TaskFrame
  <2> QED BY <2>2, <2>3, <2>4, FreshWk
<1>21. CASE TaskAccept(w) \/ \E st \in Ended : TaskResult(w, st)
  BY <1>21, StopOK DEF TaskAccept, TaskResult
<1>22. CASE UnreachableSweep(w)
  <2>1. row.st # "none" /\ (wk' = wk \/ wk' = [wk EXCEPT ![w] = [Idle EXCEPT !.pc = "failunreachable"]])
    BY <1>22 DEF UnreachableSweep, Open
  <2>2. [Idle EXCEPT !.pc = "failunreachable"]
          = [Idle EXCEPT !.pc = "failunreachable", !.n = None, !.att = 0, !.gen = None]
    BY <1>i DEF Worker
  <2>3. CASE wk' = [wk EXCEPT ![w] = [Idle EXCEPT !.pc = "failunreachable"]]
    BY <1>0, <2>1, <2>2, <2>3, FreshWk
  <2> QED BY <2>1, <2>3
<1>23. CASE FailUnreachable(w)
  BY <1>23, StopOK DEF FailUnreachable
<1> QED
  BY <1>1, <1>2, <1>3, <1>4, <1>5, <1>6, <1>7, <1>8, <1>9, <1>10, <1>11, <1>12, <1>13, <1>14, <1>15, <1>16,
     <1>17, <1>18, <1>19, <1>20, <1>21, <1>22, <1>23 DEF WorkerStep

\* Every step keeps what the workers carry and know.
LEMMA WorkersKept ==
  ASSUME ActionInv, [Next]_vars
  PROVE  wk' \in [Workers -> Worker] /\ \A v \in Workers : Carried(wk'[v]) /\ Linked(wk'[v], row', sent')
<1>0. /\ wk \in [Workers -> Worker] /\ RowStep
      /\ \A v \in Workers : Carried(wk[v]) /\ Linked(wk[v], row', sent')
  BY RowSteps, LinkedKept DEF ActionInv, ActionType
<1>1. (\E w \in Workers : Moved(w)) \/ wk' = wk
  <2>1. CASE \E w \in Workers : WorkerStep(w)
    BY <1>0, <2>1, WorkerWk
  <2>2. CASE ~\E w \in Workers : WorkerStep(w)
    BY <2>2 DEF Next, vars, TaskDeadline, TaskExpire, Expire, Register, Prune, DeleteAction, Takeover, NodeUp,
                ConnLost, NodeOffline
  <2> QED BY <2>1, <2>2
<1>2. ASSUME NEW w \in Workers, Moved(w)
      PROVE  wk' \in [Workers -> Worker] /\ \A v \in Workers : Carried(wk'[v]) /\ Linked(wk'[v], row', sent')
  <2>1. PICK y : wk' = [wk EXCEPT ![w] = y] /\ Carried(y) /\ Linked(y, row', sent')
    BY <1>2 DEF Moved
  <2>2. y \in Worker
    BY <2>1 DEF Carried
  <2> QED BY <1>0, <2>1, <2>2
<1> QED BY <1>0, <1>1, <1>2

\* Every step keeps the registrations and the nodes.
LEMMA RegistrationsKept ==
  ASSUME ActionInv, [Next]_vars
  PROVE  /\ mode' \in Modes /\ live' \in [Hosts -> 0..MaxGen] /\ last' \in [Hosts -> 0..MaxGen]
         /\ handler' \in Agents /\ ready' \in [Nodes -> BOOLEAN] /\ conn' \in [Nodes -> BOOLEAN]
         /\ over' \in BOOLEAN
<1>0. /\ mode \in Modes /\ live \in [Hosts -> 0..MaxGen] /\ last \in [Hosts -> 0..MaxGen]
      /\ handler \in Agents /\ ready \in [Nodes -> BOOLEAN] /\ conn \in [Nodes -> BOOLEAN]
      /\ over \in BOOLEAN
  BY DEF ActionInv, ActionType, TypeOK
<1>1. CASE \E w \in Workers : WorkerStep(w)
  <2>1. PICK w \in Workers : WorkerStep(w)
    BY <1>1
  <2>2. CASE \E f \in run, k \in {"ok", "error", "unavailable"} : Answer(w, f, k)
    <3>1. mode' = mode /\ live' = live /\ last' = last /\ handler' = handler /\ conn' = conn /\ over' = over
          /\ \E n : ready' = [ready EXCEPT ![n] = FALSE] \/ ready' = ready
      BY <2>2 DEF Answer, actions, task
    <3> QED BY <1>0, <3>1
  <2>3. CASE ~\E f \in run, k \in {"ok", "error", "unavailable"} : Answer(w, f, k)
    <3>1. UNCHANGED <<actions, nodes, over>>
      BY <2>1, <2>3 DEF WorkerStep, Invoke, Insert, Revalidate, Unsent, AgentSend, Gate, Queue, Claim, Accept,
           SendFail, StartDrain, FailDeleted, StartTimeout, StartDue, StartLost, StartReschedule, Target, Replace,
           Park, Finish, HttpComplete, HttpFinish, TaskFrame, TaskAccept, TaskResult, UnreachableSweep,
           FailUnreachable, task
    <3> QED BY <1>0, <3>1 DEF actions, nodes
  <2> QED BY <2>2, <2>3
<1>2. CASE TaskDeadline
  BY <1>0, <1>2 DEF TaskDeadline, actions, nodes
<1>3. CASE TaskExpire \/ Expire
  BY <1>0, <1>3 DEF TaskExpire, Expire, actions, nodes, task
<1>4. CASE \E h \in Hosts : Register(h)
  <2>1. PICK h \in Hosts : Register(h)
    BY <1>4
  <2>2. last[h] + 1 \in 0..MaxGen /\ last' = [last EXCEPT ![h] = last[h] + 1]
        /\ live' = [live EXCEPT ![h] = last[h] + 1]
    BY <1>0, <2>1, ActionAssumption DEF Register
  <2> QED BY <1>0, <2>1, <2>2 DEF Register, nodes, task
<1>5. CASE (\E n \in Nodes : Prune(n)) \/ DeleteAction
  <2>1. /\ mode' = mode /\ last' = last /\ handler' = handler /\ ready' = ready /\ conn' = conn /\ over' = over
        /\ \E h : live' = [live EXCEPT ![h] = 0]
    BY <1>5 DEF Prune, DeleteAction, nodes, task
  <2>2. 0 \in 0..MaxGen
    BY ActionAssumption
  <2> QED BY <1>0, <2>1, <2>2
<1>6. CASE \E a \in Agents : Takeover(a)
  BY <1>0, <1>6 DEF Takeover, nodes, task
<1>7. CASE \E n \in Nodes : NodeUp(n) \/ ConnLost(n) \/ NodeOffline(n)
  BY <1>0, <1>7 DEF NodeUp, ConnLost, NodeOffline, actions, task
<1>8. CASE UNCHANGED vars
  BY <1>0, <1>8 DEF vars
<1> QED BY <1>1, <1>2, <1>3, <1>4, <1>5, <1>6, <1>7, <1>8 DEF Next

-----------------------------------------------------------------------------
(* The theorems *)

\* The invariant holds at the start.
LEMMA ActionInvInit == Init => ActionInv
<1> SUFFICES ASSUME Init PROVE ActionInv
  OBVIOUS
<1>1. NoRow \in Row /\ NoRow.node = None /\ NoRow.st = "none" /\ NoRow.err = "none" /\ NoRow.acc = 0 /\ NoRow.att = 0
  BY ActionAssumption DEF NoRow, Row, Deadlines
<1>2. live \in [Hosts -> 0..MaxGen] /\ last \in [Hosts -> 0..MaxGen]
  <2>1. 0 \in 0..MaxGen /\ 1 \in 0..MaxGen
    BY ActionAssumption
  <2>2. last = live /\ (live = [h \in Hosts |-> IF h = Hosted THEN 1 ELSE 0]
                        \/ live = [h \in Hosts |-> IF h = Hosted THEN 0 ELSE 1])
    BY DEF Init
  <2> QED BY <2>1, <2>2
<1>3. row = NoRow /\ wk = [w \in Workers |-> Idle] /\ sent = [a \in 1..MaxAttempts |-> 0] /\ begun = 0 /\ run = {}
  BY DEF Init
<1>4. TypeOK
  <2>1. mode \in Modes /\ handler \in Agents /\ over \in BOOLEAN
        /\ ready = [n \in Nodes |-> TRUE] /\ conn = [n \in Nodes |-> TRUE]
    BY DEF Init
  <2>2. ready \in [Nodes -> BOOLEAN] /\ conn \in [Nodes -> BOOLEAN] /\ sent \in [1..MaxAttempts -> Nat]
    BY <1>3, <2>1
  <2> QED BY <1>1, <1>2, <1>3, <2>1, <2>2 DEF TypeOK
<1>5. RowOK /\ BegunOK /\ FramesOK
  BY <1>1, <1>3 DEF RowOK, BegunOK, FramesOK
<1>6. Idle \in Worker /\ Carried(Idle) /\ Linked(Idle, row, sent)
  BY <1>1, <1>3, IdleOK, IdleLinked DEF Carried
<1> QED BY <1>3, <1>4, <1>5, <1>6 DEF ActionInv, ActionType

\* The invariant is inductive.
LEMMA ActionInvStep == ActionInv /\ [Next]_vars => ActionInv'
<1> SUFFICES ASSUME ActionInv, [Next]_vars PROVE ActionInv'
  OBVIOUS
<1>1. RowStep
  BY RowSteps
<1>2. TypeOK' /\ RowOK' /\ FramesOK' /\ BegunOK'
  BY <1>1, RowKept, FramesKept, BegunKept, RegistrationsKept DEF TypeOK
<1> QED BY <1>2, WorkersKept DEF ActionInv, ActionType

\* Every behaviour keeps it.
LEMMA ActionInvariant == Spec => []ActionInv
BY ActionInvInit, ActionInvStep, PTL DEF Spec

\* The row, the registrations and the histories of an invocation keep their types under every
\* interleaving of requests, drains, retries, sweeps, answers and task workers, for any nodes,
\* agents and workers; an error stands only on a failed row, and no attempt is accepted that
\* was not claimed (engine/action.ts).
THEOREM ActionTypeCorrect == Spec => []TypeOK
<1>1. ActionInv => TypeOK
  BY DEF ActionInv, ActionType
<1> QED BY <1>1, ActionInvariant, PTL

\* No attempt of an invocation is handed to a node twice, whoever sends it: the acceptance is
\* compared and written in the step that hands the frame over, and a hosting agent's claim moves
\* the attempt or the deadline on (sendAuthorizedActionToProvider).
THEOREM ActionFramedOnce == Spec => []FramedOnce
<1>1. ActionInv => FramedOnce
  BY DEF ActionInv, ActionType, TypeOK, FramesOK, FramedOnce
<1> QED BY <1>1, ActionInvariant, PTL

\* One worker generation is told to run a task, however many ask (acceptTaskInvocation).
THEOREM ActionTaskRunsOnce == Spec => []TaskRunsOnce
<1>1. ActionInv => TaskRunsOnce
  BY DEF ActionInv, BegunOK, TaskRunsOnce
<1> QED BY <1>1, ActionInvariant, PTL

\* An invocation that ended keeps its status and its error, whatever late senders, sweeps,
\* answers and task workers do (failOpenInvocationRows, completeNodeInvocation).
THEOREM ActionEndedStays == Spec => EndedStays
<1>1. ASSUME ActionInv, [Next]_vars
      PROVE  [row.st \in Ended => row'.st = row.st /\ row'.err = row.err]_vars
  <2>1. row \in Row /\ RowStep
    BY <1>1, RowSteps DEF ActionInv, ActionType, TypeOK
  <2> SUFFICES ASSUME row.st \in Ended PROVE row'.st = row.st /\ row'.err = row.err
    OBVIOUS
  <2>2. Still
    BY <2>1 DEF RowStep, Begin, End, HostedSend, NodeWrite, Accepted, TaskBegin, Open, Ended
  <2> QED BY <2>1, <2>2 DEF Still, Row
<1> QED BY <1>1, ActionInvariant, PTL DEF Spec, EndedStays

\* Once a worker runs the task no other frame of the invocation leaves: the claims of timeouts
\* and drains and the late acceptances all lose (claimRegisteredActionHandoff).
THEOREM ActionTaskNotResent == Spec => TaskNotResent
<1>1. ASSUME ActionInv, [Next]_vars
      PROVE  [begun > 0 => run' \subseteq run]_vars
  <2>1. RowStep /\ BegunOK
    BY <1>1, RowSteps DEF ActionInv
  <2> SUFFICES ASSUME begun > 0 PROVE run' \subseteq run
    OBVIOUS
  <2>2. row.st \in {"running"} \cup Ended
    BY <2>1 DEF BegunOK
  <2>3. Still \/ End
    BY <2>1, <2>2 DEF RowStep, Begin, HostedSend, NodeWrite, Accepted, TaskBegin, Open, Ended
  <2> QED BY <2>3 DEF Still, End, Quiet
<1> QED BY <1>1, ActionInvariant, PTL DEF Spec, TaskNotResent


\* What a request with the key is told of an agent's action is not taken back: once the row
\* was dispatched its failures are the caller's to see in the row, and only a deletion turns
\* the answer (waitForInvocationReplayOutcome, replayInvocationClaim).
THEOREM ActionReplayStays == Spec => ReplayStays
<1>1. ASSUME ActionInv, [Next]_vars
      PROVE  [(row.agent # None /\ Outcome(row) # "wait")
                => Outcome(row') = Outcome(row) \/ row'.err = "deleted"]_vars
  <2>0. row \in Row /\ row' \in Row /\ RowStep /\ RowOK /\ RowOK' /\ NotAfter(row, row')
        /\ (row.err # "none" => row.st = "failed")
    BY <1>1, RowSteps, RowKept DEF ActionInv, ActionType, TypeOK
  <2>1. row.att \in Nat /\ row'.att \in Nat /\ row.st \in Status
    BY <2>0 DEF Row, Status
  <2> SUFFICES ASSUME row.agent # None, Outcome(row) # "wait", row'.err # "deleted"
               PROVE  Outcome(row') = Outcome(row)
    OBVIOUS
  <2>2. row.st # "none" /\ row'.agent = row.agent
    <3>1. row.st # "none"
      BY <2>0 DEF RowOK, NoRow
    <3>2. Still \/ Begin \/ End => row'.agent = row.agent
      BY <2>0, <3>1 DEF Still, Begin, End, Row
    <3>3. HostedSend \/ NodeWrite => row'.agent = row.agent
      BY <2>0, <3>1 DEF HostedSend, NodeWrite, Row
    <3>4. Accepted \/ TaskBegin => row'.agent = row.agent
      BY <2>0, <3>1 DEF Accepted, TaskBegin, Row
    <3> QED BY <2>0, <3>1, <3>2, <3>3, <3>4 DEF RowStep
  <2>3. row'.att >= row.att
    BY <2>0, <2>1 DEF NotAfter
  <2>4. CASE row.att > 0
    <3>1. row'.att > 0
      BY <2>1, <2>3, <2>4
    <3>2. row.err = "deleted" => row'.err = "deleted"
      BY <2>0 DEF RowStep, Still, Begin, End, HostedSend, NodeWrite, Accepted, TaskBegin, Row, Open
    <3> QED BY <2>1, <2>2, <2>4, <3>1, <3>2 DEF Outcome
  <2>5. CASE row.att = 0
    <3>1. row.node = None /\ row.st # "running"
      BY <2>0, <2>1, <2>5 DEF RowOK
    <3>2. row.st \in Ended
      BY <2>1, <2>2, <2>5, <3>1 DEF Outcome, Status, Open
    <3>3. Still
      BY <2>0, <3>2 DEF RowStep, Begin, End, HostedSend, NodeWrite, Accepted, TaskBegin, Open, Ended
    <3>4. row'.st = row.st /\ row'.err = row.err /\ row'.node = row.node /\ row'.att = row.att
      BY <2>0, <3>3 DEF Still, Row
    <3> QED BY <2>2, <3>4 DEF Outcome
  <2> QED BY <2>1, <2>4, <2>5
<1> QED BY <1>1, ActionInvariant, PTL DEF Spec, ReplayStays

=============================================================================
