----------------------- MODULE SpawnInvocationProofs -----------------------
(***************************************************************************)
(* Proofs about SpawnInvocation, for any invocations, nodes and workers:   *)
(* the type invariant, that a settled invocation stays as it is whoever    *)
(* still works on it, and that no two executions own the same claim.       *)
(***************************************************************************)
EXTENDS SpawnInvocation, TLAPS

-----------------------------------------------------------------------------
(* What an execution knows *)

\* The jobs and program counters of an execution.
Jobs == {"none", "spawn", "drain", "unsent", "timeout", "due", "lost", "ok", "error", "unavailable"}
Pcs == {"off", "place", "bind", "claim", "send", "restore", "giveback", "mark", "take", "reserve",
        "defer", "drop", "replace", "queue", "park", "finish", "free"}

Worker == [pc : Pcs, job : Jobs, i : Inv \cup {None}, obs : Row, n : Nodes \cup {None},
           res : BOOLEAN, keep : BOOLEAN, verify : BOOLEAN, queued : BOOLEAN, unknown : BOOLEAN,
           st : Statuses, att : 0..MaxAttempts, retry : Deadlines, from : Nodes \cup {None}]

\* An execution that works on an invocation read it while it was open, has
\* chosen a node by the time it writes one, and knows who answered.
Sound(x) ==
  /\ x.pc \notin {"off", "free"} => x.i \in Inv /\ x.obs.st \in Open
  /\ x.pc \in {"bind", "claim", "send", "restore", "take", "reserve", "defer", "queue", "free", "giveback"}
       => x.n \in Nodes
  /\ x.res => x.n \in Nodes
  /\ x.pc = "finish" \/ x.job = "unavailable" => x.from \in Nodes

WorkersOK == wk \in [Workers -> Worker] /\ \A w \in Workers : Sound(wk[w])

\* An invocation somebody works on exists.
Known == \A w \in Workers : wk[w].pc \notin {"off", "free"} => row[wk[w].i].st # "none"

\* The inductive invariant of the type and of what is settled.
SpawnInv == TypeOK /\ WorkersOK /\ Known

-----------------------------------------------------------------------------
(* Claims in the order they are made *)

\* The token of a claim is its attempt and its deadline, in lexicographic order.
Before(p, q) == p.att < q.att \/ (p.att = q.att /\ p.retry < q.retry)
NotAfter(p, q) == p.att < q.att \/ (p.att = q.att /\ p.retry <= q.retry)
SameToken(p, q) == p.att = q.att /\ p.retry = q.retry

\* The execution wrote its claim and has not yet sent or put it back.
Owner(w) == wk[w].pc \in {"send", "restore"}

\* A claim is newer than the row it was made from, and the row is never older
\* than a claim somebody still owns.
ClaimAdvances == \A w \in Workers :
  Owner(w) => Before(wk[w].obs, wk[w]) /\ NotAfter(wk[w], row[wk[w].i])

\* Of two owners of an invocation the older one's claim is not newer than what
\* the younger one found, so putting the younger claim back cannot expose it.
ClaimsApart == \A v, w \in Workers :
  (v # w /\ Owner(v) /\ Owner(w) /\ wk[v].i = wk[w].i) =>
     /\ <<wk[v].att, wk[v].retry>> # <<wk[w].att, wk[w].retry>>
     /\ Before(wk[v], wk[w]) => NotAfter(wk[v], wk[w].obs)

\* The inductive invariant of the claims.
ClaimInv == SpawnInv /\ ClaimAdvances /\ ClaimsApart

-----------------------------------------------------------------------------
(* Every step is one row write and one worker write *)

\* A write of one row, which was open or is being created; only the restore of
\* a claim takes the row's token back.
RowWrite ==
  \/ row' = row
  \/ \E i \in Inv : \E r \in Row :
       /\ row' = [row EXCEPT ![i] = r]
       /\ row[i].st \in Open \cup {"none"} /\ r.st # "none"
       /\ row[i].st # "none" => NotAfter(row[i], r) \/ \E w \in Workers : Restore(w)

\* The execution still has the claim it wrote.
StillOwns(w, y) == /\ Owner(w) /\ y.i = wk[w].i /\ y.obs = wk[w].obs
                   /\ y.att = wk[w].att /\ y.retry = wk[w].retry

\* A worker that goes on, or starts on an invocation that exists; only a claim
\* makes an owner.
WkWrite ==
  \/ wk' = wk
  \/ \E w \in Workers : \E y \in Worker :
       /\ wk' = [wk EXCEPT ![w] = y] /\ Sound(y)
       /\ y.pc \notin {"off", "free"} => row[y.i].st # "none" \/ row'[y.i].st # "none"
       /\ y.pc \in {"send", "restore"} => StillOwns(w, y) \/ Claim(w)

\* The row createInvocation inserts.
LEMMA NewRowOK == NewRow \in Row /\ NewRow.st = "pending"
BY SpawnAssumption DEF Row, NewRow, Statuses, Deadlines

\* The row of an invocation that was not created.
LEMMA NoRowOK == NoRow \in Row /\ NoRow.st = "none"
<1>1. ASSUME NEW r \in Row PROVE [r EXCEPT !.st = "none"] \in Row /\ [r EXCEPT !.st = "none"].st = "none"
  BY DEF Row, Statuses
<1> QED
  BY <1>1, NewRowOK DEF NoRow

\* Equal tokens are in order.
LEMMA SameTokenOK == ASSUME NEW p \in Row, NEW q, SameToken(p, q) PROVE NotAfter(p, q)
BY SpawnAssumption DEF Row, Deadlines, SameToken, NotAfter

\* A worker with nothing to do.
LEMMA IdleOK == /\ Idle \in Worker /\ Sound(Idle)
               /\ Idle.pc = "off" /\ Idle.job = "none" /\ Idle.res = FALSE
BY NoRowOK, SpawnAssumption DEF Idle, Worker, Pcs, Jobs, Statuses, Deadlines, Sound

\* A claim counts one attempt or none (exclusiveClaimWrite).
LEMMA ClaimAttemptsNat ==
  ASSUME NEW w, wk[w] \in Worker
  PROVE  ClaimAttempts(w) \in {wk[w].obs.att, wk[w].obs.att + 1} /\ ClaimAttempts(w) \in Nat
<1>1. wk[w].obs.att \in Nat
  BY SpawnAssumption DEF Worker, Row
<1>2. ClaimAttempts(w) \in {wk[w].obs.att, wk[w].obs.att + 1}
  BY DEF ClaimAttempts
<1> QED
  BY <1>1, <1>2

\* Every operation writes one open row, and none but a restore takes a token back.
LEMMA RowWrites == SpawnInv /\ Next => RowWrite
<1> SUFFICES ASSUME SpawnInv, Next PROVE RowWrite
  OBVIOUS
<1> USE SpawnAssumption
<1>w. ASSUME NEW i \in Inv, NEW x \in Row, x.st # "none", row[i].st \in Open \cup {"none"},
             NotAfter(row[i], x) \/ \E w \in Workers : Restore(w),
             row' = row \/ row' = [row EXCEPT ![i] = x]
      PROVE RowWrite
  BY <1>w DEF RowWrite
<1>s. ASSUME UNCHANGED row PROVE RowWrite
  BY <1>s DEF RowWrite
<1>1. ASSUME NEW w \in Workers, WorkerStep(w) PROVE RowWrite
  <2> DEFINE i == wk[w].i  o == wk[w].obs  r == row[i]
  <2>0. wk[w] \in Worker /\ Sound(wk[w])
    BY DEF SpawnInv, WorkersOK
  <2>a. ASSUME wk[w].pc \notin {"off", "free"}
        PROVE  i \in Inv /\ r \in Row /\ o \in Row /\ o.st \in Open
    BY <2>0, <2>a DEF Sound, Worker, SpawnInv, TypeOK
  <2>1. ASSUME NEW j \in Inv, Request(w, j) PROVE RowWrite
    BY <2>1, NewRowOK DEF Request, Write, RowWrite
  <2>2. CASE PlaceSpawn(w)
    <3> DEFINE x == [r EXCEPT !.st = "deleted"]
    <3>1. i \in Inv /\ r \in Row
      BY <2>2, <2>a, <2>0 DEF PlaceSpawn, At, Sound
    <3>2. row' = row \/ (r.st = "pending" /\ row' = [row EXCEPT ![i] = x])
      BY <2>2 DEF PlaceSpawn, Write
    <3> HIDE DEF i, o, r
    <3>3. x \in Row /\ (r.st = "pending" => x.st # "none") /\ SameToken(r, x)
      BY <3>1 DEF Row, Statuses, Open, SameToken
    <3> HIDE DEF x
    <3> QED
      BY <3>1, <3>2, <3>3, <1>w, <1>s, SameTokenOK DEF Open, r
  <2>3. CASE RefuseUnready(w)
    <3> DEFINE x == [r EXCEPT !.st = "failed", !.held = FALSE]
    <3>1. i \in Inv /\ r \in Row
      BY <2>3, <2>a, <2>0 DEF RefuseUnready, At, Sound
    <3>2. row' = row \/ (r.st \in Open /\ row' = [row EXCEPT ![i] = x])
      BY <2>3 DEF RefuseUnready, Write
    <3> HIDE DEF i, o, r
    <3>3. x \in Row /\ (r.st \in Open => x.st # "none") /\ SameToken(r, x)
      BY <3>1 DEF Row, Statuses, Open, SameToken
    <3> HIDE DEF x
    <3> QED
      BY <3>1, <3>2, <3>3, <1>w, <1>s, SameTokenOK DEF Open, r
  <2>4. CASE Bind(w)
    <3> DEFINE x == [r EXCEPT !.placed = IF @ = None THEN wk[w].n ELSE @]
    <3>1. i \in Inv /\ r \in Row  /\ wk[w].n \in Nodes
      BY <2>4, <2>a, <2>0 DEF Bind, At, Sound
    <3>2. row' = row \/ (r.st \in Open /\ row' = [row EXCEPT ![i] = x])
      BY <2>4 DEF Bind, Write
    <3> HIDE DEF i, o, r
    <3>3. x \in Row /\ (r.st \in Open => x.st # "none") /\ SameToken(r, x)
      BY <3>1 DEF Row, Statuses, Open, SameToken
    <3> HIDE DEF x
    <3> QED
      BY <3>1, <3>2, <3>3, <1>w, <1>s, SameTokenOK DEF Open, r
  <2>5. CASE Claim(w)
    <3> DEFINE n == wk[w].n
               st == IF wk[w].queued \/ ~conn[n] THEN "pending" ELSE "dispatched"
               att == ClaimAttempts(w)
               pl == IF r.placed = None THEN n ELSE r.placed
               hd == wk[w].res \/ wk[w].keep
               tr == IF att = o.att THEN r.tried ELSE r.tried \cup {n}
               Claimed(d) == [r EXCEPT !.st = st, !.node = n, !.prov = TRUE, !.att = att, !.retry = d,
                                       !.placed = pl, !.held = hd, !.tried = tr]
    <3>1. i \in Inv /\ r \in Row /\ o \in Row /\ o.st \in Open /\ n \in Nodes
      BY <2>5, <2>a, <2>0 DEF Claim, At, Sound
    <3>2. CASE row' = row
      BY <3>2, <1>s
    <3>3. CASE row' # row
      <4>1. PICK d \in ClaimRetries(w, st, att) : /\ att <= MaxAttempts /\ r.st = o.st
                                                  /\ row' = [row EXCEPT ![i] = Claimed(d)]
        BY <2>5, <3>3 DEF Claim, Write, ClaimMatches, SameClaim
      <4>2. d \in Deadlines
        BY SpawnAssumption DEF ClaimRetries, Later, Deadlines
      <4>3. att \in 0..MaxAttempts
        BY <3>1, <4>1, ClaimAttemptsNat, <2>0, SpawnAssumption
      <4>4. hd \in BOOLEAN
        BY <2>0 DEF Worker
      <4>a. r.att < att \/ (r.att = att /\ r.retry <= d)
        <5>1. r.att = o.att /\ r.retry = o.retry
          BY <2>5, <3>3 DEF Claim, ClaimMatches, SameClaim
        <5>2. r.att \in Nat /\ r.retry \in Nat
          BY <3>1, SpawnAssumption DEF Row, Deadlines
        <5>3. att = o.att + 1 \/ (att = o.att /\ wk[w].job \in {"drain", "unsent"})
          BY DEF ClaimAttempts
        <5>4. ASSUME att = o.att, wk[w].job \in {"drain", "unsent"} PROVE r.retry <= d
          BY <5>1, <5>2, <5>4, <4>2 DEF ClaimRetries, Later, Deadlines
        <5> HIDE DEF r, o, att
        <5> QED
          BY <5>1, <5>2, <5>3, <5>4
      <4> HIDE DEF i, o, r, att, n
      <4>5. pl \in Nodes \cup {None} /\ tr \in SUBSET Nodes
        BY <3>1 DEF Row
      <4>6. st \in {"pending", "dispatched"}
        OBVIOUS
      <4> HIDE DEF pl, hd, tr, st
      <4>7. Claimed(d) \in Row /\ Claimed(d).st # "none" /\ Claimed(d).att = att /\ Claimed(d).retry = d
        BY <3>1, <4>2, <4>3, <4>4, <4>5, <4>6 DEF Row, Statuses
      <4>8. NotAfter(r, Claimed(d))
        BY <4>7, <4>a DEF NotAfter
      <4> HIDE DEF Claimed
      <4> QED
        BY <3>1, <4>1, <4>7, <4>8, <1>w DEF r, Open
    <3> QED
      BY <3>2, <3>3
  <2>6. CASE Restore(w)
    <3> DEFINE x == [r EXCEPT !.st = "pending", !.node = o.node, !.retry = o.retry, !.att = o.att,
                              !.held = wk[w].keep]
    <3>1. i \in Inv /\ r \in Row /\ o \in Row /\ wk[w].keep \in BOOLEAN
      BY <2>6, <2>a, <2>0 DEF Restore, At, Worker
    <3>2. row' = row \/ (r.st \in Open /\ row' = [row EXCEPT ![i] = x])
      BY <2>6 DEF Restore, Write, RestoreMatches, Restored
    <3> HIDE DEF i, o, r
    <3>3. x \in Row /\ x.st # "none"
      BY <3>1 DEF Row, Statuses
    <3> HIDE DEF x
    <3> QED
      BY <2>6, <3>1, <3>2, <3>3, <1>w, <1>s, SameTokenOK DEF Open, r
  <2>7. CASE Mark(w)
    <3> DEFINE x == [r EXCEPT !.mark = TRUE]
    <3>1. i \in Inv /\ r \in Row /\ row \in [Inv -> Row]
      BY <2>7, <2>a DEF Mark, At, SpawnInv, TypeOK
    <3>2. row' = [row EXCEPT ![i] = r] \/ (r.st \in Open /\ row' = [row EXCEPT ![i] = x])
      BY <2>7 DEF Mark, Write, UnsentOn, Open
    <3>3. row' = row \/ (r.st \in Open /\ row' = [row EXCEPT ![i] = x])
      BY <3>1, <3>2
    <3> HIDE DEF i, o, r
    <3>4. x \in Row /\ (r.st \in Open => x.st # "none") /\ SameToken(r, x)
      BY <3>1 DEF Row, Statuses, Open, SameToken
    <3> HIDE DEF x
    <3> QED
      BY <3>1, <3>3, <3>4, <1>w, <1>s, SameTokenOK DEF Open, r
  <2>8. CASE TakeMark(w)
    <3> DEFINE x == [r EXCEPT !.mark = FALSE]
    <3>1. i \in Inv /\ r \in Row
      BY <2>8, <2>a, <2>0 DEF TakeMark, At, Sound
    <3>2. row' = row \/ (r.st \in Open /\ row' = [row EXCEPT ![i] = x])
      BY <2>8 DEF TakeMark, Write, UnsentOn, Open
    <3> HIDE DEF i, o, r
    <3>3. x \in Row /\ (r.st \in Open => x.st # "none") /\ SameToken(r, x)
      BY <3>1 DEF Row, Statuses, Open, SameToken
    <3> HIDE DEF x
    <3> QED
      BY <3>1, <3>2, <3>3, <1>w, <1>s, SameTokenOK DEF Open, r
  <2>9. CASE DrainReserve(w)
    <3> DEFINE x == [r EXCEPT !.mark = TRUE]
    <3>1. i \in Inv /\ r \in Row
      BY <2>9, <2>a, <2>0 DEF DrainReserve, At, Sound
    <3>2. row' = row \/ (r.st \in Open /\ row' = [row EXCEPT ![i] = x])
      BY <2>9 DEF DrainReserve, Write, UnsentOn, Open
    <3> HIDE DEF i, o, r
    <3>3. x \in Row /\ (r.st \in Open => x.st # "none") /\ SameToken(r, x)
      BY <3>1 DEF Row, Statuses, Open, SameToken
    <3> HIDE DEF x
    <3> QED
      BY <3>1, <3>2, <3>3, <1>w, <1>s, SameTokenOK DEF Open, r
  <2>10. CASE Defer(w)
    <3>1. i \in Inv /\ r \in Row
      BY <2>10, <2>a DEF Defer, At
    <3>2. CASE row' # row
      <4>1. PICK d \in Later(i) : r.st = "pending" /\ row' = [row EXCEPT ![i] = [r EXCEPT !.retry = d]]
        BY <2>10, <3>2 DEF Defer, Write
      <4>2. d \in Deadlines
        BY SpawnAssumption DEF Later, Deadlines
      <4>d. r.att \in Nat /\ r.retry <= d
        BY <3>1 DEF Later, Row, Deadlines
      <4> DEFINE x == [r EXCEPT !.retry = d]
      <4> HIDE DEF i, r
      <4>3. x \in Row /\ x.st = r.st /\ NotAfter(r, x)
        BY <3>1, <4>2, <4>d DEF Row, NotAfter
      <4> HIDE DEF x
      <4> QED
        BY <3>1, <4>1, <4>3, <1>w DEF r, x, Open
    <3> QED
      BY <3>2, <1>s
  <2>11. CASE DropHold(w)
    <3> DEFINE x == [r EXCEPT !.held = FALSE]
    <3>1. i \in Inv /\ r \in Row
      BY <2>11, <2>a, <2>0 DEF DropHold, At, Sound
    <3>2. row' = row \/ (r.st \in Open /\ row' = [row EXCEPT ![i] = x])
      BY <2>11, <2>a DEF DropHold, Write, DropMatches, SameClaim, At
    <3> HIDE DEF i, o, r
    <3>3. x \in Row /\ (r.st \in Open => x.st # "none") /\ SameToken(r, x)
      BY <3>1 DEF Row, Statuses, Open, SameToken
    <3> HIDE DEF x
    <3> QED
      BY <3>1, <3>2, <3>3, <1>w, <1>s, SameTokenOK DEF Open, r
  <2>12. CASE QueueRetry(w)
    <3> DEFINE n == wk[w].n
               Queued(d) == [r EXCEPT !.st = "pending", !.node = n, !.prov = TRUE, !.att = r.att + 1,
                                      !.retry = d, !.held = FALSE, !.tried = r.tried \cup {n}]
    <3>1. i \in Inv /\ r \in Row /\ o \in Row /\ o.st \in Open /\ n \in Nodes
      BY <2>12, <2>a, <2>0 DEF QueueRetry, At, Sound
    <3>2. CASE row' # row
      <4>1. PICK d \in IF wk[w].job = "due" THEN {0} ELSE Later(i) :
                 /\ r.att + 1 <= MaxAttempts /\ r.st = o.st
                 /\ row' = [row EXCEPT ![i] = Queued(d)]
        BY <2>12, <3>2 DEF QueueRetry, Write, SameClaim
      <4>2. d \in Deadlines
        BY SpawnAssumption DEF Later, Deadlines
      <4> HIDE DEF i, r, o, n
      <4>3. Queued(d) \in Row /\ Queued(d).st # "none" /\ NotAfter(r, Queued(d))
        <5>1. r.att + 1 \in 0..MaxAttempts /\ r.tried \cup {n} \in SUBSET Nodes
          BY <3>1, <4>1 DEF Row
        <5>2. r.att < r.att + 1
          BY <3>1 DEF Row
        <5> QED
          BY <3>1, <4>2, <5>1, <5>2 DEF Row, Statuses, NotAfter
      <4> HIDE DEF Queued
      <4> QED
        BY <3>1, <4>1, <4>3, <1>w DEF r, Open
    <3> QED
      BY <3>2, <1>s
  <2>13. CASE Park(w)
    <3> DEFINE Parked(d) == [r EXCEPT !.st = "pending", !.node = None, !.prov = FALSE, !.held = FALSE,
                                      !.retry = d]
    <3>1. i \in Inv /\ r \in Row /\ o \in Row /\ o.st \in Open
      BY <2>13, <2>a, <2>0 DEF Park, At
    <3>2. CASE row' # row
      <4>1. PICK d \in Later(i) : r.st = o.st /\ row' = [row EXCEPT ![i] = Parked(d)]
        BY <2>13, <3>2 DEF Park, Write, SameClaim
      <4>2. d \in Deadlines
        BY SpawnAssumption DEF Later, Deadlines
      <4>d. r.att \in Nat /\ r.retry <= d
        BY <3>1 DEF Later, Row, Deadlines
      <4> HIDE DEF i, r, o
      <4>3. Parked(d) \in Row /\ Parked(d).st # "none" /\ NotAfter(r, Parked(d))
        BY <3>1, <4>2, <4>d DEF Row, Statuses, NotAfter
      <4> HIDE DEF Parked
      <4> QED
        BY <3>1, <4>1, <4>3, <1>w DEF r, Open
    <3> QED
      BY <3>2, <1>s
  <2>14. CASE Finish(w)
    <3> DEFINE st == IF wk[w].job = "ok" THEN "completed" ELSE "failed"
               x == [r EXCEPT !.st = st, !.held = FALSE]
    <3>1. i \in Inv /\ r \in Row /\ st \in {"completed", "failed"}
      BY <2>14, <2>a DEF Finish, At
    <3>2. row' = row \/ (r.st \in Open /\ row' = [row EXCEPT ![i] = x])
      BY <2>14 DEF Finish, Write, AnswerMatches
    <3> HIDE DEF i, r, st
    <3>3. x \in Row /\ x.st # "none" /\ SameToken(r, x)
      BY <3>1 DEF Row, Statuses, SameToken
    <3> HIDE DEF x
    <3> QED
      BY <3>1, <3>2, <3>3, <1>w, <1>s, SameTokenOK DEF Open, r
  <2>15. CASE \/ SendAccepted(w) \/ SendRefused(w) \/ SendThrows(w) \/ RestoreFails(w) \/ ReturnSlot(w)
              \/ FreeSlot(w) \/ Replace(w)
    BY <2>15, <1>s DEF SendAccepted, SendRefused, SendThrows, RestoreFails, ReturnSlot, FreeSlot, Replace
  <2>16. ASSUME NEW j \in Inv, NEW n \in Nodes, NEW k,
                StartDrain(w, j, n) \/ StartLost(w, j, n) \/ Answer(w, j, n, k)
         PROVE  RowWrite
    BY <2>16, <1>s DEF StartDrain, StartLost, StartReschedule, Answer
  <2> HIDE DEF i, o, r
  <2>17. CASE \E j \in Inv : StartTimeout(w, j) \/ StartDue(w, j)
    BY <2>17, <1>s DEF StartTimeout, StartDue, StartReschedule
  <2> QED
    BY <1>1, <2>1, <2>2, <2>3, <2>4, <2>5, <2>6, <2>7, <2>8, <2>9, <2>10, <2>11, <2>12, <2>13, <2>14,
       <2>15, <2>16, <2>17 DEF WorkerStep
<1>2. ASSUME NEW i \in Inv, Expire(i) PROVE RowWrite
  <2> DEFINE r == row[i]  x == [r EXCEPT !.st = "failed", !.held = FALSE]
  <2>1. r \in Row /\ r.st = "pending" /\ row' = [row EXCEPT ![i] = x]
    BY <1>2 DEF Expire, Write, SpawnInv, TypeOK
  <2> HIDE DEF r
  <2>2. x \in Row /\ x.st # "none" /\ SameToken(r, x)
    BY <2>1 DEF Row, Statuses, SameToken
  <2> HIDE DEF x
  <2> QED
    BY <2>1, <2>2, <1>w, SameTokenOK DEF r, Open
<1>3. ASSUME NEW n \in Nodes, NodeStep(n) PROVE RowWrite
  BY <1>3, <1>s DEF NodeStep, NodeUp, ConnLost, NodeOffline, NodeCrash
<1> QED
  BY <1>1, <1>2, <1>3 DEF Next

-----------------------------------------------------------------------------
(* The worker write of each operation *)

\* An execution that ends is a worker write.
LEMMA StopOK == ASSUME NEW w \in Workers, Stop(w) PROVE WkWrite
BY IdleOK DEF Stop, WkWrite, Idle

\* The program counter alone moves on.
LEMMA StepOK ==
  ASSUME SpawnInv, NEW w \in Workers, NEW pc \in Pcs \ {"off", "free"}, Step(w, pc),
         wk[w].pc \notin {"off", "free"},
         pc \in {"bind", "claim", "send", "restore", "take", "reserve", "defer", "queue", "giveback"}
           => wk[w].n \in Nodes,
         pc = "finish" => wk[w].from \in Nodes,
         pc \in {"send", "restore"} => Owner(w)
  PROVE  WkWrite
<1> DEFINE x == wk[w]  y == [x EXCEPT !.pc = pc]
<1>1. wk \in [Workers -> Worker] /\ x \in Worker /\ Sound(x) /\ row[x.i].st # "none"
  BY DEF SpawnInv, WorkersOK, Known
<1>2. wk' = [wk EXCEPT ![w] = y]
  BY <1>1 DEF Step
<1> HIDE DEF x
<1>3. /\ y \in Worker /\ y.i = x.i /\ y.pc = pc /\ Sound(y)
      /\ y.obs = x.obs /\ y.att = x.att /\ y.retry = x.retry
  BY <1>1 DEF Worker, Sound, x
<1> HIDE DEF y
<1> QED
  BY <1>1, <1>2, <1>3 DEF WkWrite, StillOwns, x

\* So is what follows a dispatch that was not accepted.
LEMMA UnacceptedOK ==
  ASSUME SpawnInv, NEW w \in Workers, GoUnaccepted(w, Unaccepted(w)), wk[w].pc \notin {"off", "free"}
  PROVE  WkWrite
<1>1. wk[w] \in Worker /\ Sound(wk[w])
  BY DEF SpawnInv, WorkersOK
<1>2. CASE Unaccepted(w) = "off"
  BY <1>2, StopOK DEF GoUnaccepted
<1>3. CASE Unaccepted(w) # "off"
  <2>1. Step(w, Unaccepted(w)) /\ Unaccepted(w) \in {"giveback", "mark", "finish"}
    BY <1>3 DEF GoUnaccepted, Unaccepted
  <2>2. /\ Unaccepted(w) = "giveback" => wk[w].n \in Nodes
        /\ Unaccepted(w) = "finish" => wk[w].from \in Nodes
    BY <1>1, <1>3 DEF Unaccepted, Sound
  <2> QED
    BY <2>1, <2>2, StepOK DEF Pcs
<1> QED
  BY <1>2, <1>3

\* Every operation moves one execution, and none but a claim makes an owner.
LEMMA WkWrites == SpawnInv /\ Next => WkWrite
<1> SUFFICES ASSUME SpawnInv, Next PROVE WkWrite
  OBVIOUS
<1>s. ASSUME UNCHANGED wk PROVE WkWrite
  BY <1>s DEF WkWrite
<1>1. ASSUME NEW w \in Workers, WorkerStep(w) PROVE WkWrite
  <2> DEFINE x == wk[w]
  <2>0. wk \in [Workers -> Worker] /\ x \in Worker /\ Sound(x)
    BY DEF SpawnInv, WorkersOK
  <2>k. x.pc \notin {"off", "free"} => row[x.i].st # "none"
    BY DEF SpawnInv, Known
  <2>w. ASSUME NEW y \in Worker, Sound(y), wk' = [wk EXCEPT ![w] = y],
               y.pc \notin {"off", "free"} => row[y.i].st # "none" \/ row'[y.i].st # "none",
               y.pc \in {"send", "restore"} => StillOwns(w, y) \/ Claim(w)
        PROVE WkWrite
    BY <2>w DEF WkWrite
  <2>1. ASSUME NEW j \in Inv, Request(w, j) PROVE WkWrite
    <3>1. PICK v \in BOOLEAN : wk' = [wk EXCEPT ![w] = [Idle EXCEPT !.pc = "place", !.job = "spawn", !.i = j,
                                                                !.obs = NewRow, !.verify = v]]
      BY <2>1 DEF Request
    <3> DEFINE y == [Idle EXCEPT !.pc = "place", !.job = "spawn", !.i = j, !.obs = NewRow, !.verify = v]
    <3>2. row'[j].st = "pending"
      BY <2>1, NewRowOK DEF Request, Write, SpawnInv, TypeOK
    <3>3. y \in Worker /\ Sound(y) /\ y.i = j /\ y.pc = "place"
      BY IdleOK, NewRowOK DEF Worker, Pcs, Jobs, Sound, Open
    <3> HIDE DEF y
    <3> QED
      BY <3>1, <3>2, <3>3, <2>w DEF y
  <2>2. CASE PlaceSpawn(w)
    <3>1. x.pc = "place" /\ x.i \in Inv /\ row[x.i].st # "none"
      BY <2>2, <2>0, <2>k DEF PlaceSpawn, At, Sound
    <3>2. ASSUME NEW n \in Nodes, wk' = [wk EXCEPT ![w].pc = "bind", ![w].n = n, ![w].res = TRUE]
          PROVE  WkWrite
      <4> DEFINE y == [x EXCEPT !.pc = "bind", !.n = n, !.res = TRUE]
      <4>1. wk' = [wk EXCEPT ![w] = y]
        BY <3>2, <2>0
      <4> HIDE DEF x
      <4>2. y \in Worker /\ Sound(y) /\ y.i = x.i /\ y.pc = "bind"
        BY <3>1, <2>0 DEF Worker, Pcs, Sound
      <4> HIDE DEF y
      <4> QED
        BY <4>1, <4>2, <3>1, <2>w
    <3>3. ASSUME NEW n \in Nodes, wk' = [wk EXCEPT ![w].pc = "bind", ![w].n = n, ![w].queued = TRUE]
          PROVE  WkWrite
      <4> DEFINE y == [x EXCEPT !.pc = "bind", !.n = n, !.queued = TRUE]
      <4>1. wk' = [wk EXCEPT ![w] = y]
        BY <3>3, <2>0
      <4> HIDE DEF x
      <4>2. y \in Worker /\ Sound(y) /\ y.i = x.i /\ y.pc = "bind"
        BY <3>1, <2>0 DEF Worker, Pcs, Sound
      <4> HIDE DEF y
      <4> QED
        BY <4>1, <4>2, <3>1, <2>w
    <3> QED
      BY <2>2, <3>2, <3>3, StopOK DEF PlaceSpawn, Placeable, Queueable
  <2>f. ASSUME NEW n \in Nodes, wk' = [wk EXCEPT ![w] = [Idle EXCEPT !.pc = "free", !.n = n]]
        PROVE  WkWrite
    <3> DEFINE y == [Idle EXCEPT !.pc = "free", !.n = n]
    <3>1. y \in Worker /\ Sound(y) /\ y.pc = "free"
      BY IdleOK DEF Worker, Pcs, Sound
    <3> HIDE DEF y
    <3> QED
      BY <2>f, <3>1, <2>w DEF y
  <2>3. CASE RefuseUnready(w)
    <3>1. x.n \in Nodes
      BY <2>3, <2>0 DEF RefuseUnready, At, Sound
    <3> QED
      BY <2>3, <3>1, <2>f, StopOK DEF RefuseUnready, Stop
  <2>4. CASE Bind(w)
    <3>1. x.pc = "bind" /\ x.i \in Inv /\ row[x.i].st # "none" /\ x.n \in Nodes
      BY <2>4, <2>0, <2>k DEF Bind, At, Sound
    <3>2. CASE wk' = [wk EXCEPT ![w].pc = "claim", ![w].verify = FALSE]
      <4> DEFINE y == [x EXCEPT !.pc = "claim", !.verify = FALSE]
      <4>1. wk' = [wk EXCEPT ![w] = y]
        BY <3>2, <2>0
      <4> HIDE DEF x
      <4>2. y \in Worker /\ Sound(y) /\ y.i = x.i /\ y.pc = "claim"
        BY <3>1, <2>0 DEF Worker, Pcs, Sound
      <4> HIDE DEF y
      <4> QED
        BY <4>1, <4>2, <3>1, <2>w
    <3> QED
      BY <2>4, <3>1, <3>2, <2>f, StopOK DEF Bind, Stop
  <2>5. CASE Claim(w)
    <3>1. x.pc = "claim" /\ x.i \in Inv /\ row[x.i].st # "none" /\ x.n \in Nodes
      BY <2>5, <2>0, <2>k DEF Claim, At, Sound
    <3>2. ASSUME NEW st \in Statuses, NEW att \in 0..MaxAttempts, NEW d \in Deadlines,
                 wk' = [wk EXCEPT ![w].pc = "send", ![w].st = st, ![w].att = att, ![w].retry = d]
          PROVE  WkWrite
      <4> DEFINE y == [x EXCEPT !.pc = "send", !.st = st, !.att = att, !.retry = d]
      <4>1. wk' = [wk EXCEPT ![w] = y]
        BY <3>2, <2>0
      <4> HIDE DEF x
      <4>2. y \in Worker /\ Sound(y) /\ y.i = x.i /\ y.pc = "send"
        BY <3>1, <2>0 DEF Worker, Pcs, Sound
      <4> HIDE DEF y
      <4> QED
        BY <4>1, <4>2, <3>1, <2>5, <2>w
    <3>3. CASE GoUnaccepted(w, Unaccepted(w))
      BY <3>1, <3>3, UnacceptedOK
    <3>4. CASE ~GoUnaccepted(w, Unaccepted(w))
      <4> DEFINE st == IF x.queued \/ ~conn[x.n] THEN "pending" ELSE "dispatched"
                 att == ClaimAttempts(w)
      <4>1. PICK d \in ClaimRetries(w, st, att) :
                 /\ att <= MaxAttempts
                 /\ wk' = [wk EXCEPT ![w].pc = "send", ![w].st = st, ![w].att = att, ![w].retry = d]
        BY <2>5, <3>4 DEF Claim
      <4>2. d \in Deadlines
        BY SpawnAssumption DEF ClaimRetries, Later, Deadlines
      <4>3. att \in 0..MaxAttempts
        BY <4>1, ClaimAttemptsNat, <2>0, SpawnAssumption
      <4>4. st \in Statuses
        BY DEF Statuses
      <4> HIDE DEF st, att
      <4> QED
        BY <4>1, <4>2, <4>3, <4>4, <3>2
    <3> QED
      BY <3>3, <3>4
  <2>6. CASE SendAccepted(w) \/ Mark(w) \/ Defer(w) \/ FreeSlot(w)
    BY <2>6, StopOK DEF SendAccepted, Mark, Defer, FreeSlot
  <2>7. CASE SendRefused(w)
    <3>1. x.pc = "send" /\ x.n \in Nodes
      BY <2>7, <2>0 DEF SendRefused, At, Sound
    <3> QED
      BY <2>7, <3>1, StepOK DEF SendRefused, Pcs, Owner
  <2>8. CASE SendThrows(w)
    <3>1. x.pc = "send" /\ x.i \in Inv /\ row[x.i].st # "none" /\ x.n \in Nodes
      BY <2>8, <2>0, <2>k DEF SendThrows, At, Sound
    <3>2. wk' = [wk EXCEPT ![w].pc = "restore", ![w].unknown = TRUE]
      BY <2>8 DEF SendThrows
    <3> DEFINE y == [x EXCEPT !.pc = "restore", !.unknown = TRUE]
    <3>3. wk' = [wk EXCEPT ![w] = y]
      BY <3>2, <2>0
    <3> HIDE DEF x
    <3>4. /\ y \in Worker /\ Sound(y) /\ y.i = x.i /\ y.pc = "restore"
          /\ y.obs = x.obs /\ y.att = x.att /\ y.retry = x.retry
      BY <3>1, <2>0 DEF Worker, Pcs, Sound
    <3> HIDE DEF y
    <3> QED
      BY <3>3, <3>4, <3>1, <2>w DEF StillOwns, Owner, x
  <2>9. CASE Restore(w)
    BY <2>9, UnacceptedOK DEF Restore, At
  <2>10. CASE RestoreFails(w)
    <3>1. x.pc = "restore" /\ x.i \in Inv /\ row[x.i].st # "none" /\ x.n \in Nodes
      BY <2>10, <2>0, <2>k DEF RestoreFails, At, Sound
    <3>2. CASE x.job = "unavailable" /\ wk' = [wk EXCEPT ![w].pc = "finish", ![w].res = FALSE]
      <4> DEFINE y == [x EXCEPT !.pc = "finish", !.res = FALSE]
      <4>1. wk' = [wk EXCEPT ![w] = y]
        BY <3>2, <2>0
      <4> HIDE DEF x
      <4>2. y \in Worker /\ Sound(y) /\ y.i = x.i /\ y.pc = "finish"
        BY <3>1, <3>2, <2>0 DEF Worker, Pcs, Sound
      <4> HIDE DEF y
      <4> QED
        BY <4>1, <4>2, <3>1, <3>2, <2>w
    <3> QED
      BY <2>10, <3>2, StopOK DEF RestoreFails
  <2>11. CASE ReturnSlot(w)
    <3>1. x.pc = "giveback" /\ x.i \in Inv /\ row[x.i].st # "none"
      BY <2>11, <2>0, <2>k DEF ReturnSlot, At, Sound
    <3> DEFINE z == [x EXCEPT !.res = FALSE]
    <3> HIDE DEF x
    <3>2. z \in Worker /\ z.i = x.i /\ z.obs = x.obs /\ z.job = x.job /\ z.from = x.from /\ z.res = FALSE
      BY <2>0 DEF Worker
    <3> HIDE DEF z
    <3>3. \/ Stop(w)
          \/ wk' = [wk EXCEPT ![w] = [z EXCEPT !.pc = "mark"]]
          \/ z.job = "unavailable" /\ wk' = [wk EXCEPT ![w] = [z EXCEPT !.pc = "finish"]]
      BY <2>11 DEF ReturnSlot, Stop, z, x
    <3>4. ASSUME NEW pc \in {"mark", "finish"}, pc = "finish" => z.job = "unavailable",
                 wk' = [wk EXCEPT ![w] = [z EXCEPT !.pc = pc]]
          PROVE  WkWrite
      <4> DEFINE y == [z EXCEPT !.pc = pc]
      <4>1. y \in Worker /\ Sound(y) /\ y.i = x.i /\ y.pc = pc
        BY <2>0, <3>1, <3>2, <3>4 DEF Worker, Pcs, Sound
      <4> HIDE DEF y
      <4> QED
        BY <3>1, <3>4, <4>1, <2>w DEF y
    <3> QED
      BY <3>3, <3>4, StopOK
  <2>12. ASSUME NEW j \in Inv, NEW n \in Nodes, StartDrain(w, j, n) PROVE WkWrite
    <3> DEFINE job == IF row[j].node = n THEN "drain" ELSE "unsent"
               pc == IF row[j].node = n THEN "reserve" ELSE "take"
               r == row[j]
               y == [Idle EXCEPT !.job = job, !.pc = pc, !.i = j, !.obs = r, !.n = n]
    <3>1. r \in Row /\ r.st = "pending" /\ wk' = [wk EXCEPT ![w] = y]
      BY <2>12 DEF StartDrain, SpawnInv, TypeOK
    <3>2. job \in {"drain", "unsent"} /\ pc \in {"reserve", "take"}
      OBVIOUS
    <3> HIDE DEF job, pc, r
    <3>3. y \in Worker /\ Sound(y) /\ y.i = j /\ y.pc = pc
      BY <3>1, <3>2, IdleOK DEF Worker, Pcs, Jobs, Sound, Open
    <3> HIDE DEF y
    <3> QED
      BY <3>1, <3>2, <3>3, <2>w DEF r
  <2>13. CASE TakeMark(w)
    <3>1. x.pc = "take" /\ x.n \in Nodes
      BY <2>13, <2>0 DEF TakeMark, At, Sound
    <3> QED
      BY <2>13, <3>1, StepOK, StopOK DEF TakeMark, Pcs
  <2>14. CASE DrainReserve(w)
    <3>1. x.pc = "reserve" /\ x.i \in Inv /\ row[x.i].st # "none" /\ x.n \in Nodes
      BY <2>14, <2>0, <2>k DEF DrainReserve, At, Sound
    <3>2. CASE wk' = [wk EXCEPT ![w].pc = "claim", ![w].keep = TRUE]
      <4> DEFINE y == [x EXCEPT !.pc = "claim", !.keep = TRUE]
      <4>1. wk' = [wk EXCEPT ![w] = y]
        BY <3>2, <2>0
      <4> HIDE DEF x
      <4>2. y \in Worker /\ Sound(y) /\ y.i = x.i /\ y.pc = "claim"
        BY <3>1, <2>0 DEF Worker, Pcs, Sound
      <4> HIDE DEF y
      <4> QED
        BY <4>1, <4>2, <3>1, <2>w
    <3>3. CASE wk' = [wk EXCEPT ![w].pc = "claim", ![w].res = TRUE]
      <4> DEFINE y == [x EXCEPT !.pc = "claim", !.res = TRUE]
      <4>1. wk' = [wk EXCEPT ![w] = y]
        BY <3>3, <2>0
      <4> HIDE DEF x
      <4>2. y \in Worker /\ Sound(y) /\ y.i = x.i /\ y.pc = "claim"
        BY <3>1, <2>0 DEF Worker, Pcs, Sound
      <4> HIDE DEF y
      <4> QED
        BY <4>1, <4>2, <3>1, <2>w
    <3>4. CASE Step(w, "defer")
      BY <3>1, <3>4, StepOK DEF Pcs
    <3> QED
      BY <2>14, <3>2, <3>3, <3>4 DEF DrainReserve
  <2>15. ASSUME NEW j \in Inv, NEW job \in {"timeout", "due", "lost"}, row[j].st \in Open,
                StartReschedule(w, j, job)
         PROVE  WkWrite
    <3> DEFINE r == row[j]
               y == [Idle EXCEPT !.pc = "drop", !.job = job, !.i = j, !.obs = r]
    <3>1. r \in Row /\ r.st \in Open /\ wk' = [wk EXCEPT ![w] = y]
      BY <2>15 DEF StartReschedule, SpawnInv, TypeOK
    <3> HIDE DEF r
    <3>2. y \in Worker /\ Sound(y) /\ y.i = j /\ y.pc = "drop"
      BY <3>1, IdleOK DEF Worker, Pcs, Jobs, Sound
    <3> HIDE DEF y
    <3> QED
      BY <3>1, <3>2, <2>w DEF r, Open
  <2>16. CASE \/ \E j \in Inv : StartTimeout(w, j)
              \/ \E j \in Inv : StartDue(w, j)
              \/ \E j \in Inv, n \in Nodes : StartLost(w, j, n)
    BY <2>15, <2>16 DEF StartTimeout, StartDue, StartLost, Open
  <2>17. CASE DropHold(w)
    <3>1. x.pc = "drop" /\ Step(w, "replace")
      BY <2>17 DEF DropHold, At
    <3> QED
      BY <3>1, StepOK DEF Pcs
  <2>18. CASE Replace(w)
    <3>1. x.pc = "replace" /\ x.i \in Inv /\ row[x.i].st # "none"
      BY <2>18, <2>0, <2>k DEF Replace, At, Sound
    <3>2. ASSUME NEW n \in Nodes, wk' = [wk EXCEPT ![w].pc = "claim", ![w].n = n, ![w].res = TRUE]
          PROVE  WkWrite
      <4> DEFINE y == [x EXCEPT !.pc = "claim", !.n = n, !.res = TRUE]
      <4>1. wk' = [wk EXCEPT ![w] = y]
        BY <3>2, <2>0
      <4> HIDE DEF x
      <4>2. y \in Worker /\ Sound(y) /\ y.i = x.i /\ y.pc = "claim"
        BY <3>1, <2>0 DEF Worker, Pcs, Sound
      <4> HIDE DEF y
      <4> QED
        BY <4>1, <4>2, <3>1, <2>w
    <3>3. ASSUME NEW n \in Nodes, wk' = [wk EXCEPT ![w].pc = "queue", ![w].n = n, ![w].queued = TRUE]
          PROVE  WkWrite
      <4> DEFINE y == [x EXCEPT !.pc = "queue", !.n = n, !.queued = TRUE]
      <4>1. wk' = [wk EXCEPT ![w] = y]
        BY <3>3, <2>0
      <4> HIDE DEF x
      <4>2. y \in Worker /\ Sound(y) /\ y.i = x.i /\ y.pc = "queue"
        BY <3>1, <2>0 DEF Worker, Pcs, Sound
      <4> HIDE DEF y
      <4> QED
        BY <4>1, <4>2, <3>1, <2>w
    <3>4. CASE Step(w, "park")
      BY <3>1, <3>4, StepOK DEF Pcs
    <3> QED
      BY <2>18, <3>2, <3>3, <3>4 DEF Replace, Placeable, Queueable
  <2>19. CASE QueueRetry(w)
    BY <2>19, StopOK, UnacceptedOK DEF QueueRetry, At
  <2>20. CASE Park(w)
    BY <2>20, UnacceptedOK DEF Park, At
  <2>21. ASSUME NEW j \in Inv, NEW n \in Nodes, NEW kind \in {"ok", "error", "unavailable"},
                Answer(w, j, n, kind)
         PROVE  WkWrite
    <3> DEFINE pc == IF kind = "unavailable" THEN "drop" ELSE "finish"
               r == row[j]
               y == [Idle EXCEPT !.pc = pc, !.job = kind, !.i = j, !.obs = r, !.from = n]
    <3>1. r \in Row /\ (wk' = wk \/ (r.st \in Open /\ wk' = [wk EXCEPT ![w] = y]))
      BY <2>21 DEF Answer, SpawnInv, TypeOK
    <3>2. pc \in {"drop", "finish"}
      OBVIOUS
    <3> HIDE DEF pc, r
    <3>3. r.st \in Open => y \in Worker /\ Sound(y) /\ y.i = j /\ y.pc = pc
      BY <3>1, <3>2, IdleOK DEF Worker, Pcs, Jobs, Sound
    <3> HIDE DEF y
    <3> QED
      BY <3>1, <3>2, <3>3, <2>w, <1>s DEF r, Open
  <2>22. CASE Finish(w)
    <3>1. x.from \in Nodes
      BY <2>22, <2>0 DEF Finish, At, Sound
    <3> QED
      BY <2>22, <3>1, <2>f, StopOK DEF Finish, Stop
  <2> HIDE DEF x
  <2> QED
    BY <1>1, <2>1, <2>2, <2>3, <2>4, <2>5, <2>6, <2>7, <2>8, <2>9, <2>10, <2>11, <2>12, <2>13, <2>14,
       <2>16, <2>17, <2>18, <2>19, <2>20, <2>21, <2>22 DEF WorkerStep
<1>2. ASSUME NEW i \in Inv, Expire(i) PROVE WkWrite
  BY <1>2, <1>s DEF Expire
<1>3. ASSUME NEW n \in Nodes, NodeStep(n) PROVE WkWrite
  BY <1>3, <1>s DEF NodeStep, NodeUp, ConnLost, NodeOffline, NodeCrash
<1> QED
  BY <1>1, <1>2, <1>3 DEF Next

-----------------------------------------------------------------------------
(* The type invariant *)

\* Reserving and releasing a slot keep the counter of a node natural.
LEMMA SlotsOK ==
  ASSUME TypeOK, NEW n \in Nodes, TakeSlot(n) \/ FreeSlotOf(n)
  PROVE  reserved' \in [Nodes -> Nat]
BY DEF TypeOK, TakeSlot, FreeSlotOf

\* Every operation keeps the counters natural.
LEMMA CountersOK == SpawnInv /\ Next => reserved' \in [Nodes -> Nat]
<1> SUFFICES ASSUME SpawnInv, Next PROVE reserved' \in [Nodes -> Nat]
  OBVIOUS
<1>0. TypeOK /\ reserved \in [Nodes -> Nat]
  BY DEF SpawnInv, TypeOK
<1>1. ASSUME NEW w \in Workers, WorkerStep(w) PROVE reserved' \in [Nodes -> Nat]
  <2>0. wk[w] \in Worker /\ Sound(wk[w])
    BY DEF SpawnInv, WorkersOK
  <2>1. CASE PlaceSpawn(w) \/ Replace(w)
    BY <2>1, <1>0, SlotsOK DEF PlaceSpawn, Replace, Placeable
  <2>2. CASE ReturnSlot(w) \/ FreeSlot(w) \/ DrainReserve(w)
    <3>1. wk[w].n \in Nodes
      BY <2>0, <2>2 DEF Sound, At, ReturnSlot, FreeSlot, DrainReserve
    <3> QED
      BY <2>2, <3>1, <1>0, SlotsOK DEF ReturnSlot, FreeSlot, DrainReserve
  <2>3. CASE DropHold(w)
    <3>1. wk[w].obs.node \in Nodes \cup {None}
      BY <2>0 DEF Worker, Row
    <3> QED
      BY <2>3, <3>1, <1>0, SlotsOK DEF DropHold
  <2>4. CASE reserved' = reserved
    BY <2>4, <1>0
  <2> QED
    BY <1>1, <2>1, <2>2, <2>3, <2>4
    DEF WorkerStep, Request, RefuseUnready, Bind, Claim, SendAccepted, SendRefused, SendThrows, Restore,
        RestoreFails, Mark, StartDrain, TakeMark, Defer, StartTimeout, StartDue, StartLost,
        StartReschedule, QueueRetry, Park, Answer, Finish
<1>2. CASE (\E i \in Inv : Expire(i)) \/ (\E n \in Nodes : NodeStep(n))
  BY <1>0, <1>2 DEF Expire, NodeStep, NodeUp, ConnLost, NodeOffline, NodeCrash
<1> QED
  BY <1>1, <1>2 DEF Next

\* Every operation keeps the nodes, the frames and the faults typed.
LEMMA EnvironmentOK ==
  SpawnInv /\ Next => /\ ready' \in [Nodes -> BOOLEAN] /\ conn' \in [Nodes -> BOOLEAN]
                      /\ run' \subseteq Inv \X Nodes /\ faults' \in 0..MaxFaults
<1> DEFINE Good == /\ ready' \in [Nodes -> BOOLEAN] /\ conn' \in [Nodes -> BOOLEAN]
                   /\ run' \subseteq Inv \X Nodes /\ faults' \in 0..MaxFaults
<1> SUFFICES ASSUME SpawnInv, Next PROVE Good
  OBVIOUS
<1>0. TypeOK /\ SpawnAssumption
  BY SpawnAssumption DEF SpawnInv
<1>s. ASSUME UNCHANGED envVars PROVE Good
  BY <1>0, <1>s DEF envVars, TypeOK
<1>1. ASSUME NEW w \in Workers, WorkerStep(w) PROVE Good
  <2>0. wk[w] \in Worker /\ Sound(wk[w])
    BY DEF SpawnInv, WorkersOK
  <2>1. CASE SendAccepted(w) \/ SendRefused(w) \/ SendThrows(w) \/ RestoreFails(w)
    <3>1. At(w, "send") => <<wk[w].i, wk[w].n>> \in Inv \X Nodes
      BY <2>0 DEF Sound, At
    <3> QED
      BY <2>1, <3>1, <1>0 DEF SendAccepted, SendRefused, SendThrows, RestoreFails, TypeOK
  <2>2. ASSUME NEW i \in Inv, NEW n \in Nodes, NEW k, Answer(w, i, n, k) PROVE Good
    BY <2>2, <1>0 DEF Answer, TypeOK
  <2>3. CASE UNCHANGED envVars
    BY <2>3, <1>s
  <2> QED
    BY <1>1, <2>1, <2>2, <2>3
    DEF WorkerStep, Request, PlaceSpawn, RefuseUnready, Bind, Claim, Restore, ReturnSlot, Mark, StartDrain,
        TakeMark, DrainReserve, Defer, StartTimeout, StartDue, StartLost, StartReschedule, DropHold, Replace,
        QueueRetry, Park, Finish, FreeSlot
<1>2. ASSUME NEW i \in Inv, Expire(i) PROVE Good
  BY <1>2, <1>s DEF Expire
<1>3. ASSUME NEW n \in Nodes, NodeStep(n) PROVE Good
  BY <1>3, <1>0 DEF NodeStep, NodeUp, ConnLost, NodeOffline, NodeCrash, TypeOK
<1> QED
  BY <1>1, <1>2, <1>3 DEF Next

\* The row write and the worker write of a step keep both typed, and leave no
\* execution without its invocation.
LEMMA WritesOK ==
  ASSUME SpawnInv, RowWrite, WkWrite
  PROVE  row' \in [Inv -> Row] /\ WorkersOK' /\ Known'
<1>0. row \in [Inv -> Row] /\ wk \in [Workers -> Worker] /\ \A w \in Workers : Sound(wk[w])
  BY DEF SpawnInv, TypeOK, WorkersOK
<1>1. row' \in [Inv -> Row] /\ \A i \in Inv : row[i].st # "none" => row'[i].st # "none"
  BY <1>0 DEF RowWrite
<1>2. wk' \in [Workers -> Worker] /\ \A w \in Workers : Sound(wk'[w])
  BY <1>0 DEF WkWrite
<1>3. \A w \in Workers : wk[w].pc \notin {"off", "free"} => wk[w].i \in Inv /\ row[wk[w].i].st # "none"
  BY <1>0 DEF SpawnInv, Known, Sound
<1>4. \A y : y.pc \notin {"off", "free"} /\ Sound(y) => y.i \in Inv
  BY DEF Sound
<1>5. ASSUME NEW w \in Workers, wk'[w].pc \notin {"off", "free"} PROVE row'[wk'[w].i].st # "none"
  BY <1>0, <1>1, <1>3, <1>4, <1>5 DEF WkWrite
<1> QED
  BY <1>1, <1>2, <1>5 DEF WorkersOK, Known

\* The inductive invariant holds before the first request.
LEMMA SpawnInvInit == Init => SpawnInv
<1> SUFFICES ASSUME Init PROVE SpawnInv
  OBVIOUS
<1>1. TypeOK
  BY NoRowOK, SpawnAssumption DEF Init, TypeOK
<1>2. WorkersOK /\ Known
  BY IdleOK DEF Init, WorkersOK, Known
<1> QED
  BY <1>1, <1>2 DEF SpawnInv

\* Every operation keeps it.
LEMMA SpawnInvStep == SpawnInv /\ [Next]_vars => SpawnInv'
<1> SUFFICES ASSUME SpawnInv, [Next]_vars PROVE SpawnInv'
  OBVIOUS
<1>1. CASE Next
  BY <1>1, RowWrites, WkWrites, WritesOK, CountersOK, EnvironmentOK DEF SpawnInv, TypeOK
<1>2. CASE UNCHANGED vars
  BY <1>2 DEF vars, SpawnInv, TypeOK, WorkersOK, Known
<1> QED
  BY <1>1, <1>2

\* The rows, the counters and the sockets have their types at all times; no
\* release takes nodes.reserved_agents below zero (releaseNodeCapacity).
THEOREM SpawnTypeCorrect == Spec => []TypeOK
<1>1. SpawnInv => TypeOK
  BY DEF SpawnInv
<1> QED
  BY <1>1, SpawnInvInit, SpawnInvStep, PTL DEF Spec

\* A completed, failed or deleted invocation is never written again, whatever
\* the request, the drains, the sweeps, the restores and the late answers that
\* read it before still do (the status conditions of their updates).
THEOREM SpawnSettledStays == Spec => SettledStays
<1> DEFINE Stays == \A i \in Inv : row[i].st \in {"completed", "failed", "deleted"} => row'[i] = row[i]
<1>1. SpawnInv /\ [Next]_vars => [Stays]_vars
  <2> SUFFICES ASSUME SpawnInv, Next PROVE Stays
    OBVIOUS
  <2>1. RowWrite /\ row \in [Inv -> Row]
    BY RowWrites DEF SpawnInv, TypeOK
  <2> QED
    BY <2>1 DEF RowWrite, Open
<1> QED
  BY <1>1, SpawnInvInit, SpawnInvStep, PTL DEF Spec, SettledStays

-----------------------------------------------------------------------------
(* One sender *)

\* A claim that lands is made from the row as it was read, and is newer.
LEMMA ClaimLands ==
  ASSUME SpawnInv, SameSecond = FALSE, NEW w \in Workers, Claim(w), Owner(w)'
  PROVE  /\ wk'[w].i = wk[w].i /\ wk'[w].obs = wk[w].obs
         /\ SameToken(row[wk[w].i], wk[w].obs)
         /\ Before(wk[w].obs, wk'[w])
         /\ SameToken(row'[wk[w].i], wk'[w]) /\ \A j \in Inv : j # wk[w].i => row'[j] = row[j]
         /\ \A v \in Workers : v # w => wk'[v] = wk[v]
<1> DEFINE x == wk[w]  i == x.i  o == x.obs  n == x.n  r == row[i]  att == ClaimAttempts(w)
           st == IF x.queued \/ ~conn[n] THEN "pending" ELSE "dispatched"
           pl == IF r.placed = None THEN n ELSE r.placed
           hd == x.res \/ x.keep
           tr == IF att = o.att THEN r.tried ELSE r.tried \cup {n}
           Claimed(d) == [r EXCEPT !.st = st, !.node = n, !.prov = TRUE, !.att = att, !.retry = d,
                                   !.placed = pl, !.held = hd, !.tried = tr]
           Sending(d) == [x EXCEPT !.pc = "send", !.st = st, !.att = att, !.retry = d]
<1>0. /\ wk \in [Workers -> Worker] /\ row \in [Inv -> Row] /\ x \in Worker /\ Sound(x) /\ x.pc = "claim"
      /\ i \in Inv /\ r \in Row /\ o \in Row
  BY DEF SpawnInv, TypeOK, WorkersOK, Claim, At, Sound, Worker
<1>1. ~GoUnaccepted(w, Unaccepted(w))
  <2> SUFFICES ASSUME GoUnaccepted(w, Unaccepted(w)) PROVE FALSE
    OBVIOUS
  <2>1. wk'[w].pc \in {"off", "giveback", "mark", "finish"}
    BY <1>0, IdleOK DEF GoUnaccepted, Unaccepted, Step, Stop, Worker
  <2> QED
    BY <2>1 DEF Owner
<1>2. PICK d \in ClaimRetries(w, st, att) :
        /\ SameClaim(r, o)
        /\ row' = [row EXCEPT ![i] = Claimed(d)]
        /\ wk' = [wk EXCEPT ![w].pc = "send", ![w].st = st, ![w].att = att, ![w].retry = d]
  BY <1>1 DEF Claim, Write, ClaimMatches
<1>3. wk' = [wk EXCEPT ![w] = Sending(d)]
  BY <1>2, <1>0
<1>4. SameToken(r, o)
  BY <1>2 DEF SameClaim, SameToken
<1>5. o.att < att \/ (o.att = att /\ o.retry < d)
  <2>1. o.att \in Nat /\ o.retry \in Nat
    BY <1>0, SpawnAssumption DEF Row, Deadlines
  <2>2. att = o.att + 1 \/ (att = o.att /\ x.job \in {"drain", "unsent"})
    BY DEF ClaimAttempts
  <2>3. ASSUME att = o.att, x.job \in {"drain", "unsent"} PROVE o.retry < d
    BY <1>4, <2>1, <2>3 DEF ClaimRetries, Later, SameToken
  <2> HIDE DEF o, att
  <2> QED
    BY <2>1, <2>2, <2>3
<1> HIDE DEF x, i, o, r, st, att, pl, hd, tr, n
<1>6. Sending(d).i = x.i /\ Sending(d).obs = x.obs /\ Sending(d).att = att /\ Sending(d).retry = d
  BY <1>0 DEF Worker
<1>7. Claimed(d).att = att /\ Claimed(d).retry = d
  BY <1>0 DEF Row
<1> HIDE DEF Claimed, Sending
<1>8. /\ wk'[w] = Sending(d) /\ \A v \in Workers : v # w => wk'[v] = wk[v]
      /\ row'[i] = Claimed(d) /\ \A j \in Inv : j # i => row'[j] = row[j]
  BY <1>0, <1>2, <1>3
<1> QED
  BY <1>0, <1>4, <1>5, <1>6, <1>7, <1>8 DEF Before, SameToken, x, i, o, r

\* A claim that is put back leaves its owner and puts back what it found, if
\* the row still has its token.
LEMMA RestoreLands ==
  ASSUME SpawnInv, NEW w \in Workers, Restore(w)
  PROVE  /\ Owner(w) /\ ~Owner(w)'
         /\ \A v \in Workers : v # w => wk'[v] = wk[v]
         /\ \/ row' = row
            \/ /\ SameToken(row[wk[w].i], wk[w]) /\ SameToken(row'[wk[w].i], wk[w].obs)
               /\ \A j \in Inv : j # wk[w].i => row'[j] = row[j]
<1> DEFINE i == wk[w].i  o == wk[w].obs  r == row[i]  k == wk[w].keep
           x == [r EXCEPT !.st = "pending", !.node = o.node, !.retry = o.retry, !.att = o.att, !.held = k]
<1>0. /\ wk \in [Workers -> Worker] /\ row \in [Inv -> Row] /\ wk[w] \in Worker /\ wk[w].pc = "restore"
      /\ i \in Inv /\ r \in Row /\ o \in Row
  BY DEF SpawnInv, TypeOK, WorkersOK, Restore, At, Sound, Worker
<1>1. wk'[w].pc \in {"off", "giveback", "mark", "finish"} /\ \A v \in Workers : v # w => wk'[v] = wk[v]
  BY <1>0, IdleOK DEF Restore, GoUnaccepted, Unaccepted, Step, Stop, Worker
<1>2. row' = row \/ (SameToken(r, wk[w]) /\ row' = [row EXCEPT ![i] = x])
  BY DEF Restore, RestoreMatches, Restored, Write, SameToken
<1> HIDE DEF i, o, r, k
<1>3. SameToken(x, o)
  BY <1>0 DEF Row, SameToken
<1> HIDE DEF x
<1>4. row' = row \/ (SameToken(r, wk[w]) /\ SameToken(row'[i], o) /\ \A j \in Inv : j # i => row'[j] = row[j])
  BY <1>0, <1>2, <1>3 DEF SameToken
<1> QED
  BY <1>0, <1>1, <1>4 DEF Owner, i, o, r

\* Tokens are pairs of naturals.
LEMMA TokensNat ==
  /\ \A x \in Worker : x.att \in Nat /\ x.retry \in Nat /\ x.obs.att \in Nat /\ x.obs.retry \in Nat
  /\ \A r \in Row : r.att \in Nat /\ r.retry \in Nat
BY SpawnAssumption DEF Worker, Row, Deadlines

\* In a step that neither lands a claim nor puts one back, owners keep their
\* claims and the tokens of the rows only grow.
LEMMA OtherSteps ==
  ASSUME ClaimInv, Next, \A w \in Workers : ~Restore(w) /\ ~(Claim(w) /\ Owner(w)')
  PROVE  /\ \A w \in Workers : Owner(w)' => StillOwns(w, wk'[w])
         /\ \A i \in Inv : row[i].st # "none" => NotAfter(row[i], row'[i])
<1>0. SpawnInv /\ wk \in [Workers -> Worker] /\ row \in [Inv -> Row]
  BY DEF ClaimInv, SpawnInv, TypeOK, WorkersOK
<1>1. ASSUME NEW w \in Workers, Owner(w)' PROVE StillOwns(w, wk'[w])
  <2>1. CASE wk' = wk
    BY <1>1, <2>1 DEF StillOwns, Owner
  <2>2. ASSUME NEW v \in Workers, NEW y \in Worker, wk' = [wk EXCEPT ![v] = y],
               y.pc \in {"send", "restore"} => StillOwns(v, y) \/ Claim(v)
        PROVE  StillOwns(w, wk'[w])
    <3>1. CASE v = w
      <4>1. wk'[w] = y
        BY <3>1, <2>2, <1>0
      <4> QED
        BY <3>1, <4>1, <1>1, <2>2 DEF Owner
    <3>2. CASE v # w
      <4>1. wk'[w] = wk[w]
        BY <3>2, <2>2, <1>0
      <4> QED
        BY <4>1, <1>1 DEF StillOwns, Owner
    <3> QED
      BY <3>1, <3>2
  <2> QED
    BY <2>1, <2>2, <1>0, WkWrites DEF WkWrite
<1>2. ASSUME NEW i \in Inv, row[i].st # "none" PROVE NotAfter(row[i], row'[i])
  <2>1. NotAfter(row[i], row[i])
    BY <1>0, SameTokenOK DEF SameToken
  <2> QED
    BY <1>0, <1>2, <2>1, RowWrites DEF RowWrite
<1> QED
  BY <1>1, <1>2

\* Every operation keeps claims apart when no two deadlines of a row share a second.
LEMMA ClaimInvStep ==
  ASSUME SameSecond = FALSE, ClaimInv, [Next]_vars
  PROVE  ClaimInv'
<1>0. SpawnInv /\ SpawnInv' /\ ClaimAdvances /\ ClaimsApart
  BY SpawnInvStep DEF ClaimInv
<1>n. /\ \A w \in Workers : /\ wk[w].att \in Nat /\ wk[w].retry \in Nat
                            /\ wk[w].obs.att \in Nat /\ wk[w].obs.retry \in Nat
      /\ \A i \in Inv : row[i].att \in Nat /\ row[i].retry \in Nat
  BY <1>0, TokensNat DEF SpawnInv, TypeOK, WorkersOK
<1>m. /\ \A w \in Workers : /\ wk'[w].att \in Nat /\ wk'[w].retry \in Nat
                            /\ wk'[w].obs.att \in Nat /\ wk'[w].obs.retry \in Nat
      /\ \A i \in Inv : row'[i].att \in Nat /\ row'[i].retry \in Nat
  BY <1>0, TokensNat DEF SpawnInv, TypeOK, WorkersOK
<1>i. \A w \in Workers : Owner(w) => wk[w].i \in Inv /\ row[wk[w].i].st # "none"
  BY <1>0 DEF SpawnInv, WorkersOK, Sound, Known, Owner
<1>1. ASSUME NEW u \in Workers, Restore(u) PROVE ClaimAdvances' /\ ClaimsApart'
  <2>1. \A w \in Workers : Owner(w)' => w # u /\ wk'[w] = wk[w] /\ Owner(w)
    BY <1>0, <1>1, RestoreLands DEF Owner
  <2>2. ClaimsApart'
    BY <1>0, <2>1 DEF ClaimsApart
  <2>3. ASSUME NEW w \in Workers, Owner(w)' PROVE Before(wk'[w].obs, wk'[w]) /\ NotAfter(wk'[w], row'[wk'[w].i])
    <3>1. w # u /\ wk'[w] = wk[w] /\ Owner(w) /\ wk[w].i \in Inv /\ Owner(u)
      BY <2>1, <2>3, <1>0, <1>1, <1>i, RestoreLands
    <3>2. Before(wk[w].obs, wk[w]) /\ NotAfter(wk[w], row[wk[w].i])
      BY <3>1, <1>0 DEF ClaimAdvances
    <3>3. CASE row'[wk[w].i] = row[wk[w].i]
      BY <3>1, <3>2, <3>3
    <3>4. CASE row'[wk[w].i] # row[wk[w].i]
      <4>1. wk[w].i = wk[u].i /\ SameToken(row[wk[u].i], wk[u]) /\ SameToken(row'[wk[u].i], wk[u].obs)
        BY <3>1, <3>4, <1>0, <1>1, RestoreLands
      <4>2. ~SameToken(wk[w], wk[u]) /\ (Before(wk[w], wk[u]) => NotAfter(wk[w], wk[u].obs))
        BY <3>1, <4>1, <1>0 DEF ClaimsApart, SameToken
      <4>3. Before(wk[w], wk[u])
        BY <3>2, <4>1, <4>2, <1>n DEF Before, NotAfter, SameToken
      <4> QED
        BY <3>1, <3>2, <4>1, <4>2, <4>3 DEF NotAfter, SameToken
    <3> QED
      BY <3>3, <3>4
  <2> QED
    BY <2>2, <2>3 DEF ClaimAdvances
<1>2. ASSUME NEW u \in Workers, Claim(u), Owner(u)' PROVE ClaimAdvances' /\ ClaimsApart'
  <2>1. /\ wk'[u].i = wk[u].i /\ wk'[u].obs = wk[u].obs /\ wk[u].i \in Inv
        /\ SameToken(row[wk[u].i], wk[u].obs) /\ Before(wk[u].obs, wk'[u])
        /\ SameToken(row'[wk[u].i], wk'[u])
        /\ \A v \in Workers : v # u => wk'[v] = wk[v]
    BY <1>0, <1>2, ClaimLands DEF Claim, At, SpawnInv, WorkersOK, Sound
  <2>2. ASSUME NEW w \in Workers, Owner(w)' PROVE Before(wk'[w].obs, wk'[w]) /\ NotAfter(wk'[w], row'[wk'[w].i])
    <3>1. CASE w = u
      BY <3>1, <2>1, <1>m DEF NotAfter, SameToken
    <3>2. CASE w # u
      <4>1. Owner(w) /\ wk'[w] = wk[w] /\ wk[w].i \in Inv
        BY <3>2, <2>1, <2>2, <1>i DEF Owner
      <4>2. Before(wk[w].obs, wk[w]) /\ NotAfter(wk[w], row[wk[w].i])
        BY <4>1, <1>0 DEF ClaimAdvances
      <4>3. NotAfter(row[wk[w].i], row'[wk[w].i])
        <5>1. CASE wk[w].i = wk[u].i
          BY <5>1, <2>1, <1>n, <1>m DEF NotAfter, Before, SameToken
        <5>2. CASE wk[w].i # wk[u].i
          <6>1. row'[wk[w].i] = row[wk[w].i]
            BY <5>2, <4>1, <1>2, <1>0, ClaimLands
          <6> QED
            BY <6>1, <4>1, <1>n DEF NotAfter
        <5> QED
          BY <5>1, <5>2
      <4> QED
        BY <4>1, <4>2, <4>3, <1>n, <1>m DEF NotAfter
    <3> QED
      BY <3>1, <3>2
  <2>3. ASSUME NEW v \in Workers, NEW w \in Workers, v # w, Owner(v)', Owner(w)', wk'[v].i = wk'[w].i
        PROVE  /\ ~SameToken(wk'[v], wk'[w])
               /\ Before(wk'[v], wk'[w]) => NotAfter(wk'[v], wk'[w].obs)
    <3>0. ASSUME NEW z \in Workers, z # u, Owner(z)', wk'[z].i = wk'[u].i
          PROVE  wk'[z] = wk[z] /\ NotAfter(wk[z], wk[u].obs)
      <4>1. wk'[z] = wk[z] /\ Owner(z) /\ wk[z].i = wk[u].i
        BY <3>0, <2>1 DEF Owner
      <4>2. NotAfter(wk[z], row[wk[u].i])
        BY <4>1, <1>0 DEF ClaimAdvances
      <4> QED
        BY <4>1, <4>2, <2>1 DEF NotAfter, SameToken
    <3>1. CASE w = u
      <4>1. wk'[v] = wk[v] /\ NotAfter(wk[v], wk[u].obs)
        BY <3>0, <3>1, <2>3
      <4> QED
        BY <3>1, <4>1, <2>1, <1>n, <1>m DEF NotAfter, Before, SameToken
    <3>2. CASE v = u
      <4>1. wk'[w] = wk[w] /\ NotAfter(wk[w], wk[u].obs)
        BY <3>0, <3>2, <2>3
      <4>2. ~SameToken(wk'[u], wk[w]) /\ ~Before(wk'[u], wk[w])
        BY <4>1, <2>1, <1>n, <1>m DEF NotAfter, Before, SameToken
      <4> QED
        BY <3>2, <4>1, <4>2
    <3>3. CASE v # u /\ w # u
      BY <3>3, <2>1, <2>3, <1>0 DEF ClaimsApart, Owner, SameToken
    <3> QED
      BY <3>1, <3>2, <3>3
  <2> QED
    BY <2>2, <2>3 DEF ClaimAdvances, ClaimsApart, SameToken
<1>3. CASE Next /\ \A w \in Workers : ~Restore(w) /\ ~(Claim(w) /\ Owner(w)')
  <2>1. /\ \A w \in Workers : Owner(w)' => StillOwns(w, wk'[w])
        /\ \A i \in Inv : row[i].st # "none" => NotAfter(row[i], row'[i])
    BY <1>3, OtherSteps
  <2>2. ASSUME NEW w \in Workers, Owner(w)' PROVE Before(wk'[w].obs, wk'[w]) /\ NotAfter(wk'[w], row'[wk'[w].i])
    <3>1. StillOwns(w, wk'[w]) /\ Before(wk[w].obs, wk[w]) /\ NotAfter(wk[w], row[wk[w].i])
      BY <2>1, <2>2, <1>0 DEF ClaimAdvances, StillOwns
    <3>2. wk[w].i \in Inv /\ NotAfter(row[wk[w].i], row'[wk[w].i])
      BY <3>1, <2>1, <1>i DEF StillOwns
    <3> QED
      BY <3>1, <3>2, <1>n, <1>m DEF NotAfter, Before, StillOwns
  <2>3. ClaimsApart'
    BY <2>1, <1>0 DEF ClaimsApart, StillOwns, Before, NotAfter
  <2>4. ClaimAdvances'
    BY <2>2 DEF ClaimAdvances
  <2> QED
    BY <1>0, <2>3, <2>4 DEF ClaimInv
<1>4. CASE UNCHANGED vars
  <2>1. row' = row /\ wk' = wk
    BY <1>4 DEF vars
  <2>2. ClaimAdvances'
    BY <1>0, <2>1 DEF ClaimAdvances, Owner
  <2>3. ClaimsApart'
    BY <1>0, <2>1 DEF ClaimsApart, Owner
  <2> QED
    BY <1>0, <2>2, <2>3 DEF ClaimInv
<1> QED
  BY <1>0, <1>1, <1>2, <1>3, <1>4 DEF ClaimInv

\* At most one execution owns a claim (dispatchNodeAttempt's compare-and-swap,
\* restoreUnsentSpawnClaim), for any number of executions, if no two deadlines
\* of a row fall in the same second.  With SameSecond = TRUE it is false: a
\* restore does not compare the status, so it can put back the claim of the
\* drain that sends the same attempt with the same deadline.
THEOREM SpawnOneSender == ASSUME SameSecond = FALSE PROVE Spec => []OneSender
<1>1. Init => ClaimInv
  BY SpawnInvInit, IdleOK DEF ClaimInv, ClaimAdvances, ClaimsApart, Owner, Init
<1>2. ClaimInv /\ [Next]_vars => ClaimInv'
  BY ClaimInvStep
<1>3. ClaimInv => OneSender
  BY DEF ClaimInv, ClaimsApart, Owner, OneSender, At
<1> QED
  BY <1>1, <1>2, <1>3, PTL DEF Spec
=============================================================================
