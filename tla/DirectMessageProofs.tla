------------------------ MODULE DirectMessageProofs ------------------------
(***************************************************************************)
(* Proofs about DirectMessage.  The argument is about time: a message is   *)
(* claimed for as long as its window lasts, and a request that found no    *)
(* claim ends before a window can pass.  What any step does to the rows is *)
(* one of six writes (RowStep below); what a request relies on after an    *)
(* await is ReqKnows.                                                      *)
(***************************************************************************)
EXTENDS DirectMessage, TLAPS

-----------------------------------------------------------------------------
(* The inductive invariant *)

\* Steps of a request that carries its body, and those of a direct message.
KvPcs == {"keys", "contended", "acquire", "recheck", "store"}
DmPcs == {"lookup", "expire", "reread", "egress", "expireEgress", "rereadEgress", "prepare", "admit", "lost",
          "transport"}
\* A request under way.
Open == [pc : KvPcs \cup DmPcs \cup {"post"}, pay : Payloads, since : Times, held : BOOLEAN, clock : Times,
         url : Nat, msg : 0..MaxMsg, base : {None} \cup [at : Times], replay : BOOLEAN]
\* A request slot: free after an answer with the body it had sent, deleting its lock, or under way.
Req == [pc : {"idle"}, own : {TRUE}] \cup [pc : {"failed"}, since : Times] \cup Open
\* The transport of a request or a sweeper.
TripState == [pc : {"off", "read", "claim", "attempt", "accepted", "rejected", "unavailable", "cleanEgress",
                    "cleanClaim"}]
\* The rows.
Made == [pay : Payloads, at : Times]
ClaimRow == [msg : Msgs, pay : Payloads, at : Times]
EgressRow == [st : {"pending", "sending", "sent", "failed"}, token : Workers \cup {"none"}, leased : BOOLEAN,
              at : Times, msg : Msgs, pay : Payloads, url : Nat, kept : BOOLEAN, counted : Nat]
RecordRow == [msg : Msgs, pay : Payloads, until : Nat]

\* The shapes of the state.
Shapes ==
  /\ site \in Sites /\ now \in Times /\ lock \in BOOLEAN
  /\ record \in {None} \cup RecordRow /\ claim \in {None} \cup ClaimRow /\ egress \in {None} \cup EgressRow
  /\ made \in [Msgs -> {None} \cup Made]
  /\ peers \in 0..site.peers /\ peer \in 0..peers
  /\ req \in [Requests -> Req] /\ trip \in [Workers -> TripState]

\* A row v is about a message that was written, with its body.
About(v, md) == md[v.msg] # None /\ md[v.msg].pay = v.pay

\* The messages: written in order, each of a direct message a window after the one before, and
\* claimed as long as its own window lasts.
MadeOK ==
  /\ \E k \in 0..MaxMsg : \A m \in Msgs : made[m] # None <=> m <= k
  /\ OnePerWindow
  /\ site.kind = "dm" => \A m \in Msgs : made[m] # None =>
       made[m].at <= now /\ (now < made[m].at + Window => claim # None /\ claim.msg = m)
  /\ site.kind = "post" => claim = None /\ egress = None

\* The claim and the intent are about one message.
ClaimOK == claim # None => About(claim, made) /\ claim.at = made[claim.msg].at
EgressOK ==
  egress # None => /\ About(egress, made) /\ egress.url \in 1..peers
                   /\ egress.st = "sending" <=> egress.token # "none"
RecordOK == (record # None => About(record, made)) /\ RecordWithinWindow

\* What a request is, whatever the rows became.
ReqIs(q) ==
  /\ q \in Req
  /\ q.pc \in DmPcs => site.kind = "dm"
  /\ q.pc = "post" => site.kind = "post"
  /\ q.pc = "admit" => q.base # None /\ q.since <= q.base.at

\* What it relies on: it is not older than Stall; its message has its body; since it found no
\* claim, only messages of requests that ran beside it were written within a window.
ReqKnows(q, md, eg, t, ps) ==
  /\ q.pc # "idle" => q.since <= t /\ t <= q.since + Stall
  /\ q.pc \notin {"idle", "failed"} => q.clock <= t /\ q.url <= ps /\ (q.base # None => q.base.at <= t)
  /\ q.pc \in {"store", "transport"} =>
       /\ q.msg \in Msgs /\ md[q.msg] # None /\ md[q.msg].pay = q.pay
       /\ site.kind = "dm" /\ q.base # None => q.base.at = md[q.msg].at
       /\ site.kind = "dm" /\ ps = 0 => q.base # None
  /\ q.pc \in {"egress", "expireEgress", "rereadEgress", "prepare"} =>
       \A m \in Msgs : md[m] # None => Elapsed(md[m].at, t) \/ q.since <= md[m].at + Stall
  /\ q.pc = "admit" =>
       \A m \in Msgs : md[m] # None => Elapsed(md[m].at, q.base.at) \/ q.since <= md[m].at + Stall
  /\ q.pc \in {"prepare", "admit"} /\ eg # None => q.since <= md[eg.msg].at + Stall

\* The requests.
ReqsOK == \A r \in Requests :
  /\ ReqIs(req[r]) /\ ReqKnows(req[r], made, egress, now, peers)
  /\ req[r].pc = "transport" <=> trip[r].pc # "off"

\* The inductive invariant.
DMInv == Shapes /\ MadeOK /\ ClaimOK /\ EgressOK /\ RecordOK /\ OneIdentity /\ CountedOnce /\ ReqsOK

-----------------------------------------------------------------------------
(* What a step does to the rows *)

\* A message is posted.
Posted ==
  /\ site.kind = "post" /\ UNCHANGED <<claim, egress>> /\ now' = now
  /\ \E m \in Msgs : made[m] = None
  /\ \E p \in Payloads : made' = [made EXCEPT ![Fresh] = [pay |-> p, at |-> now]]
\* The batch of a direct message, a window after every message before it.
Admitted ==
  /\ site.kind = "dm" /\ claim = None /\ egress = None /\ now' = now
  /\ \E m \in Msgs : made[m] = None
  /\ \E p \in Payloads, t \in Times, u \in 0..peers :
       /\ t <= now /\ now <= t + Stall
       /\ \A m \in Msgs : made[m] # None => Elapsed(made[m].at, t)
       /\ made' = [made EXCEPT ![Fresh] = [pay |-> p, at |-> t]]
       /\ claim' = [msg |-> Fresh, pay |-> p, at |-> t]
       /\ egress' = IF u = 0 THEN egress
                    ELSE [st |-> "pending", token |-> "none", leased |-> FALSE, at |-> now,
                          msg |-> Fresh, pay |-> p, url |-> u, kept |-> TRUE, counted |-> 0]
\* The claim, or the intent, is dropped after its window.
ClaimGone == /\ claim # None /\ Elapsed(claim.at, now) /\ claim' = None
             /\ UNCHANGED <<egress, made, now>>
EgressGone == /\ egress # None /\ Elapsed(egress.at, now) /\ egress' = None
              /\ UNCHANGED <<claim, made, now>>
\* The intent changes hands or is settled.
EgressMoves ==
  /\ egress # None /\ egress' \in EgressRow
  /\ egress'.msg = egress.msg /\ egress'.pay = egress.pay /\ egress'.url = egress.url /\ egress'.at = egress.at
  /\ egress'.st = "sending" <=> egress'.token # "none"
  /\ egress'.counted <= 1 /\ (egress'.counted = 1 <=> egress'.st = "sent")
  /\ egress.st \in {"sent", "failed"} => egress'.st = egress.st
  /\ UNCHANGED <<claim, made, now>>
\* Time passes, if no request has run for too long.
Passes == /\ now' \in {now, now + 1} /\ now' \in Times
          /\ now' # now => \A r \in Requests : Running(r) => now < req[r].since + Stall
          /\ UNCHANGED rowVars
\* One of these.
RowStep == Posted \/ Admitted \/ ClaimGone \/ EgressGone \/ EgressMoves \/ Passes

-----------------------------------------------------------------------------
(* Facts about the rows *)

\* A row is not the absence of one.
LEMMA NotNone ==
  /\ \A v \in Made : v # None
  /\ \A v \in ClaimRow : v # None
  /\ \A v \in EgressRow : v # None
  /\ \A v \in RecordRow : v # None
  /\ \A v \in [at : Times] : v # None
<1>1. DOMAIN None = {"absent"}
  BY DEF None
<1>2. \A v \in Made : DOMAIN v = {"pay", "at"}
  BY DEF Made
<1>3. \A v \in ClaimRow : DOMAIN v = {"msg", "pay", "at"}
  BY DEF ClaimRow
<1>4. \A v \in EgressRow : "st" \in DOMAIN v
  BY DEF EgressRow
<1>5. \A v \in RecordRow : DOMAIN v = {"msg", "pay", "until"}
  BY DEF RecordRow
<1>6. \A v \in [at : Times] : DOMAIN v = {"at"}
  OBVIOUS
<1> QED BY <1>1, <1>2, <1>3, <1>4, <1>5, <1>6

\* A request under way has the fields of one.
LEMMA OpenReq ==
  ASSUME NEW q \in Req
  PROVE  /\ q.pc \in {"idle", "failed"} \cup KvPcs \cup DmPcs \cup {"post"}
         /\ q.pc \notin {"idle", "failed"} <=> q \in Open
         /\ q.pc # "idle" => q.since \in Times
         /\ q.pc = "idle" => q.own
BY DEF Req, Open, KvPcs, DmPcs

\* The next message is the one after the last.
LEMMA FreshOK ==
  ASSUME MadeOK, \E m \in Msgs : made[m] = None
  PROVE  Fresh \in Msgs /\ made[Fresh] = None /\ \A m \in Msgs : made[m] # None <=> m < Fresh
<1>1. PICK k \in 0..MaxMsg : \A m \in Msgs : made[m] # None <=> m <= k
  BY DEF MadeOK
<1>2. MaxMsg \in Nat
  BY DirectMessageAssumption
<1>3. k + 1 \in Msgs
  BY <1>1, <1>2 DEF Msgs
<1>4. made[k + 1] = None /\ \A n \in Msgs : n < k + 1 => made[n] # None
  BY <1>1, <1>2, <1>3 DEF Msgs
<1>5. Fresh \in Msgs /\ made[Fresh] = None /\ \A n \in Msgs : n < Fresh => made[n] # None
  BY <1>3, <1>4 DEF Fresh
<1>6. Fresh = k + 1
  BY <1>1, <1>2, <1>3, <1>4, <1>5 DEF Msgs
<1> QED BY <1>1, <1>2, <1>5, <1>6 DEF Msgs

\* The constants.
LEMMA Numbers ==
  /\ Window \in Nat /\ MaxMsg \in Nat /\ Stall \in Nat /\ MaxTime \in Nat /\ 2 * Stall < Window
  /\ Times \subseteq Nat /\ Msgs \subseteq Nat
BY DirectMessageAssumption DEF Times, Msgs


-----------------------------------------------------------------------------
(* Every operation takes one of the six steps *)

\* The rows are left alone.
LEMMA SameOK == ASSUME DMInv, UNCHANGED <<now, rowVars>> PROVE RowStep
BY DEF DMInv, Shapes, RowStep, Passes, rowVars

\* postMessage.
LEMMA PostRow == ASSUME DMInv, NEW r \in Requests, Post(r) PROVE RowStep
<1>1. req[r] \in Req /\ ReqIs(req[r]) /\ req[r].pc = "post"
  BY DEF DMInv, Shapes, ReqsOK, Post, At
<1>2. req[r].pay \in Payloads
  BY <1>1, OpenReq DEF Open
<1>3. site.kind = "post"
  BY <1>1 DEF ReqIs
<1> QED BY <1>2, <1>3 DEF Post, RowStep, Posted

\* The batch: the message comes a window after the others, and there is no intent.
LEMMA AdmitRow == ASSUME DMInv, NEW r \in Requests, Admit(r) PROVE RowStep
<1> DEFINE q == req[r]
<1>1. q \in Req /\ ReqIs(q) /\ ReqKnows(q, made, egress, now, peers) /\ q.pc = "admit" /\ site.kind = "dm"
  BY DEF DMInv, Shapes, ReqsOK, Admit, At, ReqIs, DmPcs
<1>2. CASE Admissible(q)
  <2>1. /\ q \in Open /\ q.pay \in Payloads /\ q.base \in [at : Times] /\ q.since \in Times /\ q.url \in Nat
        /\ q.base.at \in Times
    <3>1. q \in Open /\ q.since \in Times
      BY <1>1, OpenReq
    <3>2. q.base # None
      BY <1>1 DEF ReqIs
    <3>3. q.base \in {None} \cup [at : Times] /\ q.pay \in Payloads /\ q.url \in Nat
      BY <3>1 DEF Open
    <3> QED BY <3>1, <3>2, <3>3
  <2>2. /\ q.since <= now /\ now <= q.since + Stall /\ q.since <= q.base.at /\ q.base.at <= now /\ q.url <= peers
        /\ now \in Nat /\ peers \in Nat
    BY <1>1, <2>1, Numbers, NotNone DEF ReqIs, ReqKnows, DMInv, Shapes
  <2>3. claim = None
    BY <1>2 DEF Admissible
  <2>4. \A m \in Msgs : made[m] # None => made[m].at \in Nat /\ Elapsed(made[m].at, now)
    <3>1. \A m \in Msgs : made[m] # None => made[m].at \in Nat
      BY Numbers DEF DMInv, Shapes, Made
    <3> QED BY <1>1, <2>2, <2>3, <3>1, Numbers DEF DMInv, MadeOK, Elapsed
  <2>5. \A m \in Msgs : made[m] # None => ~(q.since <= made[m].at + Stall)
    <3> SUFFICES ASSUME NEW m \in Msgs, made[m] # None, q.since <= made[m].at + Stall PROVE FALSE
      OBVIOUS
    <3> DEFINE a == made[m].at
               s == q.since
    <3>1. a \in Nat /\ a + Window <= now /\ s \in Nat /\ now <= s + Stall /\ s <= a + Stall
      BY <2>1, <2>2, <2>4, Numbers DEF Elapsed
    <3> HIDE DEF a, s
    <3> QED BY <2>2, <3>1, Numbers
  <2>6. \A m \in Msgs : made[m] # None => Elapsed(made[m].at, q.base.at)
    BY <1>1, <2>5 DEF ReqKnows
  <2>7. egress = None
    <3> SUFFICES ASSUME egress # None PROVE FALSE
      OBVIOUS
    <3>1. egress.msg \in Msgs /\ made[egress.msg] # None
      BY DEF DMInv, Shapes, EgressRow, EgressOK, About
    <3>2. q.since <= made[egress.msg].at + Stall
      BY <1>1 DEF ReqKnows
    <3> QED BY <2>5, <3>1, <3>2
  <2>8. /\ \E m \in Msgs : made[m] = None
        /\ made' = [made EXCEPT ![Fresh] = [pay |-> q.pay, at |-> q.base.at]]
        /\ claim' = [msg |-> Fresh, pay |-> q.pay, at |-> q.base.at]
        /\ egress' = IF q.url = 0 THEN egress
                     ELSE [st |-> "pending", token |-> "none", leased |-> FALSE, at |-> now,
                           msg |-> Fresh, pay |-> q.pay, url |-> q.url, kept |-> TRUE, counted |-> 0]
        /\ now' = now
    BY <1>2 DEF Admit
  <2>9. q.url \in 0..peers /\ now <= q.base.at + Stall
    BY <2>1, <2>2, Numbers
  <2>10. Admitted
    BY <1>1, <2>1, <2>2, <2>3, <2>6, <2>7, <2>8, <2>9 DEF Admitted
  <2> QED BY <2>10 DEF RowStep
<1>3. CASE ~Admissible(q)
  BY <1>3, SameOK DEF Admit, rowVars
<1> QED BY <1>2, <1>3

\* An expired claim or intent is dropped by a request.
LEMMA ExpireRow == ASSUME DMInv, NEW r \in Requests, ExpireClaim(r) \/ ExpireEgress(r) PROVE RowStep
<1>1. req[r].clock \in Nat /\ req[r].clock <= now /\ now \in Nat
  <2>1. req[r] \in Req /\ req[r].pc \in {"expire", "expireEgress"} /\ ReqKnows(req[r], made, egress, now, peers)
    BY DEF DMInv, Shapes, ReqsOK, ExpireClaim, ExpireEgress, At
  <2>2. req[r] \in Open
    BY <2>1, OpenReq
  <2> QED BY <2>1, <2>2, Numbers DEF ReqKnows, Open, DMInv, Shapes
<1>2. CASE ExpireClaim(r)
  <2>1. CASE claim # None /\ Elapsed(claim.at, req[r].clock)
    <3>1. claim.at \in Nat
      BY <2>1, Numbers DEF DMInv, Shapes, ClaimRow
    <3> QED BY <1>1, <1>2, <2>1, <3>1, Numbers DEF ExpireClaim, RowStep, ClaimGone, Elapsed
  <2>2. CASE ~(claim # None /\ Elapsed(claim.at, req[r].clock))
    BY <1>2, <2>2, SameOK DEF ExpireClaim, rowVars
  <2> QED BY <2>1, <2>2
<1>3. CASE ExpireEgress(r)
  <2>1. CASE egress # None /\ CleanupEligible(req[r].clock)
    <3>1. egress.at \in Nat
      BY <2>1, Numbers DEF DMInv, Shapes, EgressRow
    <3> QED BY <1>1, <1>3, <2>1, <3>1, Numbers DEF ExpireEgress, CleanupEligible, RowStep, EgressGone, Elapsed
  <2>2. CASE ~(egress # None /\ CleanupEligible(req[r].clock))
    BY <1>3, <2>2, SameOK DEF ExpireEgress, rowVars
  <2> QED BY <2>1, <2>2
<1> QED BY <1>2, <1>3

\* The cleanup of a sweep.
LEMMA CleanupRow == ASSUME DMInv, NEW w \in Sweepers, CleanupEgress(w) \/ CleanupClaim(w) PROVE RowStep
<1>1. CASE CleanupEgress(w)
  <2>1. CASE egress # None /\ CleanupEligible(now)
    BY <1>1, <2>1 DEF CleanupEgress, CleanupEligible, RowStep, EgressGone
  <2>2. CASE ~(egress # None /\ CleanupEligible(now))
    BY <1>1, <2>2, SameOK DEF CleanupEgress, rowVars
  <2> QED BY <2>1, <2>2
<1>2. CASE CleanupClaim(w)
  <2>1. CASE claim # None /\ Elapsed(claim.at, now)
    BY <1>2, <2>1 DEF CleanupClaim, RowStep, ClaimGone
  <2>2. CASE ~(claim # None /\ Elapsed(claim.at, now))
    BY <1>2, <2>2, SameOK DEF CleanupClaim, rowVars
  <2> QED BY <2>1, <2>2
<1> QED BY <1>1, <1>2

\* The columns of the intent that change.
LEMMA EgressMovesOK ==
  ASSUME DMInv, egress # None, UNCHANGED <<claim, made, now>>,
         NEW st \in {"pending", "sending", "sent", "failed"}, NEW tk \in Workers \cup {"none"},
         NEW l \in BOOLEAN, NEW k \in BOOLEAN, NEW c \in {0, 1},
         egress' = [egress EXCEPT !.st = st, !.token = tk, !.leased = l, !.kept = k, !.counted = c],
         st = "sending" => tk # "none", tk # "none" => st = "sending",
         st = "sent" => c = 1, st # "sent" => c = 0, egress.st \in {"sent", "failed"} => st = egress.st
  PROVE  EgressMoves
<1>1. egress \in EgressRow /\ c \in Nat
  BY DEF DMInv, Shapes
<1>2. egress' \in EgressRow
  BY <1>1 DEF EgressRow
<1>3. egress'.msg = egress.msg /\ egress'.pay = egress.pay /\ egress'.url = egress.url
      /\ egress'.at = egress.at /\ egress'.st = st /\ egress'.token = tk /\ egress'.counted = c
  BY <1>1 DEF EgressRow
<1>4. c <= 1
  OBVIOUS
<1> QED BY <1>2, <1>3, <1>4 DEF EgressMoves

\* What the invariant says of the intent.
LEMMA EgressFacts ==
  ASSUME DMInv, egress # None
  PROVE  /\ egress \in EgressRow /\ egress.counted \in {0, 1} /\ (egress.counted = 1 <=> egress.st = "sent")
         /\ (egress.st = "sending" <=> egress.token # "none")
         /\ egress.st \in {"pending", "sending", "sent", "failed"} /\ egress.token \in Workers \cup {"none"}
         /\ egress.leased \in BOOLEAN /\ egress.kept \in BOOLEAN
BY DEF DMInv, Shapes, EgressRow, CountedOnce, EgressOK

\* A sender takes the lease.
LEMMA ClaimEgressRow == ASSUME DMInv, NEW w \in Workers, ClaimEgress(w) PROVE RowStep
<1>1. CASE Leasable
  <2>1. egress # None /\ egress.st \in {"pending", "sending"}
    BY <1>1 DEF Leasable
  <2>2. egress.counted = 0 /\ egress \in EgressRow /\ egress.kept \in BOOLEAN
    BY <2>1, EgressFacts
  <2>3. egress' = [egress EXCEPT !.st = "sending", !.token = w, !.leased = TRUE]
    BY <1>1 DEF ClaimEgress
  <2>4. egress' = [egress EXCEPT !.st = "sending", !.token = w, !.leased = TRUE, !.kept = egress.kept, !.counted = 0]
    BY <2>2, <2>3 DEF EgressRow
  <2>5. w # "none" /\ UNCHANGED <<claim, made, now>>
    BY DirectMessageAssumption DEF Workers, ClaimEgress
  <2>6. EgressMoves
    BY <2>1, <2>2, <2>4, <2>5, EgressMovesOK
  <2> QED BY <2>6 DEF RowStep
<1>2. CASE ~Leasable
  BY <1>2, SameOK DEF ClaimEgress, rowVars
<1> QED BY <1>1, <1>2

\* A sender settles what it owns.
LEMMA SettleRow == ASSUME DMInv, NEW w \in Workers, Settle(w) PROVE RowStep
<1>1. CASE Owns(w)
  <2>0. egress # None /\ egress.token = w /\ w # "none" /\ UNCHANGED <<claim, made, now>>
    BY <1>1, DirectMessageAssumption DEF Owns, Workers, Settle
  <2>1. egress.st = "sending" /\ egress.counted = 0 /\ egress \in EgressRow /\ egress.kept \in BOOLEAN
    BY <2>0, EgressFacts
  <2>2. CASE On(w, "accepted")
    <3>1. egress' = [Released("sent", FALSE) EXCEPT !.counted = @ + 1]
      BY <1>1, <2>2 DEF Settle, On
    <3>2. egress' = [egress EXCEPT !.st = "sent", !.token = "none", !.leased = FALSE, !.kept = egress.kept,
                                   !.counted = 1]
      <4> DEFINE e == Released("sent", FALSE)
      <4>1. e = [egress EXCEPT !.st = "sent", !.token = "none", !.leased = FALSE]
        BY DEF Released
      <4>2. e.counted = 0
        BY <2>1, <4>1 DEF EgressRow
      <4>3. egress' = [e EXCEPT !.counted = e.counted + 1]
        BY <3>1
      <4> HIDE DEF e
      <4>4. e.counted + 1 = 1
        BY <4>2
      <4>5. egress' = [e EXCEPT !.counted = 1]
        BY <4>3, <4>4
      <4> QED BY <2>1, <4>1, <4>5 DEF EgressRow
    <3>3. EgressMoves
      BY <2>0, <2>1, <3>2, EgressMovesOK
    <3> QED BY <3>3 DEF RowStep
  <2>3. CASE On(w, "rejected")
    <3>1. egress' = Released("failed", FALSE)
      BY <1>1, <2>3 DEF Settle, On
    <3>2. egress' = [egress EXCEPT !.st = "failed", !.token = "none", !.leased = FALSE, !.kept = egress.kept,
                                   !.counted = 0]
      BY <2>1, <3>1 DEF Released, EgressRow
    <3>3. EgressMoves
      BY <2>0, <2>1, <3>2, EgressMovesOK
    <3> QED BY <3>3 DEF RowStep
  <2>4. CASE On(w, "unavailable")
    <3>1. egress' = Released("pending", TRUE)
      BY <1>1, <2>4 DEF Settle, On
    <3>2. egress' = [egress EXCEPT !.st = "pending", !.token = "none", !.leased = TRUE, !.kept = egress.kept,
                                   !.counted = 0]
      BY <2>1, <3>1 DEF Released, EgressRow
    <3>3. EgressMoves
      BY <2>0, <2>1, <3>2, EgressMovesOK
    <3> QED BY <3>3 DEF RowStep
  <2> QED BY <2>2, <2>3, <2>4 DEF Settle, On
<1>2. CASE ~Owns(w)
  BY <1>2, SameOK DEF Settle, rowVars
<1> QED BY <1>1, <1>2

\* Retention takes the message, or the lease runs out.
LEMMA LapseRow == ASSUME DMInv, Prune \/ LeaseExpires PROVE RowStep
<1>1. egress # None /\ UNCHANGED <<claim, made, now>>
  BY DEF Prune, LeaseExpires
<1>2. /\ egress \in EgressRow /\ egress.counted \in {0, 1} /\ (egress.counted = 1 <=> egress.st = "sent")
      /\ (egress.st = "sending" <=> egress.token # "none")
      /\ egress.st \in {"pending", "sending", "sent", "failed"} /\ egress.token \in Workers \cup {"none"}
      /\ egress.leased \in BOOLEAN /\ egress.kept \in BOOLEAN
  BY <1>1, EgressFacts
<1>3. \E l, k \in BOOLEAN : egress' = [egress EXCEPT !.st = egress.st, !.token = egress.token, !.leased = l,
                                                     !.kept = k, !.counted = egress.counted]
  <2>1. CASE Prune
    <3>1. egress' = [egress EXCEPT !.st = egress.st, !.token = egress.token, !.leased = egress.leased,
                                   !.kept = FALSE, !.counted = egress.counted]
      BY <1>2, <2>1 DEF Prune, EgressRow
    <3> QED BY <1>2, <3>1
  <2>2. CASE LeaseExpires
    <3>1. egress' = [egress EXCEPT !.st = egress.st, !.token = egress.token, !.leased = FALSE,
                                   !.kept = egress.kept, !.counted = egress.counted]
      BY <1>2, <2>2 DEF LeaseExpires, EgressRow
    <3> QED BY <1>2, <3>1
  <2> QED BY <2>1, <2>2
<1>4. EgressMoves
  BY <1>1, <1>2, <1>3, EgressMovesOK
<1> QED BY <1>4 DEF RowStep

\* Time passes.
LEMMA TickRow == ASSUME DMInv, Tick PROVE RowStep
<1>1. now \in Nat /\ now + 1 \in Times /\ Stall \in Nat
  BY Numbers DEF DMInv, Shapes, Tick, Times
<1>2. \A r \in Requests : Running(r) => req[r].since \in Nat /\ now < req[r].since + Stall
  <2>1. ASSUME NEW r \in Requests, Running(r)
        PROVE  req[r].since \in Nat
    BY <2>1, OpenReq, Numbers DEF DMInv, Shapes, Running
  <2> QED BY <1>1, <2>1 DEF Tick
<1> QED BY <1>1, <1>2 DEF Tick, RowStep, Passes

\* Every step is one of the six.
LEMMA RowSteps == ASSUME DMInv, [Next]_vars PROVE RowStep
<1>1. ASSUME NEW r \in Requests, Keyed(r) \/ Post(r) \/ SendDm(r)
      PROVE  RowStep
  <2>1. CASE Keyed(r)
    BY <2>1, SameOK DEF Keyed, Request, ReadKeys, Contended, PutLock, Recheck, StoreUnavailable, StoreResult,
         OperationFailed, shared, rowVars
  <2>2. CASE SendDm(r)
    BY <2>2, SameOK, ExpireRow, AdmitRow DEF SendDm, LookupClaim, RereadClaim, LookupEgress, RereadEgress, Prepare,
         Lost, shared, rowVars
  <2> QED BY <1>1, <2>1, <2>2, PostRow
<1>2. ASSUME NEW w \in Workers, Dispatch(w) \/ Crash(w)
      PROVE  RowStep
  BY <1>2, SameOK, ClaimEgressRow, SettleRow DEF Dispatch, ReadEgress, Attempt, Crash, shared, rowVars
<1>3. ASSUME NEW w \in Sweepers, Sweep(w) \/ CleanupEgress(w) \/ CleanupClaim(w)
      PROVE  RowStep
  BY <1>3, SameOK, CleanupRow DEF Sweep, shared, rowVars
<1>4. CASE Prune \/ RegisterPeer \/ RemovePeer \/ LockExpires \/ LeaseExpires \/ Tick
  BY <1>4, SameOK, LapseRow, TickRow DEF RegisterPeer, RemovePeer, LockExpires
<1>5. CASE UNCHANGED vars
  BY <1>5, SameOK DEF vars, rowVars
<1> QED BY <1>1, <1>2, <1>3, <1>4, <1>5 DEF Next


-----------------------------------------------------------------------------
(* What the steps keep of the rows *)

\* The rows have their types, and what the invariant says of them.
RowTypes == /\ now \in Times /\ made \in [Msgs -> {None} \cup Made]
            /\ claim \in {None} \cup ClaimRow /\ egress \in {None} \cup EgressRow
RowsOK == RowTypes /\ MadeOK /\ ClaimOK /\ EgressOK /\ OneIdentity /\ CountedOnce

\* Messages stay; a new one is not old; an intent stays about its message.
Grows ==
  /\ \A m \in Msgs : made[m] # None => made'[m] = made[m]
  /\ \A m \in Msgs : (made[m] = None /\ made'[m] # None) => now <= made'[m].at + Stall /\ now' = now
  /\ egress' # None => (egress # None /\ egress'.msg = egress.msg) \/ made[egress'.msg] = None
  /\ now' \in {now, now + 1}

\* The environment: the site is what it was, and registrations are only added.
EnvGrows == site' = site /\ peers' \in Nat /\ peers \in Nat /\ peers <= peers'

\* postMessage.
LEMMA PostedKept == ASSUME DMInv, Posted, EnvGrows PROVE RowsOK' /\ Grows
<1>0. RowTypes /\ MadeOK /\ now \in Nat /\ claim = None /\ egress = None
  BY Numbers DEF DMInv, Shapes, RowTypes, Posted, MadeOK
<1>1. Fresh \in Msgs /\ made[Fresh] = None /\ \A m \in Msgs : made[m] # None <=> m < Fresh
  BY <1>0, FreshOK DEF Posted
<1> DEFINE f == Fresh
<1>2. PICK p \in Payloads : made' = [made EXCEPT ![f] = [pay |-> p, at |-> now]]
  BY DEF Posted
<1> DEFINE v == [pay |-> p, at |-> now]
<1>3. v \in Made /\ v.at = now
  BY <1>0 DEF RowTypes, Made
<1>4. v # None
  BY <1>3, NotNone
<1> HIDE DEF f, v
<1>5. f \in Msgs /\ made[f] = None /\ \A m \in Msgs : made[m] # None <=> m < f
  BY <1>1 DEF f
<1>6. made' = [made EXCEPT ![f] = v] /\ made \in [Msgs -> {None} \cup Made]
  BY <1>0, <1>2 DEF v, RowTypes
<1>7. made' \in [Msgs -> {None} \cup Made] /\ made'[f] = v /\ \A m \in Msgs : m # f => made'[m] = made[m]
  BY <1>3, <1>5, <1>6
<1>8. claim' = None /\ egress' = None /\ now' = now /\ site'.kind = "post"
  BY <1>0 DEF Posted, EnvGrows
<1>9. RowTypes'
  BY <1>0, <1>7, <1>8 DEF RowTypes
<1>10. MadeOK'
  <2>1. f \in 0..MaxMsg /\ \A m \in Msgs : made'[m] # None <=> m <= f
    BY <1>4, <1>5, <1>7, Numbers DEF Msgs
  <2> QED BY <1>8, <2>1 DEF MadeOK, OnePerWindow
<1>11. Grows
  BY <1>0, <1>3, <1>5, <1>7, <1>8, Numbers DEF Grows
<1> QED BY <1>8, <1>9, <1>10, <1>11 DEF RowsOK, ClaimOK, EgressOK, OneIdentity, CountedOnce

\* The batch of a direct message.
LEMMA AdmittedKept == ASSUME DMInv, Admitted, EnvGrows PROVE RowsOK' /\ Grows
<1>0. RowTypes /\ MadeOK /\ now \in Nat /\ claim = None /\ egress = None /\ site.kind = "dm"
  BY Numbers DEF DMInv, Shapes, RowTypes, Admitted
<1>1. Fresh \in Msgs /\ made[Fresh] = None /\ \A m \in Msgs : made[m] # None <=> m < Fresh
  BY <1>0, FreshOK DEF Admitted
<1> DEFINE f == Fresh
<1>2. PICK p \in Payloads, t \in Times, u \in 0..peers :
       /\ t <= now /\ now <= t + Stall
       /\ \A m \in Msgs : made[m] # None => Elapsed(made[m].at, t)
       /\ made' = [made EXCEPT ![Fresh] = [pay |-> p, at |-> t]]
       /\ claim' = [msg |-> Fresh, pay |-> p, at |-> t]
       /\ egress' = IF u = 0 THEN egress
                    ELSE [st |-> "pending", token |-> "none", leased |-> FALSE, at |-> now,
                          msg |-> Fresh, pay |-> p, url |-> u, kept |-> TRUE, counted |-> 0]
  BY DEF Admitted
<1> DEFINE v == [pay |-> p, at |-> t]
<1>3. v \in Made /\ v.at = t /\ v.pay = p
  BY <1>2 DEF Made
<1>4. v # None
  BY <1>3, NotNone
<1>c. claim' = [msg |-> f, pay |-> p, at |-> t]
  BY <1>2
<1>e. egress' = None \/ (u # 0 /\ egress' = [st |-> "pending", token |-> "none", leased |-> FALSE, at |-> now,
                                 msg |-> f, pay |-> p, url |-> u, kept |-> TRUE, counted |-> 0])
  BY <1>0, <1>2
<1>6. made' = [made EXCEPT ![f] = v] /\ made \in [Msgs -> {None} \cup Made]
  BY <1>0, <1>2 DEF RowTypes
<1> HIDE DEF f, v
<1>5. f \in Msgs /\ made[f] = None /\ \A m \in Msgs : made[m] # None <=> m < f
  BY <1>1 DEF f
<1>7. made' \in [Msgs -> {None} \cup Made] /\ made'[f] = v /\ \A m \in Msgs : m # f => made'[m] = made[m]
  BY <1>3, <1>5, <1>6
<1>8. now' = now /\ site'.kind = "dm"
  BY <1>0 DEF Admitted, EnvGrows
<1>9. claim' \in ClaimRow /\ claim'.msg = f /\ claim'.pay = p /\ claim'.at = t
  BY <1>c, <1>5 DEF ClaimRow
<1>10. claim' # None
  BY <1>9, NotNone
<1>11. egress' # None => /\ egress' \in EgressRow /\ egress'.msg = f /\ egress'.pay = p /\ egress'.url = u /\ u # 0
                         /\ egress'.counted = 0 /\ egress'.st = "pending" /\ egress'.token = "none"
  <2> SUFFICES ASSUME egress' # None
               PROVE  /\ egress' \in EgressRow /\ egress'.msg = f /\ egress'.pay = p /\ egress'.url = u /\ u # 0
                      /\ egress'.counted = 0 /\ egress'.st = "pending" /\ egress'.token = "none"
    OBVIOUS
  <2>1. u # 0 /\ egress' = [st |-> "pending", token |-> "none", leased |-> FALSE, at |-> now,
                            msg |-> f, pay |-> p, url |-> u, kept |-> TRUE, counted |-> 0]
    BY <1>e
  <2>2. u \in Nat /\ now \in Times
    BY <1>0, <1>2 DEF RowTypes, EnvGrows
  <2> QED BY <1>5, <2>1, <2>2 DEF EgressRow
<1>12. RowTypes'
  BY <1>0, <1>7, <1>8, <1>9, <1>11 DEF RowTypes
<1>13. MadeOK'
  <2>1. f \in 0..MaxMsg /\ \A m \in Msgs : made'[m] # None <=> m <= f
    BY <1>4, <1>5, <1>7, Numbers DEF Msgs
  <2>2. \A m \in Msgs : made[m] # None => made[m].at \in Nat
    BY <1>6, Numbers DEF Made
  <2>3. OnePerWindow'
    <3> SUFFICES ASSUME NEW m \in Msgs, NEW n \in Msgs, m < n, made'[n] # None
                 PROVE  Elapsed(made'[m].at, made'[n].at)
      BY DEF OnePerWindow, Elapsed
    <3>1. n <= f /\ m < f /\ m # f
      BY <1>5, <2>1, Numbers DEF Msgs
    <3>2. CASE n = f
      BY <1>2, <1>3, <1>5, <1>7, <3>1, <3>2
    <3>3. CASE n # f
      <4>1. made'[n] = made[n] /\ made'[m] = made[m] /\ made[n] # None
        BY <1>7, <3>1, <3>3
      <4> QED BY <1>0, <4>1 DEF MadeOK, OnePerWindow
    <3> QED BY <3>2, <3>3
  <2>4. \A m \in Msgs : made'[m] # None =>
          made'[m].at <= now' /\ (now' < made'[m].at + Window => claim' # None /\ claim'.msg = m)
    <3> SUFFICES ASSUME NEW m \in Msgs, made'[m] # None
                 PROVE  made'[m].at <= now /\ (now < made'[m].at + Window => claim' # None /\ claim'.msg = m)
      BY <1>8
    <3>1. CASE m = f
      BY <1>2, <1>3, <1>7, <1>9, <1>10, <3>1
    <3>2. CASE m # f
      <4> DEFINE a == made[m].at
      <4>1. made'[m] = made[m] /\ a \in Nat /\ a + Window <= t
        BY <1>2, <1>7, <2>2, <3>2 DEF Elapsed
      <4>2. t \in Nat
        BY Numbers
      <4> HIDE DEF a
      <4>3. a <= now /\ ~(now < a + Window)
        BY <1>0, <1>2, <4>1, <4>2, Numbers
      <4> QED BY <4>1, <4>3 DEF a
    <3> QED BY <3>1, <3>2
  <2> QED BY <1>8, <2>1, <2>3, <2>4 DEF MadeOK
<1>14. ClaimOK' /\ OneIdentity'
  BY <1>3, <1>4, <1>7, <1>9, <1>11 DEF ClaimOK, About, OneIdentity
<1>15. EgressOK' /\ CountedOnce'
  <2>1. u # 0 => u \in 1..peers'
    BY <1>2 DEF EnvGrows
  <2> QED BY <1>3, <1>4, <1>7, <1>11, <2>1 DEF EgressOK, About, CountedOnce
<1>16. Grows
  <2>1. \A m \in Msgs : made[m] # None => made'[m] = made[m]
    BY <1>5, <1>7
  <2>2. \A m \in Msgs : (made[m] = None /\ made'[m] # None) => now <= made'[m].at + Stall
    BY <1>2, <1>3, <1>7
  <2>3. egress' # None => made[egress'.msg] = None
    BY <1>5, <1>11
  <2> QED BY <1>8, <2>1, <2>2, <2>3 DEF Grows
<1> QED BY <1>12, <1>13, <1>14, <1>15, <1>16 DEF RowsOK

\* The other steps leave the messages.
LEMMA OthersKept ==
  ASSUME DMInv, ClaimGone \/ EgressGone \/ EgressMoves \/ Passes, EnvGrows
  PROVE  RowsOK' /\ Grows
<1>0. /\ RowTypes /\ MadeOK /\ ClaimOK /\ EgressOK /\ OneIdentity /\ CountedOnce /\ now \in Nat
  BY Numbers DEF DMInv, Shapes, RowTypes
<1>1. made' = made /\ now' \in {now, now + 1} /\ now' \in Times /\ (now' # now => claim' = claim /\ egress' = egress)
  BY <1>0 DEF ClaimGone, EgressGone, EgressMoves, Passes, rowVars, RowTypes
<1>2. claim' = claim \/ (claim' = None /\ Elapsed(claim.at, now) /\ claim # None /\ now' = now)
  BY DEF ClaimGone, EgressGone, EgressMoves, Passes, rowVars
<1>3. \/ egress' = egress \/ egress' = None
      \/ EgressMoves
  BY DEF ClaimGone, EgressGone, Passes, rowVars
<1>4. RowTypes'
  BY <1>0, <1>1, <1>2, <1>3 DEF RowTypes, EgressMoves
<1>5. MadeOK'
  <2>1. \E k \in 0..MaxMsg : \A m \in Msgs : made'[m] # None <=> m <= k
    BY <1>0, <1>1 DEF MadeOK
  <2>2. OnePerWindow'
    BY <1>0, <1>1 DEF MadeOK, OnePerWindow, EnvGrows, Elapsed
  <2>3. site'.kind = "dm" => \A m \in Msgs : made'[m] # None =>
          made'[m].at <= now' /\ (now' < made'[m].at + Window => claim' # None /\ claim'.msg = m)
    <3> SUFFICES ASSUME site.kind = "dm", NEW m \in Msgs, made[m] # None
                 PROVE  made[m].at <= now' /\ (now' < made[m].at + Window => claim' # None /\ claim'.msg = m)
      BY <1>1 DEF EnvGrows
    <3> DEFINE a == made[m].at
    <3>1. a \in Nat /\ a <= now /\ (now < a + Window => claim # None /\ claim.msg = m)
      BY <1>0, Numbers DEF RowTypes, Made, MadeOK
    <3>2. claim # None /\ claim.msg = m => claim.at = a
      BY <1>0 DEF ClaimOK
    <3> HIDE DEF a
    <3>3. a <= now'
      BY <1>0, <1>1, <3>1
    <3>4. ASSUME now' < a + Window
          PROVE  claim' # None /\ claim'.msg = m
      <4>1. now < a + Window
        BY <1>0, <1>1, <3>1, <3>4, Numbers
      <4>2. claim.at = a /\ claim # None /\ claim.msg = m
        BY <3>1, <3>2, <4>1
      <4>3. ~Elapsed(claim.at, now)
        BY <1>0, <3>1, <4>1, <4>2, Numbers DEF Elapsed
      <4> QED BY <1>2, <4>2, <4>3
    <3> QED BY <3>3, <3>4 DEF a
  <2>4. site'.kind = "post" => claim' = None /\ egress' = None
    BY <1>0, <1>2, <1>3 DEF MadeOK, EnvGrows, EgressMoves
  <2> QED BY <2>1, <2>2, <2>3, <2>4 DEF MadeOK
<1>6. ClaimOK'
  BY <1>0, <1>1, <1>2 DEF ClaimOK, About
<1>7. EgressOK' /\ CountedOnce'
  <2>1. CASE egress' = egress
    <3>1. egress # None => egress.url \in 1..peers'
      BY <1>0 DEF EgressOK, EnvGrows
    <3> QED BY <1>0, <1>1, <2>1, <3>1 DEF EgressOK, CountedOnce, About
  <2>2. CASE egress' = None
    BY <2>2 DEF EgressOK, CountedOnce
  <2>3. CASE EgressMoves
    <3>1. egress.url \in 1..peers'
      BY <1>0, <2>3 DEF EgressOK, EnvGrows, EgressMoves
    <3> QED BY <1>0, <1>1, <2>3, <3>1 DEF EgressOK, CountedOnce, About, EgressMoves
  <2> QED BY <1>3, <2>1, <2>2, <2>3
<1>8. OneIdentity'
  BY <1>0, <1>2, <1>3 DEF OneIdentity, EgressMoves
<1>9. Grows
  BY <1>1, <1>3 DEF Grows, EgressMoves
<1> QED BY <1>4, <1>5, <1>6, <1>7, <1>8, <1>9 DEF RowsOK

\* Every step keeps the rows.
LEMMA RowsKept == ASSUME DMInv, RowStep, EnvGrows PROVE RowsOK' /\ Grows
BY PostedKept, AdmittedKept, OthersKept DEF RowStep


-----------------------------------------------------------------------------
(* What a step does to the requests *)

\* The environment only adds registrations.
LEMMA EnvSteps ==
  ASSUME DMInv, [Next]_vars
  PROVE  EnvGrows /\ peers' \in 0..site'.peers /\ peer' \in 0..peers' /\ lock' \in BOOLEAN
<1>0. site \in Sites /\ lock \in BOOLEAN /\ peers \in 0..site.peers /\ peer \in 0..peers /\ site.peers \in Nat
  BY DirectMessageAssumption DEF DMInv, Shapes
<1>1. ASSUME UNCHANGED <<site, peer, peers>>, lock' \in BOOLEAN
      PROVE  EnvGrows /\ peers' \in 0..site'.peers /\ peer' \in 0..peers' /\ lock' \in BOOLEAN
  BY <1>0, <1>1 DEF EnvGrows
<1>2. ASSUME NEW r \in Requests, Keyed(r) \/ Post(r) \/ SendDm(r)
      PROVE  UNCHANGED <<site, peer, peers>> /\ lock' \in BOOLEAN
  <2>1. CASE Keyed(r)
    <3>1. lock' \in {TRUE, FALSE, lock}
      BY <2>1 DEF Keyed, Request, ReadKeys, Contended, PutLock, Recheck, StoreUnavailable, StoreResult,
           OperationFailed, shared, kvVars
    <3>2. UNCHANGED <<site, peer, peers>>
      BY <2>1 DEF Keyed, Request, ReadKeys, Contended, PutLock, Recheck, StoreUnavailable, StoreResult,
           OperationFailed, shared, peerVars
    <3> QED BY <1>0, <3>1, <3>2
  <2>2. CASE Post(r)
    BY <1>0, <2>2 DEF Post, kvVars, peerVars
  <2>3. CASE SendDm(r)
    BY <1>0, <2>3 DEF SendDm, LookupClaim, ExpireClaim, RereadClaim, LookupEgress, ExpireEgress, RereadEgress,
         Prepare, Admit, Lost, shared, kvVars, peerVars
  <2> QED BY <1>2, <2>1, <2>2, <2>3
<1>3. ASSUME NEW w \in Workers, Dispatch(w) \/ Crash(w)
      PROVE  UNCHANGED <<site, peer, peers>> /\ lock' \in BOOLEAN
  BY <1>0, <1>3 DEF Dispatch, ReadEgress, ClaimEgress, Attempt, Settle, Crash, shared, kvVars, peerVars
<1>4. ASSUME NEW w \in Sweepers, Sweep(w) \/ CleanupEgress(w) \/ CleanupClaim(w)
      PROVE  UNCHANGED <<site, peer, peers>> /\ lock' \in BOOLEAN
  BY <1>0, <1>4 DEF Sweep, CleanupEgress, CleanupClaim, shared, kvVars, peerVars
<1>5. CASE RegisterPeer \/ RemovePeer
  BY <1>0, <1>5 DEF RegisterPeer, RemovePeer, kvVars, EnvGrows
<1>6. CASE Prune \/ LockExpires \/ LeaseExpires \/ Tick
  BY <1>0, <1>1, <1>6 DEF Prune, LockExpires, LeaseExpires, Tick, kvVars, peerVars
<1>7. CASE UNCHANGED vars
  BY <1>0, <1>1, <1>7 DEF vars
<1> QED BY <1>1, <1>2, <1>3, <1>4, <1>5, <1>6, <1>7 DEF Next

\* What a request relies on outlives any step that is not too late for it.
LEMMA KnowsKept ==
  ASSUME DMInv, RowStep, EnvGrows, NEW q \in Req, ReqIs(q), ReqKnows(q, made, egress, now, peers),
         (now' # now /\ q.pc # "idle") => now < q.since + Stall
  PROVE  ReqKnows(q, made', egress', now', peers')
<1>0. /\ RowsOK' /\ Grows /\ now \in Nat /\ now' \in {now, now + 1} /\ made \in [Msgs -> {None} \cup Made]
      /\ (egress # None => egress.msg \in Msgs /\ made[egress.msg] # None)
      /\ Stall \in Nat /\ Window \in Nat
  <2>1. RowsOK' /\ Grows
    BY RowsKept
  <2>2. egress # None => egress.msg \in Msgs /\ made[egress.msg] # None
    BY DEF DMInv, Shapes, EgressRow, EgressOK, About
  <2> QED BY <2>1, <2>2, Numbers DEF DMInv, Shapes, Grows
<1>1. q.pc # "idle" => q.since \in Nat /\ q.since <= now' /\ now' <= q.since + Stall
  <2> SUFFICES ASSUME q.pc # "idle" PROVE q.since \in Nat /\ q.since <= now' /\ now' <= q.since + Stall
    OBVIOUS
  <2>1. q.since \in Nat
    BY OpenReq, Numbers
  <2>2. q.since <= now /\ now <= q.since + Stall
    BY DEF ReqKnows
  <2>3. now' # now => now < q.since + Stall
    OBVIOUS
  <2> QED BY <1>0, <2>1, <2>2, <2>3
<1>2. q.pc \notin {"idle", "failed"} =>
        q.clock <= now' /\ q.url <= peers' /\ (q.base # None => q.base.at <= now')
  <2> SUFFICES ASSUME q.pc \notin {"idle", "failed"}
               PROVE  q.clock <= now' /\ q.url <= peers' /\ (q.base # None => q.base.at <= now')
    OBVIOUS
  <2>1. q \in Open
    BY OpenReq
  <2>2. q.clock \in Nat /\ q.url \in Nat /\ (q.base # None => q.base.at \in Nat)
    BY <2>1, Numbers DEF Open
  <2>3. q.clock <= now /\ q.url <= peers /\ (q.base # None => q.base.at <= now)
    BY DEF ReqKnows
  <2> QED BY <1>0, <2>2, <2>3 DEF EnvGrows
<1>3. q.pc \in {"store", "transport"} =>
        /\ q.msg \in Msgs /\ made'[q.msg] # None /\ made'[q.msg].pay = q.pay
        /\ site.kind = "dm" /\ q.base # None => q.base.at = made'[q.msg].at
        /\ site.kind = "dm" /\ peers' = 0 => q.base # None
  BY <1>0 DEF ReqKnows, Grows, EnvGrows
<1>4. ASSUME NEW m \in Msgs, made[m] # None
      PROVE  made'[m] = made[m] /\ made[m].at \in Nat /\ (Elapsed(made[m].at, now) => Elapsed(made[m].at, now'))
  <2>1. made'[m] = made[m] /\ made[m].at \in Nat
    BY <1>0, <1>4, Numbers DEF Grows, Made
  <2> QED BY <1>0, <2>1 DEF Elapsed
<1>5. ASSUME NEW m \in Msgs, made[m] = None, made'[m] # None, q.pc # "idle"
      PROVE  q.since <= made'[m].at + Stall
  <2>1. now <= made'[m].at + Stall /\ q.since <= now
    BY <1>0, <1>5 DEF Grows, ReqKnows
  <2>2. made'[m].at \in Nat
    BY <1>0, <1>5, Numbers DEF RowsOK, RowTypes, Made
  <2> QED BY <1>0, <1>1, <1>5, <2>1, <2>2
<1>6. q.pc \in {"egress", "expireEgress", "rereadEgress", "prepare"} =>
        \A m \in Msgs : made'[m] # None => Elapsed(made'[m].at, now') \/ q.since <= made'[m].at + Stall
  BY <1>4, <1>5 DEF ReqKnows
<1>7. q.pc = "admit" =>
        \A m \in Msgs : made'[m] # None => Elapsed(made'[m].at, q.base.at) \/ q.since <= made'[m].at + Stall
  BY <1>4, <1>5 DEF ReqKnows
<1>8. q.pc \in {"prepare", "admit"} /\ egress' # None => q.since <= made'[egress'.msg].at + Stall
  <2> SUFFICES ASSUME q.pc \in {"prepare", "admit"}, egress' # None
               PROVE  q.since <= made'[egress'.msg].at + Stall
    OBVIOUS
  <2>1. egress'.msg \in Msgs /\ made'[egress'.msg] # None
    BY <1>0 DEF RowsOK, RowTypes, EgressRow, EgressOK, About
  <2>2. CASE egress # None /\ egress'.msg = egress.msg
    BY <1>0, <1>4, <2>2 DEF ReqKnows
  <2>3. CASE made[egress'.msg] = None
    BY <1>5, <2>1, <2>3
  <2> QED BY <1>0, <2>2, <2>3 DEF Grows
<1> QED BY <1>1, <1>2, <1>3, <1>6, <1>7, <1>8 DEF ReqKnows

\* One request moves, to a state the invariant allows, with its transport.
Moves(r) ==
  \E y, t : /\ req' = [req EXCEPT ![r] = y] /\ ReqIs(y) /\ ReqKnows(y, made', egress', now', peers')
            /\ trip' = [trip EXCEPT ![r] = t] /\ t \in TripState
            /\ y.pc = "transport" <=> t.pc # "off"

\* A request that is not in transport moves and stays out of it.
LEMMA MovesOK ==
  ASSUME DMInv, NEW r \in Requests, NEW y, Step(r, y), trip' = trip, req[r].pc # "transport", y.pc # "transport",
         ReqIs(y), ReqKnows(y, made', egress', now', peers')
  PROVE  Moves(r)
<1>1. trip \in [Workers -> TripState] /\ r \in Workers /\ trip[r].pc = "off"
  BY DEF DMInv, Shapes, ReqsOK, Workers
<1>2. trip' = [trip EXCEPT ![r] = trip[r]] /\ trip[r] \in TripState
  BY <1>1
<1> QED BY <1>1, <1>2 DEF Moves, Step

\* A free slot relies on nothing.
LEMMA IdleKnows ==
  ASSUME NEW md, NEW eg, NEW t, NEW ps
  PROVE  ReqIs(Idle) /\ ReqKnows(Idle, md, eg, t, ps) /\ Idle.pc = "idle"
BY DEF Idle, ReqIs, ReqKnows, Req, DmPcs

\* The refusal of a request that is not in transport.
LEMMA RefuseOK ==
  ASSUME DMInv, NEW r \in Requests, Refuse(r), trip' = trip, req[r].pc # "transport"
  PROVE  Moves(r)
<1>1. Step(r, Idle)
  BY DEF Refuse
<1> QED BY <1>1, IdleKnows, MovesOK

\* The answer to a request that is not in transport, with a message of its body.
LEMMA AnswerOK ==
  ASSUME DMInv, NEW r \in Requests, NEW m, Answer(r, m), made[m].pay = req[r].pay, trip' = trip,
         req[r].pc # "transport"
  PROVE  Moves(r)
<1>1. [pc |-> "idle", own |-> made[m].pay = req[r].pay] = Idle
  BY DEF Idle
<1>2. Step(r, Idle)
  BY <1>1 DEF Answer
<1> QED BY <1>2, IdleKnows, MovesOK

\* What holds of a request under way.
LEMMA ReqFacts ==
  ASSUME DMInv, NEW r \in Requests, req[r].pc \notin {"idle", "failed"}
  PROVE  /\ req[r] \in Req /\ req[r] \in Open /\ ReqIs(req[r]) /\ ReqKnows(req[r], made, egress, now, peers)
         /\ site.kind \in {"dm", "post"} /\ now \in Times /\ now \in Nat /\ peers \in Nat
         /\ req[r].since \in Nat /\ req[r].since <= now /\ now <= req[r].since + Stall
         /\ req[r].clock \in Times /\ req[r].clock <= now
<1>1. req[r] \in Req /\ ReqIs(req[r]) /\ ReqKnows(req[r], made, egress, now, peers)
      /\ site \in Sites /\ now \in Times /\ peers \in 0..site.peers
  BY DEF DMInv, Shapes, ReqsOK
<1>2. req[r] \in Open
  BY <1>1, OpenReq
<1>3. site.kind \in {"dm", "post"} /\ site.peers \in Nat
  BY <1>1, DirectMessageAssumption
<1>4. req[r].since \in Nat /\ req[r].clock \in Times
  BY <1>2, Numbers DEF Open
<1>5. req[r].since <= now /\ now <= req[r].since + Stall /\ req[r].clock <= now
  BY <1>1 DEF ReqKnows
<1> QED BY <1>1, <1>2, <1>3, <1>4, <1>5, Numbers

\* Steps at which a request relies on nothing but its age.
Plain == {"keys", "contended", "acquire", "recheck", "lookup", "expire", "reread", "lost", "post"}

\* A request goes on to such a step.
LEMMA PlainOK ==
  ASSUME DMInv, RowStep, EnvGrows, NEW r \in Requests, req[r].pc \notin {"idle", "failed", "transport"}, now' = now,
         trip' = trip, NEW pc \in Plain, NEW h \in BOOLEAN, NEW c \in Times, c <= now,
         NEW y, y = [req[r] EXCEPT !.pc = pc, !.held = h, !.clock = c], Step(r, y),
         pc \in DmPcs => site.kind = "dm", pc = "post" => site.kind = "post"
  PROVE  Moves(r)
<1>0. req[r] \in Open /\ ReqKnows(req[r], made, egress, now, peers) /\ now \in Nat /\ peers \in Nat
  BY ReqFacts
<1>1. y \in Open /\ y.pc = pc /\ y.since = req[r].since /\ y.clock = c /\ y.url = req[r].url /\ y.base = req[r].base
  BY <1>0 DEF Open, Plain, KvPcs, DmPcs
<1>2. y \in Req
  BY <1>1 DEF Req
<1>3. ReqIs(y)
  BY <1>1, <1>2 DEF ReqIs, Plain
<1>4. ReqKnows(y, made, egress, now, peers)
  BY <1>0, <1>1 DEF ReqKnows, Plain
<1>5. ReqKnows(y, made', egress', now', peers')
  BY <1>2, <1>3, <1>4, KnowsKept
<1>6. y.pc # "transport"
  BY <1>1 DEF Plain
<1> QED BY <1>3, <1>5, <1>6, MovesOK

\* The operation fails.
LEMMA FailOK ==
  ASSUME DMInv, RowStep, EnvGrows, NEW r \in Requests, req[r].pc \notin {"idle", "failed"}, now' = now, Fail(r)
  PROVE  \E y : Step(r, y) /\ ReqIs(y) /\ ReqKnows(y, made', egress', now', peers') /\ y.pc # "transport"
<1>1. CASE req[r].held
  <2> DEFINE y == [pc |-> "failed", since |-> req[r].since]
  <2>1. Step(r, y)
    BY <1>1 DEF Fail
  <2>2. req[r].since \in Times /\ req[r].since <= now /\ now <= req[r].since + Stall
    BY ReqFacts DEF Open
  <2>3. y.pc = "failed" /\ y.since = req[r].since
    OBVIOUS
  <2>4. y \in Req
    BY <2>2 DEF Req
  <2> HIDE DEF y
  <2>5. ReqIs(y) /\ ReqKnows(y, made', egress', now', peers')
    BY <2>2, <2>3, <2>4 DEF ReqIs, ReqKnows, DmPcs
  <2> QED BY <2>1, <2>3, <2>5
<1>2. CASE ~req[r].held
  <2>1. Step(r, Idle)
    BY <1>2 DEF Fail
  <2> QED BY <2>1, IdleKnows
<1> QED BY <1>1, <1>2


\* The same, for a request that is not in transport.
LEMMA FailMoves ==
  ASSUME DMInv, RowStep, EnvGrows, NEW r \in Requests, req[r].pc \notin {"idle", "failed", "transport"}, now' = now,
         Fail(r), trip' = trip
  PROVE  Moves(r)
BY FailOK, MovesOK

\* A stored record answers, or refuses.
LEMMA ReplayOfOK ==
  ASSUME DMInv, NEW r \in Requests, record # None, ReplayOf(r), trip' = trip, req[r].pc # "transport"
  PROVE  Moves(r)
<1>1. CASE SamePayload(record.pay, req[r].pay)
  <2>1. made[record.msg].pay = req[r].pay
    BY <1>1 DEF SamePayload, DMInv, RecordOK, About
  <2> QED BY <1>1, <2>1, AnswerOK DEF ReplayOf
<1>2. CASE ~SamePayload(record.pay, req[r].pay)
  BY <1>2, RefuseOK DEF ReplayOf
<1> QED BY <1>1, <1>2

\* A move to a plain step that changes nothing else.
LEMMA GotoPlain ==
  ASSUME DMInv, RowStep, EnvGrows, NEW r \in Requests, req[r].pc \notin {"idle", "failed", "transport"}, now' = now,
         trip' = trip, NEW pc \in Plain, Goto(r, pc), pc \in DmPcs => site.kind = "dm", pc = "post" => site.kind = "post"
  PROVE  Moves(r)
<1>1. req[r] \in Open /\ req[r].clock \in Times /\ req[r].clock <= now /\ req[r].held \in BOOLEAN
  BY ReqFacts DEF Open
<1> DEFINE y == [req[r] EXCEPT !.pc = pc]
<1>2. y = [req[r] EXCEPT !.pc = pc, !.held = req[r].held, !.clock = req[r].clock]
  BY <1>1 DEF Open
<1>3. Step(r, y)
  BY DEF Goto
<1> HIDE DEF y
<1> QED BY <1>1, <1>2, <1>3, PlainOK

\* The steps around the store, but for the first.
LEMMA KeyedMoves ==
  ASSUME DMInv, RowStep, EnvGrows, NEW r \in Requests,
         ReadKeys(r) \/ Contended(r) \/ PutLock(r) \/ Recheck(r) \/ StoreUnavailable(r) \/ StoreResult(r)
           \/ OperationFailed(r)
  PROVE  Moves(r)
<1>0. trip' = trip /\ now' = now
  BY DEF ReadKeys, Contended, PutLock, Recheck, StoreUnavailable, StoreResult, OperationFailed, shared
<1>o. ASSUME req[r].pc \notin {"idle", "failed"}
      PROVE  /\ Operation \in {"lookup", "post"} /\ Operation \in Plain
             /\ (Operation \in DmPcs => site.kind = "dm") /\ (Operation = "post" => site.kind = "post")
  BY <1>o, ReqFacts DEF Operation, Plain, DmPcs
<1>1. CASE ReadKeys(r)
  <2>1. CASE record # None
    BY <1>0, <1>1, <2>1, ReplayOfOK DEF ReadKeys, At
  <2>2. CASE record = None
    <3>1. req[r].pc = "keys" /\ (Goto(r, "contended") \/ Goto(r, "acquire"))
      BY <1>1, <2>2 DEF ReadKeys, At
    <3> QED BY <1>0, <3>1, GotoPlain DEF Plain, DmPcs
  <2> QED BY <2>1, <2>2
<1>2. CASE Contended(r)
  BY <1>0, <1>2, ReplayOfOK, RefuseOK DEF Contended, At
<1>3. CASE PutLock(r)
  <2>1. req[r].pc = "acquire" /\ req[r] \in Open /\ req[r].clock \in Times /\ req[r].clock <= now
    BY <1>3, ReqFacts DEF PutLock, At
  <2> DEFINE y == [req[r] EXCEPT !.pc = "recheck", !.held = TRUE]
  <2>2. y = [req[r] EXCEPT !.pc = "recheck", !.held = TRUE, !.clock = req[r].clock]
    BY <2>1 DEF Open
  <2>3. Step(r, y)
    BY <1>3 DEF PutLock
  <2> HIDE DEF y
  <2> QED BY <1>0, <2>1, <2>2, <2>3, PlainOK DEF Plain, DmPcs
<1>4. CASE Recheck(r)
  <2>1. CASE record # None
    BY <1>0, <1>4, <2>1, ReplayOfOK DEF Recheck, At
  <2>2. CASE record = None
    <3>1. req[r].pc = "recheck" /\ Goto(r, Operation)
      BY <1>4, <2>2 DEF Recheck, At
    <3>2. Operation \in Plain /\ (Operation \in DmPcs => site.kind = "dm") /\ (Operation = "post" => site.kind = "post")
      BY <1>o, <3>1
    <3> QED BY <1>0, <3>1, <3>2, GotoPlain
  <2> QED BY <2>1, <2>2
<1>5. CASE StoreUnavailable(r)
  <2>0. req[r].pc \in {"keys", "contended", "acquire", "recheck"}
    BY <1>5 DEF StoreUnavailable
  <2>1. req[r] \in Open /\ req[r].clock \in Times /\ req[r].clock <= now
    BY <2>0, ReqFacts
  <2>2. Operation \in Plain /\ (Operation \in DmPcs => site.kind = "dm") /\ (Operation = "post" => site.kind = "post")
    BY <1>o, <2>0
  <2> DEFINE pc == Operation
             y == [req[r] EXCEPT !.pc = pc, !.held = FALSE]
  <2>3. y = [req[r] EXCEPT !.pc = pc, !.held = FALSE, !.clock = req[r].clock]
    BY <2>1 DEF Open
  <2>4. Step(r, y)
    BY <1>5 DEF StoreUnavailable
  <2> HIDE DEF y
  <2> QED BY <1>0, <2>0, <2>1, <2>2, <2>3, <2>4, PlainOK
<1>6. CASE StoreResult(r)
  <2>1. req[r].pc = "store" /\ Answer(r, req[r].msg)
    BY <1>6 DEF StoreResult, At
  <2>2. made[req[r].msg].pay = req[r].pay
    BY <2>1, ReqFacts DEF ReqKnows
  <2> QED BY <1>0, <2>1, <2>2, AnswerOK
<1>7. CASE OperationFailed(r)
  BY <1>0, <1>7, RefuseOK DEF OperationFailed, At
<1> QED BY <1>1, <1>2, <1>3, <1>4, <1>5, <1>6, <1>7

\* A request comes in.
LEMMA RequestMoves ==
  ASSUME DMInv, RowStep, EnvGrows, NEW r \in Requests, NEW p \in site.bodies, Request(r, p)
  PROVE  Moves(r)
<1>0. /\ req[r].pc = "idle" /\ UNCHANGED <<now, peers, made, egress, trip>> /\ Step(r, Start(p))
      /\ site \in Sites /\ now \in Times /\ now \in Nat /\ peers \in Nat
  BY Numbers DEF Request, Running, shared, DMInv, Shapes, EnvGrows
<1>1. p \in Payloads /\ site.kind \in {"dm", "post"} /\ site.kv \in BOOLEAN
  BY <1>0, DirectMessageAssumption
<1> DEFINE pc == IF site.kv THEN "keys" ELSE Operation
           y == [pc |-> pc, pay |-> p, since |-> now, held |-> FALSE, clock |-> 0,
                 url |-> 0, msg |-> 0, base |-> None, replay |-> FALSE]
<1>2. /\ pc \in {"keys", "lookup", "post"} /\ (pc = "lookup" => site.kind = "dm")
      /\ (pc = "post" => site.kind = "post")
  BY <1>1 DEF Operation
<1>3. Step(r, y)
  BY <1>0 DEF Start
<1> HIDE DEF pc
<1>4. 0 \in Times /\ 0 \in 0..MaxMsg
  BY Numbers DEF Times
<1>5. y \in Open /\ y.pc = pc /\ y.since = now /\ y.clock = 0 /\ y.url = 0 /\ y.base = None
  BY <1>0, <1>1, <1>2, <1>4 DEF Open, KvPcs, DmPcs
<1> HIDE DEF y
<1>6. ReqIs(y)
  BY <1>2, <1>5 DEF ReqIs, Req, DmPcs
<1>7. ReqKnows(y, made', egress', now', peers')
  BY <1>0, <1>2, <1>5, Numbers DEF ReqKnows
<1> QED BY <1>0, <1>2, <1>3, <1>5, <1>6, <1>7, MovesOK

\* A request whose columns are set.
Put(q, pc, c, u, m, b, rp) == [q EXCEPT !.pc = pc, !.clock = c, !.url = u, !.msg = m, !.base = b, !.replay = rp]

\* A request under way with these columns, its body and its age those of q.
Sets(y, q, pc, c, u, m, b) ==
  /\ y \in Open /\ y \in Req /\ y.pc = pc /\ y.pay = q.pay /\ y.since = q.since
  /\ y.clock = c /\ y.url = u /\ y.msg = m /\ y.base = b

\* The first is the second.
LEMMA OpenPut ==
  ASSUME NEW q \in Open, NEW pc \in KvPcs \cup DmPcs \cup {"post"}, NEW c \in Times, NEW u \in Nat, NEW m \in 0..MaxMsg,
         NEW b \in {None} \cup [at : Times], NEW rp \in BOOLEAN
  PROVE  Sets(Put(q, pc, c, u, m, b, rp), q, pc, c, u, m, b)
<1> DEFINE y == Put(q, pc, c, u, m, b, rp)
<1>1. y \in Open
  BY DEF Open, Put
<1>2. y.pc = pc /\ y.pay = q.pay /\ y.since = q.since
  BY DEF Open, Put
<1>3. y.clock = c /\ y.url = u /\ y.msg = m /\ y.base = b
  BY DEF Open, Put
<1> QED BY <1>1, <1>2, <1>3 DEF Req, Sets

\* The columns of a request under way.
LEMMA Columns ==
  ASSUME NEW q \in Open
  PROVE  /\ q.clock \in Times /\ q.url \in Nat /\ q.msg \in 0..MaxMsg /\ q.base \in {None} \cup [at : Times]
         /\ q.replay \in BOOLEAN /\ q.pay \in Payloads /\ q.since \in Times /\ q.held \in BOOLEAN
BY DEF Open

\* postMessage.
LEMMA PostMoves == ASSUME DMInv, RowStep, EnvGrows, NEW r \in Requests, Post(r) PROVE Moves(r)
<1> DEFINE q == req[r]
           f == Fresh
           y == [q EXCEPT !.pc = "store", !.msg = f]
<1>0. /\ q.pc = "post" /\ UNCHANGED <<now, trip>> /\ Step(r, y)
      /\ made' = [made EXCEPT ![f] = [pay |-> q.pay, at |-> now]]
  BY DEF Post, At
<1>1. /\ q \in Open /\ ReqIs(q) /\ ReqKnows(q, made, egress, now, peers) /\ q.pay \in Payloads /\ now \in Times
      /\ now \in Nat
  BY <1>0, ReqFacts DEF Open
<1>2. f \in Msgs /\ made[f] = None
  BY FreshOK DEF Post, DMInv
<1> HIDE DEF f
<1>3. made'[f] = [pay |-> q.pay, at |-> now]
  BY <1>0, <1>2 DEF DMInv, Shapes
<1>4. made'[f] # None /\ made'[f].pay = q.pay
  <2>1. [pay |-> q.pay, at |-> now] \in Made
    BY <1>1 DEF Made
  <2> QED BY <1>3, <2>1, NotNone
<1>5. y \in Open /\ y.pc = "store" /\ y.msg = f /\ y.since = q.since /\ y.clock = q.clock /\ y.url = q.url
      /\ y.base = q.base /\ y.pay = q.pay
  <2>1. f \in 0..MaxMsg
    BY <1>2, Numbers DEF Msgs
  <2>2. y = Put(q, "store", q.clock, q.url, f, q.base, q.replay)
    BY <1>1 DEF Open, Put
  <2> HIDE DEF y, q
  <2>3. "store" \in KvPcs \cup DmPcs \cup {"post"}
    BY DEF KvPcs
  <2>4. Sets(Put(q, "store", q.clock, q.url, f, q.base, q.replay), q, "store", q.clock, q.url, f, q.base)
    BY <1>1, <2>1, <2>3, Columns, OpenPut
  <2>5. Sets(y, q, "store", q.clock, q.url, f, q.base)
    BY <2>2, <2>4
  <2> QED BY <2>5 DEF Sets
<1> HIDE DEF y
<1>6. site.kind = "post" /\ ReqIs(y)
  BY <1>0, <1>1, <1>5 DEF ReqIs, Req, DmPcs
<1>7. q.url <= peers'
  <2>1. q.url <= peers /\ q.url \in Nat
    BY <1>0, <1>1 DEF ReqKnows, Open
  <2> QED BY <2>1 DEF EnvGrows
<1>8. ReqKnows(y, made', egress', now', peers')
  BY <1>0, <1>1, <1>2, <1>4, <1>5, <1>6, <1>7 DEF ReqKnows
<1> QED BY <1>0, <1>5, <1>6, <1>8, MovesOK


\* A request q of a direct message may go on to pc with these columns.
Relies(q, pc, c, u, m, b) ==
  /\ c <= now /\ u <= peers /\ (b # None => b.at <= now)
  /\ pc \in {"store", "transport"} =>
       /\ m \in Msgs /\ made[m] # None /\ made[m].pay = q.pay
       /\ (b # None => b.at = made[m].at) /\ (peers = 0 => b # None)
  /\ pc \in {"egress", "expireEgress", "rereadEgress", "prepare"} =>
       \A n \in Msgs : made[n] # None => Elapsed(made[n].at, now) \/ q.since <= made[n].at + Stall
  /\ pc = "admit" =>
       /\ b # None /\ q.since <= b.at
       /\ \A n \in Msgs : made[n] # None => Elapsed(made[n].at, b.at) \/ q.since <= made[n].at + Stall
  /\ pc \in {"prepare", "admit"} /\ egress # None => q.since <= made[egress.msg].at + Stall

\* Then it has what it relies on, before and after the step.
LEMMA SetsKnows ==
  ASSUME DMInv, RowStep, EnvGrows, NEW r \in Requests, req[r].pc \notin {"idle", "failed"}, now' = now, site.kind = "dm",
         NEW pc \in DmPcs \cup {"store"}, NEW c, NEW u, NEW m, NEW b, NEW y,
         Sets(y, req[r], pc, c, u, m, b), Relies(req[r], pc, c, u, m, b)
  PROVE  ReqIs(y) /\ ReqKnows(y, made', egress', now', peers') /\ y.pc = pc
<1>1. req[r].since <= now /\ now <= req[r].since + Stall
  BY ReqFacts
<1>2. /\ y \in Req /\ y.pc = pc /\ y.pay = req[r].pay /\ y.since = req[r].since /\ y.clock = c /\ y.url = u
      /\ y.msg = m /\ y.base = b
  BY DEF Sets
<1>3. ReqIs(y)
  BY <1>2 DEF ReqIs, DmPcs, Relies
<1>4. ReqKnows(y, made, egress, now, peers)
  BY <1>1, <1>2 DEF ReqKnows, DmPcs, Relies
<1> QED BY <1>2, <1>3, <1>4, KnowsKept

\* An accepted row is replayed: a store, or another try of its transport.
LEMMA ReplayMoves ==
  ASSUME DMInv, RowStep, EnvGrows, NEW r \in Requests, req[r].pc \in DmPcs \ {"transport"}, now' = now,
         NEW row, NEW b \in {None} \cup [at : Times], ReplayRow(r, row, b), row.msg \in Msgs, About(row, made),
         b # None => b.at = made[row.msg].at, peers = 0 => b # None
  PROVE  Moves(r)
<1> DEFINE q == req[r]
           m == row.msg
           pc == IF egress = None THEN "store" ELSE "transport"
<1>0. /\ q.pc \notin {"idle", "failed", "transport"} /\ site.kind = "dm" /\ q \in Open /\ now \in Nat
      /\ ReqKnows(q, made, egress, now, peers)
  <2>1. q.pc \notin {"idle", "failed", "transport"}
    BY DEF DmPcs
  <2>2. q \in Open /\ ReqIs(q) /\ now \in Nat /\ ReqKnows(q, made, egress, now, peers)
    BY <2>1, ReqFacts
  <2> QED BY <2>1, <2>2 DEF ReqIs
<1>1. CASE SamePayload(row.pay, q.pay)
  <2> DEFINE y == Put(q, pc, 0, q.url, m, b, TRUE)
             t == IF egress = None THEN trip[r] ELSE [pc |-> "read"]
  <2>1. Step(r, y)
    <3>1. Step(r, [q EXCEPT !.pc = pc, !.msg = m, !.base = b, !.replay = TRUE, !.clock = 0])
      BY <1>1 DEF ReplayRow
    <3>2. [q EXCEPT !.pc = pc, !.msg = m, !.base = b, !.replay = TRUE, !.clock = 0] = y
      <4> HIDE DEF q, pc, m
      <4> QED BY <1>0 DEF Open, Put
    <3> QED BY <3>1, <3>2
  <2>2. trip \in [Workers -> TripState] /\ r \in Workers /\ trip[r].pc = "off"
    BY <1>0 DEF DMInv, Shapes, ReqsOK, Workers
  <2>3. trip' = [trip EXCEPT ![r] = t] /\ t \in TripState /\ (pc = "transport" <=> t.pc # "off")
    <3>1. trip' = IF egress = None THEN trip ELSE [trip EXCEPT ![r] = [pc |-> "read"]]
      BY <1>1 DEF ReplayRow
    <3>2. CASE egress = None
      BY <2>2, <3>1, <3>2
    <3>3. CASE egress # None
      BY <2>2, <3>1, <3>3 DEF TripState
    <3> QED BY <3>2, <3>3
  <2>4. pc \in {"store", "transport"}
    OBVIOUS
  <2>5. /\ made[m] # None /\ made[m].pay = q.pay /\ m \in Msgs /\ (b # None => b.at = made[m].at)
    BY <1>1 DEF About, SamePayload
  <2>6. b # None => b.at <= now
    BY <1>0, <2>5 DEF DMInv, MadeOK
  <2> HIDE DEF pc, t, m, q, y
  <2>7. pc \in KvPcs \cup DmPcs \cup {"post"} /\ pc \in DmPcs \cup {"store"}
    BY <2>4 DEF KvPcs, DmPcs
  <2>8. 0 \in Times /\ 0 <= now /\ m \in 0..MaxMsg
    BY <1>0, <2>5, Numbers DEF Times, Msgs
  <2>9. q.url \in Nat /\ q.url <= peers
    BY <1>0, Columns DEF ReqKnows
  <2>10. Sets(Put(q, pc, 0, q.url, m, b, TRUE), q, pc, 0, q.url, m, b)
    BY <1>0, <2>7, <2>8, <2>9, OpenPut
  <2>11. Sets(y, req[r], pc, 0, q.url, m, b)
    BY <2>10 DEF y, q
  <2>12. ReqIs(y) /\ ReqKnows(y, made', egress', now', peers') /\ y.pc = pc
    <3>1. Relies(q, pc, 0, q.url, m, b)
      BY <2>4, <2>5, <2>6, <2>8, <2>9 DEF Relies
    <3>2. Relies(req[r], pc, 0, q.url, m, b) /\ req[r].pc \notin {"idle", "failed"}
      BY <1>0, <3>1 DEF q
    <3> QED BY <1>0, <2>7, <2>11, <3>2, SetsKnows
  <2> QED BY <2>1, <2>3, <2>12 DEF Moves, Step
<1>2. CASE ~SamePayload(row.pay, q.pay)
  <2>1. Fail(r) /\ trip' = trip
    BY <1>2 DEF ReplayRow
  <2> QED BY <1>0, <2>1, FailMoves
<1> QED BY <1>1, <1>2


\* A move within the operation, outside the transport.
LEMMA PutMoves ==
  ASSUME DMInv, RowStep, EnvGrows, NEW r \in Requests, req[r].pc \in DmPcs \ {"transport"}, now' = now, trip' = trip,
         NEW pc \in DmPcs \ {"transport"}, NEW c \in Times, NEW u \in Nat,
         NEW b \in {None} \cup [at : Times], NEW rp \in BOOLEAN, NEW y, Step(r, y),
         y = Put(req[r], pc, c, u, req[r].msg, b, rp), Relies(req[r], pc, c, u, req[r].msg, b)
  PROVE  Moves(r)
<1> DEFINE m == req[r].msg
<1>1. req[r].pc \notin {"idle", "failed", "transport"}
  BY DEF DmPcs
<1>2. req[r] \in Open /\ ReqIs(req[r])
  BY <1>1, ReqFacts
<1>3. site.kind = "dm" /\ m \in 0..MaxMsg
  BY <1>2, Columns DEF ReqIs
<1>4. pc \in KvPcs \cup DmPcs \cup {"post"} /\ pc \in DmPcs \cup {"store"} /\ pc # "transport"
  OBVIOUS
<1>5. Sets(y, req[r], pc, c, u, m, b)
  <2>1. Sets(Put(req[r], pc, c, u, m, b, rp), req[r], pc, c, u, m, b)
    BY <1>2, <1>3, <1>4, OpenPut
  <2> QED BY <2>1
<1>6. ReqIs(y) /\ ReqKnows(y, made', egress', now', peers') /\ y.pc = pc
  <2> HIDE DEF m
  <2>1. Relies(req[r], pc, c, u, m, b)
    BY DEF m
  <2> QED BY <1>1, <1>3, <1>4, <1>5, <2>1, SetsKnows
<1> QED BY <1>1, <1>4, <1>6, MovesOK

\* One that changes nothing else.
LEMMA GotoMoves ==
  ASSUME DMInv, RowStep, EnvGrows, NEW r \in Requests, req[r].pc \in DmPcs \ {"transport"}, now' = now, trip' = trip,
         NEW pc \in DmPcs \ {"transport"}, Goto(r, pc),
         Relies(req[r], pc, req[r].clock, req[r].url, req[r].msg, req[r].base)
  PROVE  Moves(r)
<1> DEFINE y == [req[r] EXCEPT !.pc = pc]
<1>1. req[r] \in Open
  BY ReqFacts DEF DmPcs
<1>2. y = Put(req[r], pc, req[r].clock, req[r].url, req[r].msg, req[r].base, req[r].replay)
  BY <1>1 DEF Open, Put
<1>3. Step(r, y)
  BY DEF Goto
<1> HIDE DEF y
<1> QED BY <1>1, <1>2, <1>3, Columns, PutMoves

\* Without a claim every message is past its window.
LEMMA NoClaim ==
  ASSUME DMInv, claim = None, site.kind = "dm"
  PROVE  \A n \in Msgs : made[n] # None => Elapsed(made[n].at, now)
<1> SUFFICES ASSUME NEW n \in Msgs, made[n] # None PROVE Elapsed(made[n].at, now)
  OBVIOUS
<1>1. made[n].at \in Nat /\ now \in Nat
  BY Numbers DEF DMInv, Shapes, Made
<1>2. ~(now < made[n].at + Window)
  BY DEF DMInv, MadeOK
<1> QED BY <1>1, <1>2, Numbers DEF Elapsed

\* What a request of a direct message has when it is in the operation.
LEMMA DmFacts ==
  ASSUME DMInv, NEW r \in Requests, req[r].pc \in DmPcs
  PROVE  /\ req[r].pc \notin {"idle", "failed"} /\ site.kind = "dm" /\ req[r] \in Open /\ now \in Times /\ now \in Nat
         /\ ReqKnows(req[r], made, egress, now, peers) /\ req[r].clock <= now /\ req[r].url <= peers
         /\ (req[r].base # None => req[r].base.at <= now) /\ req[r].since <= now
<1>1. req[r].pc \notin {"idle", "failed"}
  BY DEF DmPcs
<1>2. /\ req[r] \in Open /\ ReqIs(req[r]) /\ now \in Nat /\ now \in Times /\ req[r].since <= now
      /\ ReqKnows(req[r], made, egress, now, peers)
  BY <1>1, ReqFacts
<1> QED BY <1>1, <1>2 DEF ReqIs, ReqKnows

\* The claim is replayed.
LEMMA ReplayClaim ==
  ASSUME DMInv, RowStep, EnvGrows, NEW r \in Requests, req[r].pc \in DmPcs \ {"transport"}, now' = now,
         claim # None, ReplayRow(r, claim, [at |-> claim.at])
  PROVE  Moves(r)
<1> DEFINE b == [at |-> claim.at]
<1>1. claim \in ClaimRow /\ About(claim, made) /\ claim.at = made[claim.msg].at
  BY DEF DMInv, Shapes, ClaimOK
<1>2. claim.msg \in Msgs /\ claim.at \in Times
  BY <1>1 DEF ClaimRow
<1>3. b \in [at : Times] /\ b.at = claim.at
  BY <1>2
<1> HIDE DEF b
<1>4. b # None /\ ReplayRow(r, claim, b)
  BY <1>3, NotNone DEF b
<1> QED BY <1>1, <1>2, <1>3, <1>4, ReplayMoves

\* The intent is replayed.
LEMMA ReplayEgress ==
  ASSUME DMInv, RowStep, EnvGrows, NEW r \in Requests, req[r].pc \in DmPcs \ {"transport"}, now' = now,
         egress # None, ReplayRow(r, egress, None)
  PROVE  Moves(r)
<1>1. egress \in EgressRow /\ About(egress, made) /\ egress.url \in 1..peers /\ peers \in Nat
  BY DirectMessageAssumption DEF DMInv, Shapes, EgressOK
<1>2. egress.msg \in Msgs /\ peers # 0
  BY <1>1 DEF EgressRow
<1> QED BY <1>1, <1>2, ReplayMoves


\* The lookup of the claim.
LEMMA ClaimMoves ==
  ASSUME DMInv, RowStep, EnvGrows, NEW r \in Requests, LookupClaim(r) \/ ExpireClaim(r) \/ RereadClaim(r)
  PROVE  Moves(r)
<1> DEFINE q == req[r]
<1>0. q.pc \in {"lookup", "expire", "reread"} /\ now' = now
  BY DEF LookupClaim, ExpireClaim, RereadClaim, At, shared
<1>1. /\ q.pc \in DmPcs \ {"transport"} /\ q.pc \notin {"idle", "failed", "transport"} /\ site.kind = "dm" /\ q \in Open
      /\ now \in Times /\ now \in Nat /\ q.clock <= now /\ q.url <= peers /\ (q.base # None => q.base.at <= now)
  BY <1>0, DmFacts DEF DmPcs
<1>2. CASE LookupClaim(r) /\ claim # None /\ ~Elapsed(claim.at, now)
  <2>1. ReplayRow(r, claim, [at |-> claim.at])
    BY <1>2 DEF LookupClaim
  <2> QED BY <1>0, <1>1, <1>2, <2>1, ReplayClaim
<1>3. CASE LookupClaim(r) /\ ~(claim # None /\ ~Elapsed(claim.at, now))
  <2> DEFINE pc == IF claim = None THEN "egress" ELSE "expire"
             y == [q EXCEPT !.pc = pc, !.clock = now]
  <2>1. Step(r, y) /\ trip' = trip
    BY <1>3 DEF LookupClaim
  <2>2. pc \in DmPcs \ {"transport"} /\ pc \in {"egress", "expire"} /\ (pc = "egress" => claim = None)
    BY DEF DmPcs
  <2> HIDE DEF pc
  <2>3. y = Put(q, pc, now, q.url, q.msg, q.base, q.replay)
    BY <1>1 DEF Open, Put
  <2>4. now <= now
    BY <1>1
  <2>5. Relies(q, pc, now, q.url, q.msg, q.base)
    BY <1>1, <2>2, <2>4, NoClaim DEF Relies
  <2> HIDE DEF y
  <2> QED BY <1>0, <1>1, <2>1, <2>2, <2>3, <2>5, Columns, PutMoves
<1>4. CASE ExpireClaim(r)
  <2>1. Goto(r, "reread") /\ trip' = trip /\ "reread" \in Plain
    BY <1>4 DEF ExpireClaim, Plain
  <2> QED BY <1>0, <1>1, <2>1, GotoPlain
<1>5. CASE RereadClaim(r) /\ claim = None
  <2>1. Goto(r, "egress") /\ trip' = trip /\ "egress" \in DmPcs \ {"transport"}
    BY <1>5 DEF RereadClaim, DmPcs
  <2>2. Relies(q, "egress", q.clock, q.url, q.msg, q.base)
    BY <1>1, <1>5, NoClaim DEF Relies
  <2> QED BY <1>0, <1>1, <2>1, <2>2, GotoMoves
<1>6. CASE RereadClaim(r) /\ claim # None
  <2>1. ReplayRow(r, claim, [at |-> claim.at])
    BY <1>6 DEF RereadClaim
  <2> QED BY <1>0, <1>1, <1>6, <2>1, ReplayClaim
<1> QED BY <1>2, <1>3, <1>4, <1>5, <1>6

\* The lookup of the intent.
LEMMA IntentMoves ==
  ASSUME DMInv, RowStep, EnvGrows, NEW r \in Requests, LookupEgress(r) \/ ExpireEgress(r) \/ RereadEgress(r)
  PROVE  Moves(r)
<1> DEFINE q == req[r]
<1>0. q.pc \in {"egress", "expireEgress", "rereadEgress"} /\ now' = now
  BY DEF LookupEgress, ExpireEgress, RereadEgress, At, shared
<1>1. /\ q.pc \in DmPcs \ {"transport"} /\ q.pc \notin {"idle", "failed", "transport"} /\ site.kind = "dm" /\ q \in Open
      /\ now \in Times /\ now \in Nat /\ q.clock <= now /\ q.url <= peers /\ (q.base # None => q.base.at <= now)
      /\ ReqKnows(q, made, egress, now, peers)
  BY <1>0, DmFacts DEF DmPcs
<1>2. \A n \in Msgs : made[n] # None => Elapsed(made[n].at, now) \/ q.since <= made[n].at + Stall
  BY <1>0, <1>1 DEF ReqKnows
<1>3. ASSUME NEW pc \in {"prepare", "expireEgress", "rereadEgress"}, Goto(r, pc), trip' = trip,
             pc = "prepare" => egress = None
      PROVE  Moves(r)
  <2>1. pc \in DmPcs \ {"transport"}
    BY DEF DmPcs
  <2>2. Relies(q, pc, q.clock, q.url, q.msg, q.base)
    BY <1>1, <1>2, <1>3 DEF Relies
  <2> QED BY <1>0, <1>1, <1>3, <2>1, <2>2, GotoMoves
<1>4. ASSUME egress # None, ReplayRow(r, egress, None)
      PROVE  Moves(r)
  BY <1>0, <1>1, <1>4, ReplayEgress
<1>5. CASE LookupEgress(r)
  BY <1>3, <1>4, <1>5 DEF LookupEgress
<1>6. CASE RereadEgress(r)
  BY <1>3, <1>4, <1>6 DEF RereadEgress
<1>7. CASE ExpireEgress(r) /\ ~(egress # None /\ CleanupEligible(q.clock))
  BY <1>3, <1>7 DEF ExpireEgress
<1>8. CASE ExpireEgress(r) /\ egress # None /\ CleanupEligible(q.clock)
  <2> DEFINE y == [q EXCEPT !.pc = "prepare"]
  <2>1. Step(r, y) /\ trip' = trip /\ egress' = None /\ made' = made /\ peers' = peers
    BY <1>8 DEF ExpireEgress, Goto, peerVars
  <2>2. y = Put(q, "prepare", q.clock, q.url, q.msg, q.base, q.replay) /\ "prepare" \in KvPcs \cup DmPcs \cup {"post"}
    BY <1>1 DEF Open, Put, DmPcs
  <2> HIDE DEF y
  <2>3. Sets(Put(q, "prepare", q.clock, q.url, q.msg, q.base, q.replay), q, "prepare", q.clock, q.url, q.msg, q.base)
    BY <1>1, <2>2, Columns, OpenPut
  <2>4. Sets(y, q, "prepare", q.clock, q.url, q.msg, q.base)
    BY <2>2, <2>3
  <2>5. ReqIs(y) /\ y.pc = "prepare"
    BY <1>1, <2>4 DEF Sets, ReqIs
  <2>6. ReqKnows(y, made, None, now, peers)
    BY <1>0, <1>1, <1>2, <2>4 DEF Sets, ReqKnows
  <2>7. ReqKnows(y, made', egress', now', peers')
    BY <1>0, <2>1, <2>6
  <2> QED BY <1>1, <2>1, <2>5, <2>7, MovesOK
<1> QED BY <1>5, <1>6, <1>7, <1>8

\* The preparation, and the loser of the batch.
LEMMA PrepareMoves ==
  ASSUME DMInv, RowStep, EnvGrows, NEW r \in Requests, Prepare(r) \/ Lost(r)
  PROVE  Moves(r)
<1> DEFINE q == req[r]
<1>0. q.pc \in {"prepare", "lost"} /\ now' = now /\ trip' = trip
  BY DEF Prepare, Lost, At, shared
<1>1. /\ q.pc \in DmPcs \ {"transport"} /\ q.pc \notin {"idle", "failed", "transport"} /\ site.kind = "dm" /\ q \in Open
      /\ now \in Times /\ now \in Nat /\ q.clock <= now /\ q.since <= now
      /\ ReqKnows(q, made, egress, now, peers)
  BY <1>0, DmFacts DEF DmPcs
<1>2. peer \in 0..peers /\ peers \in Nat
  BY DirectMessageAssumption DEF DMInv, Shapes
<1>3. CASE Fail(r)
  BY <1>0, <1>1, <1>3, FailMoves
<1>4. CASE Prepare(r) /\ ~Fail(r)
  <2> DEFINE b == [at |-> now]
             y == [q EXCEPT !.pc = "admit", !.clock = 0, !.url = peer, !.base = b, !.replay = FALSE]
  <2>1. Step(r, y) /\ q.pc = "prepare"
    BY <1>4 DEF Prepare, At
  <2>2. b \in [at : Times] /\ b.at = now
    BY <1>1
  <2> HIDE DEF b
  <2>3. y = Put(q, "admit", 0, peer, q.msg, b, FALSE)
    BY <1>1 DEF Open, Put
  <2> HIDE DEF y
  <2>4. 0 \in Times /\ 0 <= now /\ peer \in Nat /\ peer <= peers /\ b # None /\ b.at <= now
    BY <1>1, <1>2, <2>2, Numbers, NotNone DEF Times
  <2>5. /\ \A n \in Msgs : made[n] # None => Elapsed(made[n].at, now) \/ q.since <= made[n].at + Stall
        /\ egress # None => q.since <= made[egress.msg].at + Stall
    BY <1>1, <2>1 DEF ReqKnows
  <2>6. Relies(q, "admit", 0, peer, q.msg, b)
    BY <1>1, <2>2, <2>4, <2>5 DEF Relies
  <2>7. "admit" \in DmPcs \ {"transport"}
    BY DEF DmPcs
  <2> QED BY <1>0, <1>1, <2>1, <2>2, <2>3, <2>4, <2>6, <2>7, PutMoves
<1>5. CASE Lost(r) /\ ~Fail(r)
  <2> DEFINE y == [q EXCEPT !.pc = "lookup", !.base = None, !.url = 0]
  <2>1. Step(r, y)
    BY <1>5 DEF Lost
  <2>2. y = Put(q, "lookup", q.clock, 0, q.msg, None, q.replay)
    BY <1>1 DEF Open, Put
  <2> HIDE DEF y
  <2>3. 0 \in Nat /\ 0 <= peers /\ None \in {None} \cup [at : Times] /\ "lookup" \in DmPcs \ {"transport"}
    BY <1>2 DEF DmPcs
  <2>4. Relies(q, "lookup", q.clock, 0, q.msg, None)
    BY <1>1, <2>3 DEF Relies
  <2> QED BY <1>0, <1>1, <2>1, <2>2, <2>3, <2>4, Columns, PutMoves
<1> QED BY <1>3, <1>4, <1>5


\* The batch: the request has its message, or has lost.
LEMMA AdmitMoves == ASSUME DMInv, RowStep, EnvGrows, NEW r \in Requests, Admit(r) PROVE Moves(r)
<1> DEFINE q == req[r]
<1>0. q.pc = "admit" /\ now' = now /\ peers' = peers
  BY DEF Admit, At, peerVars
<1>1. /\ q.pc \in DmPcs \ {"transport"} /\ q.pc \notin {"idle", "failed", "transport"} /\ site.kind = "dm" /\ q \in Open
      /\ ReqKnows(q, made, egress, now, peers) /\ ReqIs(q) /\ now \in Nat /\ peers \in Nat
  BY <1>0, DmFacts, ReqFacts DEF DmPcs
<1>2. CASE ~Admissible(q)
  <2>1. Goto(r, "lost") /\ trip' = trip /\ "lost" \in Plain
    BY <1>2 DEF Admit, Plain
  <2> QED BY <1>0, <1>1, <2>1, GotoPlain
<1>3. CASE Admissible(q)
  <2> DEFINE f == Fresh
             pc == IF q.url = 0 THEN "store" ELSE "transport"
             v == [pay |-> q.pay, at |-> q.base.at]
             y == [q EXCEPT !.pc = pc, !.msg = f, !.url = 0]
             t == IF q.url = 0 THEN trip[r] ELSE [pc |-> "read"]
  <2>1. /\ \E m \in Msgs : made[m] = None
        /\ made' = [made EXCEPT ![f] = v] /\ Step(r, y)
        /\ trip' = IF q.url = 0 THEN trip ELSE [trip EXCEPT ![r] = [pc |-> "read"]]
    BY <1>3 DEF Admit
  <2>2. f \in Msgs
    BY <2>1, FreshOK DEF DMInv
  <2>3. pc \in {"store", "transport"}
    OBVIOUS
  <2>4. trip' = [trip EXCEPT ![r] = t] /\ t \in TripState /\ (pc = "transport" <=> t.pc # "off")
    <3>1. trip \in [Workers -> TripState] /\ r \in Workers /\ trip[r].pc = "off"
      BY <1>1 DEF DMInv, Shapes, ReqsOK, Workers
    <3>2. CASE q.url = 0
      BY <2>1, <3>1, <3>2
    <3>3. CASE q.url # 0
      BY <2>1, <3>1, <3>3 DEF TripState
    <3> QED BY <3>2, <3>3
  <2> HIDE DEF f, pc, t
  <2>5. y = Put(q, pc, q.clock, 0, f, q.base, q.replay)
    BY <1>1 DEF Open, Put
  <2> HIDE DEF y
  <2>6. q.base # None /\ q.pay \in Payloads /\ q.base \in {None} \cup [at : Times]
    BY <1>0, <1>1, Columns DEF ReqIs
  <2>7. v \in Made /\ v.pay = q.pay /\ v.at = q.base.at
    BY <2>6 DEF Made
  <2> HIDE DEF v
  <2>8. made'[f] # None /\ made'[f].pay = q.pay /\ made'[f].at = q.base.at
    <3>1. made'[f] = v
      BY <2>1, <2>2 DEF DMInv, Shapes
    <3> QED BY <2>7, <3>1, NotNone
  <2>9. pc \in KvPcs \cup DmPcs \cup {"post"} /\ 0 \in Nat /\ f \in 0..MaxMsg /\ 0 <= peers
    BY <1>1, <2>2, <2>3, Numbers DEF KvPcs, DmPcs, Msgs
  <2>10. Sets(y, q, pc, q.clock, 0, f, q.base)
    <3>1. Sets(Put(q, pc, q.clock, 0, f, q.base, q.replay), q, pc, q.clock, 0, f, q.base)
      BY <1>1, <2>9, Columns, OpenPut
    <3> QED BY <2>5, <3>1
  <2>11. /\ y \in Req /\ y.pc = pc /\ y.pay = q.pay /\ y.since = q.since /\ y.clock = q.clock /\ y.url = 0
         /\ y.msg = f /\ y.base = q.base
    BY <2>10 DEF Sets
  <2>12. ReqIs(y)
    BY <1>1, <2>3, <2>11 DEF ReqIs
  <2>13. /\ q.since <= now /\ now <= q.since + Stall /\ q.clock <= now /\ q.base.at <= now
    BY <1>1, <2>6 DEF ReqKnows
  <2>14. ReqKnows(y, made', egress', now', peers')
    BY <1>0, <2>2, <2>3, <2>6, <2>8, <2>9, <2>11, <2>13 DEF ReqKnows
  <2> QED BY <2>1, <2>4, <2>11, <2>12, <2>14 DEF Moves, Step
<1> QED BY <1>2, <1>3

\* A request in transport.
LEMMA OnTrip ==
  ASSUME DMInv, NEW r \in Requests, trip[r].pc # "off"
  PROVE  req[r].pc = "transport" /\ req[r].pc \in DmPcs /\ req[r].pc \notin {"idle", "failed"}
BY DEF DMInv, ReqsOK, DmPcs

\* The transport of a request goes on.
LEMMA TripMoves ==
  ASSUME DMInv, RowStep, EnvGrows, NEW r \in Requests, trip[r].pc # "off", now' = now, NEW t \in TripState, t.pc # "off",
         Trip(r, t), req' = req
  PROVE  Moves(r)
<1>1. req[r].pc = "transport" /\ req[r].pc \notin {"idle", "failed"}
  BY OnTrip
<1>2. req[r] \in Req /\ ReqIs(req[r]) /\ ReqKnows(req[r], made, egress, now, peers)
  BY <1>1, ReqFacts
<1>3. ReqKnows(req[r], made', egress', now', peers')
  BY <1>2, KnowsKept
<1>4. req' = [req EXCEPT ![r] = req[r]]
  BY DEF DMInv, Shapes
<1> DEFINE y == req[r]
<1>5. y.pc = "transport" /\ ReqIs(y) /\ req' = [req EXCEPT ![r] = y] /\ ReqKnows(y, made', egress', now', peers')
  BY <1>1, <1>2, <1>3, <1>4
<1> HIDE DEF y
<1> QED BY <1>5 DEF Moves, Trip

\* The transport of a request ends.
LEMMA ReturnMoves ==
  ASSUME DMInv, RowStep, EnvGrows, NEW r \in Requests, trip[r].pc # "off", now' = now, NEW res, Return(r, res)
  PROVE  Moves(r)
<1> DEFINE q == req[r]
           t == [pc |-> "off"]
<1>1. q.pc = "transport" /\ q.pc \notin {"idle", "failed"} /\ r \notin Sweepers
  BY OnTrip, DirectMessageAssumption
<1>2. trip' = [trip EXCEPT ![r] = t] /\ (Goto(r, "store") \/ Fail(r))
  BY <1>1 DEF Return, Trip
<1>3. t \in TripState /\ t.pc = "off"
  BY DEF TripState
<1>4. CASE Fail(r)
  <2>1. PICK y : Step(r, y) /\ ReqIs(y) /\ ReqKnows(y, made', egress', now', peers') /\ y.pc # "transport"
    BY <1>1, <1>4, FailOK
  <2> HIDE DEF t
  <2> QED BY <1>2, <1>3, <2>1 DEF Moves, Step
<1>5. CASE Goto(r, "store")
  <2> DEFINE y == [q EXCEPT !.pc = "store"]
  <2>1. Step(r, y)
    BY <1>5 DEF Goto
  <2>2. /\ q \in Open /\ site.kind = "dm" /\ ReqKnows(q, made, egress, now, peers) /\ q.clock <= now /\ q.url <= peers
        /\ (q.base # None => q.base.at <= now)
    BY <1>1, OnTrip, DmFacts
  <2>3. y = Put(q, "store", q.clock, q.url, q.msg, q.base, q.replay)
    BY <2>2 DEF Open, Put
  <2> HIDE DEF y, t
  <2>4. "store" \in KvPcs \cup DmPcs \cup {"post"} /\ "store" \in DmPcs \cup {"store"}
    BY DEF KvPcs
  <2>5. Sets(y, q, "store", q.clock, q.url, q.msg, q.base)
    <3>1. Sets(Put(q, "store", q.clock, q.url, q.msg, q.base, q.replay), q, "store", q.clock, q.url, q.msg, q.base)
      BY <2>2, <2>4, Columns, OpenPut
    <3> QED BY <2>3, <3>1
  <2>6. Relies(q, "store", q.clock, q.url, q.msg, q.base)
    BY <1>1, <2>2 DEF Relies, ReqKnows
  <2>7. ReqIs(y) /\ ReqKnows(y, made', egress', now', peers') /\ y.pc = "store"
    BY <1>1, <2>2, <2>4, <2>5, <2>6, SetsKnows
  <2> QED BY <1>2, <1>3, <2>1, <2>7 DEF Moves, Step
<1> QED BY <1>2, <1>4, <1>5


\* A sweeper moves, or nobody does.
Sweeps == req' = req /\ (trip' = trip \/ \E w \in Sweepers, t \in TripState : trip' = [trip EXCEPT ![w] = t])

\* One request moves, or a sweeper, or nobody.
ReqStep == (\E r \in Requests : Moves(r)) \/ Sweeps

\* The transport.
LEMMA DispatchMoves ==
  ASSUME DMInv, RowStep, EnvGrows, NEW w \in Workers, Dispatch(w)
  PROVE  ReqStep
<1>1. trip[w].pc # "off" /\ now' = now
  BY DEF Dispatch, ReadEgress, ClaimEgress, Attempt, Settle, On, shared
<1>2. \/ \E res : Return(w, res)
      \/ \E t \in TripState : Trip(w, t) /\ t.pc # "off" /\ req' = req
  <2>1. \A pc \in {"claim", "attempt", "accepted", "rejected", "unavailable"} :
          [pc |-> pc] \in TripState /\ [pc |-> pc].pc # "off"
    BY DEF TripState
  <2>2. CASE ReadEgress(w)
    BY <2>1, <2>2 DEF ReadEgress
  <2>3. CASE ClaimEgress(w)
    BY <2>1, <2>3 DEF ClaimEgress
  <2>4. CASE Attempt(w)
    <3>1. PICK pc \in {"accepted", "rejected", "unavailable"} : Trip(w, [pc |-> pc])
      BY <2>4 DEF Attempt
    <3> QED BY <2>1, <2>4, <3>1 DEF Attempt
  <2>5. CASE Settle(w)
    BY <2>5 DEF Settle
  <2> QED BY <2>2, <2>3, <2>4, <2>5 DEF Dispatch
<1>3. CASE w \in Requests
  BY <1>1, <1>2, <1>3, TripMoves, ReturnMoves DEF ReqStep
<1>4. CASE w \in Sweepers
  <2>1. [pc |-> "cleanEgress"] \in TripState
    BY DEF TripState
  <2>2. \E t \in TripState : Trip(w, t) /\ req' = req
    BY <1>2, <1>4, <2>1 DEF Return
  <2> QED BY <1>4, <2>2 DEF ReqStep, Sweeps, Trip
<1> QED BY <1>3, <1>4 DEF Workers

\* A process ends.
LEMMA CrashMoves == ASSUME DMInv, NEW w \in Workers, Crash(w) PROVE ReqStep
<1> DEFINE t == [pc |-> "off"]
<1>1. t \in TripState /\ t.pc = "off"
  BY DEF TripState
<1>2. trip' = [trip EXCEPT ![w] = t]
  BY DEF Crash, Trip
<1> HIDE DEF t
<1>3. CASE w \in Requests
  <2>1. req' = [req EXCEPT ![w] = Idle]
    BY <1>3 DEF Crash
  <2>2. ReqIs(Idle) /\ ReqKnows(Idle, made', egress', now', peers') /\ Idle.pc = "idle"
    BY IdleKnows
  <2>3. Moves(w)
    BY <1>1, <1>2, <2>1, <2>2 DEF Moves
  <2> QED BY <1>3, <2>3 DEF ReqStep
<1>4. CASE w \notin Requests
  <2>1. w \in Sweepers /\ req' = req
    BY <1>4 DEF Workers, Crash
  <2> QED BY <1>1, <1>2, <2>1 DEF ReqStep, Sweeps
<1> QED BY <1>3, <1>4

\* Every step is one of these.
LEMMA ReqSteps == ASSUME DMInv, [Next]_vars, RowStep, EnvGrows PROVE ReqStep
<1>1. ASSUME NEW r \in Requests, Keyed(r) \/ Post(r) \/ SendDm(r)
      PROVE  Moves(r)
  <2>1. CASE Keyed(r)
    BY <2>1, KeyedMoves, RequestMoves DEF Keyed
  <2>2. CASE SendDm(r)
    BY <2>2, ClaimMoves, IntentMoves, PrepareMoves, AdmitMoves DEF SendDm
  <2> QED BY <1>1, <2>1, <2>2, PostMoves
<1>2. ASSUME NEW w \in Workers, Dispatch(w) \/ Crash(w)
      PROVE  ReqStep
  BY <1>2, DispatchMoves, CrashMoves
<1>3. ASSUME NEW w \in Sweepers, Sweep(w) \/ CleanupEgress(w) \/ CleanupClaim(w)
      PROVE  ReqStep
  <2>1. PICK pc : pc \in {"read", "cleanEgress", "cleanClaim", "off"} /\ Trip(w, [pc |-> pc]) /\ req' = req
    BY <1>3 DEF Sweep, CleanupEgress, CleanupClaim
  <2>2. [pc |-> pc] \in TripState
    BY <2>1 DEF TripState
  <2> QED BY <2>1, <2>2 DEF ReqStep, Sweeps, Trip
<1>4. CASE Prune \/ RegisterPeer \/ RemovePeer \/ LockExpires \/ LeaseExpires \/ Tick
  BY <1>4 DEF Prune, RegisterPeer, RemovePeer, LockExpires, LeaseExpires, Tick, ReqStep, Sweeps
<1>5. CASE UNCHANGED vars
  BY <1>5 DEF vars, ReqStep, Sweeps
<1> QED BY <1>1, <1>2, <1>3, <1>4, <1>5 DEF Next, ReqStep

\* Time is taken by no step of a request.
LEMMA Aged ==
  ASSUME DMInv, RowStep, NEW r \in Requests, now' # now, req[r].pc # "idle"
  PROVE  now < req[r].since + Stall
BY DEF RowStep, Posted, Admitted, ClaimGone, EgressGone, EgressMoves, Passes, Running

\* The requests are kept.
LEMMA ReqsKept ==
  ASSUME DMInv, RowStep, EnvGrows, ReqStep
  PROVE  req' \in [Requests -> Req] /\ trip' \in [Workers -> TripState] /\ ReqsOK'
<1>0. /\ req \in [Requests -> Req] /\ trip \in [Workers -> TripState] /\ site' = site
      /\ \A r \in Requests : /\ ReqIs(req[r]) /\ ReqKnows(req[r], made, egress, now, peers)
                             /\ req[r].pc = "transport" <=> trip[r].pc # "off"
  BY DEF DMInv, Shapes, ReqsOK, EnvGrows
<1>1. ASSUME NEW s \in Requests
      PROVE  ReqIs(req[s]) /\ ReqKnows(req[s], made', egress', now', peers')
  <2>1. req[s] \in Req
    BY <1>0
  <2>2. (now' # now /\ req[s].pc # "idle") => now < req[s].since + Stall
    BY Aged
  <2> QED BY <1>0, <2>1, <2>2, KnowsKept
<1>2. ASSUME \A s \in Requests : /\ ReqIs(req'[s]) /\ ReqKnows(req'[s], made', egress', now', peers')
                                 /\ req'[s].pc = "transport" <=> trip'[s].pc # "off"
      PROVE  ReqsOK'
  <2>1. ASSUME NEW s \in Requests PROVE (ReqIs(req[s]))' /\ (ReqKnows(req[s], made, egress, now, peers))'
    BY <1>0, <1>2, <2>1 DEF ReqIs, ReqKnows
  <2> QED BY <1>2, <2>1 DEF ReqsOK
<1>3. CASE \E r \in Requests : Moves(r)
  <2>1. PICK r \in Requests : Moves(r)
    BY <1>3
  <2>2. PICK y, t : /\ req' = [req EXCEPT ![r] = y] /\ ReqIs(y) /\ ReqKnows(y, made', egress', now', peers')
                    /\ trip' = [trip EXCEPT ![r] = t] /\ t \in TripState
                    /\ y.pc = "transport" <=> t.pc # "off"
    BY <2>1 DEF Moves
  <2>3. y \in Req /\ r \in Workers
    BY <2>2 DEF ReqIs, Workers
  <2>4. req' \in [Requests -> Req] /\ trip' \in [Workers -> TripState]
    BY <1>0, <2>2, <2>3
  <2>5. \A s \in Requests : (s = r => req'[s] = y /\ trip'[s] = t) /\ (s # r => req'[s] = req[s] /\ trip'[s] = trip[s])
    BY <1>0, <2>2, <2>3 DEF Workers
  <2>6. ASSUME NEW s \in Requests
        PROVE  /\ ReqIs(req'[s]) /\ ReqKnows(req'[s], made', egress', now', peers')
               /\ req'[s].pc = "transport" <=> trip'[s].pc # "off"
    BY <1>0, <1>1, <2>2, <2>5
  <2> QED BY <1>2, <2>4, <2>6
<1>4. CASE Sweeps
  <2>1. trip' \in [Workers -> TripState] /\ \A s \in Requests : trip'[s] = trip[s]
    BY <1>0, <1>4, DirectMessageAssumption DEF Sweeps, Workers
  <2>2. req' = req
    BY <1>4 DEF Sweeps
  <2>3. ASSUME NEW s \in Requests
        PROVE  /\ ReqIs(req'[s]) /\ ReqKnows(req'[s], made', egress', now', peers')
               /\ req'[s].pc = "transport" <=> trip'[s].pc # "off"
    BY <1>0, <1>1, <2>1, <2>2
  <2> QED BY <1>0, <1>2, <2>1, <2>2, <2>3
<1> QED BY <1>3, <1>4 DEF ReqStep


-----------------------------------------------------------------------------
(* The record *)

\* A request stores its result.
Stores(r) ==
  /\ req[r].pc = "store" /\ UNCHANGED <<site, now, made, peers>>
  /\ record' = [msg |-> req[r].msg, pay |-> req[r].pay, until |-> RecordLife(req[r])]

\* Otherwise the record stays or expires.
LEMMA RecordSteps ==
  ASSUME DMInv, [Next]_vars
  PROVE  record' = record \/ record' = None \/ \E r \in Requests : Stores(r)
<1>1. ASSUME NEW r \in Requests, Keyed(r) \/ Post(r) \/ SendDm(r)
      PROVE  record' = record \/ Stores(r)
  <2>1. CASE StoreResult(r)
    BY <2>1 DEF StoreResult, Stores, At, kvVars, rowVars, peerVars
  <2>2. CASE Keyed(r) /\ ~StoreResult(r)
    BY <2>2 DEF Keyed, Request, ReadKeys, Contended, PutLock, Recheck, StoreUnavailable, OperationFailed, shared
  <2>3. CASE Post(r)
    BY <2>3 DEF Post, kvVars
  <2>4. CASE SendDm(r)
    BY <2>4 DEF SendDm, LookupClaim, ExpireClaim, RereadClaim, LookupEgress, ExpireEgress, RereadEgress,
         Prepare, Admit, Lost, shared, kvVars
  <2> QED BY <1>1, <2>1, <2>2, <2>3, <2>4
<1>2. ASSUME NEW w \in Workers, Dispatch(w) \/ Crash(w)
      PROVE  record' = record
  BY <1>2 DEF Dispatch, ReadEgress, ClaimEgress, Attempt, Settle, Crash, shared, kvVars
<1>3. ASSUME NEW w \in Sweepers, Sweep(w) \/ CleanupEgress(w) \/ CleanupClaim(w)
      PROVE  record' = record
  BY <1>3 DEF Sweep, CleanupEgress, CleanupClaim, shared, kvVars
<1>4. CASE Prune \/ RegisterPeer \/ RemovePeer \/ LockExpires \/ LeaseExpires \/ Tick
  BY <1>4 DEF Prune, RegisterPeer, RemovePeer, LockExpires, LeaseExpires, Tick, kvVars
<1>5. CASE UNCHANGED vars
  BY <1>5 DEF vars
<1> QED BY <1>1, <1>2, <1>3, <1>4, <1>5 DEF Next

\* What a record says of its message, with its parameters to be read before or after a step.
RecordIs(v, md, ps) ==
  v # None => About(v, md) /\ (site.kind = "dm" /\ ps = 0 => v.until <= md[v.msg].at + Window)

\* The record is kept.
LEMMA RecordKept ==
  ASSUME DMInv, [Next]_vars, RowStep, EnvGrows
  PROVE  record' \in {None} \cup RecordRow /\ RecordOK'
<1>0. record \in {None} \cup RecordRow /\ RecordIs(record, made, peers) /\ Grows /\ site' = site
  BY RowsKept DEF DMInv, Shapes, RecordOK, RecordWithinWindow, RecordIs, EnvGrows
<1>1. ASSUME RecordIs(record', made', peers') PROVE RecordOK'
  BY <1>0, <1>1 DEF RecordIs, RecordOK, RecordWithinWindow, About
<1>2. CASE record' = record
  <2>1. record # None => record.msg \in Msgs /\ made'[record.msg] = made[record.msg]
    BY <1>0 DEF RecordRow, RecordIs, About, Grows
  <2>2. peers' = 0 => peers = 0
    BY DEF EnvGrows
  <2>3. RecordIs(record, made', peers')
    BY <1>0, <2>1, <2>2 DEF RecordIs, About
  <2> QED BY <1>0, <1>1, <1>2, <2>3
<1>3. CASE record' = None
  BY <1>1, <1>3 DEF RecordIs
<1>4. CASE \E r \in Requests : Stores(r)
  <2>1. PICK r \in Requests : Stores(r)
    BY <1>4
  <2> DEFINE q == req[r]
             l == RecordLife(q)
  <2>2. q.pc = "store" /\ made' = made /\ peers' = peers /\ record' = [msg |-> q.msg, pay |-> q.pay, until |-> l]
    BY <2>1 DEF Stores
  <2>3. q \in Open /\ ReqKnows(q, made, egress, now, peers) /\ now \in Nat
    BY <2>2, ReqFacts
  <2>4. /\ q.msg \in Msgs /\ made[q.msg] # None /\ made[q.msg].pay = q.pay
        /\ (site.kind = "dm" /\ peers = 0 => q.base # None /\ q.base.at = made[q.msg].at)
    BY <2>2, <2>3 DEF ReqKnows
  <2>5. q.base \in {None} \cup [at : Times] /\ q.pay \in Payloads
    BY <2>3, Columns
  <2>6. l \in Nat /\ (q.base # None => l = q.base.at + Window)
    <3>1. l = IF q.base = None THEN now + Window ELSE q.base.at + Window
      BY DEF RecordLife
    <3>2. q.base # None => q.base.at \in Nat
      BY <2>5, Numbers
    <3> HIDE DEF l, q
    <3> QED BY <2>3, <3>1, <3>2, Numbers
  <2>7. site.kind = "dm" /\ peers = 0 => l <= made[q.msg].at + Window
    BY <2>4, <2>6
  <2> HIDE DEF l, q
  <2>8. record' \in RecordRow /\ record'.msg = q.msg /\ record'.pay = q.pay /\ record'.until = l
    BY <2>2, <2>4, <2>5, <2>6 DEF RecordRow
  <2>9. RecordIs(record', made', peers')
    BY <2>2, <2>4, <2>7, <2>8 DEF RecordIs, About
  <2> QED BY <1>1, <2>8, <2>9
<1> QED BY <1>2, <1>3, <1>4, RecordSteps

-----------------------------------------------------------------------------
(* The invariant *)

\* It holds at the start.
LEMMA DMInvInit == ASSUME Init PROVE DMInv
<1>1. 0 \in Times /\ 0 \in Nat /\ MaxMsg \in Nat /\ 0 \in 0..0
  BY Numbers DEF Times
<1>2. site \in Sites /\ site.peers \in Nat /\ 0 \in 0..site.peers
  BY DirectMessageAssumption DEF Init
<1>3. Idle \in Req /\ [pc |-> "off"] \in TripState
  BY DEF Idle, Req, TripState
<1>4. Shapes
  BY <1>1, <1>2, <1>3 DEF Init, Shapes
<1>5. \A m \in Msgs : made[m] = None
  BY DEF Init
<1>6. MadeOK
  <2>1. 0 \in 0..MaxMsg /\ \A m \in Msgs : made[m] # None <=> m <= 0
    BY <1>1, <1>5 DEF Msgs
  <2> QED BY <1>5, <2>1 DEF Init, MadeOK, OnePerWindow
<1>7. ClaimOK /\ EgressOK /\ RecordOK /\ OneIdentity /\ CountedOnce
  BY DEF Init, ClaimOK, EgressOK, RecordOK, RecordWithinWindow, OneIdentity, CountedOnce
<1>8. ReqsOK
  <2>1. ASSUME NEW r \in Requests
        PROVE  req[r] = Idle /\ trip[r].pc = "off"
    BY DEF Init, Workers
  <2>2. ReqIs(Idle) /\ ReqKnows(Idle, made, egress, now, peers) /\ Idle.pc = "idle"
    BY IdleKnows
  <2> QED BY <2>1, <2>2 DEF ReqsOK
<1> QED BY <1>4, <1>6, <1>7, <1>8 DEF DMInv

\* Every step keeps it.
LEMMA DMInvStep == ASSUME DMInv, [Next]_vars PROVE DMInv'
<1>1. RowStep
  BY RowSteps
<1>2. EnvGrows /\ peers' \in 0..site'.peers /\ peer' \in 0..peers' /\ lock' \in BOOLEAN
  BY EnvSteps
<1>3. RowsOK'
  BY <1>1, <1>2, RowsKept
<1>4. req' \in [Requests -> Req] /\ trip' \in [Workers -> TripState] /\ ReqsOK'
  BY <1>1, <1>2, ReqSteps, ReqsKept
<1>5. record' \in {None} \cup RecordRow /\ RecordOK'
  BY <1>1, <1>2, RecordKept
<1>6. site' \in Sites
  BY <1>2 DEF EnvGrows, DMInv, Shapes
<1>7. Shapes'
  BY <1>2, <1>3, <1>4, <1>5, <1>6 DEF RowsOK, RowTypes, Shapes
<1> QED BY <1>3, <1>4, <1>5, <1>7 DEF RowsOK, DMInv

\* It holds throughout: a message stays claimed for its window, and a request that found no claim
\* ends before another window can begin.
LEMMA DMInvariant == Spec => []DMInv
<1>1. Init => DMInv
  BY DMInvInit
<1>2. DMInv /\ [Next]_vars => DMInv'
  BY DMInvStep
<1> QED BY <1>1, <1>2, PTL DEF Spec

\* Records, claims, intents and requests are well formed, and none of them survives for a message
\* that was not written (runIdempotent, sendDm, dispatchA2aEgress).
THEOREM DMTypeCorrect == Spec => []TypeOK
<1>1. ASSUME DMInv PROVE TypeOK
  <2>0. Shapes /\ EgressOK /\ ReqsOK
    BY <1>1 DEF DMInv
  <2>1. site \in Sites /\ now \in Times /\ lock \in BOOLEAN /\ peer \in 0..peers /\ peers \in 0..site.peers
    BY <2>0 DEF Shapes
  <2>2. \A v \in {record, claim, egress} \ {None} : Message(v) /\ made[v.msg] # None
    <3>1. record # None => Message(record) /\ made[record.msg] # None
      BY <1>1 DEF DMInv, Shapes, RecordOK, RecordRow, Message, Payload, About
    <3>2. claim # None => Message(claim) /\ made[claim.msg] # None
      BY <1>1 DEF DMInv, Shapes, ClaimOK, ClaimRow, Message, Payload, About
    <3>3. egress # None => Message(egress) /\ made[egress.msg] # None
      BY <1>1 DEF DMInv, Shapes, EgressOK, EgressRow, Message, Payload, About
    <3> QED BY <3>1, <3>2, <3>3
  <2>3. egress # None => /\ egress.st \in {"pending", "sending", "sent", "failed"}
                         /\ egress.token \in Workers \cup {"none"}
                         /\ egress.st = "sending" <=> egress.token # "none"
                         /\ egress.url \in 1..peers /\ egress.counted \in Nat
    BY <2>0 DEF Shapes, EgressOK, EgressRow
  <2>4. \A m \in Msgs : made[m] # None => Payload(made[m]) /\ made[m].at \in Times
    BY <2>0 DEF Shapes, Made, Payload
  <2>5. \A r \in Requests : req[r].pc = "transport" <=> trip[r].pc # "off"
    BY <2>0 DEF ReqsOK
  <2> QED BY <2>1, <2>2, <2>3, <2>4, <2>5 DEF TypeOK
<1> QED BY <1>1, DMInvariant, PTL

\* sendDm makes one message per key and window, whatever the key-value store loses, whichever
\* request crashes or stalls, and however the recipient is routed.
THEOREM DMOnePerWindow == Spec => []OnePerWindow
<1>1. DMInv => OnePerWindow
  BY DEF DMInv, MadeOK
<1> QED BY <1>1, DMInvariant, PTL

\* A request that succeeds, by its own write, a record, a claim or an intent, is answered with a
\* message of the body it sent: the fingerprints of replayOf and of sendDm suffice.
THEOREM DMAnswerIsOwn == Spec => []AnswerIsOwn
<1>1. ASSUME DMInv PROVE AnswerIsOwn
  BY <1>1, OpenReq DEF DMInv, Shapes, AnswerIsOwn, Running
<1> QED BY <1>1, DMInvariant, PTL

\* The claim row and the egress row of a key are about the same message, though they are expired
\* by different predicates and at different times.
THEOREM DMOneIdentity == Spec => []OneIdentity
<1>1. DMInv => OneIdentity
  BY DEF DMInv
<1> QED BY <1>1, DMInvariant, PTL

\* The settling batch of dispatchA2aEgress counts a message at most once, and exactly when it is sent.
THEOREM DMCountedOnce == Spec => []CountedOnce
<1>1. DMInv => CountedOnce
  BY DEF DMInv
<1> QED BY <1>1, DMInvariant, PTL

\* The key-value record of a direct message that no peer was registered for does not outlive the
\* window of its message: runIdempotent stores a replay for what is left of it.
THEOREM DMRecordWithinWindow == Spec => []RecordWithinWindow
<1>1. DMInv => RecordWithinWindow
  BY DEF DMInv, RecordOK
<1> QED BY <1>1, DMInvariant, PTL

\* An intent that was sent or failed is not reopened by a sender that lost its lease, nor dropped by a
\* cleanup before its window has passed.
THEOREM DMSettledStays == Spec => SettledStays
<1> DEFINE A == egress # None /\ egress.st \in {"sent", "failed"}
                  => (IF egress' # None THEN egress'.st = egress.st ELSE Elapsed(egress.at, now))
<1>1. ASSUME DMInv, [Next]_vars PROVE A
  <2>1. RowStep
    BY <1>1, RowSteps
  <2>2. CASE Posted \/ ClaimGone \/ Passes
    <3>1. egress' = egress
      BY <2>2 DEF Posted, ClaimGone, Passes, rowVars
    <3> QED BY <3>1
  <2>3. CASE Admitted
    BY <2>3 DEF Admitted
  <2>4. CASE EgressGone
    BY <2>4 DEF EgressGone
  <2>5. CASE EgressMoves
    BY <2>5, NotNone DEF EgressMoves
  <2> QED BY <2>1, <2>2, <2>3, <2>4, <2>5 DEF RowStep
<1>2. DMInv /\ [Next]_vars => [A]_vars
  BY <1>1
<1> QED BY <1>2, DMInvariant, PTL DEF Spec, SettledStays

=============================================================================
