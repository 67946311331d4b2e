--------------------------- MODULE DirectMessage ---------------------------
(***************************************************************************)
(* Sends that carry one Idempotency-Key of one sender: the key-value layer *)
(* of middleware/idempotency.ts around either a channel post               *)
(* (engine/message.ts), which has nothing else to recognise a retry by, or *)
(* a direct message (engine/dm.ts), whose claim row is written in the same *)
(* atomic batch as the message; and for a recipient registered with an     *)
(* external peer, the leased transport of engine/a2aEgress.ts, which       *)
(* requests and the maintenance sweep drive without a common lock.         *)
(*                                                                         *)
(* The clock counts parts of the 24 h window; the lock's 30 s and the      *)
(* lease's 120 s may pass between any two steps.  The delivery rows that   *)
(* the batch also writes are those of module Delivery.                     *)
(***************************************************************************)
EXTENDS Integers, FiniteSets

CONSTANTS
  Requests,   \* request slots; a slot is used again by a retry
  Sweepers,   \* overlapping runs of sweepPendingA2aEgress
  Payloads,   \* request bodies, as far as the fingerprint tells them apart
  Sites,      \* what a behaviour runs on: its route, "dm" or "post", whether the host
              \* has a key-value store, the bodies sent with the key, and a bound on
              \* the registrations of the external peer
  Window,     \* units of the retry window (24 h)
  Stall,      \* bound: units a request may take
  MaxTime,    \* bound: last value of the clock
  MaxMsg      \* bound: messages made

ASSUME DirectMessageAssumption ==
  /\ {Window, MaxMsg} \subseteq Nat \ {0}
  /\ {Stall, MaxTime} \subseteq Nat
  /\ Sites \subseteq [kind : {"dm", "post"}, kv : BOOLEAN, bodies : SUBSET Payloads, peers : Nat]
  /\ 2 * Stall < Window
  /\ Requests \cap Sweepers = {} /\ "none" \notin Requests \cup Sweepers

VARIABLES
  site,     \* the host of this behaviour
  now,      \* the clock
  record,   \* the record stored under the key, None if absent or expired
  lock,     \* whether the lock key is present
  claim,    \* direct_dm_idempotency row of the key
  egress,   \* a2a_egress row of the key, whether its message is retained, and how
            \* often a2a_agents.messages_sent counted it
  made,     \* messages written so far: payload and created_at
  peer,     \* registration of the recipient's external peer, 0 if none
  peers,    \* registrations made so far
  req,      \* request slots
  trip      \* transport state of each request and sweeper

kvVars == <<record, lock>>
rowVars == <<claim, egress, made>>
peerVars == <<peer, peers>>
shared == <<site, now, record, lock, claim, egress, made, peer, peers>>
vars == <<site, now, record, lock, claim, egress, made, peer, peers, req, trip>>

Msgs == 1..MaxMsg
Times == 0..MaxTime
Workers == Requests \cup Sweepers
None == [absent |-> TRUE]

\* A slot that is free remembers whether the last message it was answered with
\* had the body it had sent.
Idle == [pc |-> "idle", own |-> TRUE]

Fresh == CHOOSE m \in Msgs : made[m] = None /\ \A n \in Msgs : n < m => made[n] # None
Elapsed(at, t) == at + Window <= t

Operation == IF site.kind = "dm" THEN "lookup" ELSE "post"

\* The fields of a request: the body it carries, when it came, whether it wrote
\* the lock, the time it took for idempotency decisions, the registration it
\* found, the message and the base of the record's life, and whether it replays.
Start(p) == [pc |-> IF site.kv THEN "keys" ELSE Operation, pay |-> p, since |-> now, held |-> FALSE, clock |-> 0,
             url |-> 0, msg |-> 0, base |-> None, replay |-> FALSE]

Step(r, q) == req' = [req EXCEPT ![r] = q]
Goto(r, pc) == Step(r, [req[r] EXCEPT !.pc = pc])
Answer(r, m) == Step(r, [pc |-> "idle", own |-> made[m].pay = req[r].pay])
Refuse(r) == Step(r, Idle)
Running(r) == req[r].pc # "idle"
At(r, pc) == req[r].pc = pc

-----------------------------------------------------------------------------
(* runIdempotent: record and lock *)

Request(r, p) ==
  /\ ~Running(r)
  /\ Step(r, Start(p))
  /\ UNCHANGED <<shared, trip>>

\* Mutant: a stored record answers any body.
BugSame(p, q) == TRUE

\* The fingerprint comparison of replayOf and of the claim.
SamePayload(p, q) == p = q

\* A stored record answers the request, or refuses it with 409.
ReplayOf(r) ==
  IF SamePayload(record.pay, req[r].pay) THEN Answer(r, record.msg) ELSE Refuse(r)

\* The record and the lock are read in one round trip; a record answers on its
\* own.
ReadKeys(r) ==
  /\ At(r, "keys")
  /\ IF record # None THEN ReplayOf(r) ELSE Goto(r, IF lock THEN "contended" ELSE "acquire")
  /\ UNCHANGED <<shared, trip>>

\* One more read of the record before 409 idempotency_in_progress.
Contended(r) ==
  /\ At(r, "contended")
  /\ IF record # None THEN ReplayOf(r) ELSE Refuse(r)
  /\ UNCHANGED <<shared, trip>>

PutLock(r) ==
  /\ At(r, "acquire")
  /\ lock' = TRUE
  /\ Step(r, [req[r] EXCEPT !.pc = "recheck", !.held = TRUE])
  /\ UNCHANGED <<site, now, trip, record, rowVars, peerVars>>

\* A replay found now leaves the lock, which may be another request's.
Recheck(r) ==
  /\ At(r, "recheck")
  /\ IF record # None THEN ReplayOf(r) ELSE Goto(r, Operation)
  /\ UNCHANGED <<shared, trip>>

\* A call to the store fails: the request goes on unprotected.  After the lock
\* was written it is deleted first, whoever holds it by now.
StoreUnavailable(r) ==
  /\ req[r].pc \in {"keys", "contended", "acquire", "recheck"}
  /\ lock' \in (IF req[r].held THEN {FALSE, lock} ELSE {lock})
  /\ Step(r, [req[r] EXCEPT !.pc = Operation, !.held = FALSE])
  /\ UNCHANGED <<site, now, trip, record, rowVars, peerVars>>

\* Mutant: a replayed claim is cached for a whole window again.
BugLifeRenewed(q) == now + Window

\* How long a record may answer: to the end of the claim's window, or a whole
\* window for a result that names no lifetime (a post, a replayed egress).
RecordLife(q) == IF q.base = None THEN now + Window ELSE q.base.at + Window

\* The result is stored for what is left of its life, and the lock stays; too
\* little life, or a failing write, deletes the lock instead.
StoreResult(r) ==
  /\ At(r, "store")
  /\ LET q == req[r]
     IN  \/ /\ q.held /\ RecordLife(q) > now
            /\ record' = [msg |-> q.msg, pay |-> q.pay, until |-> RecordLife(q)]
            /\ UNCHANGED lock
         \/ /\ q.held
            /\ lock' \in {FALSE, lock}
            /\ UNCHANGED record
         \/ ~q.held /\ UNCHANGED kvVars
  /\ Answer(r, req[r].msg)
  /\ UNCHANGED <<site, now, trip, rowVars, peerVars>>

\* The operation fails: the lock, if the request wrote it, is deleted, whoever
\* holds it by now.
Fail(r) ==
  Step(r, IF req[r].held THEN [pc |-> "failed", since |-> req[r].since] ELSE Idle)

OperationFailed(r) ==
  /\ At(r, "failed")
  /\ lock' \in {FALSE, lock}
  /\ Refuse(r)
  /\ UNCHANGED <<site, now, trip, record, rowVars, peerVars>>

-----------------------------------------------------------------------------
(* postMessage *)

Post(r) ==
  /\ At(r, "post")
  /\ \E m \in Msgs : made[m] = None
  /\ made' = [made EXCEPT ![Fresh] = [pay |-> req[r].pay, at |-> now]]
  /\ Step(r, [req[r] EXCEPT !.pc = "store", !.msg = Fresh])
  /\ UNCHANGED <<site, now, trip, claim, egress, kvVars, peerVars>>

-----------------------------------------------------------------------------
(* sendDm *)

\* An accepted row is replayed, after the transport of the key, if it has one,
\* was given another try.
ReplayRow(r, row, base) ==
  IF SamePayload(row.pay, req[r].pay)
  THEN /\ Step(r, [req[r] EXCEPT !.pc = IF egress = None THEN "store" ELSE "transport", !.msg = row.msg,
                                  !.base = base, !.replay = TRUE, !.clock = 0])
       /\ trip' = IF egress = None THEN trip ELSE [trip EXCEPT ![r] = [pc |-> "read"]]
  ELSE Fail(r) /\ UNCHANGED trip

LookupClaim(r) ==
  /\ At(r, "lookup")
  /\ IF claim # None /\ ~Elapsed(claim.at, now)
     THEN ReplayRow(r, claim, [at |-> claim.at])
     ELSE /\ Step(r, [req[r] EXCEPT !.pc = IF claim = None THEN "egress" ELSE "expire", !.clock = now])
          /\ UNCHANGED trip
  /\ UNCHANGED shared

\* The delete repeats the age predicate: another request may have put a new
\* claim in its place.
ExpireClaim(r) ==
  /\ At(r, "expire")
  /\ claim' = IF claim # None /\ Elapsed(claim.at, req[r].clock) THEN None ELSE claim
  /\ Goto(r, "reread")
  /\ UNCHANGED <<site, now, trip, egress, made, kvVars, peerVars>>

RereadClaim(r) ==
  /\ At(r, "reread")
  /\ IF claim = None THEN Goto(r, "egress") /\ UNCHANGED trip
     ELSE ReplayRow(r, claim, [at |-> claim.at])
  /\ UNCHANGED shared

\* Mutant: an intent past its window is taken for absent.
BugIgnoresOldIntent(r) ==
  /\ At(r, "egress")
  /\ IF egress = None \/ Elapsed(egress.at, req[r].clock) THEN Goto(r, "prepare") /\ UNCHANGED trip
     ELSE ReplayRow(r, egress, None)
  /\ UNCHANGED shared

LookupEgress(r) ==
  /\ At(r, "egress")
  /\ IF egress = None THEN Goto(r, "prepare") /\ UNCHANGED trip
     ELSE IF Elapsed(egress.at, req[r].clock) THEN Goto(r, "expireEgress") /\ UNCHANGED trip
     ELSE ReplayRow(r, egress, None)
  /\ UNCHANGED shared

\* Mutant: the age predicate is dropped.
BugEligible(t) == ~egress.leased \/ egress.st # "sending"

\* cleanupEligible: past the window, and no live transport lease.
CleanupEligible(t) == Elapsed(egress.at, t) /\ (~egress.leased \/ egress.st # "sending")

ExpireEgress(r) ==
  /\ At(r, "expireEgress")
  /\ IF egress # None /\ CleanupEligible(req[r].clock)
     THEN egress' = None /\ Goto(r, "prepare")
     ELSE UNCHANGED egress /\ Goto(r, "rereadEgress")
  /\ UNCHANGED <<site, now, trip, claim, made, kvVars, peerVars>>

RereadEgress(r) ==
  /\ At(r, "rereadEgress")
  /\ IF egress = None THEN Goto(r, "prepare") /\ UNCHANGED trip ELSE ReplayRow(r, egress, None)
  /\ UNCHANGED shared

\* Recipient, attachments, conversation and the peer's registration are read,
\* and the time of the message is taken.  Any of them may refuse the send.
Prepare(r) ==
  /\ At(r, "prepare")
  /\ \/ Step(r, [req[r] EXCEPT !.pc = "admit", !.clock = 0, !.url = peer, !.base = [at |-> now], !.replay = FALSE])
     \/ Fail(r)
  /\ UNCHANGED <<shared, trip>>

\* Mutant: the claim is not part of the batch of a send to a peer.
BugAdmissible(q) == IF q.url # 0 THEN egress = None ELSE claim = None

\* The unique rows the batch starts with.
Admissible(q) == claim = None /\ (q.url # 0 => egress = None)

\* The atomic batch: claim, egress intent and message, or nothing.
Admit(r) ==
  LET q == req[r]
  IN  /\ At(r, "admit")
      /\ IF Admissible(q)
         THEN /\ \E m \in Msgs : made[m] = None
              /\ made' = [made EXCEPT ![Fresh] = [pay |-> q.pay, at |-> q.base.at]]
              /\ claim' = [msg |-> Fresh, pay |-> q.pay, at |-> q.base.at]
              /\ egress' = IF q.url = 0 THEN egress
                           ELSE [st |-> "pending", token |-> "none", leased |-> FALSE, at |-> now,
                                 msg |-> Fresh, pay |-> q.pay, url |-> q.url, kept |-> TRUE, counted |-> 0]
              /\ trip' = IF q.url = 0 THEN trip ELSE [trip EXCEPT ![r] = [pc |-> "read"]]
              /\ Step(r, [q EXCEPT !.pc = IF q.url = 0 THEN "store" ELSE "transport", !.msg = Fresh, !.url = 0])
         ELSE Goto(r, "lost") /\ UNCHANGED <<made, claim, egress, trip>>
      /\ UNCHANGED <<site, now, kvVars, peerVars>>

\* The loser looks up who won and starts over, or gives up.
Lost(r) ==
  /\ At(r, "lost")
  /\ LET winner == IF claim # None THEN claim ELSE IF req[r].url # 0 THEN egress ELSE None
     IN  IF winner # None /\ SamePayload(winner.pay, req[r].pay)
         THEN Step(r, [req[r] EXCEPT !.pc = "lookup", !.base = None, !.url = 0])
         ELSE Fail(r)
  /\ UNCHANGED <<shared, trip>>

-----------------------------------------------------------------------------
(* dispatchA2aEgress, by a request or a sweeper *)

Trip(w, t) == trip' = [trip EXCEPT ![w] = t]
On(w, pc) == trip[w].pc = pc

\* The transport ends.  A replay takes a transport that another sender holds
\* for accepted; an accepted egress that is replayed also needs its message.
\* The sweep swallows the error and goes on to its cleanup.
Return(w, res) ==
  IF w \in Sweepers THEN Trip(w, [pc |-> "cleanEgress"]) /\ UNCHANGED req
  ELSE LET q == req[w]
           accepted == res = "ok" \/ (res = "busy" /\ q.replay)
       IN  /\ Trip(w, [pc |-> "off"])
           /\ IF accepted /\ (q.base = None => egress # None /\ egress.kept) THEN Goto(w, "store") ELSE Fail(w)

ReadEgress(w) ==
  /\ On(w, "read")
  /\ IF egress = None \/ egress.st = "failed" THEN Return(w, "error")
     ELSE IF egress.st = "sent"
     THEN Return(w, IF Elapsed(egress.at, now) \/ ~egress.kept THEN "error" ELSE "ok")
     ELSE Trip(w, [pc |-> "claim"]) /\ UNCHANGED req
  /\ UNCHANGED shared

\* A pending row is due, or can no longer be sent at all; a sending row's lease
\* has run out.
Leasable ==
  /\ egress # None
  /\ \/ /\ egress.st = "pending"
        /\ \/ ~egress.leased \/ Elapsed(egress.at, now)
           \/ ~egress.kept \/ peer # egress.url
     \/ egress.st = "sending" /\ ~egress.leased

ClaimEgress(w) ==
  /\ On(w, "claim")
  /\ IF Leasable
     THEN /\ egress' = [egress EXCEPT !.st = "sending", !.token = w, !.leased = TRUE]
          /\ Trip(w, [pc |-> "attempt"])
          /\ UNCHANGED req
     ELSE UNCHANGED egress /\ Return(w, "busy")
  /\ UNCHANGED <<site, now, claim, made, kvVars, peerVars>>

\* Still the owner, inside the window, the message retained and the peer
\* registered where it was: read again before each attempt.
Sendable(w) ==
  /\ egress # None /\ egress.token = w /\ egress.st = "sending"
  /\ ~Elapsed(egress.at, now) /\ egress.kept /\ peer = egress.url

\* The peer accepts, refuses, or has given no answer that can be trusted when the
\* last try is over.
Attempt(w) ==
  /\ On(w, "attempt")
  /\ \E pc \in (IF Sendable(w) THEN {"accepted", "rejected", "unavailable"} ELSE {"rejected"}) :
       Trip(w, [pc |-> pc])
  /\ UNCHANGED <<shared, req>>

\* Mutant: the outcome is written whoever owns the row now.
BugOwns(w) == egress # None

\* The claim token of the settling updates.
Owns(w) == egress # None /\ egress.token = w

\* Mutant: the claim token is not cleared.
BugKeepsToken(st, leased) == [egress EXCEPT !.st = st, !.leased = leased]

Released(st, leased) == [egress EXCEPT !.st = st, !.token = "none", !.leased = leased]

\* The counter and the row in one batch; a transport that was refused ends the
\* row, one that failed leaves it for a retry.
Settle(w) ==
  /\ trip[w].pc \in {"accepted", "rejected", "unavailable"}
  /\ egress' = IF ~Owns(w) THEN egress
               ELSE CASE On(w, "accepted")    -> [Released("sent", FALSE) EXCEPT !.counted = @ + 1]
                      [] On(w, "rejected")    -> Released("failed", FALSE)
                      [] On(w, "unavailable") -> Released("pending", TRUE)
  /\ Return(w, IF On(w, "accepted") THEN "ok" ELSE "error")
  /\ UNCHANGED <<site, now, claim, made, peer, peers, kvVars>>

-----------------------------------------------------------------------------
(* sweepPendingA2aEgress *)

\* A row that is due is tried; then both tables are cleaned.
Sweep(w) ==
  /\ On(w, "off")
  /\ Trip(w, [pc |-> IF egress # None /\ egress.st \in {"pending", "sending"} /\ ~egress.leased
                     THEN "read" ELSE "cleanEgress"])
  /\ UNCHANGED <<shared, req>>

CleanupEgress(w) ==
  /\ On(w, "cleanEgress")
  /\ egress' = IF egress # None /\ CleanupEligible(now) THEN None ELSE egress
  /\ Trip(w, [pc |-> "cleanClaim"])
  /\ UNCHANGED <<site, now, claim, made, req, kvVars, peerVars>>

CleanupClaim(w) ==
  /\ On(w, "cleanClaim")
  /\ claim' = IF claim # None /\ Elapsed(claim.at, now) THEN None ELSE claim
  /\ Trip(w, [pc |-> "off"])
  /\ UNCHANGED <<site, now, egress, made, req, kvVars, peerVars>>

-----------------------------------------------------------------------------
(* The environment *)

\* Message retention; the rows that name a deleted message stay.
Prune ==
  /\ egress # None /\ egress.kept
  /\ egress' = [egress EXCEPT !.kept = FALSE]
  /\ UNCHANGED <<site, now, claim, made, req, trip, kvVars, peerVars>>

\* registerA2aAgent and removeA2aAgent: each registration is a new row.
RegisterPeer ==
  /\ peer = 0 /\ peers < site.peers
  /\ peers' = peers + 1 /\ peer' = peers + 1
  /\ UNCHANGED <<site, now, req, trip, kvVars, rowVars>>

RemovePeer ==
  /\ peer # 0
  /\ peer' = 0
  /\ UNCHANGED <<site, now, peers, req, trip, kvVars, rowVars>>

LockExpires ==
  /\ lock
  /\ lock' = FALSE
  /\ UNCHANGED <<site, now, record, req, trip, rowVars, peerVars>>

\* lease_until passes: 120 s after a claim, 30 s after a failed attempt.
LeaseExpires ==
  /\ egress # None /\ egress.leased
  /\ egress' = [egress EXCEPT !.leased = FALSE]
  /\ UNCHANGED <<site, now, claim, made, req, trip, kvVars, peerVars>>

\* A request or a sweep ends with its process.
Crash(w) ==
  /\ IF w \in Requests THEN Running(w) ELSE ~On(w, "off")
  /\ Trip(w, [pc |-> "off"])
  /\ req' = IF w \in Requests THEN [req EXCEPT ![w] = Idle] ELSE req
  /\ UNCHANGED shared

\* No request takes longer than Stall.  What has expired is not readable.  Only
\* differences of times matter: it need not pass before a time was taken.
Tick ==
  /\ now < MaxTime
  /\ made[1] # None \/ \E r \in Requests : At(r, "admit")
  /\ \A r \in Requests : Running(r) => now - req[r].since < Stall
  /\ now' = now + 1
  /\ record' = IF record # None /\ record.until <= now + 1 THEN None ELSE record
  /\ UNCHANGED <<site, lock, req, trip, rowVars, peerVars>>

-----------------------------------------------------------------------------
Init ==
  /\ site \in Sites
  /\ now = 0
  /\ record = None /\ lock = FALSE
  /\ claim = None /\ egress = None
  /\ made = [m \in Msgs |-> None]
  /\ peer = 0 /\ peers = 0
  /\ req = [r \in Requests |-> Idle]
  /\ trip = [w \in Workers |-> [pc |-> "off"]]

Keyed(r) ==
  \/ \E p \in site.bodies : Request(r, p)
  \/ ReadKeys(r) \/ Contended(r) \/ PutLock(r) \/ Recheck(r)
  \/ StoreUnavailable(r) \/ StoreResult(r) \/ OperationFailed(r)

SendDm(r) ==
  \/ LookupClaim(r) \/ ExpireClaim(r) \/ RereadClaim(r)
  \/ LookupEgress(r) \/ ExpireEgress(r) \/ RereadEgress(r)
  \/ Prepare(r) \/ Admit(r) \/ Lost(r)

Dispatch(w) ==
  ReadEgress(w) \/ ClaimEgress(w) \/ Attempt(w) \/ Settle(w)

Next ==
  \/ \E r \in Requests : Keyed(r) \/ Post(r) \/ SendDm(r)
  \/ \E w \in Workers : Dispatch(w) \/ Crash(w)
  \/ \E w \in Sweepers : Sweep(w) \/ CleanupEgress(w) \/ CleanupClaim(w)
  \/ Prune \/ RegisterPeer \/ RemovePeer \/ LockExpires \/ LeaseExpires \/ Tick

Spec == Init /\ [][Next]_vars

-----------------------------------------------------------------------------
(* Properties *)

Payload(v) == v.pay \in Payloads
Message(v) == v.msg \in Msgs /\ Payload(v)

\* Rows, records and requests are well formed, and what they name was written:
\* no record, claim or intent survives for a message that does not exist.
TypeOK ==
  /\ site \in Sites /\ now \in Times /\ lock \in BOOLEAN
  /\ \A v \in {record, claim, egress} \ {None} : Message(v) /\ made[v.msg] # None
  /\ egress # None => /\ egress.st \in {"pending", "sending", "sent", "failed"}
                      /\ egress.token \in Workers \cup {"none"}
                      /\ egress.st = "sending" <=> egress.token # "none"
                      /\ egress.url \in 1..peers /\ egress.counted \in Nat
  /\ \A m \in Msgs : made[m] # None => Payload(made[m]) /\ made[m].at \in Times
  /\ peer \in 0..peers /\ peers \in 0..site.peers
  /\ \A r \in Requests : req[r].pc = "transport" <=> trip[r].pc # "off"

\* A retry never makes a second message: two direct messages sent with one key
\* were written for different windows, whatever the store lost, whichever
\* request crashed and however the recipient was routed in between.
OnePerWindow ==
  site.kind = "dm" =>
    \A m, n \in Msgs : m < n /\ made[n] # None => Elapsed(made[m].at, made[n].at)

\* A request that is told its send succeeded is given a message with the body
\* it asked for, from whichever of the three places it was answered.
AnswerIsOwn ==
  \A r \in Requests : ~Running(r) => req[r].own

\* The claim and the intent of a key are about one message: the replay of the
\* claim drives the transport of that message and of no other.
OneIdentity ==
  claim # None /\ egress # None => claim.msg = egress.msg

\* messages_sent counts a message once, however many senders took its lease
\* from one another and found the peer accepting it.
CountedOnce ==
  egress # None => egress.counted <= 1 /\ (egress.counted = 1 <=> egress.st = "sent")

\* A transport that was settled stays so until its window has passed: neither
\* a sender that lost its lease nor cleanup reopens or drops it.
SettledStays ==
  [][egress # None /\ egress.st \in {"sent", "failed"}
       => (IF egress' # None THEN egress'.st = egress.st ELSE Elapsed(egress.at, now))]_vars

\* The record of a direct message is gone when its window is: from then on the
\* key is fresh.  A replayed intent names no lifetime and is stored for a whole
\* window, so that a message that went to a peer is left out.
RecordWithinWindow ==
  site.kind = "dm" /\ record # None /\ peers = 0 => record.until <= made[record.msg].at + Window

=============================================================================
