------------------------------ MODULE HttpPush ------------------------------
(***************************************************************************)
(* Pushing one delivery row to an http_push node (dispatchHttpPush and     *)
(* recordDispatchRetry of routes/deliveryRouting.ts, the due rows of       *)
(* fetchDueNodeDeliveryEvents).                                            *)
(*                                                                         *)
(* The background dispatch of the request that created the row and any     *)
(* number of overlapping sweeps may hold the same row at the same time.    *)
(* next_attempt_at is both the retry time and the token of the claim: a    *)
(* dispatcher claims the row only if the token is the one it fetched.  The *)
(* node's ack_mode is read with each dispatch and left open.               *)
(***************************************************************************)
EXTENDS Integers, FiniteSets

CONSTANTS
  Dispatchers, \* the background dispatch and overlapping sweeps
  Delay,       \* DISPATCH_RETRY_DELAY_MS
  Attempt,     \* longest time from a claim to the last write of the attempt
  MaxRest,     \* bound: how often the recipient fails or defers the row
  Horizon      \* bound: the time at which the clock stops

\* A POST is aborted after 10 s and a claim is good for 30 s.
ASSUME PushAssumption == /\ Delay \in Nat
                         /\ Attempt \in Nat
                         /\ {MaxRest, Horizon} \subseteq Nat
                         /\ Attempt < Delay

VARIABLES
  now,       \* the clock
  rowStatus, \* deliveries.status
  next,      \* deliveries.next_attempt_at
  job,       \* what each dispatcher does
  acked,     \* delivery.acked reports made to the sender
  rest       \* how often the recipient has failed or deferred the row

pushVars == <<now, rowStatus, next, job, acked, rest>>

Null == -1
IdleJob == [pc |-> "idle", token |-> Null, until |-> 0]
Attempting(d) == job[d].pc \in {"post", "accepted", "rejected"}

-----------------------------------------------------------------------------
(* One dispatcher *)

Due == rowStatus = "queued" /\ (next = Null \/ next <= now)

\* The dispatcher reads the row with its token: the sweep a due one, the
\* background dispatch the one that was just created.
Fetch(d) ==
  /\ job[d].pc = "idle"
  /\ Due
  /\ job' = [job EXCEPT ![d] = [pc |-> "claim", token |-> next, until |-> 0]]
  /\ UNCHANGED <<now, rowStatus, next, acked, rest>>

\* Mutant: a row that was never attempted is claimed without its token.
BugClaimFreshUnguarded(d) ==
  /\ job[d].pc = "claim"
  /\ IF rowStatus = "queued" /\ (job[d].token = Null \/ next = job[d].token)
     THEN /\ next' = now + Delay
          /\ job' = [job EXCEPT ![d] = [pc |-> "post", token |-> Null, until |-> now + Attempt]]
     ELSE job' = [job EXCEPT ![d] = IdleJob] /\ UNCHANGED next
  /\ UNCHANGED <<now, rowStatus, acked, rest>>

\* The guarded UPDATE that starts an attempt; who loses it gives up.
Claim(d) ==
  /\ job[d].pc = "claim"
  /\ IF rowStatus = "queued" /\ next = job[d].token
     THEN /\ next' = now + Delay
          /\ job' = [job EXCEPT ![d] = [pc |-> "post", token |-> Null, until |-> now + Attempt]]
     ELSE job' = [job EXCEPT ![d] = IdleJob] /\ UNCHANGED next
  /\ UNCHANGED <<now, rowStatus, acked, rest>>

\* The receiver answers 2xx; or anything else, nothing in time, or the
\* headers could not be signed.
Response(d, answer) ==
  /\ job[d].pc = "post"
  /\ job' = [job EXCEPT ![d].pc = answer]
  /\ UNCHANGED <<now, rowStatus, next, acked, rest>>

\* The node's config has no usable url or proxy: no claim is made, and the
\* retry is recorded whatever the token.
Misconfigured(d) ==
  /\ job[d].pc = "claim"
  /\ next' = IF rowStatus = "queued" THEN now + Delay ELSE next
  /\ job' = [job EXCEPT ![d] = IdleJob]
  /\ UNCHANGED <<now, rowStatus, acked, rest>>

\* recordDispatchRetry: no 2xx, or one that does not carry the ack that
\* ack_mode "response" expects.
RecordRetry(d) ==
  /\ job[d].pc \in {"rejected", "accepted"}
  /\ next' = IF rowStatus = "queued" THEN now + Delay ELSE next
  /\ job' = [job EXCEPT ![d] = IdleJob]
  /\ UNCHANGED <<now, rowStatus, acked, rest>>

\* A 2xx with ack_mode "manual": queued -> delivered.
PushMarkDelivered(d) ==
  /\ job[d].pc = "accepted"
  /\ IF rowStatus = "queued"
     THEN rowStatus' = "delivered" /\ next' = Null
     ELSE UNCHANGED <<rowStatus, next>>
  /\ job' = [job EXCEPT ![d] = IdleJob]
  /\ UNCHANGED <<now, acked, rest>>

\* Mutant: the sender is told whether or not the row was settled before.
BugAckAlwaysReports(d) ==
  /\ job[d].pc = "accepted"
  /\ rowStatus' = "acked" /\ next' = Null
  /\ acked' = acked + 1
  /\ job' = [job EXCEPT ![d] = IdleJob]
  /\ UNCHANGED <<now, rest>>

\* A 2xx that is the ack (ackDelivery); only a change is reported.
AckInResponse(d) ==
  /\ job[d].pc = "accepted"
  /\ IF rowStatus = "acked"
     THEN UNCHANGED <<rowStatus, next, acked>>
     ELSE rowStatus' = "acked" /\ next' = Null /\ acked' = acked + 1
  /\ job' = [job EXCEPT ![d] = IdleJob]
  /\ UNCHANGED <<now, rest>>

\* The process that runs the dispatcher dies.
Die(d) ==
  /\ job[d].pc # "idle"
  /\ job' = [job EXCEPT ![d] = IdleJob]
  /\ UNCHANGED <<now, rowStatus, next, acked, rest>>

-----------------------------------------------------------------------------
(* The recipient, over REST *)

Ack ==
  /\ rowStatus # "acked"
  /\ rowStatus' = "acked" /\ next' = Null
  /\ acked' = acked + 1
  /\ UNCHANGED <<now, job, rest>>

Fail ==
  /\ rowStatus \in {"queued", "delivered"} /\ rest < MaxRest
  /\ rowStatus' = "failed"
  /\ rest' = rest + 1
  /\ UNCHANGED <<now, next, job, acked>>

Defer ==
  /\ rowStatus \in {"failed", "delivered"} /\ rest < MaxRest
  /\ rowStatus' = "queued"
  /\ rest' = rest + 1
  /\ UNCHANGED <<now, next, job, acked>>

\* Time passes, but no attempt outlives its time.
Tick ==
  /\ now < Horizon
  /\ \A d \in Dispatchers : Attempting(d) => now < job[d].until
  /\ now' = now + 1
  /\ UNCHANGED <<rowStatus, next, job, acked, rest>>

-----------------------------------------------------------------------------
PushInit ==
  /\ now = 0
  /\ rowStatus = "queued"
  /\ next = Null
  /\ job = [d \in Dispatchers |-> IdleJob]
  /\ acked = 0
  /\ rest = 0

PushNext ==
  \/ \E d \in Dispatchers :
       \/ Fetch(d) \/ Claim(d) \/ Misconfigured(d) \/ RecordRetry(d)
       \/ Response(d, "accepted") \/ Response(d, "rejected")
       \/ PushMarkDelivered(d) \/ AckInResponse(d) \/ Die(d)
  \/ Ack \/ Fail \/ Defer
  \/ Tick

PushSpec == PushInit /\ [][PushNext]_pushVars

-----------------------------------------------------------------------------
(* Properties *)

Jobs == [pc : {"idle", "claim", "post", "accepted", "rejected"},
         token : {Null} \cup Nat, until : Nat]

\* The row and the jobs of its dispatchers are well formed.
PushTypeOK ==
  /\ now \in Nat
  /\ rowStatus \in {"queued", "delivered", "failed", "acked"}
  /\ next \in {Null} \cup Nat
  /\ job \in [Dispatchers -> Jobs]
  /\ acked \in Nat
  /\ rest \in Nat

\* No two dispatchers push the row at the same time: the webhook is never
\* POSTed twice at once, however the background dispatch, the sweeps and the
\* recipient's own transitions overlap.
OneAttempt ==
  \A d, e \in Dispatchers : Attempting(d) /\ Attempting(e) => d = e

\* The sender learns once that the row was acked, also when the recipient acks
\* over REST while a POST that counts as an ack is in flight.
AckedOnce == acked <= 1

=============================================================================
