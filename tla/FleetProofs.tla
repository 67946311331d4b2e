---------------------------- MODULE FleetProofs ----------------------------
(***************************************************************************)
(* Proofs about Fleet, for any providers, agents, invocations and workers: *)
(* the type invariant, that the tail of an offline claim settles every row *)
(* of before the claim and no other, and that a claim is published once.   *)
(***************************************************************************)
EXTENDS Fleet, TLAPS

-----------------------------------------------------------------------------
(* Types *)

\* Where a worker can be in its operation.
Pcs == {"off", "list", "write", "refresh", "online", "agents", "before", "mark", "claim", "reread",
        "providers", "agentslost", "agentsquiet", "invocations", "move", "emit", "delete"}
\* What a worker is about.
Jobs == {"none", "register", "heartbeat", "disconnect", "deregister", "sweep", "owner", "forced", "unforced"}
\* The states of the node row.
NodeStatus == {"online", "offline", "deleted"}

\* What a worker carries.
Worker == [pc : Pcs, job : Jobs, p : Providers \cup {None}, locked : BOOLEAN, rev : Revs, claim : Revs,
           before : NodeStatus, seen : SUBSET (Providers \cup (Children \X Nat))]
\* A row bound to the node: a provider, an agent or an invocation.
Child == [st : {"on", "off", "gone", "quiet"}, rev : Nat]

\* The rows and the workers are records of their kind.
Shapes ==
  /\ child \in [Children -> Child]
  /\ wk \in [Workers -> Worker]
  /\ news \in [last : {"none", "online", "offline"} \X Revs, n : 0..MaxNews]

\* A worker finishes a claim that was made; a control frame has none.
ClaimsPast == \A w \in Workers :
  /\ wk[w].claim <= node.rev
  /\ wk[w].pc \in {"off", "list", "write", "refresh", "online", "agents", "before", "mark", "claim", "reread"}
       => wk[w].claim = 0

\* The types, the shapes of the records, and claims that were made.
FleetType == TypeOK /\ Shapes /\ ClaimsPast

-----------------------------------------------------------------------------
(* The boundary of a claim *)

\* What is not of before r carries r or a later revision.
Boundary(r) == \A x \in Children : x \notin old[r] => child[x].rev >= r

\* So it is for the claim the node is at, and for each one being finished.
Boundaries ==
  node.st # "deleted" =>
    /\ node.st = "offline" => Boundary(node.rev)
    /\ \A w \in Workers : wk[w].claim # 0 => Boundary(wk[w].claim)

\* The attempts a tail has listed are older than its claim.
Listed == \A w \in Workers :
  (wk[w].pc = "move" /\ wk[w].claim # 0) => \A s \in wk[w].seen : s[2] < wk[w].claim

\* A chosen revision is above what was up when it was chosen.
TakenAbove ==
  /\ taken \subseteq 1..node.rev
  /\ \A r \in taken : \A x \in old[r] : child[x].st = "on" => child[x].rev < r

\* Of the rows among xs from before r, none is up.
Swept(r, xs) == \A x \in old[r] : x \in xs => child[x].st # "on"

\* What each statement of a tail has settled once it ran.
TailSettles == \A w \in Workers : wk[w].claim \in taken =>
  /\ wk[w].pc \in {"agentslost", "agentsquiet", "invocations", "move", "emit"} => Swept(wk[w].claim, Providers)
  /\ wk[w].pc \in {"agentsquiet", "invocations", "move", "emit"} => Swept(wk[w].claim, Agents)
  /\ wk[w].pc = "move" => \A x \in old[wk[w].claim] :
       (x \in Invocations /\ child[x].st = "on") => <<x, child[x].rev>> \in wk[w].seen
  /\ wk[w].pc = "emit" => Swept(wk[w].claim, Invocations)

\* An offline event of a claim came after the heartbeat of the row it is about.
Published ==
  /\ node.mark <= news.n
  /\ (news.last[1] = "offline" /\ news.last[2] # 0) =>
       news.last[2] <= node.rev /\ (news.last[2] = node.rev => node.mark < news.n)

\* The inductive invariant: the parts above together.
FleetInv == FleetType /\ Boundaries /\ Listed /\ TakenAbove /\ TailSettles /\ Published

-----------------------------------------------------------------------------
(* What a step does to the rows *)

\* The states a row of each kind can be in.
Kinds(x) == {"on", "off"} \cup (IF x \in Providers THEN {"gone"} ELSE {})
                          \cup (IF x \in Agents THEN {"quiet"} ELSE {})

\* The node moves to a new revision; a claim takes one above all that is up.
Advance ==
  /\ node.st # "deleted"
  /\ node' \in [st : {"online", "offline"}, fresh : BOOLEAN, rev : Revs, mark : 0..MaxNews]
  /\ node.rev < node'.rev /\ node'.mark = news.n
  /\ child' = child /\ news' = news
  /\ old' = [old EXCEPT ![node'.rev] = IF node'.st = "offline" THEN Children ELSE {}]
  /\ \/ taken' = taken
     \/ /\ taken' = taken \cup {node'.rev}
        /\ \A x \in Children : child[x].st = "on" => child[x].rev < node'.rev

\* A row is left alone, written (and is then of no earlier claim), or settled.
Touch ==
  /\ node'.st = node.st /\ node'.rev = node.rev /\ node'.mark = node.mark /\ node'.fresh \in BOOLEAN
  /\ node' \in [st : NodeStatus, fresh : BOOLEAN, rev : Revs, mark : 0..MaxNews]
  /\ taken' = taken
  /\ child' \in [Children -> Child] /\ old' \in [Revs -> SUBSET Children]
  /\ \A r \in Revs : old'[r] \subseteq old[r]
  /\ \A x \in Children : child'[x].st \in Kinds(x)
  /\ \A x \in Children :
       \/ child'[x] = child[x] /\ \A r \in Revs : x \in old[r] => x \in old'[r]
       \/ child'[x].rev = node.rev + 1 /\ \A r \in Revs : x \notin old'[r]
       \/ /\ child'[x].st # "on" /\ child'[x].rev \in {child[x].rev, node.rev + 1}
          /\ \A r \in Revs : x \in old[r] => x \in old'[r]

\* The node is deleted.
Erase ==
  /\ node' = [node EXCEPT !.st = "deleted", !.fresh = FALSE]
  /\ child' \in [Children -> Child] /\ news' = news
  /\ \A x \in Children : child'[x].st \in Kinds(x) /\ child'[x].rev = child[x].rev
  /\ old' = [r \in Revs |-> {}] /\ taken' = taken

\* What a worker does: only the steps of a tail move on along it.
TailStep(w) == SettleProviders(w) \/ SettleAgents(w) \/ SettleQuiet(w) \/ ListInvocations(w) \/ MoveInvocation(w)

\* One worker moves: outside the steps of a tail it makes its claim or drops it.
WkStep(w) == \E y \in Worker :
  /\ wk' = [wk EXCEPT ![w] = y]
  /\ y.claim \in {0, wk[w].claim} \/ (y.claim = node'.rev /\ node'.st = "offline")
  /\ y.pc \in {"off", "list", "write", "refresh", "online", "agents", "before", "mark", "claim", "reread"}
       => y.claim = 0
  /\ y.pc \in {"agentslost", "agentsquiet", "invocations", "move", "emit"} => y.claim = 0 \/ TailStep(w)

\* What is published: a claim only under its own condition.
NewsStep ==
  \/ news' = news
  \/ /\ news.n < MaxNews /\ node' = node
     /\ \/ news' = [last |-> <<"online", 0>>, n |-> news.n + 1]
        \/ \E c \in Revs : /\ news' = [last |-> <<"offline", c>>, n |-> news.n + 1]
                           /\ c # 0 => \E same \in BOOLEAN : EmitMatches(c, same)

-----------------------------------------------------------------------------
(* Each operation *)

\* The revision of a claim: one or two above the node's, and above what is up.
LEMMA NextRevisionOK ==
  ASSUME FleetType
  PROVE  /\ NextRevision \in Nat /\ node.rev < NextRevision /\ NextRevision <= node.rev + 2
         /\ \A x \in Children : child[x].st = "on" => child[x].rev < NextRevision
<1> DEFINE S == {node.rev} \cup {child[p].rev : p \in {q \in Providers : child[q].st # "gone"}}
                           \cup {child[x].rev : x \in OnNode(Agents \cup Invocations)}
           m == IF node.rev + 1 \in S THEN node.rev + 1 ELSE node.rev
<1>0. node.rev \in Nat /\ \A x \in Children : child[x].rev \in 0..(node.rev + 1)
  BY FleetAssumption DEF FleetType, TypeOK, Revs
<1>1. \A s \in S : s \in 0..(node.rev + 1)
  BY <1>0 DEF OnNode, Children
<1>3. node.rev \in S /\ \A x \in Children : child[x].st = "on" => child[x].rev \in S
  BY DEF Children, OnNode
<1> HIDE DEF S
<1>2. m \in S /\ \A s \in S : m >= s
  BY <1>0, <1>1, <1>3
<1> HIDE DEF m
<1>4. Max(S) \in S /\ \A s \in S : Max(S) >= s
  BY <1>2 DEF Max
<1>5. NextRevision = 1 + Max(S)
  BY DEF NextRevision, S
<1> QED
  BY <1>0, <1>1, <1>3, <1>4, <1>5

\* A step that writes the node row and none of those bound to it.
LEMMA NodeWriteOK ==
  ASSUME FleetType, Exists, NEW st \in {"online", "offline"}, NodeWrite(st), child' = child, news' = news
  PROVE  Advance
BY FleetAssumption DEF FleetType, TypeOK, Shapes, NodeWrite, Advance, Revs, Exists

\* A write by someone who is not a claim's tail.
LEMMA WriteOK ==
  ASSUME FleetType, NEW xs \in SUBSET Children, NEW st \in {"on", "off", "gone", "quiet"}, Write(xs, st),
         \A x \in xs : st \in Kinds(x), node' = node
  PROVE  Touch
<1> DEFINE z == [st |-> st, rev |-> node.rev + 1]
<1>0. node.rev \in Nat /\ child \in [Children -> Child] /\ \A x \in Children : child[x].st \in Kinds(x)
  BY FleetAssumption DEF FleetType, TypeOK, Shapes, Revs, Kinds
<1>1. z \in Child /\ z.st = st /\ z.rev = node.rev + 1
  BY <1>0 DEF Child
<1> HIDE DEF z
<1>2. child' = [x \in Children |-> IF x \in xs THEN z ELSE child[x]]
  BY DEF Write, Stamped, z
<1>3. child' \in [Children -> Child] /\ \A x \in Children : child'[x].st \in Kinds(x)
  BY <1>0, <1>1, <1>2
<1>4. old' = [r \in Revs |-> old[r] \ xs] /\ taken' = taken /\ old \in [Revs -> SUBSET Children]
  BY DEF Write, FleetType, TypeOK
<1>5. ASSUME NEW x \in Children
      PROVE \/ child'[x] = child[x] /\ \A r \in Revs : x \in old[r] => x \in old'[r]
            \/ child'[x].rev = node.rev + 1 /\ \A r \in Revs : x \notin old'[r]
  BY <1>1, <1>2, <1>4
<1>6. node \in [st : NodeStatus, fresh : BOOLEAN, rev : Revs, mark : 0..MaxNews]
  BY DEF FleetType, TypeOK, NodeStatus
<1> QED
  BY <1>3, <1>4, <1>5, <1>6 DEF Touch

\* A statement of a tail.
LEMMA SettleOK ==
  ASSUME FleetType, NEW w \in Workers, NEW xs \in SUBSET Children, NEW from, NEW st \in {"off", "quiet"},
         Settle(w, xs, from, st), \A x \in xs : st \in Kinds(x), UNCHANGED <<node, history>>
  PROVE  Touch
<1> DEFINE z == [st |-> st, rev |-> node.rev + 1]
           hit == {x \in xs : child[x].st \in from /\ Covered(x, wk[w].claim)}
<1>0. node.rev \in Nat /\ child \in [Children -> Child] /\ \A x \in Children : child[x].st \in Kinds(x)
  BY FleetAssumption DEF FleetType, TypeOK, Shapes, Revs, Kinds
<1>1. z \in Child /\ z.st = st /\ z.rev = node.rev + 1
  BY <1>0 DEF Child
<1>2. child' = [x \in Children |-> IF x \in hit THEN z ELSE child[x]]
  BY DEF Settle, Stamped
<1> HIDE DEF z, hit
<1>3. hit \subseteq xs
  BY DEF hit
<1>4. child' \in [Children -> Child] /\ \A x \in Children : child'[x].st \in Kinds(x)
  BY <1>0, <1>1, <1>2, <1>3
<1>5. old' = old /\ taken' = taken /\ node' = node /\ old \in [Revs -> SUBSET Children]
  BY DEF FleetType, TypeOK, history
<1>6. \A x \in Children : child'[x] = child[x] \/ (child'[x].st # "on" /\ child'[x].rev = node.rev + 1)
  BY <1>1, <1>2
<1>7. node \in [st : NodeStatus, fresh : BOOLEAN, rev : Revs, mark : 0..MaxNews]
  BY DEF FleetType, TypeOK, NodeStatus
<1> QED
  BY <1>4, <1>5, <1>6, <1>7 DEF Touch

\* The rows stay as they are.
LEMMA RestOK ==
  ASSUME FleetType, child' = child, UNCHANGED history,
         node' = node \/ node' = [node EXCEPT !.fresh = FALSE]
  PROVE  Touch
<1>1. node \in [st : NodeStatus, fresh : BOOLEAN, rev : Revs, mark : 0..MaxNews]
  BY DEF FleetType, TypeOK, NodeStatus
<1>2. /\ node'.st = node.st /\ node'.rev = node.rev /\ node'.mark = node.mark /\ node'.fresh \in BOOLEAN
      /\ node' \in [st : NodeStatus, fresh : BOOLEAN, rev : Revs, mark : 0..MaxNews]
  BY <1>1
<1> QED
  BY <1>2 DEF Touch, FleetType, TypeOK, Shapes, Kinds, history

\* Every operation advances the node, touches rows or erases them.
LEMMA RowSteps == FleetType /\ Next => Advance \/ Touch \/ Erase
<1> SUFFICES ASSUME FleetType, Next PROVE Advance \/ Touch \/ Erase
  OBVIOUS
<1>0. child \in [Children -> Child] /\ wk \in [Workers -> Worker] /\ \A x \in Children : child[x].st \in Kinds(x)
  BY DEF FleetType, Shapes, TypeOK, Kinds
<1>k. /\ \A x \in Children : "on" \in Kinds(x) /\ "off" \in Kinds(x)
      /\ \A x \in Providers : "gone" \in Kinds(x)
      /\ \A x \in Agents : "quiet" \in Kinds(x)
  BY DEF Kinds
<1>c. Providers \subseteq Children /\ Agents \subseteq Children /\ Invocations \subseteq Children
  BY DEF Children
<1>1. ASSUME NEW w \in Workers, NEW p \in Providers,
             Register(w, p) \/ Heartbeat(w, p) \/ Disconnect(w, p) \/ Deregister(w, p)
      PROVE  Touch
  <2>1. CASE Register(w, p) \/ Heartbeat(w, p) \/ Deregister(w, p)
    <3>1. node' = node /\ (Write({p}, "on") \/ Write({p}, "gone"))
      BY <2>1 DEF Register, Heartbeat, Deregister
    <3>2. {p} \in SUBSET Children
      BY <1>c
    <3> QED
      BY <3>1, <3>2, <1>k, <1>c, WriteOK
  <2>2. CASE Disconnect(w, p)
    <3> DEFINE xs == {p} \cap {x \in Providers : child[x].st # "gone"}
    <3>1. node' = node /\ (Write(xs, "off") \/ (child' = child /\ UNCHANGED history))
      BY <2>2 DEF Disconnect
    <3>2. xs \in SUBSET Children
      BY <1>c
    <3> HIDE DEF xs
    <3> QED
      BY <3>1, <3>2, <1>k, WriteOK, RestOK
  <2> QED
    BY <1>1, <2>1, <2>2
<1>2. ASSUME NEW w \in Workers, Refresh(w) \/ WriteAggregate(w) \/ Mark(w) PROVE Advance \/ Touch
  <2>1. \A on : Aggregate(on) \in {"online", "offline"}
    BY DEF Aggregate
  <2>2. /\ child' = child /\ news' = news
        /\ (Exists /\ \E st \in {"online", "offline"} : NodeWrite(st)) \/ UNCHANGED <<node, history>>
    BY <1>2, <2>1 DEF Refresh, WriteAggregate, Mark
  <2> QED
    BY <2>2, NodeWriteOK, RestOK DEF history
<1>3. ASSUME NEW w \in Workers, AgentsOff(w) PROVE Touch
  <2> DEFINE xs == {a \in Agents : AgentProvider[a] = wk[w].p /\ child[a].st \in {"on", "quiet"}}
  <2>1. xs \in SUBSET Children /\ xs \subseteq Agents
    BY <1>c
  <2>2. Write(xs, "quiet") /\ node' = node
    <3>1. child' = [x \in Children |-> IF x \in xs THEN Stamped(x, "quiet") ELSE child[x]]
      BY <1>3 DEF AgentsOff
    <3>2. old' = [r \in Revs |-> old[r] \ xs] /\ taken' = taken /\ node' = node
      BY <1>3 DEF AgentsOff
    <3> QED
      BY <3>1, <3>2 DEF Write
  <2> HIDE DEF xs
  <2> QED
    BY <2>1, <2>2, <1>k, WriteOK
<1>4. ASSUME NEW w \in Workers, Claim(w) PROVE Advance \/ Touch
  <2>1. CASE UNCHANGED <<node, history>>
    BY <1>4, <2>1, RestOK DEF Claim
  <2>2. CASE ~UNCHANGED <<node, history>>
    <3>1. /\ node' = [st |-> "offline", fresh |-> TRUE, rev |-> NextRevision, mark |-> news.n]
          /\ old' = [old EXCEPT ![NextRevision] = Children] /\ taken' = taken \cup {NextRevision}
          /\ NextRevision <= MaxRev /\ child' = child /\ news' = news /\ node.st = "online"
      BY <1>4, <2>2 DEF Claim
    <3>2. NextRevision \in Revs /\ node.rev < NextRevision /\ news.n \in 0..MaxNews
          /\ \A x \in Children : child[x].st = "on" => child[x].rev < NextRevision
      BY <3>1, NextRevisionOK, FleetAssumption DEF Revs, FleetType, TypeOK
    <3> QED
      BY <3>1, <3>2 DEF Advance
  <2> QED
    BY <2>1, <2>2
<1>5. ASSUME NEW w \in Workers, SettleProviders(w) \/ SettleAgents(w) \/ SettleQuiet(w) PROVE Touch
  BY <1>5, <1>k, <1>c, SettleOK DEF SettleProviders, SettleAgents, SettleQuiet
<1>6. ASSUME NEW w \in Workers, MoveInvocation(w) PROVE Touch
  <2>1. UNCHANGED <<node, history>>
    BY <1>6 DEF MoveInvocation
  <2>2. CASE child' = child
    BY <2>1, <2>2, RestOK
  <2>3. CASE child' # child
    <3>1. PICK s \in wk[w].seen : child' = [child EXCEPT ![s[1]] = [st |-> "off", rev |-> child[s[1]].rev]]
      BY <1>6, <2>3 DEF MoveInvocation
    <3> DEFINE k == s[1]  z == [st |-> "off", rev |-> child[k].rev]
    <3>2. child' = [child EXCEPT ![k] = z]
      BY <3>1
    <3>3. k \in Children
      BY <1>0, <2>3, <3>2
    <3>4. z \in Child /\ z.st = "off" /\ z.rev = child[k].rev
      BY <3>3, <1>0 DEF Child
    <3> HIDE DEF k, z
    <3>5. child' \in [Children -> Child] /\ \A x \in Children : child'[x].st \in Kinds(x)
      BY <1>0, <1>k, <3>2, <3>3, <3>4
    <3>6. \A x \in Children : child'[x] = child[x] \/ (child'[x].st # "on" /\ child'[x].rev = child[x].rev)
      BY <1>0, <3>2, <3>3, <3>4
    <3> QED
      BY <2>1, <3>5, <3>6 DEF Touch, FleetType, TypeOK, NodeStatus, history
  <2> QED
    BY <2>2, <2>3
<1>7. ASSUME NEW w \in Workers, Delete(w) PROVE Touch \/ Erase
  <2>1. CASE UNCHANGED <<node, child, history>>
    BY <2>1, RestOK
  <2>2. CASE ~UNCHANGED <<node, child, history>>
    <3> DEFINE St(x) == IF x \in Providers THEN "gone"
                        ELSE IF x \in Agents /\ child[x].st = "on" THEN "quiet"
                        ELSE IF x \in Invocations THEN "off" ELSE child[x].st
    <3>1. /\ node' = [node EXCEPT !.st = "deleted", !.fresh = FALSE] /\ news' = news
          /\ child' = [x \in Children |-> [st |-> St(x), rev |-> child[x].rev]]
          /\ old' = [r \in Revs |-> {}] /\ taken' = taken
      BY <1>7, <2>2 DEF Delete
    <3>2. \A x \in Children : St(x) \in Kinds(x) /\ St(x) \in {"on", "off", "gone", "quiet"}
      BY <1>0, <1>k DEF Kinds
    <3> HIDE DEF St
    <3>3. /\ child' \in [Children -> Child]
          /\ \A x \in Children : child'[x].st \in Kinds(x) /\ child'[x].rev = child[x].rev
      BY <3>1, <3>2, <1>0 DEF Child
    <3> QED
      BY <3>1, <3>3 DEF Erase
  <2> QED
    BY <2>1, <2>2
<1>8. ASSUME NEW w \in Workers,
             \/ List(w) \/ EmitOnline(w) \/ Sweep(w) \/ ReadBefore(w) \/ OwnerStart(w) \/ ListInvocations(w)
             \/ EmitOffline(w) \/ Crash(w) \/ Reread(w)
             \/ \E job \in {"forced", "unforced"} : DeleteNode(w, job)
      PROVE  Touch
  BY <1>8, RestOK DEF List, EmitOnline, Sweep, ReadBefore, OwnerStart, ListInvocations, EmitOffline, Crash,
                     Reread, DeleteNode
<1>9. ASSUME NEW a \in Agents, AgentSeen(a) \/ AgentSweep(a) PROVE Touch
  <2>1. {a} \in SUBSET Children
    BY <1>c
  <2> QED
    BY <1>9, <2>1, <1>k, <1>c, WriteOK DEF AgentSeen, AgentSweep
<1>10. ASSUME NEW i \in Invocations, Dispatch(i) \/ Complete(i) PROVE Touch
  <2>1. {i} \in SUBSET Children
    BY <1>c
  <2> QED
    BY <1>10, <2>1, <1>k, <1>c, WriteOK DEF Dispatch, Complete
<1>11. CASE Stale \/ \E p \in Providers : LoseConnection(p)
  BY <1>11, RestOK DEF Stale, LoseConnection
<1> QED
  BY <1>1, <1>2, <1>3, <1>4, <1>5, <1>6, <1>7, <1>8, <1>9, <1>10, <1>11 DEF Next, Step

\* A worker with nothing to do.
LEMMA IdleOK == Idle \in Worker /\ Idle.claim = 0
BY FleetAssumption DEF Idle, Worker, Pcs, Jobs, Revs, NodeStatus

\* Every operation moves one worker.
LEMMA WkSteps ==
  ASSUME FleetType, NEW w \in Workers, Step(w)
  PROVE  WkStep(w)
<1> DEFINE Control == {"off", "list", "write", "refresh", "online", "agents", "before", "mark", "claim", "reread"}
           Late == {"agentslost", "agentsquiet", "invocations", "move", "emit"}
<1>t. wk \in [Workers -> Worker] /\ node.rev \in Revs /\ node.st \in NodeStatus /\ child \in [Children -> Child]
  BY DEF FleetType, Shapes, TypeOK, NodeStatus
<1> DEFINE x == wk[w]
<1>0. x \in Worker /\ (x.pc \in Control => x.claim = 0)
  BY <1>t DEF FleetType, ClaimsPast
<1>w. ASSUME NEW y \in Worker, wk' = [wk EXCEPT ![w] = y],
             y.claim \in {0, wk[w].claim} \/ (y.claim = node'.rev /\ node'.st = "offline"),
             y.pc \in Control => y.claim = 0,
             y.pc \in Late => y.claim = 0 \/ TailStep(w)
      PROVE  WkStep(w)
  BY <1>w DEF WkStep
<1>d. ASSUME Done(w) PROVE WkStep(w)
  BY <1>d, <1>w, IdleOK DEF Done
\* The program counter alone moves on.
<1>g. ASSUME NEW pc \in Pcs, Go(w, pc), pc \in Control => x.claim = 0,
             pc \in Late => x.claim = 0 \/ TailStep(w)
      PROVE  WkStep(w)
  <2> DEFINE y == [x EXCEPT !.pc = pc]
  <2>1. wk' = [wk EXCEPT ![w] = y]
    BY <1>g, <1>t DEF Go
  <2> HIDE DEF x
  <2>2. y \in Worker /\ y.claim = x.claim /\ y.pc = pc
    BY <1>0 DEF Worker
  <2> HIDE DEF y
  <2> QED
    BY <1>g, <2>1, <2>2, <1>w DEF x
<1>1. ASSUME NEW job \in Jobs, NEW p \in Providers \cup {None}, NEW pc \in {"list", "refresh", "before", "agents"},
             Start(w, job, p, pc)
      PROVE  WkStep(w)
  <2> DEFINE b == node.st
             y == [Idle EXCEPT !.pc = pc, !.job = job, !.p = p, !.locked = TRUE, !.before = b]
  <2>1. wk' = [wk EXCEPT ![w] = y] /\ b \in NodeStatus
    BY <1>1, <1>t DEF Start
  <2> HIDE DEF b
  <2>2. y \in Worker /\ y.claim = 0 /\ y.pc = pc
    BY <2>1, IdleOK DEF Worker, Pcs
  <2> HIDE DEF y
  <2> QED
    BY <2>1, <2>2, <1>w
<1>2. CASE \E p \in Providers : Register(w, p) \/ Heartbeat(w, p) \/ Disconnect(w, p) \/ Deregister(w, p)
  BY <1>1, <1>2 DEF Register, Heartbeat, Disconnect, Deregister, Jobs
<1>3. CASE Sweep(w)
  BY <1>1, <1>3 DEF Sweep, Jobs
<1>4. CASE Refresh(w)
  BY <1>4, <1>0, <1>d, <1>g DEF Refresh, At, Pcs
<1>5. CASE AgentsOff(w)
  <2> DEFINE pc == IF wk[w].job = "deregister" /\ \A p \in Providers : child[p].st = "gone" THEN "before" ELSE "list"
  <2>1. Go(w, pc) /\ pc \in {"before", "list"} /\ x.pc = "agents"
    BY <1>5 DEF AgentsOff, At
  <2> HIDE DEF pc
  <2> QED
    BY <2>1, <1>0, <1>g DEF Pcs
<1>6. CASE List(w)
  <2> DEFINE on == OnNode(Providers)
             b == IF wk[w].job = "deregister" THEN node.st ELSE x.before
             y == [x EXCEPT !.pc = "write", !.seen = on, !.before = b]
  <2>1. wk' = [wk EXCEPT ![w].pc = "write", ![w].seen = on, ![w].before = IF wk[w].job = "deregister" THEN node.st ELSE @]
    BY <1>6 DEF List
  <2>2. wk' = [wk EXCEPT ![w] = y]
    BY <2>1, <1>t
  <2>3. b \in NodeStatus /\ on \in SUBSET (Providers \cup (Children \X Nat)) /\ x.pc = "list" /\ x.claim = 0
    BY <1>0, <1>6, <1>t DEF Worker, OnNode, List, At
  <2> HIDE DEF on, b, x
  <2>4. y \in Worker /\ y.claim = x.claim /\ y.pc = "write"
    BY <1>0, <2>3 DEF Worker, Pcs
  <2> HIDE DEF y
  <2> QED
    BY <2>2, <2>3, <2>4, <1>w DEF x
<1>7. CASE WriteAggregate(w)
  BY <1>7, <1>0, <1>d, <1>g DEF WriteAggregate, At, Pcs
<1>8. CASE EmitOnline(w) \/ Crash(w) \/ Delete(w)
  BY <1>8, <1>d DEF EmitOnline, Crash, Delete
<1>9. CASE ReadBefore(w)
  <2> DEFINE b == node.st  y == [x EXCEPT !.pc = "mark", !.before = b]
  <2>1. wk' = [wk EXCEPT ![w].pc = "mark", ![w].before = b]
    BY <1>9 DEF ReadBefore
  <2>2. wk' = [wk EXCEPT ![w] = y]
    BY <2>1, <1>t
  <2>3. b \in NodeStatus /\ x.claim = 0
    BY <1>0, <1>9, <1>t DEF ReadBefore, At
  <2> HIDE DEF b, x
  <2>4. y \in Worker /\ y.claim = x.claim /\ y.pc = "mark"
    BY <1>0, <2>3 DEF Worker, Pcs
  <2> HIDE DEF y
  <2> QED
    BY <2>2, <2>3, <2>4, <1>w DEF x
<1>10. CASE Mark(w)
  BY <1>10, <1>0, <1>d, <1>g DEF Mark, At, Pcs
<1>11. CASE OwnerStart(w)
  <2> DEFINE r == node.rev
             y == [Idle EXCEPT !.pc = "claim", !.job = "owner", !.locked = TRUE, !.rev = r]
  <2>1. wk' = [wk EXCEPT ![w] = y] /\ r \in Revs
    BY <1>11, <1>t DEF OwnerStart
  <2> HIDE DEF r
  <2>2. y \in Worker /\ y.claim = 0 /\ y.pc = "claim"
    BY <2>1, IdleOK DEF Worker, Pcs, Jobs
  <2> HIDE DEF y
  <2> QED
    BY <2>1, <2>2, <1>w
<1>12. CASE Claim(w)
  <2>1. CASE Done(w)
    BY <2>1, <1>d
  <2>2. CASE wk' = [wk EXCEPT ![w].pc = "reread"]
    BY <1>0, <1>12, <2>2, <1>g DEF Claim, At, Go, Pcs
  <2>3. CASE ~Done(w) /\ wk' # [wk EXCEPT ![w].pc = "reread"]
    <3> DEFINE r == NextRevision
               y == [x EXCEPT !.pc = "providers", !.claim = r, !.locked = FALSE, !.before = "online", !.rev = r]
    <3>1. /\ wk' = [wk EXCEPT ![w].pc = "providers", ![w].claim = r, ![w].locked = FALSE,
                              ![w].before = "online", ![w].rev = r]
          /\ node' = [st |-> "offline", fresh |-> TRUE, rev |-> r, mark |-> news.n]
          /\ r <= MaxRev
      BY <1>12, <2>3 DEF Claim
    <3>2. wk' = [wk EXCEPT ![w] = y]
      BY <3>1, <1>t
    <3>3. r \in Revs /\ node'.rev = r /\ node'.st = "offline"
      BY <3>1, NextRevisionOK, FleetAssumption DEF Revs
    <3> HIDE DEF r, x
    <3>4. y \in Worker /\ y.claim = r /\ y.pc = "providers"
      BY <1>0, <3>3 DEF Worker, Pcs, NodeStatus
    <3> HIDE DEF y
    <3> QED
      BY <3>2, <3>3, <3>4, <1>w
  <2> QED
    BY <2>1, <2>2, <2>3
<1>13. CASE SettleProviders(w) \/ SettleAgents(w) \/ SettleQuiet(w)
  BY <1>13, <1>g DEF SettleProviders, SettleAgents, SettleQuiet, TailStep, Pcs
<1>14. CASE ListInvocations(w)
  <2> DEFINE t == {<<i, child[i].rev>> : i \in {j \in OnNode(Invocations) : Covered(j, wk[w].claim)}}
             y == [x EXCEPT !.pc = "move", !.seen = t]
  <2>1. wk' = [wk EXCEPT ![w].pc = "move", ![w].seen = t]
    BY <1>14 DEF ListInvocations
  <2>2. wk' = [wk EXCEPT ![w] = y]
    BY <2>1, <1>t
  <2>3. t \in SUBSET (Providers \cup (Children \X Nat))
    BY <1>t DEF OnNode, Children, Child
  <2> HIDE DEF t, x
  <2>4. y \in Worker /\ y.claim = x.claim /\ y.pc = "move"
    BY <1>0, <2>3 DEF Worker, Pcs
  <2> HIDE DEF y
  <2> QED
    BY <1>14, <2>2, <2>3, <2>4, <1>w DEF x, TailStep
<1>15. CASE MoveInvocation(w)
  <2>1. ASSUME NEW s \in wk[w].seen, wk' = [wk EXCEPT ![w].seen = @ \ {s}] PROVE WkStep(w)
    <3> DEFINE t == x.seen \ {s}  y == [x EXCEPT !.seen = t]
    <3>1. wk' = [wk EXCEPT ![w] = y]
      BY <2>1, <1>t
    <3>2. t \in SUBSET (Providers \cup (Children \X Nat)) /\ x.pc = "move"
      BY <1>0, <1>15 DEF Worker, MoveInvocation, At
    <3> HIDE DEF t, x
    <3>3. y \in Worker /\ y.claim = x.claim /\ y.pc = x.pc
      BY <1>0, <3>2 DEF Worker, Pcs
    <3> HIDE DEF y
    <3> QED
      BY <1>15, <3>1, <3>2, <3>3, <1>w DEF x, TailStep
  <2> QED
    BY <1>15, <2>1, <1>g DEF MoveInvocation, TailStep, Pcs
<1>16. CASE EmitOffline(w)
  BY <1>16, <1>d, <1>g DEF EmitOffline, Pcs
<1>17. ASSUME NEW job \in Jobs, FromRow(w, job), node' = node PROVE WkStep(w)
  <2> DEFINE r == node.rev
             pc == IF node.st = "online" THEN "claim" ELSE IF node.fresh THEN "providers" ELSE "delete"
             c == IF node.st = "offline" /\ node.fresh THEN node.rev ELSE 0
             y == [Idle EXCEPT !.job = job, !.rev = r, !.pc = pc, !.claim = c, !.before = "online"]
  <2>1. wk' = [wk EXCEPT ![w] = y] /\ r \in Revs /\ pc \in {"claim", "providers", "delete"} /\ c \in Revs
    BY <1>17, <1>t, FleetAssumption DEF FromRow, Revs
  <2>2. (c = 0 \/ (c = node'.rev /\ node'.st = "offline")) /\ (pc = "claim" => c = 0)
    BY <1>17
  <2> HIDE DEF r, pc, c
  <2>3. y \in Worker /\ y.claim = c /\ y.pc = pc
    BY <2>1, IdleOK DEF Worker, Pcs, NodeStatus
  <2> HIDE DEF y
  <2> QED
    BY <2>1, <2>2, <2>3, <1>w
<1>18. CASE \E job \in {"forced", "unforced"} : DeleteNode(w, job)
  BY <1>17, <1>18 DEF DeleteNode, Jobs
<1>19. CASE Reread(w)
  <2>1. x.job \in Jobs
    BY <1>0 DEF Worker
  <2> QED
    BY <2>1, <1>17, <1>19, <1>d DEF Reread
<1> HIDE DEF x
<1> QED
  BY <1>2, <1>3, <1>4, <1>5, <1>6, <1>7, <1>8, <1>9, <1>10, <1>11, <1>12, <1>13, <1>14, <1>15, <1>16,
     <1>18, <1>19 DEF Step
\* Every operation publishes nothing, an online event, or what its claim allows.
LEMMA NewsSteps == FleetType /\ Next => NewsStep /\ conn' \subseteq Providers
<1> SUFFICES ASSUME FleetType, Next PROVE NewsStep /\ conn' \subseteq Providers
  OBVIOUS
<1>0. conn \subseteq Providers /\ wk \in [Workers -> Worker]
  BY DEF FleetType, Shapes, TypeOK
<1>1. ASSUME NEW w \in Workers, EmitOnline(w) PROVE NewsStep
  BY <1>1 DEF EmitOnline, Publish, NewsStep
<1>2. ASSUME NEW w \in Workers, EmitOffline(w) PROVE NewsStep
  <2>1. wk[w].claim \in Revs
    BY <1>0 DEF Worker
  <2>2. PICK same \in BOOLEAN :
          IF wk[w].before = "online" /\ (wk[w].claim # 0 => EmitMatches(wk[w].claim, same))
          THEN Publish("offline", wk[w].claim) ELSE UNCHANGED news
    BY <1>2 DEF EmitOffline
  <2>3. node' = node
    BY <1>2 DEF EmitOffline
  <2> QED
    BY <2>1, <2>2, <2>3 DEF Publish, NewsStep
<1>3. CASE news' = news /\ conn' \subseteq Providers
  BY <1>3 DEF NewsStep
<1>4. ASSUME NEW w \in Workers, EmitOnline(w) \/ EmitOffline(w) PROVE conn' \subseteq Providers
  BY <1>0, <1>4 DEF EmitOnline, EmitOffline
<1>5. ASSUME NEW w \in Workers, NEW p \in Providers,
             Register(w, p) \/ Heartbeat(w, p) \/ Disconnect(w, p) \/ Deregister(w, p)
      PROVE  news' = news /\ conn' \subseteq Providers
  BY <1>0, <1>5 DEF Register, Heartbeat, Disconnect, Deregister
<1>6. ASSUME NEW w \in Workers, NEW job,
             \/ Refresh(w) \/ AgentsOff(w) \/ List(w) \/ WriteAggregate(w) \/ Sweep(w) \/ ReadBefore(w) \/ Mark(w)
             \/ OwnerStart(w) \/ Claim(w) \/ SettleProviders(w) \/ SettleAgents(w) \/ SettleQuiet(w)
             \/ ListInvocations(w) \/ MoveInvocation(w) \/ Crash(w) \/ DeleteNode(w, job) \/ Reread(w) \/ Delete(w)
      PROVE  news' = news /\ conn' \subseteq Providers
  BY <1>0, <1>6
  DEF Refresh, AgentsOff, List, WriteAggregate, Sweep, ReadBefore, Mark, OwnerStart, Claim, SettleProviders,
      SettleAgents, SettleQuiet, ListInvocations, MoveInvocation, Crash, DeleteNode, Reread, Delete
<1>7. CASE \/ \E a \in Agents : AgentSeen(a) \/ AgentSweep(a)
           \/ \E i \in Invocations : Dispatch(i) \/ Complete(i)
           \/ Stale \/ \E p \in Providers : LoseConnection(p)
  <2>1. news' = news /\ conn' \subseteq Providers
    BY <1>0, <1>7 DEF AgentSeen, AgentSweep, Dispatch, Complete, Stale, LoseConnection
  <2> QED
    BY <2>1, <1>3
<1>8. ASSUME NEW w \in Workers, Step(w) PROVE NewsStep /\ conn' \subseteq Providers
  BY <1>1, <1>2, <1>3, <1>4, <1>5, <1>6, <1>8 DEF Step
<1> QED
  BY <1>7, <1>8 DEF Next

-----------------------------------------------------------------------------
(* The type invariant *)

\* A step is one worker's or none's.
LEMMA OneWorker ==
  ASSUME FleetType, Next
  PROVE  wk' = wk \/ \E w \in Workers : Step(w) /\ WkStep(w)
BY WkSteps DEF Next, AgentSeen, AgentSweep, Dispatch, Complete, Stale, LoseConnection

\* The revision of the node only grows.
LEMMA NodeGrows ==
  ASSUME FleetType, Advance \/ Touch \/ Erase
  PROVE  /\ node' \in [st : NodeStatus, fresh : BOOLEAN, rev : Revs, mark : 0..MaxNews]
         /\ node.rev \in Nat /\ node'.rev \in Nat /\ node.rev <= node'.rev
<1> DEFINE N == [st : NodeStatus, fresh : BOOLEAN, rev : Revs, mark : 0..MaxNews]
<1>0. node \in N
  BY DEF FleetType, TypeOK, NodeStatus
<1>1. node' \in N
  <2>1. CASE Advance
    BY <2>1 DEF Advance, NodeStatus
  <2>2. CASE Touch
    BY <2>2 DEF Touch
  <2>3. CASE Erase
    BY <2>3, <1>0 DEF Erase, NodeStatus
  <2> QED
    BY <2>1, <2>2, <2>3
<1>2. \A m \in N : m.rev \in Nat
  BY FleetAssumption DEF Revs
<1>3. node.rev < node'.rev \/ node'.rev = node.rev
  BY <1>0 DEF Advance, Touch, Erase
<1> HIDE DEF N
<1>4. node.rev \in Nat /\ node'.rev \in Nat
  BY <1>0, <1>1, <1>2
<1> QED
  BY <1>1, <1>3, <1>4 DEF N

\* Every operation keeps the types.
LEMMA FleetTypeStep == FleetType /\ [Next]_vars => FleetType'
<1> SUFFICES ASSUME FleetType, [Next]_vars PROVE FleetType'
  OBVIOUS
<1>1. CASE Next
  <2>1. Advance \/ Touch \/ Erase
    BY <1>1, RowSteps
  <2>2. /\ node' \in [st : NodeStatus, fresh : BOOLEAN, rev : Revs, mark : 0..MaxNews]
        /\ node.rev \in Nat /\ node'.rev \in Nat /\ node.rev <= node'.rev
    BY <2>1, NodeGrows
  <2>0. /\ child \in [Children -> Child] /\ old \in [Revs -> SUBSET Children] /\ taken \subseteq Revs
        /\ \A x \in Children : child[x].rev \in 0..(node.rev + 1) /\ child[x].st \in Kinds(x)
        /\ wk \in [Workers -> Worker]
        /\ news \in [last : {"none", "online", "offline"} \X Revs, n : 0..MaxNews]
    BY DEF FleetType, TypeOK, Shapes, Kinds
  <2>3. child' \in [Children -> Child] /\ \A x \in Children : child'[x].st \in Kinds(x)
    BY <2>0, <2>1 DEF Advance, Touch, Erase
  <2>4. \A x \in Children : child'[x].rev \in 0..(node'.rev + 1)
    BY <2>0, <2>1, <2>2 DEF Advance, Touch, Erase
  <2>5. old' \in [Revs -> SUBSET Children] /\ taken' \subseteq Revs
    BY <2>0, <2>1, <2>2 DEF Advance, Touch, Erase
  <2>6. news' \in [last : {"none", "online", "offline"} \X Revs, n : 0..MaxNews] /\ conn' \subseteq Providers
    <3>1. NewsStep /\ conn' \subseteq Providers
      BY <1>1, NewsSteps
    <3>2. news.n + 1 \in 0..MaxNews \/ news' = news
      BY <2>0, <3>1, FleetAssumption DEF NewsStep
    <3>3. 0 \in Revs
      BY FleetAssumption DEF Revs
    <3> QED
      BY <2>0, <3>1, <3>2, <3>3 DEF NewsStep
  <2>7. wk' \in [Workers -> Worker] /\ ClaimsPast'
    <3>1. wk' = wk \/ \E w \in Workers : WkStep(w)
      BY <1>1, OneWorker
    <3>2. ASSUME NEW v \in Workers PROVE wk[v].claim \in Nat /\ wk[v].claim <= node'.rev
      BY <2>0, <2>2, FleetAssumption DEF FleetType, ClaimsPast, Worker, Revs
    <3>3. CASE wk' = wk
      BY <3>2, <3>3, <2>0 DEF FleetType, ClaimsPast
    <3>4. ASSUME NEW w \in Workers, WkStep(w) PROVE wk' \in [Workers -> Worker] /\ ClaimsPast'
      <4>1. PICK y \in Worker :
              /\ wk' = [wk EXCEPT ![w] = y]
              /\ y.claim \in {0, wk[w].claim} \/ (y.claim = node'.rev /\ node'.st = "offline")
              /\ y.pc \in {"off", "list", "write", "refresh", "online", "agents", "before", "mark", "claim", "reread"}
                   => y.claim = 0
        BY <3>4 DEF WkStep
      <4>2. y.claim <= node'.rev
        BY <4>1, <3>2, <2>2
      <4>3. \A v \in Workers : wk'[v] = IF v = w THEN y ELSE wk[v]
        BY <4>1, <2>0
      <4>4. wk' \in [Workers -> Worker]
        BY <4>1, <2>0
      <4> QED
        BY <4>1, <4>2, <4>3, <4>4, <3>2 DEF FleetType, ClaimsPast
    <3> QED
      BY <3>1, <3>3, <3>4
  <2>8. Shapes'
    BY <2>3, <2>6, <2>7 DEF Shapes
  <2>9. TypeOK'
    <3>1. news'.n \in 0..MaxNews
      BY <2>6
    <3> QED
      BY <2>2, <2>3, <2>4, <2>5, <2>6, <3>1 DEF TypeOK, Kinds, NodeStatus
  <2> QED
    BY <2>7, <2>8, <2>9 DEF FleetType
<1>2. CASE UNCHANGED vars
  BY <1>2 DEF vars, FleetType, TypeOK, Shapes, ClaimsPast
<1> QED
  BY <1>1, <1>2

\* The types hold at the start.
LEMMA FleetTypeInit == Init => FleetType
<1> SUFFICES ASSUME Init PROVE FleetType
  OBVIOUS
<1> USE FleetAssumption
<1>1. TypeOK
  BY DEF Init, TypeOK, Revs, Children
<1>2. child \in [Children -> Child]
  BY DEF Init, Child
<1>3. wk \in [Workers -> Worker] /\ ClaimsPast
  BY IdleOK DEF Init, ClaimsPast
<1>4. news \in [last : {"none", "online", "offline"} \X Revs, n : 0..MaxNews]
  BY DEF Init, Revs
<1> QED
  BY <1>1, <1>2, <1>3, <1>4 DEF FleetType, Shapes

\* The rows of a node, its providers, its agents and its invocations keep their types under
\* every interleaving of frames, sweeps and tails, for any providers, agents and workers
\* (engine/node.ts).
THEOREM FleetTypeCorrect == Spec => []TypeOK
<1>1. FleetType => TypeOK
  BY DEF FleetType
<1> QED
  BY <1>1, FleetTypeInit, FleetTypeStep, PTL DEF Spec

-----------------------------------------------------------------------------
(* Claims and their tails *)

\* What is not of before a past revision keeps a revision at or above it.
LEMMA BoundaryKept ==
  ASSUME FleetType, Advance \/ Touch, NEW r \in 0..node.rev, Boundary(r)
  PROVE  Boundary(r)'
<1>0. /\ node.rev \in Nat /\ r \in Revs /\ old \in [Revs -> SUBSET Children]
      /\ \A x \in Children : child[x].rev \in Nat
  BY FleetAssumption DEF FleetType, TypeOK, Revs
<1>1. CASE Advance
  <2>1. child' = child /\ old'[r] = old[r]
    BY <1>0, <1>1 DEF Advance
  <2> QED
    BY <2>1 DEF Boundary
<1>2. CASE Touch
  <2> SUFFICES ASSUME NEW x \in Children, x \notin old'[r] PROVE child'[x].rev >= r
    BY DEF Boundary
  <2> QED
    BY <1>0, <1>2 DEF Touch, Boundary
<1> QED
  BY <1>1, <1>2

\* A row of before a past revision that is up was up, and was not written.
LEMMA OnKept ==
  ASSUME FleetType, Advance \/ Touch \/ Erase, NEW r \in 0..node.rev, NEW x \in old'[r], child'[x].st = "on"
  PROVE  x \in old[r] /\ x \in Children /\ child'[x] = child[x]
<1>0. node.rev \in Nat /\ r \in Revs /\ old \in [Revs -> SUBSET Children]
  BY FleetAssumption DEF FleetType, TypeOK, Revs
<1>1. CASE Advance
  BY <1>0, <1>1 DEF Advance
<1>2. CASE Touch
  <2>1. x \in old[r] /\ x \in Children
    BY <1>0, <1>2 DEF Touch
  <2> QED
    BY <1>0, <1>2, <2>1 DEF Touch
<1>3. CASE Erase
  BY <1>0, <1>3 DEF Erase
<1> QED
  BY <1>1, <1>2, <1>3

\* The claims that workers have after a step.
LEMMA ClaimsStep ==
  ASSUME FleetType, Next, NEW v \in Workers
  PROVE  wk'[v].claim \in {0, wk[v].claim} \/ (wk'[v].claim = node'.rev /\ node'.st = "offline")
<1>0. wk \in [Workers -> Worker]
  BY DEF FleetType, Shapes
<1>1. ASSUME NEW w \in Workers, WkStep(w)
      PROVE wk'[v].claim \in {0, wk[v].claim} \/ (wk'[v].claim = node'.rev /\ node'.st = "offline")
  BY <1>0, <1>1 DEF WkStep
<1> QED
  BY <1>1, OneWorker

\* Every operation keeps the boundaries of the claims: what is written after a claim
\* carries its revision, what is not written keeps the one it had.
LEMMA BoundariesStep == ASSUME FleetInv, Next PROVE Boundaries'
<1>0. FleetType /\ Boundaries
  BY DEF FleetInv
<1>1. Advance \/ Touch \/ Erase
  BY <1>0, RowSteps
<1>2. /\ node.rev \in Nat /\ node'.rev \in Revs /\ old \in [Revs -> SUBSET Children]
      /\ \A w \in Workers : wk[w].claim \in 0..node.rev
  BY <1>0, <1>1, NodeGrows, FleetAssumption DEF FleetType, TypeOK, ClaimsPast, Shapes, Worker, Revs
<1>3. CASE Erase
  <2>1. node'.st = "deleted"
    BY <1>0, <1>3 DEF Erase, FleetType, TypeOK
  <2> QED
    BY <2>1 DEF Boundaries
<1>4. CASE Advance \/ Touch
  <2> DEFINE Above(r) == \A x \in Children : x \notin old'[r] => child'[x].rev >= r
  <2>1. ASSUME node'.st = "offline" PROVE Above(node'.rev)
    <3>1. CASE Advance
      BY <3>1, <2>1, <1>2 DEF Advance
    <3>2. CASE Touch
      <4>1. node.st = "offline" /\ node'.rev = node.rev
        BY <3>2, <2>1 DEF Touch
      <4>2. Boundary(node.rev)
        BY <4>1, <1>0 DEF Boundaries
      <4> QED
        BY <4>1, <4>2, <3>2, <1>0, <1>2, BoundaryKept DEF Boundary
    <3> QED
      BY <1>4, <3>1, <3>2
  <2>2. ASSUME node'.st # "deleted", NEW w \in Workers, wk'[w].claim # 0 PROVE Above(wk'[w].claim)
    <3>1. CASE wk'[w].claim = wk[w].claim
      <4>1. CASE node.st # "deleted"
        <5>1. Boundary(wk[w].claim) /\ wk[w].claim \in 0..node.rev
          BY <1>0, <1>2, <2>2, <3>1, <4>1 DEF Boundaries
        <5> QED
          BY <5>1, <3>1, <1>0, <1>4, BoundaryKept DEF Boundary
      <4>2. CASE node.st = "deleted"
        <5>1. ~Touch
          BY <2>2, <4>2 DEF Touch
        <5> QED
          BY <5>1, <4>2, <1>4 DEF Advance
      <4> QED
        BY <4>1, <4>2
    <3>2. CASE wk'[w].claim = node'.rev /\ node'.st = "offline"
      BY <2>1, <3>2
    <3> QED
      BY <1>0, <2>2, <3>1, <3>2, ClaimsStep
  <2> QED
    BY <2>1, <2>2 DEF Boundaries, Boundary
<1> QED
  BY <1>1, <1>3, <1>4

\* Who is late in a tail was there, or takes a step of it.
LEMMA LateStep ==
  ASSUME FleetType, Next, NEW v \in Workers, wk'[v].claim # 0,
         wk'[v].pc \in {"agentslost", "agentsquiet", "invocations", "move", "emit"}
  PROVE  wk'[v] = wk[v] \/ TailStep(v)
<1>0. wk \in [Workers -> Worker]
  BY DEF FleetType, Shapes
<1>1. ASSUME NEW w \in Workers, WkStep(w) PROVE wk'[v] = wk[v] \/ TailStep(v)
  <2>1. PICK y \in Worker :
          /\ wk' = [wk EXCEPT ![w] = y]
          /\ y.pc \in {"agentslost", "agentsquiet", "invocations", "move", "emit"} => y.claim = 0 \/ TailStep(w)
    BY <1>1 DEF WkStep
  <2>2. CASE v = w
    <3>1. wk'[v] = y
      BY <2>1, <2>2, <1>0
    <3> QED
      BY <2>1, <2>2, <3>1
  <2>3. CASE v # w
    BY <2>1, <2>3, <1>0
  <2> QED
    BY <2>2, <2>3
<1> QED
  BY <1>1, OneWorker

\* A step of a tail leaves the claim and the histories, and goes to the next statement.
LEMMA TailMoves ==
  ASSUME FleetType, NEW v \in Workers, TailStep(v)
  PROVE  /\ node' = node /\ old' = old /\ taken' = taken /\ wk'[v].claim = wk[v].claim
         /\ \/ SettleProviders(v) /\ wk'[v].pc = "agentslost"
            \/ SettleAgents(v) /\ wk[v].pc = "agentslost" /\ wk'[v].pc = "agentsquiet"
            \/ SettleQuiet(v) /\ wk[v].pc = "agentsquiet" /\ wk'[v].pc = "invocations"
            \/ /\ ListInvocations(v) /\ wk[v].pc = "invocations" /\ wk'[v].pc = "move" /\ child' = child
               /\ wk'[v].seen = {<<x, child[x].rev>> : x \in {y \in OnNode(Invocations) : Covered(y, wk[v].claim)}}
            \/ /\ MoveInvocation(v) /\ wk[v].pc = "move"
               /\ \/ \E s \in wk[v].seen : wk'[v].pc = "move" /\ wk'[v].seen = wk[v].seen \ {s}
                     /\ child' = IF child[s[1]].st = "on" /\ (wk[v].claim # 0 => child[s[1]].rev = s[2])
                                 THEN [child EXCEPT ![s[1]] = [st |-> "off", rev |-> @.rev]] ELSE child
                  \/ wk[v].seen = {} /\ wk'[v].pc = "emit" /\ child' = child
<1> DEFINE x == wk[v]
<1>0. wk \in [Workers -> Worker] /\ x \in Worker
  BY DEF FleetType, Shapes
<1>g. ASSUME NEW pc, Go(v, pc) PROVE wk'[v].pc = pc /\ wk'[v].claim = wk[v].claim
  <2>1. wk'[v] = [x EXCEPT !.pc = pc]
    BY <1>0, <1>g DEF Go
  <2> HIDE DEF x
  <2>2. wk'[v].pc = pc /\ wk'[v].claim = x.claim
    BY <2>1, <1>0 DEF Worker
  <2> QED
    BY <2>2 DEF x
<1>1. CASE SettleProviders(v)
  BY <1>1, <1>g DEF SettleProviders, history
<1>2. CASE SettleAgents(v)
  BY <1>2, <1>g DEF SettleAgents, history, At
<1>3. CASE SettleQuiet(v)
  BY <1>3, <1>g DEF SettleQuiet, history, At
<1>4. CASE ListInvocations(v)
  <2> DEFINE t == {<<i, child[i].rev>> : i \in {j \in OnNode(Invocations) : Covered(j, wk[v].claim)}}
  <2>1. wk' = [wk EXCEPT ![v].pc = "move", ![v].seen = t]
    BY <1>4 DEF ListInvocations
  <2> HIDE DEF t
  <2>2. wk'[v] = [x EXCEPT !.pc = "move", !.seen = t]
    BY <1>0, <2>1
  <2> HIDE DEF x
  <2>3. wk'[v].pc = "move" /\ wk'[v].claim = x.claim /\ wk'[v].seen = t
    BY <2>2, <1>0 DEF Worker
  <2> QED
    BY <1>4, <2>3 DEF ListInvocations, history, At, t, x
<1>5. CASE MoveInvocation(v)
  <2>0. node' = node /\ old' = old /\ taken' = taken /\ x.pc = "move"
    BY <1>5 DEF MoveInvocation, history, At
  <2>1. CASE wk[v].seen = {} /\ Go(v, "emit") /\ UNCHANGED child
    BY <1>5, <2>0, <2>1, <1>g
  <2>2. ASSUME NEW s \in wk[v].seen, wk' = [wk EXCEPT ![v].seen = @ \ {s}]
        PROVE wk'[v].pc = "move" /\ wk'[v].claim = wk[v].claim /\ wk'[v].seen = wk[v].seen \ {s}
    <3> DEFINE t == x.seen \ {s}
    <3>1. wk'[v] = [x EXCEPT !.seen = t]
      BY <1>0, <2>2
    <3> HIDE DEF x, t
    <3>2. wk'[v].pc = x.pc /\ wk'[v].claim = x.claim /\ wk'[v].seen = t
      BY <3>1, <1>0 DEF Worker
    <3> QED
      BY <3>2, <2>0 DEF x, t
  <2>3. CASE \E s \in wk[v].seen :
               /\ child' = IF child[s[1]].st = "on" /\ (wk[v].claim # 0 => child[s[1]].rev = s[2])
                           THEN [child EXCEPT ![s[1]] = [st |-> "off", rev |-> @.rev]] ELSE child
               /\ wk' = [wk EXCEPT ![v].seen = @ \ {s}]
    <3>1. PICK s \in wk[v].seen :
               /\ child' = IF child[s[1]].st = "on" /\ (wk[v].claim # 0 => child[s[1]].rev = s[2])
                           THEN [child EXCEPT ![s[1]] = [st |-> "off", rev |-> @.rev]] ELSE child
               /\ wk' = [wk EXCEPT ![v].seen = @ \ {s}]
      BY <2>3
    <3>2. wk'[v].pc = "move" /\ wk'[v].claim = wk[v].claim /\ wk'[v].seen = wk[v].seen \ {s}
      BY <3>1, <2>2
    <3> QED
      BY <1>5, <2>0, <3>1, <3>2
  <2> QED
    BY <1>5, <2>1, <2>3 DEF MoveInvocation
<1> QED
  BY <1>1, <1>2, <1>3, <1>4, <1>5 DEF TailStep

\* Every operation keeps what the tails have listed older than their claims.
LEMMA ListedStep == ASSUME FleetInv, Next PROVE Listed'
<1> SUFFICES ASSUME NEW v \in Workers, wk'[v].pc = "move", wk'[v].claim # 0, NEW s \in wk'[v].seen
             PROVE  s[2] < wk'[v].claim
  BY DEF Listed
<1>0. FleetType /\ Listed
  BY DEF FleetInv
<1>1. CASE wk'[v] = wk[v]
  BY <1>0, <1>1 DEF Listed
<1>2. CASE TailStep(v)
  <2>1. CASE wk'[v].seen = {<<x, child[x].rev>> : x \in {y \in OnNode(Invocations) : Covered(y, wk[v].claim)}}
    BY <1>0, <1>2, <2>1, TailMoves DEF Covered
  <2>2. CASE wk[v].pc = "move" /\ wk'[v].seen \subseteq wk[v].seen
    BY <1>0, <1>2, <2>2, TailMoves DEF Listed
  <2> QED
    BY <1>0, <1>2, <2>1, <2>2, TailMoves
<1> QED
  BY <1>0, <1>1, <1>2, LateStep

\* Every operation keeps the revisions of claims above what was up.
LEMMA TakenAboveStep == ASSUME FleetInv, Next PROVE TakenAbove'
<1>0. FleetType /\ TakenAbove
  BY DEF FleetInv
<1>1. Advance \/ Touch \/ Erase
  BY <1>0, RowSteps
<1>2. node.rev \in Nat /\ node'.rev \in Nat /\ node.rev <= node'.rev
  BY <1>0, <1>1, NodeGrows
<1>3. \A r \in taken : r \in 1..node.rev /\ r \in 0..node.rev
  BY <1>0, <1>2 DEF TakenAbove
<1>4. ASSUME NEW r \in taken, NEW x \in old'[r], child'[x].st = "on" PROVE child'[x].rev < r
  <2>1. x \in old[r] /\ child'[x] = child[x]
    BY <1>0, <1>1, <1>3, <1>4, OnKept
  <2> QED
    BY <1>0, <1>4, <2>1 DEF TakenAbove
<1>5. CASE taken' = taken
  BY <1>2, <1>3, <1>4, <1>5 DEF TakenAbove
<1>6. CASE taken' # taken
  <2>1. Advance /\ taken' = taken \cup {node'.rev}
        /\ \A x \in Children : child[x].st = "on" => child[x].rev < node'.rev
    BY <1>1, <1>6 DEF Advance, Touch, Erase
  <2>2. child' = child /\ old'[node'.rev] \subseteq Children /\ node.rev < node'.rev
    BY <1>0, <2>1 DEF Advance, FleetType, TypeOK
  <2>3. taken' \subseteq 1..node'.rev
    BY <1>2, <1>3, <2>1, <2>2
  <2> QED
    BY <1>4, <2>1, <2>2, <2>3 DEF TakenAbove
<1> QED
  BY <1>5, <1>6

\* Every operation keeps what the tails have settled: nobody brings a row of before a
\* claim up without writing it, and then it is not of before the claim.
LEMMA TailSettlesStep == ASSUME FleetInv, Next PROVE TailSettles'
<1>0. FleetType /\ TakenAbove /\ TailSettles /\ TakenAbove'
  BY TakenAboveStep DEF FleetInv
<1>1. Advance \/ Touch \/ Erase
  BY <1>0, RowSteps
<1> SUFFICES ASSUME NEW v \in Workers, wk'[v].claim \in taken'
             PROVE  LET c == wk'[v].claim  pc == wk'[v].pc  Up(x) == x \in old'[c] /\ child'[x].st = "on" IN
                    /\ pc \in {"agentslost", "agentsquiet", "invocations", "move", "emit"}
                         => \A x \in Providers : ~Up(x)
                    /\ pc \in {"agentsquiet", "invocations", "move", "emit"} => \A x \in Agents : ~Up(x)
                    /\ pc = "move" => \A x \in Invocations : Up(x) => <<x, child'[x].rev>> \in wk'[v].seen
                    /\ pc = "emit" => \A x \in Invocations : ~Up(x)
  BY DEF TailSettles, Swept
<1> DEFINE c == wk'[v].claim  pc == wk'[v].pc  Up(x) == x \in old'[c] /\ child'[x].st = "on"
           Was(x) == x \in old[c] /\ child[x].st = "on"
           Late == {"agentslost", "agentsquiet", "invocations", "move", "emit"}
<1>2. c # 0 /\ node.rev \in Nat
  BY <1>0, <1>1, NodeGrows DEF TakenAbove
<1>3. CASE pc \notin Late
  BY <1>3
<1>4. CASE pc \in Late
  <2>1. wk'[v] = wk[v] \/ TailStep(v)
    BY <1>0, <1>2, <1>4, LateStep
  <2>2. c = wk[v].claim
    BY <1>0, <2>1, TailMoves
  <2>3. c \in 0..node.rev
    BY <1>0, <2>2, FleetAssumption DEF FleetType, ClaimsPast, Shapes, Worker, Revs
  <2>4. c \in taken
    <3>1. taken' = taken \/ (taken' = taken \cup {node'.rev} /\ node.rev < node'.rev)
      BY <1>1 DEF Advance, Touch, Erase
    <3>2. node'.rev \in Nat
      BY <1>0, <1>1, NodeGrows
    <3> QED
      BY <2>3, <3>1, <3>2, <1>2
  <2>5. ASSUME NEW x, Up(x) PROVE Was(x) /\ child'[x] = child[x] /\ child[x].rev < c /\ x \in Children
    <3>1. x \in old[c] /\ x \in Children /\ child'[x] = child[x]
      BY <1>0, <1>1, <2>3, <2>5, OnKept
    <3> QED
      BY <1>0, <2>4, <2>5, <3>1 DEF TakenAbove
  <2>6. wk[v].claim \in taken
    BY <2>2, <2>4
  <2>7. /\ wk[v].pc \in {"agentslost", "agentsquiet", "invocations", "move", "emit"} => \A x \in Providers : ~Was(x)
        /\ wk[v].pc \in {"agentsquiet", "invocations", "move", "emit"} => \A x \in Agents : ~Was(x)
        /\ wk[v].pc = "move" => \A x \in Invocations : Was(x) => <<x, child[x].rev>> \in wk[v].seen
        /\ wk[v].pc = "emit" => \A x \in Invocations : ~Was(x)
    BY <1>0, <2>2, <2>6 DEF TailSettles, Swept
  <2>8. CASE wk'[v] = wk[v]
    BY <2>5, <2>7, <2>8
  <2>9. CASE TailStep(v)
    <3>c. \A x : child[x].rev < c => Covered(x, wk[v].claim)
      BY <2>2 DEF Covered
    <3>1. CASE SettleProviders(v) /\ pc = "agentslost"
      <4>1. ASSUME NEW x \in Providers, Up(x) PROVE FALSE
        <5>1. child[x].st = "on" /\ child[x].rev < c /\ x \in Children /\ child'[x].st = "on"
          BY <2>5, <4>1
        <5>2. child'[x] = [st |-> "off", rev |-> node.rev + 1]
          BY <3>1, <3>c, <5>1 DEF SettleProviders, Settle, Stamped
        <5> QED
          BY <5>1, <5>2
      <4> QED
        BY <3>1, <4>1
    <3>2. CASE SettleAgents(v) /\ wk[v].pc = "agentslost" /\ pc = "agentsquiet"
      <4>1. ASSUME NEW x \in Agents, Up(x) PROVE FALSE
        <5>1. child[x].st = "on" /\ child[x].rev < c /\ x \in Children /\ child'[x].st = "on"
          BY <2>5, <4>1
        <5>2. child'[x] = [st |-> "quiet", rev |-> node.rev + 1]
          BY <3>2, <3>c, <5>1 DEF SettleAgents, Settle, Stamped
        <5> QED
          BY <5>1, <5>2
      <4> QED
        BY <3>2, <4>1, <2>5, <2>7
    <3>3. CASE wk[v].pc = "agentsquiet" /\ pc = "invocations"
      BY <3>3, <2>5, <2>7
    <3>4. CASE /\ wk[v].pc = "invocations" /\ pc = "move"
               /\ wk'[v].seen = {<<x, child[x].rev>> : x \in {y \in OnNode(Invocations) : Covered(y, wk[v].claim)}}
      <4>1. ASSUME NEW x \in Invocations, Up(x) PROVE <<x, child'[x].rev>> \in wk'[v].seen
        BY <2>5, <3>c, <3>4, <4>1 DEF OnNode
      <4> QED
        BY <3>4, <4>1, <2>5, <2>7
    <3>5. ASSUME wk[v].pc = "move", NEW s \in wk[v].seen, pc = "move", wk'[v].seen = wk[v].seen \ {s},
                 child' = IF child[s[1]].st = "on" /\ (wk[v].claim # 0 => child[s[1]].rev = s[2])
                          THEN [child EXCEPT ![s[1]] = [st |-> "off", rev |-> @.rev]] ELSE child
          PROVE  \A x \in Invocations : Up(x) => <<x, child'[x].rev>> \in wk'[v].seen
      <4> SUFFICES ASSUME NEW x \in Invocations, Up(x) PROVE <<x, child'[x].rev>> \in wk'[v].seen
        OBVIOUS
      <4>1. Was(x) /\ child'[x] = child[x] /\ x \in Children /\ <<x, child[x].rev>> \in wk[v].seen /\ child'[x].st = "on"
        BY <2>5, <2>7, <3>5
      <4>2. CASE s = <<x, child[x].rev>>
        <5>1. s[1] = x /\ s[2] = child[x].rev
          BY <4>2
        <5>2. child' = [child EXCEPT ![x] = [st |-> "off", rev |-> child[x].rev]]
          BY <3>5, <4>1, <5>1
        <5>3. child'[x] = [st |-> "off", rev |-> child[x].rev]
          BY <4>1, <5>2, <1>0 DEF FleetType, Shapes
        <5> QED
          BY <4>1, <5>3
      <4>3. CASE s # <<x, child[x].rev>>
        BY <3>5, <4>1, <4>3
      <4> QED
        BY <4>2, <4>3
    <3>6. CASE wk[v].pc = "move" /\ pc = "move" /\ MoveInvocation(v)
      <4>1. \A x \in Invocations : Up(x) => <<x, child'[x].rev>> \in wk'[v].seen
        BY <1>0, <2>9, <3>5, <3>6, TailMoves
      <4> QED
        BY <3>6, <4>1, <2>5, <2>7
    <3>7. CASE wk[v].pc = "move" /\ pc = "emit" /\ wk[v].seen = {}
      BY <3>7, <2>5, <2>7
    <3> HIDE DEF c, pc, Up, Was
    <3> QED
      BY <1>0, <2>9, <3>1, <3>2, <3>3, <3>4, <3>6, <3>7, TailMoves DEF pc
  <2> QED
    BY <2>1, <2>8, <2>9
<1> QED
  BY <1>3, <1>4

\* Every operation keeps the order of offline events and heartbeats.
LEMMA PublishedStep == ASSUME FleetInv, Next PROVE Published'
<1>0. FleetType /\ Published
  BY DEF FleetInv
<1>1. Advance \/ Touch \/ Erase
  BY <1>0, RowSteps
<1>2. /\ node.rev \in Nat /\ node'.rev \in Nat /\ node.rev <= node'.rev
      /\ node.mark \in Nat /\ news.n \in Nat
      /\ news \in [last : {"none", "online", "offline"} \X Revs, n : 0..MaxNews]
      /\ Revs \subseteq Nat
  BY <1>0, <1>1, NodeGrows, FleetAssumption DEF FleetType, TypeOK, Shapes, Revs
<1>3. \/ node'.rev = node.rev /\ node'.mark = node.mark
      \/ node.rev < node'.rev /\ node'.mark = news.n /\ news' = news
  <2>1. CASE Erase
    BY <1>0, <2>1 DEF Erase, FleetType, TypeOK
  <2> QED
    BY <1>1, <2>1 DEF Advance, Touch
<1>4. CASE news' = news
  <2>1. news.last[2] \in Nat
    BY <1>2
  <2> QED
    BY <1>0, <1>2, <1>3, <1>4, <2>1 DEF Published
<1>5. ASSUME NEW type \in {"online", "offline"}, NEW e \in Revs, node' = node, e # 0 => e = node.rev,
             news' = [last |-> <<type, e>>, n |-> news.n + 1]
      PROVE  Published'
  <2>1. news'.n = news.n + 1 /\ news'.last[1] = type /\ news'.last[2] = e /\ node'.mark = node.mark /\ node'.rev = node.rev
    BY <1>5
  <2> QED
    BY <1>0, <1>2, <1>5, <2>1 DEF Published
<1>6. NewsStep /\ 0 \in Revs
  BY <1>0, NewsSteps, FleetAssumption DEF Revs
<1>7. \A e, same : EmitMatches(e, same) => e = node.rev
  BY DEF EmitMatches
<1> QED
  BY <1>4, <1>5, <1>6, <1>7 DEF NewsStep

\* The invariant holds at the start.
LEMMA FleetInvInit == Init => FleetInv
<1> SUFFICES ASSUME Init PROVE FleetInv
  OBVIOUS
<1>1. FleetType
  BY FleetTypeInit
<1>2. \A w \in Workers : wk[w].claim = 0 /\ wk[w].pc = "off"
  BY DEF Init, Idle
<1>3. Boundaries
  BY <1>2 DEF Init, Boundaries, Boundary
<1>4. Listed /\ TakenAbove /\ TailSettles
  BY <1>2 DEF Init, Listed, TakenAbove, TailSettles
<1>5. Published
  BY DEF Init, Published
<1> QED
  BY <1>1, <1>3, <1>4, <1>5 DEF FleetInv

\* The invariant is inductive.
LEMMA FleetInvStep == FleetInv /\ [Next]_vars => FleetInv'
<1> SUFFICES ASSUME FleetInv, [Next]_vars PROVE FleetInv'
  OBVIOUS
<1>0. FleetType'
  BY FleetTypeStep DEF FleetInv
<1>1. CASE Next
  BY <1>0, <1>1, BoundariesStep, ListedStep, TakenAboveStep, TailSettlesStep, PublishedStep DEF FleetInv
<1>2. CASE UNCHANGED vars
  <2>1. node' = node /\ child' = child /\ wk' = wk /\ news' = news /\ old' = old /\ taken' = taken
    BY <1>2 DEF vars
  <2>2. Boundaries' /\ Listed'
    BY <2>1 DEF FleetInv, Boundaries, Boundary, Listed
  <2>3. TakenAbove' /\ TailSettles'
    BY <2>1 DEF FleetInv, TakenAbove, TailSettles, Swept
  <2>4. Published'
    BY <2>1 DEF FleetInv, Published
  <2> QED
    BY <1>0, <2>2, <2>3, <2>4 DEF FleetInv
<1> QED
  BY <1>1, <1>2

\* When a node is claimed offline and the tail of the claim has run, nothing that was bound
\* to the node before the claim is still up, however many frames and tails ran beside it
\* (settleNodeOffline).
THEOREM FleetPreClaimSettled == Spec => []PreClaimSettled
<1>1. FleetInv => PreClaimSettled
  <2> SUFFICES ASSUME FleetInv, NEW w \in Workers, At(w, "emit"), wk[w].claim \in taken,
                      NEW x \in old[wk[w].claim]
               PROVE  child[x].st # "on"
    BY DEF PreClaimSettled
  <2>1. x \in Providers \/ x \in Agents \/ x \in Invocations
    BY DEF FleetInv, FleetType, TypeOK, Children
  <2> QED
    BY <2>1 DEF FleetInv, TailSettles, Swept, At
<1> QED
  BY <1>1, FleetInvInit, FleetInvStep, PTL DEF Spec

\* A late tail leaves alone what was bound to the node after its claim: the revision it
\* compares tells the two apart (settleNodeOffline: "never clobbered").
THEOREM FleetPostClaimKept == Spec => PostClaimKept
<1> DEFINE Kept == \A w \in Workers : (wk[w].pc \in Tail /\ wk[w].claim # 0 /\ wk'[w] # wk[w])
                     => \A x \in Children : child'[x] # child[x] => x \in old[wk[w].claim] \/ node'.st = "deleted"
<1>1. FleetInv /\ [Next]_vars => [Kept]_vars
  <2> SUFFICES ASSUME FleetInv, Next, NEW w \in Workers, wk[w].pc \in Tail, wk[w].claim # 0, wk'[w] # wk[w],
                      NEW x \in Children, child'[x] # child[x], node'.st # "deleted"
               PROVE  x \in old[wk[w].claim]
    OBVIOUS
  <2>0. FleetType /\ Boundaries /\ Listed /\ child \in [Children -> Child] /\ wk[w].claim \in Nat
    BY FleetAssumption DEF FleetInv, FleetType, Shapes, Worker, Revs
  <2>1. Step(w)
    <3>1. ASSUME NEW v \in Workers, Step(v), WkStep(v) PROVE v = w
      BY <2>0, <3>1 DEF WkStep, FleetType, Shapes
    <3> QED
      BY <2>0, <3>1, OneWorker
  <2>2. SettleProviders(w) \/ SettleAgents(w) \/ SettleQuiet(w) \/ MoveInvocation(w)
    BY <2>1 DEF Step, Tail, At, Register, Heartbeat, Disconnect, Deregister, Start, Refresh, AgentsOff, List,
                WriteAggregate, EmitOnline, Sweep, ReadBefore, Mark, OwnerStart, Claim, ListInvocations,
                EmitOffline, Crash, DeleteNode, Reread, Delete
  <2>3. node.st # "deleted"
    BY <2>2 DEF SettleProviders, SettleAgents, SettleQuiet, MoveInvocation
  <2>4. child[x].rev < wk[w].claim
    <3>1. CASE SettleProviders(w) \/ SettleAgents(w) \/ SettleQuiet(w)
      BY <3>1 DEF SettleProviders, SettleAgents, SettleQuiet, Settle, Covered
    <3>2. CASE MoveInvocation(w)
      <4>1. PICK s \in wk[w].seen :
              child' = IF child[s[1]].st = "on" /\ (wk[w].claim # 0 => child[s[1]].rev = s[2])
                       THEN [child EXCEPT ![s[1]] = [st |-> "off", rev |-> @.rev]] ELSE child
        BY <3>2 DEF MoveInvocation
      <4>2. s[2] < wk[w].claim
        BY <2>0, <3>2 DEF Listed, MoveInvocation, At
      <4>3. x = s[1] /\ child[x].rev = s[2]
        BY <2>0, <4>1
      <4> QED
        BY <4>2, <4>3
    <3> QED
      BY <2>2, <3>1, <3>2
  <2>5. child[x].rev \in Nat
    BY <2>0 DEF Child
  <2> QED
    BY <2>0, <2>3, <2>4, <2>5 DEF Boundaries, Boundary
<1> QED
  BY <1>1, FleetInvInit, FleetInvStep, PTL DEF Spec, PostClaimKept

\* One claim publishes one offline event, though its claimer and a delete that finishes it
\* both try (emitNodeStatusEffects).
THEOREM FleetClaimPublishedOnce == Spec => ClaimPublishedOnce
<1> DEFINE Once == (news'.n # news.n /\ news'.last[1] = "offline" /\ news'.last[2] # 0) => news'.last # news.last
<1>1. FleetInv /\ [Next]_vars => [Once]_vars
  <2> SUFFICES ASSUME FleetInv, Next, news'.n # news.n, news'.last[1] = "offline", news'.last[2] # 0
               PROVE  news'.last # news.last
    OBVIOUS
  <2>0. NewsStep /\ Published /\ node.mark \in Nat /\ news.n \in Nat
    BY NewsSteps DEF FleetInv, FleetType, TypeOK
  <2>1. PICK c \in Revs : /\ news' = [last |-> <<"offline", c>>, n |-> news.n + 1]
                          /\ c # 0 => \E same \in BOOLEAN : EmitMatches(c, same)
    BY <2>0 DEF NewsStep
  <2>2. news'.last = <<"offline", c>> /\ c # 0
    BY <2>1
  <2>3. PICK same \in BOOLEAN : EmitMatches(c, same)
    BY <2>1, <2>2
  <2>4. c = node.rev /\ ~(news.last[1] = "offline" /\ news.n > node.mark)
    BY <2>3 DEF EmitMatches
  <2>5. ~(news.last[1] = "offline" /\ news.last[2] = c)
    BY <2>0, <2>2, <2>4 DEF Published
  <2> QED
    BY <2>2, <2>5
<1> QED
  BY <1>1, FleetInvInit, FleetInvStep, PTL DEF Spec, ClaimPublishedOnce
=============================================================================
