-------------------------- MODULE PublisherProofs --------------------------
(***************************************************************************)
(* Proofs about Publisher, for any publishers, topics and concurrent       *)
(* calls.                                                                  *)
(***************************************************************************)
EXTENDS Publisher, TLAPS

USE PublisherAssumption DEF PublisherAssumption

Locked == {"Subscribe", "Leave"}

\* Who holds p.mu: a call of p that is about to subscribe or to leave.
LockInv ==
  /\ \A p \in Publishers : mu[p] # "Free" => job[mu[p]].pub = p /\ job[mu[p]].pc \in Locked
  /\ \A j \in Jobs : job[j].pc \in Locked => mu[job[j].pub] = j

\* The topic that the router has joined for p and p does not yet know.
Joining(p, t) == mu[p] # "Free" /\ job[mu[p]].pc = "Subscribe" /\ job[mu[p]].topic = t
Leaving(p) == mu[p] # "Free" /\ job[mu[p]].pc = "Leave"

\* The router and a publisher agree but for the topic that is being joined,
\* and a closed publisher still has topics only while Close leaves them.
TopicsInv(p) ==
  /\ \A t \in Topics : router[t] = p <=> t \in topics[p] \/ Joining(p, t)
  /\ \A t \in Topics : Joining(p, t) => t \notin topics[p] /\ ~closed[p]
  /\ \A t \in topics[p] : sub[p][t] = "Active"
  /\ closed[p] => topics[p] = {} \/ Leaving(p)

Inv == PublisherTypeOK /\ LockInv /\ \A p \in Publishers : TopicsInv(p)

LEMMA InvInit == PublisherInit(JobInits) => Inv
<1> SUFFICES ASSUME PublisherInit(JobInits) PROVE Inv
  OBVIOUS
<1>1. job \in [Jobs -> JobRec] /\ \A j \in Jobs : job[j].pc = "Idle"
  <2>1. job \in JobInits
    BY DEF PublisherInit
  <2>2. PICK f \in JobSets :
          job = [j \in Jobs |-> [kind |-> f[j].kind, pub |-> f[j].pub, topic |-> f[j].topic,
                                 wait |-> f[j].wait, due |-> FALSE, sent |-> FALSE, pc |-> "Idle",
                                 out |-> "None"]]
    BY <2>1 DEF JobInits
  <2>3. \A j \in Jobs : f[j] \in Job
    OBVIOUS
  <2> QED
    BY <2>2, <2>3 DEF Job, JobRec
<1>2. PublisherTypeOK
  BY <1>1 DEF PublisherInit, PublisherTypeOK
<1>3. LockInv
  BY <1>1 DEF PublisherInit, LockInv, Locked
<1>4. ASSUME NEW p \in Publishers PROVE TopicsInv(p)
  BY DEF PublisherInit, TopicsInv, Joining, Leaving
<1> QED
  BY <1>2, <1>3, <1>4 DEF Inv
-----------------------------------------------------------------------------
(* Types.                                                                  *)

\* A call goes on, or returns.
LEMMA GoesType ==
  ASSUME PublisherTypeOK, NEW j \in Jobs,
         NEW pc \in {"Lock", "Subscribe", "Peers", "Before", "After", "Next", "Leave"}, Goes(j, pc)
  PROVE  /\ job' \in [Jobs -> JobRec]
         /\ job'[j].pc = pc /\ job'[j].pub = job[j].pub /\ job'[j].topic = job[j].topic
         /\ \A i \in Jobs \ {j} : job'[i] = job[i]
<1>1. job[j] \in JobRec /\ job' = [job EXCEPT ![j] = [job[j] EXCEPT !.pc = pc]]
  BY DEF PublisherTypeOK, Goes
<1>2. [job[j] EXCEPT !.pc = pc] \in JobRec
  BY <1>1 DEF JobRec
<1>3. job'[j] = [job[j] EXCEPT !.pc = pc] /\ \A i \in Jobs \ {j} : job'[i] = job[i]
  BY <1>1 DEF PublisherTypeOK
<1> QED
  BY <1>1, <1>2, <1>3 DEF PublisherTypeOK, JobRec

LEMMA ReturnsType ==
  ASSUME PublisherTypeOK, NEW j \in Jobs,
         NEW out \in {"Ok", "Message", "TooLarge", "Closed", "JoinError", "NoPeers", "Context",
                      "Hook", "Cancelled"},
         Returns(j, out)
  PROVE  /\ job' \in [Jobs -> JobRec]
         /\ job'[j].pc = "Done" /\ job'[j].pub = job[j].pub /\ job'[j].topic = job[j].topic
         /\ \A i \in Jobs \ {j} : job'[i] = job[i]
<1>1. job[j] \in JobRec /\ job' = [job EXCEPT ![j] = [job[j] EXCEPT !.pc = "Done", !.out = out]]
  BY DEF PublisherTypeOK, Returns
<1>2. [job[j] EXCEPT !.pc = "Done", !.out = out] \in JobRec
  BY <1>1 DEF JobRec
<1>3. job'[j] = [job[j] EXCEPT !.pc = "Done", !.out = out] /\ \A i \in Jobs \ {j} : job'[i] = job[i]
  BY <1>1 DEF PublisherTypeOK
<1> QED
  BY <1>1, <1>2, <1>3 DEF PublisherTypeOK, JobRec

\* A call that neither holds a lock nor takes one, and leaves the topics alone.
LEMMA FreeStep ==
  ASSUME Inv, NEW j \in Jobs, job' \in [Jobs -> JobRec],
         job[j].pc \notin Locked, job'[j].pc \notin Locked,
         \A i \in Jobs \ {j} : job'[i] = job[i],
         queue' \in [Publishers -> [Topics -> Seq({"Own", "Peer"})]],
         UNCHANGED <<router, sub, peers, mu, topics, closed>>
  PROVE  Inv'
<1>1. PublisherTypeOK'
  BY DEF Inv, PublisherTypeOK
<1>3. ASSUME NEW p \in Publishers, mu[p] # "Free" PROVE mu[p] \in Jobs \ {j} /\ job'[mu[p]] = job[mu[p]]
  BY <1>3 DEF Inv, LockInv, PublisherTypeOK
<1>2. LockInv'
  <2>1. ASSUME NEW p \in Publishers, mu'[p] # "Free"
        PROVE  job'[mu'[p]].pub = p /\ job'[mu'[p]].pc \in Locked
    BY <1>3, <2>1 DEF Inv, LockInv
  <2>2. ASSUME NEW i \in Jobs, job'[i].pc \in Locked
        PROVE  mu'[job'[i].pub] = i
    BY <2>2 DEF Inv, LockInv
  <2> QED
    BY <2>1, <2>2 DEF LockInv
<1>4. ASSUME NEW p \in Publishers PROVE TopicsInv(p)'
  <2>1. \A t \in Topics : Joining(p, t)' <=> Joining(p, t)
    BY <1>3 DEF Joining
  <2>2. Leaving(p)' <=> Leaving(p)
    BY <1>3 DEF Leaving
  <2> QED
    BY <2>1, <2>2 DEF Inv, TopicsInv
<1> QED
  BY <1>1, <1>2, <1>4 DEF Inv
-----------------------------------------------------------------------------
(* The lock.                                                               *)

\* A call of one publisher does not hold the lock of another.
LEMMA OtherHolder ==
  ASSUME Inv, NEW j \in Jobs, NEW q \in Publishers \ {job[j].pub}, mu[q] # "Free"
  PROVE  mu[q] \in Jobs \ {j}
BY DEF Inv, LockInv, PublisherTypeOK

\* What no step of its own touches holds on for a publisher.
LEMMA Unaffected ==
  ASSUME Inv, NEW q \in Publishers, mu'[q] = mu[q], mu[q] # "Free" => job'[mu[q]] = job[mu[q]],
         topics'[q] = topics[q], sub'[q] = sub[q], closed'[q] = closed[q],
         \A t \in Topics : router'[t] = q <=> router[t] = q
  PROVE  TopicsInv(q)'
<1>1. \A t \in Topics : Joining(q, t)' <=> Joining(q, t)
  BY DEF Joining
<1>2. Leaving(q)' <=> Leaving(q)
  BY DEF Leaving
<1> QED
  BY <1>1, <1>2 DEF Inv, TopicsInv

\* A call takes the lock of its publisher.
LEMMA TakesLock ==
  ASSUME Inv, NEW j \in Jobs, mu[job[j].pub] = "Free", job[j].pc \notin Locked,
         mu' = [mu EXCEPT ![job[j].pub] = j], job'[j].pc \in Locked,
         job'[j].pub = job[j].pub, \A i \in Jobs \ {j} : job'[i] = job[i]
  PROVE  /\ LockInv'
         /\ mu' \in [Publishers -> Jobs \cup {"Free"}] /\ mu'[job[j].pub] = j
<1> DEFINE p == job[j].pub
<1>1. p \in Publishers /\ mu \in [Publishers -> Jobs \cup {"Free"}]
  BY DEF Inv, PublisherTypeOK, JobRec
<1>2. mu'[p] = j /\ \A q \in Publishers \ {p} : mu'[q] = mu[q]
  BY <1>1
<1>3. ASSUME NEW q \in Publishers, mu'[q] # "Free"
      PROVE  job'[mu'[q]].pub = q /\ job'[mu'[q]].pc \in Locked
  <2>1. CASE q = p
    BY <2>1, <1>2
  <2>2. CASE q # p
    BY <2>2, <1>2, <1>3, OtherHolder DEF Inv, LockInv
  <2> QED
    BY <2>1, <2>2
<1>4. ASSUME NEW i \in Jobs, job'[i].pc \in Locked PROVE mu'[job'[i].pub] = i
  <2>1. CASE i = j
    BY <2>1, <1>2
  <2>2. CASE i # j
    <3>1. job'[i] = job[i] /\ mu[job[i].pub] = i /\ job[i].pub \in Publishers
      BY <2>2, <1>4 DEF Inv, LockInv, PublisherTypeOK, JobRec
    <3>2. job[i].pub # p
      BY <3>1
    <3> QED
      BY <3>1, <3>2, <1>2
  <2> QED
    BY <2>1, <2>2
<1> QED
  BY <1>1, <1>2, <1>3, <1>4 DEF LockInv

\* The call that holds the lock gives it back.
LEMMA FreesLock ==
  ASSUME Inv, NEW j \in Jobs, job[j].pc \in Locked,
         mu' = [mu EXCEPT ![job[j].pub] = "Free"], job'[j].pc \notin Locked,
         \A i \in Jobs \ {j} : job'[i] = job[i]
  PROVE  /\ LockInv'
         /\ mu' \in [Publishers -> Jobs \cup {"Free"}] /\ mu'[job[j].pub] = "Free"
<1> DEFINE p == job[j].pub
<1>1. p \in Publishers /\ mu \in [Publishers -> Jobs \cup {"Free"}] /\ mu[p] = j
  BY DEF Inv, LockInv, PublisherTypeOK, JobRec
<1>2. mu'[p] = "Free" /\ \A q \in Publishers \ {p} : mu'[q] = mu[q]
  BY <1>1
<1>3. ASSUME NEW q \in Publishers, mu'[q] # "Free"
      PROVE  job'[mu'[q]].pub = q /\ job'[mu'[q]].pc \in Locked
  BY <1>2, <1>3, OtherHolder DEF Inv, LockInv
<1>4. ASSUME NEW i \in Jobs, job'[i].pc \in Locked PROVE mu'[job'[i].pub] = i
  <2>1. i # j /\ job'[i] = job[i] /\ mu[job[i].pub] = i /\ job[i].pub \in Publishers
    BY <1>4 DEF Inv, LockInv, PublisherTypeOK, JobRec
  <2>2. job[i].pub # p
    BY <2>1, <1>1
  <2> QED
    BY <2>1, <2>2, <1>2
<1> QED
  BY <1>1, <1>2, <1>3, <1>4 DEF LockInv
-----------------------------------------------------------------------------
(* Steps outside the lock.                                                 *)

LEMMA GoesFree ==
  ASSUME Inv, NEW j \in Jobs, job[j].pc \notin Locked, UNCHANGED <<routerVars, mu, topics, closed>>,
         NEW pc \in {"Lock", "Peers", "Before", "After", "Next"}, Goes(j, pc)
  PROVE  Inv'
<1>1. /\ job' \in [Jobs -> JobRec] /\ job'[j].pc = pc
      /\ \A i \in Jobs \ {j} : job'[i] = job[i]
  BY GoesType DEF Inv
<1>2. pc \notin Locked
  BY DEF Locked
<1> QED
  BY <1>1, <1>2, FreeStep DEF routerVars, Inv, PublisherTypeOK

LEMMA ReturnsFree ==
  ASSUME Inv, NEW j \in Jobs, job[j].pc \notin Locked, UNCHANGED <<router, sub, peers, mu, topics, closed>>,
         queue' \in [Publishers -> [Topics -> Seq({"Own", "Peer"})]],
         NEW out \in {"Ok", "Message", "TooLarge", "Closed", "JoinError", "NoPeers", "Context",
                      "Hook", "Cancelled"},
         Returns(j, out)
  PROVE  Inv'
<1>1. /\ job' \in [Jobs -> JobRec] /\ job'[j].pc = "Done"
      /\ \A i \in Jobs \ {j} : job'[i] = job[i]
  BY ReturnsType DEF Inv
<1>2. "Done" \notin Locked
  BY DEF Locked
<1> QED
  BY <1>1, <1>2, FreeStep

LEMMA BeginStep == ASSUME Inv, NEW j \in Jobs, Begin(j) PROVE Inv'
<1>1. job[j].pc \notin Locked /\ queue \in [Publishers -> [Topics -> Seq({"Own", "Peer"})]]
  BY DEF Begin, Locked, Inv, PublisherTypeOK
<1>2. CASE Goes(j, "Lock")
  BY <1>1, <1>2, GoesFree DEF Begin
<1>3. CASE Returns(j, "TooLarge")
  BY <1>1, <1>3, ReturnsFree DEF Begin, routerVars
<1> QED
  BY <1>2, <1>3 DEF Begin

LEMMA JoinKnownStep == ASSUME Inv, NEW j \in Jobs, JoinKnown(j) PROVE Inv'
<1>1. job[j].pc \notin Locked /\ queue \in [Publishers -> [Topics -> Seq({"Own", "Peer"})]]
  BY DEF JoinKnown, Locked, Inv, PublisherTypeOK
<1>2. CASE Goes(j, Joined(j))
  BY <1>1, <1>2, GoesFree DEF JoinKnown, Joined
<1>3. CASE Returns(j, "Closed")
  BY <1>1, <1>3, ReturnsFree DEF JoinKnown, routerVars
<1> QED
  BY <1>2, <1>3 DEF JoinKnown

LEMMA AwaitPeerStep == ASSUME Inv, NEW j \in Jobs, AwaitPeer(j) PROVE Inv'
<1>1. job[j].pc \notin Locked /\ queue \in [Publishers -> [Topics -> Seq({"Own", "Peer"})]]
  BY DEF AwaitPeer, Locked, Inv, PublisherTypeOK
<1>2. CASE Goes(j, "Before")
  BY <1>1, <1>2, GoesFree DEF AwaitPeer
<1>3. ASSUME NEW out \in {"NoPeers", "Context"}, Returns(j, out) PROVE Inv'
  BY <1>1, <1>3, ReturnsFree DEF AwaitPeer, routerVars
<1> QED
  BY <1>2, <1>3 DEF AwaitPeer

LEMMA HookFailsStep == ASSUME Inv, NEW j \in Jobs, HookFails(j) PROVE Inv'
<1>1. job[j].pc \notin Locked /\ queue \in [Publishers -> [Topics -> Seq({"Own", "Peer"})]]
  BY DEF HookFails, Locked, Inv, PublisherTypeOK
<1> QED
  BY <1>1, ReturnsFree DEF HookFails, routerVars

LEMMA AfterPublishStep == ASSUME Inv, NEW j \in Jobs, AfterPublish(j) PROVE Inv'
<1>1. job[j].pc \notin Locked /\ queue \in [Publishers -> [Topics -> Seq({"Own", "Peer"})]]
  BY DEF AfterPublish, Locked, Inv, PublisherTypeOK
<1> QED
  BY <1>1, ReturnsFree DEF AfterPublish, routerVars

LEMMA NextEndsStep == ASSUME Inv, NEW j \in Jobs, NextEnds(j) PROVE Inv'
<1>1. job[j].pc \notin Locked /\ queue \in [Publishers -> [Topics -> Seq({"Own", "Peer"})]]
  BY DEF NextEnds, Locked, Inv, PublisherTypeOK
<1> QED
  BY <1>1, ReturnsFree DEF NextEnds, routerVars

LEMMA PublishMessageStep == ASSUME Inv, NEW j \in Jobs, PublishMessage(j) PROVE Inv'
<1> DEFINE p == job[j].pub  t == job[j].topic
<1>1. /\ p \in Publishers /\ t \in Topics /\ job[j].pc \notin Locked /\ job[j] \in JobRec
      /\ queue \in [Publishers -> [Topics -> Seq({"Own", "Peer"})]]
  BY DEF PublishMessage, Locked, Inv, PublisherTypeOK, JobRec
<1>2. CASE /\ job' = [job EXCEPT ![j].pc = "After", ![j].sent = TRUE]
           /\ queue' = IF Len(queue[p][t]) < SubQueue /\ sub[p][t] = "Active"
                       THEN [queue EXCEPT ![p][t] = Append(@, "Own")] ELSE queue
  <2>1. queue' \in [Publishers -> [Topics -> Seq({"Own", "Peer"})]]
    <3>1. Append(queue[p][t], "Own") \in Seq({"Own", "Peer"})
      BY <1>1
    <3> QED
      BY <3>1, <1>1, <1>2
  <2>2. job' = [job EXCEPT ![j] = [job[j] EXCEPT !.pc = "After", !.sent = TRUE]]
    BY <1>2
  <2>3. [job[j] EXCEPT !.pc = "After", !.sent = TRUE] \in JobRec
    BY <1>1 DEF JobRec
  <2>4. job'[j] = [job[j] EXCEPT !.pc = "After", !.sent = TRUE] /\ \A i \in Jobs \ {j} : job'[i] = job[i]
    BY <2>2 DEF Inv, PublisherTypeOK
  <2>5. job' \in [Jobs -> JobRec] /\ job'[j].pc = "After"
    BY <2>2, <2>3, <2>4, <1>1 DEF Inv, PublisherTypeOK, JobRec
  <2> QED
    BY <2>1, <2>4, <2>5, <1>1, FreeStep DEF PublishMessage, Locked
<1>3. CASE Returns(j, "Cancelled") /\ UNCHANGED queue
  BY <1>1, <1>3, ReturnsFree DEF PublishMessage
<1>4. CASE Returns(j, "Context") /\ UNCHANGED queue
  BY <1>1, <1>4, ReturnsFree DEF PublishMessage
<1> QED
  BY <1>2, <1>3, <1>4 DEF PublishMessage

LEMMA NextMessageStep == ASSUME Inv, NEW j \in Jobs, NextMessage(j) PROVE Inv'
<1> DEFINE p == job[j].pub  t == job[j].topic
<1>1. /\ p \in Publishers /\ t \in Topics /\ job[j].pc \notin Locked
      /\ queue \in [Publishers -> [Topics -> Seq({"Own", "Peer"})]]
  BY DEF NextMessage, Locked, Inv, PublisherTypeOK, JobRec
<1>2. queue' \in [Publishers -> [Topics -> Seq({"Own", "Peer"})]]
  BY <1>1 DEF NextMessage
<1>3. CASE UNCHANGED job
  BY <1>1, <1>2, <1>3, FreeStep DEF NextMessage, Inv, PublisherTypeOK
<1>4. CASE Returns(j, "Message")
  BY <1>1, <1>2, <1>4, ReturnsFree DEF NextMessage
<1> QED
  BY <1>3, <1>4 DEF NextMessage

LEMMA JobDueStep == ASSUME Inv, NEW j \in Jobs, JobDue(j) PROVE Inv'
<1>1. job[j] \in JobRec /\ job' = [job EXCEPT ![j] = [job[j] EXCEPT !.due = TRUE]]
  BY DEF Inv, PublisherTypeOK, JobDue
<1>2. [job[j] EXCEPT !.due = TRUE] \in JobRec
  BY <1>1 DEF JobRec
<1>3. \A i \in Jobs : job'[i].pc = job[i].pc /\ job'[i].pub = job[i].pub /\ job'[i].topic = job[i].topic
  <2>1. job'[j] = [job[j] EXCEPT !.due = TRUE] /\ \A i \in Jobs \ {j} : job'[i] = job[i]
    BY <1>1 DEF Inv, PublisherTypeOK
  <2> QED
    BY <2>1, <1>1 DEF JobRec
<1>4. job' \in [Jobs -> JobRec]
  <2>1. PICK r \in JobRec : job' = [job EXCEPT ![j] = r]
    BY <1>1, <1>2
  <2>2. job \in [Jobs -> JobRec]
    BY DEF Inv, PublisherTypeOK
  <2> QED
    BY <2>1, <2>2
<1>5. UNCHANGED <<router, sub, queue, peers, mu, topics, closed>>
  BY DEF JobDue, routerVars
<1>6. PublisherTypeOK'
  BY <1>4, <1>5 DEF Inv, PublisherTypeOK
<1>7. LockInv'
  <2>1. ASSUME NEW p \in Publishers, mu[p] # "Free"
        PROVE  job'[mu[p]].pub = p /\ job'[mu[p]].pc \in Locked
    <3>1. mu[p] \in Jobs
      BY <2>1 DEF Inv, PublisherTypeOK
    <3> QED
      BY <2>1, <3>1, <1>3 DEF Inv, LockInv
  <2>2. ASSUME NEW i \in Jobs, job'[i].pc \in Locked PROVE mu[job'[i].pub] = i
    BY <2>2, <1>3 DEF Inv, LockInv
  <2> QED
    BY <2>1, <2>2, <1>5 DEF LockInv
<1>8. ASSUME NEW p \in Publishers PROVE TopicsInv(p)'
  <2>1. mu[p] # "Free" => mu[p] \in Jobs
    BY DEF Inv, PublisherTypeOK
  <2>2. \A t \in Topics : Joining(p, t)' <=> Joining(p, t)
    BY <2>1, <1>3, <1>5 DEF Joining
  <2>3. Leaving(p)' <=> Leaving(p)
    BY <2>1, <1>3, <1>5 DEF Leaving
  <2> QED
    BY <2>2, <2>3, <1>5 DEF Inv, TopicsInv
<1> QED
  BY <1>6, <1>7, <1>8 DEF Inv
-----------------------------------------------------------------------------
(* Joining a topic.                                                        *)

LEMMA JoinStep == ASSUME Inv, NEW j \in Jobs, Join(j) PROVE Inv'
<1>1. PICK p \in Publishers, t \in Topics :
        /\ p = job[j].pub /\ t = job[j].topic
        /\ job[j].pc \notin Locked /\ "Subscribe" \in Locked
        /\ queue \in [Publishers -> [Topics -> Seq({"Own", "Peer"})]]
  BY DEF Join, Locked, Inv, PublisherTypeOK, JobRec
<1>2. CASE Returns(j, "JoinError") /\ UNCHANGED <<router, mu>>
  BY <1>1, <1>2, ReturnsFree DEF Join
<1>3. CASE /\ router[t] = NoPublisher
           /\ router' = [router EXCEPT ![t] = p]
           /\ mu' = [mu EXCEPT ![p] = j]
           /\ Goes(j, "Subscribe")
  <2>1. /\ job' \in [Jobs -> JobRec] /\ job'[j].pc = "Subscribe"
        /\ job'[j].pub = p /\ job'[j].topic = t /\ \A i \in Jobs \ {j} : job'[i] = job[i]
    BY <1>1, <1>3, GoesType DEF Inv
  <2>2. LockInv' /\ mu' \in [Publishers -> Jobs \cup {"Free"}] /\ mu'[p] = j
    BY <2>1, <1>1, <1>3, TakesLock DEF Join
  <2>3. router'[t] = p /\ \A u \in Topics \ {t} : router'[u] = router[u]
    BY <1>1, <1>3 DEF Inv, PublisherTypeOK
  <2>4. PublisherTypeOK'
    BY <1>1, <1>3, <2>1, <2>2 DEF Inv, PublisherTypeOK, Join
  <2>5. TopicsInv(p)'
    <3>1. \A u \in Topics : Joining(p, u)' <=> u = t
      BY <2>1, <2>2 DEF Joining
    <3>2. \A u \in Topics : ~Joining(p, u)
      BY <1>1 DEF Join, Joining
    <3>3. topics' = topics /\ sub' = sub /\ closed' = closed /\ t \notin topics[p] /\ ~closed[p]
      BY <1>1 DEF Join, isClosed
    <3>4. \A u \in Topics : router'[u] = p <=> u \in topics[p] \/ u = t
      BY <1>1, <2>3, <3>2 DEF Inv, TopicsInv
    <3> QED
      BY <1>1, <3>1, <3>3, <3>4 DEF Inv, TopicsInv
  <2>6. ASSUME NEW q \in Publishers \ {p} PROVE TopicsInv(q)'
    <3>1. mu'[q] = mu[q] /\ (mu[q] # "Free" => job'[mu[q]] = job[mu[q]])
      BY <1>1, <1>3, <2>1, OtherHolder DEF Inv, PublisherTypeOK
    <3>2. \A u \in Topics : router'[u] = q <=> router[u] = q
      BY <1>3, <2>3
    <3> QED
      BY <3>1, <3>2, Unaffected DEF Join
  <2> QED
    BY <2>2, <2>4, <2>5, <2>6 DEF Inv
<1> QED
  BY <1>1, <1>2, <1>3 DEF Join

\* The call that is about to subscribe.
LEMMA JoiningFact ==
  ASSUME Inv, NEW j \in Jobs, job[j].pc = "Subscribe"
  PROVE  /\ job[j].pub \in Publishers /\ job[j].topic \in Topics /\ job[j].pc \in Locked
         /\ mu[job[j].pub] = j
         /\ \A u \in Topics : Joining(job[j].pub, u) <=> u = job[j].topic
         /\ router[job[j].topic] = job[j].pub /\ job[j].topic \notin topics[job[j].pub]
         /\ ~closed[job[j].pub]
<1> DEFINE p == job[j].pub  t == job[j].topic
<1>1. p \in Publishers /\ t \in Topics /\ job[j].pc \in Locked
  BY DEF Locked, Inv, PublisherTypeOK, JobRec
<1>2. mu[p] = j
  BY <1>1 DEF Inv, LockInv
<1>3. \A u \in Topics : Joining(p, u) <=> u = t
  BY <1>2 DEF Joining
<1> QED
  BY <1>1, <1>2, <1>3 DEF Inv, TopicsInv

LEMMA SubscribeStep == ASSUME Inv, NEW j \in Jobs, Subscribe(j) PROVE Inv'
<1>1. PICK p \in Publishers, t \in Topics :
      /\ p = job[j].pub /\ t = job[j].topic /\ job[j].pc \in Locked /\ mu[p] = j
      /\ \A u \in Topics : Joining(p, u) <=> u = t
      /\ router[t] = p /\ t \notin topics[p] /\ ~closed[p]
  BY JoiningFact DEF Subscribe
<1>2. Joined(j) \in {"Peers", "Next"} /\ Joined(j) \notin Locked
  BY DEF Joined, Locked
<1>3. /\ job' \in [Jobs -> JobRec] /\ job'[j].pc \notin Locked /\ \A i \in Jobs \ {j} : job'[i] = job[i]
  BY <1>2, GoesType DEF Inv, Subscribe
<1>4. LockInv' /\ mu' \in [Publishers -> Jobs \cup {"Free"}] /\ mu'[p] = "Free"
  BY <1>1, <1>3, FreesLock DEF Subscribe
<1>5. /\ sub' \in [Publishers -> [Topics -> {"None", "Active", "Cancelled"}]]
      /\ topics' \in [Publishers -> SUBSET Topics]
      /\ topics'[p] = topics[p] \cup {t}
      /\ sub'[p][t] = "Active" /\ \A u \in Topics \ {t} : sub'[p][u] = sub[p][u]
      /\ \A q \in Publishers \ {p} : topics'[q] = topics[q] /\ sub'[q] = sub[q] /\ mu'[q] = mu[q]
  BY <1>1 DEF Inv, PublisherTypeOK, Subscribe
<1>6. router' = router /\ closed' = closed /\ queue' = queue /\ peers' = peers
  BY DEF Subscribe
<1>7. PublisherTypeOK'
  BY <1>3, <1>4, <1>5, <1>6 DEF Inv, PublisherTypeOK
<1>8. TopicsInv(p)'
  <2>1. \A u \in Topics : ~Joining(p, u)'
    BY <1>4 DEF Joining
  <2>2. \A u \in Topics : router[u] = p <=> u \in topics[p] \/ u = t
    BY <1>1 DEF Inv, TopicsInv
  <2>3. \A u \in topics[p] : u \in Topics /\ sub[p][u] = "Active"
    BY <1>1 DEF Inv, TopicsInv, PublisherTypeOK
  <2> QED
    BY <1>1, <1>5, <1>6, <2>1, <2>2, <2>3 DEF TopicsInv
<1>9. ASSUME NEW q \in Publishers \ {p} PROVE TopicsInv(q)'
  <2>1. mu[q] # "Free" => job'[mu[q]] = job[mu[q]]
    BY <1>1, <1>3, OtherHolder
  <2> QED
    BY <2>1, <1>5, <1>6, Unaffected
<1> QED
  BY <1>4, <1>7, <1>8, <1>9 DEF Inv

LEMMA SubscribeFailsStep == ASSUME Inv, NEW j \in Jobs, SubscribeFails(j) PROVE Inv'
<1>1. PICK p \in Publishers, t \in Topics :
      /\ p = job[j].pub /\ t = job[j].topic /\ job[j].pc \in Locked /\ mu[p] = j
      /\ \A u \in Topics : Joining(p, u) <=> u = t
      /\ router[t] = p /\ t \notin topics[p] /\ ~closed[p]
  BY JoiningFact DEF SubscribeFails
<1>3. /\ job' \in [Jobs -> JobRec] /\ job'[j].pc \notin Locked /\ \A i \in Jobs \ {j} : job'[i] = job[i]
  BY ReturnsType DEF Inv, SubscribeFails, Locked
<1>4. LockInv' /\ mu' \in [Publishers -> Jobs \cup {"Free"}] /\ mu'[p] = "Free"
  BY <1>1, <1>3, FreesLock DEF SubscribeFails
<1>5. /\ router' \in [Topics -> Publishers \cup {NoPublisher}]
      /\ router'[t] = NoPublisher /\ \A u \in Topics \ {t} : router'[u] = router[u]
      /\ \A q \in Publishers \ {p} : mu'[q] = mu[q]
  BY <1>1 DEF Inv, PublisherTypeOK, SubscribeFails
<1>6. topics' = topics /\ sub' = sub /\ closed' = closed /\ queue' = queue /\ peers' = peers
  BY DEF SubscribeFails
<1>7. PublisherTypeOK'
  BY <1>3, <1>4, <1>5, <1>6 DEF Inv, PublisherTypeOK
<1>8. TopicsInv(p)'
  <2>1. \A u \in Topics : ~Joining(p, u)'
    BY <1>4 DEF Joining
  <2>2. \A u \in Topics : router[u] = p <=> u \in topics[p] \/ u = t
    BY <1>1 DEF Inv, TopicsInv
  <2>3. \A u \in topics[p] : u \in Topics /\ sub[p][u] = "Active"
    BY <1>1 DEF Inv, TopicsInv, PublisherTypeOK
  <2> QED
    BY <1>1, <1>5, <1>6, <2>1, <2>2, <2>3 DEF TopicsInv
<1>9. ASSUME NEW q \in Publishers \ {p} PROVE TopicsInv(q)'
  <2>1. mu[q] # "Free" => job'[mu[q]] = job[mu[q]]
    BY <1>1, <1>3, OtherHolder
  <2>2. \A u \in Topics : router'[u] = q <=> router[u] = q
    BY <1>1, <1>5
  <2> QED
    BY <2>1, <2>2, <1>5, <1>6, Unaffected
<1> QED
  BY <1>4, <1>7, <1>8, <1>9 DEF Inv
-----------------------------------------------------------------------------
(* Closing.                                                                *)

LEMMA CloseBeginsStep == ASSUME Inv, NEW j \in Jobs, CloseBegins(j) PROVE Inv'
<1>1. PICK p \in Publishers :
        /\ p = job[j].pub /\ job[j].pc \notin Locked /\ "Leave" \in Locked /\ mu[p] = "Free"
        /\ queue \in [Publishers -> [Topics -> Seq({"Own", "Peer"})]]
  BY DEF CloseBegins, Locked, Inv, PublisherTypeOK, JobRec
<1>2. CASE Returns(j, "Ok") /\ UNCHANGED <<mu, closed>>
  BY <1>1, <1>2, ReturnsFree DEF CloseBegins, routerVars
<1>3. CASE /\ closed' = [closed EXCEPT ![p] = TRUE]
           /\ mu' = [mu EXCEPT ![p] = j]
           /\ Goes(j, "Leave")
  <2>1. /\ job' \in [Jobs -> JobRec] /\ job'[j].pc = "Leave"
        /\ job'[j].pub = p /\ \A i \in Jobs \ {j} : job'[i] = job[i]
    BY <1>1, <1>3, GoesType DEF Inv
  <2>2. LockInv' /\ mu' \in [Publishers -> Jobs \cup {"Free"}] /\ mu'[p] = j
    BY <2>1, <1>1, <1>3, TakesLock
  <2>3. closed' \in [Publishers -> BOOLEAN] /\ \A q \in Publishers \ {p} : closed'[q] = closed[q]
    <3>1. \E b \in BOOLEAN : closed' = [closed EXCEPT ![p] = b]
      BY <1>3
    <3> QED
      BY <3>1 DEF Inv, PublisherTypeOK
  <2>4. UNCHANGED <<router, sub, queue, peers, topics>>
    BY DEF CloseBegins, routerVars
  <2>5. PublisherTypeOK'
    BY <2>1, <2>2, <2>3, <2>4 DEF Inv, PublisherTypeOK
  <2>6. TopicsInv(p)'
    <3>1. \A u \in Topics : ~Joining(p, u)'
      BY <2>1, <2>2 DEF Joining
    <3>2. Leaving(p)'
      BY <2>1, <2>2 DEF Leaving
    <3>3. \A u \in Topics : ~Joining(p, u)
      BY <1>1 DEF Joining
    <3> QED
      BY <2>4, <3>1, <3>2, <3>3 DEF Inv, TopicsInv
  <2>7. ASSUME NEW q \in Publishers \ {p} PROVE TopicsInv(q)'
    <3>1. mu'[q] = mu[q] /\ (mu[q] # "Free" => job'[mu[q]] = job[mu[q]])
      BY <1>1, <1>3, <2>1, OtherHolder DEF Inv, PublisherTypeOK
    <3> QED
      BY <3>1, <2>3, <2>4, Unaffected
  <2> QED
    BY <2>2, <2>5, <2>6, <2>7 DEF Inv
<1> QED
  BY <1>1, <1>2, <1>3 DEF CloseBegins

\* The call that is leaving the topics.
LEMMA LeavingFact ==
  ASSUME Inv, NEW j \in Jobs, job[j].pc = "Leave"
  PROVE  /\ job[j].pub \in Publishers /\ job[j].pc \in Locked /\ mu[job[j].pub] = j
         /\ Leaving(job[j].pub) /\ \A u \in Topics : ~Joining(job[j].pub, u)
<1>1. job[j].pub \in Publishers /\ job[j].pc \in Locked
  BY DEF Locked, Inv, PublisherTypeOK, JobRec
<1>2. mu[job[j].pub] = j
  BY <1>1 DEF Inv, LockInv
<1> QED
  BY <1>1, <1>2 DEF Joining, Leaving

LEMMA LeaveTopicStep ==
  ASSUME Inv, NEW j \in Jobs, NEW t \in Topics, LeaveTopic(j, t) PROVE Inv'
<1>1. PICK p \in Publishers :
        /\ p = job[j].pub /\ job[j].pc \in Locked /\ mu[p] = j
        /\ Leaving(p) /\ \A u \in Topics : ~Joining(p, u)
        /\ t \in topics[p]
  BY LeavingFact DEF LeaveTopic
<1>2. UNCHANGED <<queue, peers, mu, closed, job>>
  BY DEF LeaveTopic
<1>3. /\ router' = [router EXCEPT ![t] = NoPublisher]
      /\ sub' = [sub EXCEPT ![p][t] = "Cancelled"]
      /\ topics' = [topics EXCEPT ![p] = @ \ {t}]
  BY <1>1 DEF LeaveTopic, leave
<1>4. PublisherTypeOK'
  BY <1>2, <1>3 DEF Inv, PublisherTypeOK
<1>5. LockInv'
  BY <1>2 DEF Inv, LockInv
<1>6. router[t] = p
  BY <1>1 DEF Inv, TopicsInv
<1>7. router'[t] = NoPublisher /\ \A u \in Topics \ {t} : router'[u] = router[u]
  BY <1>3 DEF Inv, PublisherTypeOK
<1>8. TopicsInv(p)'
  <2>1. topics'[p] = topics[p] \ {t} /\ \A u \in Topics \ {t} : sub'[p][u] = sub[p][u]
    BY <1>3 DEF Inv, PublisherTypeOK
  <2>2. Leaving(p)' /\ \A u \in Topics : ~Joining(p, u)'
    BY <1>1, <1>2 DEF Leaving, Joining
  <2>3. \A u \in Topics : router[u] = p <=> u \in topics[p]
    BY <1>1 DEF Inv, TopicsInv
  <2>4. \A u \in topics[p] : u \in Topics /\ sub[p][u] = "Active"
    BY DEF Inv, TopicsInv, PublisherTypeOK
  <2> QED
    BY <1>7, <2>1, <2>2, <2>3, <2>4 DEF TopicsInv
<1>9. ASSUME NEW q \in Publishers \ {p} PROVE TopicsInv(q)'
  <2>1. topics'[q] = topics[q] /\ sub'[q] = sub[q]
    BY <1>3 DEF Inv, PublisherTypeOK
  <2>2. \A u \in Topics : router'[u] = q <=> router[u] = q
    BY <1>6, <1>7
  <2> QED
    BY <1>2, <2>1, <2>2, Unaffected
<1> QED
  BY <1>4, <1>5, <1>8, <1>9 DEF Inv

LEMMA CloseEndsStep == ASSUME Inv, NEW j \in Jobs, CloseEnds(j) PROVE Inv'
<1>1. PICK p \in Publishers :
        /\ p = job[j].pub /\ job[j].pc \in Locked /\ mu[p] = j
        /\ Leaving(p) /\ \A u \in Topics : ~Joining(p, u)
        /\ topics[p] = {}
  BY LeavingFact DEF CloseEnds
<1>2. UNCHANGED <<router, sub, queue, peers, topics, closed>>
  BY DEF CloseEnds, routerVars
<1>3. /\ job' \in [Jobs -> JobRec] /\ job'[j].pc \notin Locked /\ \A i \in Jobs \ {j} : job'[i] = job[i]
  BY ReturnsType DEF Inv, CloseEnds, Locked
<1>4. LockInv' /\ mu' \in [Publishers -> Jobs \cup {"Free"}] /\ mu'[p] = "Free"
  BY <1>1, <1>3, FreesLock DEF CloseEnds
<1>5. PublisherTypeOK'
  BY <1>2, <1>3, <1>4 DEF Inv, PublisherTypeOK
<1>6. TopicsInv(p)'
  <2>1. \A u \in Topics : ~Joining(p, u)'
    BY <1>4 DEF Joining
  <2>2. \A u \in Topics : router[u] # p
    BY <1>1 DEF Inv, TopicsInv
  <2> QED
    BY <1>1, <1>2, <2>1, <2>2 DEF TopicsInv
<1>7. ASSUME NEW q \in Publishers \ {p} PROVE TopicsInv(q)'
  <2>1. mu'[q] = mu[q] /\ (mu[q] # "Free" => job'[mu[q]] = job[mu[q]])
    BY <1>1, <1>3, OtherHolder DEF Inv, PublisherTypeOK, CloseEnds
  <2> QED
    BY <2>1, <1>2, Unaffected
<1> QED
  BY <1>4, <1>5, <1>6, <1>7 DEF Inv
-----------------------------------------------------------------------------
(* The theorems.                                                           *)

LEMMA NetworkStep ==
  ASSUME Inv, NEW t \in Topics, PeersChange(t) \/ PeerPublishes(t) PROVE Inv'
<1>1. UNCHANGED <<router, sub, mu, topics, closed, job>>
  BY DEF PeersChange, PeerPublishes
<1>2. peers' \in [Topics -> BOOLEAN] /\ queue' \in [Publishers -> [Topics -> Seq({"Own", "Peer"})]]
  <2>1. CASE PeersChange(t)
    BY <2>1 DEF PeersChange, Inv, PublisherTypeOK
  <2>2. CASE PeerPublishes(t)
    <3>1. PICK p \in Publishers : queue' = [queue EXCEPT ![p][t] = Append(@, "Peer")]
      BY <2>2 DEF PeerPublishes, Inv, PublisherTypeOK
    <3>2. Append(queue[p][t], "Peer") \in Seq({"Own", "Peer"})
      BY DEF Inv, PublisherTypeOK
    <3> QED
      BY <2>2, <3>1, <3>2 DEF PeerPublishes, Inv, PublisherTypeOK
  <2> QED
    BY <2>1, <2>2
<1>3. PublisherTypeOK'
  BY <1>1, <1>2 DEF Inv, PublisherTypeOK
<1>4. LockInv'
  BY <1>1 DEF Inv, LockInv
<1>5. ASSUME NEW p \in Publishers PROVE TopicsInv(p)'
  BY <1>1, Unaffected
<1> QED
  BY <1>3, <1>4, <1>5 DEF Inv

LEMMA InvStep == Inv /\ [PublisherNext]_publisherVars => Inv'
<1> SUFFICES ASSUME Inv, [PublisherNext]_publisherVars PROVE Inv'
  OBVIOUS
<1>1. CASE UNCHANGED publisherVars
  <2>1. UNCHANGED <<router, sub, queue, peers, mu, topics, closed, job>>
    BY <1>1 DEF publisherVars
  <2>2. PublisherTypeOK' /\ LockInv'
    BY <2>1 DEF Inv, PublisherTypeOK, LockInv
  <2>3. ASSUME NEW p \in Publishers PROVE TopicsInv(p)'
    BY <2>1, Unaffected
  <2> QED
    BY <2>2, <2>3 DEF Inv
<1>2. ASSUME NEW j \in Jobs, Begin(j) \/ JobDue(j) \/ JobStep(j) PROVE Inv'
  BY <1>2, BeginStep, JobDueStep, JoinKnownStep, JoinStep, SubscribeStep, SubscribeFailsStep,
     AwaitPeerStep, HookFailsStep, PublishMessageStep, AfterPublishStep, NextMessageStep,
     NextEndsStep, CloseBeginsStep, LeaveTopicStep, CloseEndsStep DEF JobStep
<1>3. ASSUME NEW t \in Topics, PeersChange(t) \/ PeerPublishes(t) PROVE Inv'
  BY <1>3, NetworkStep
<1> QED
  BY <1>1, <1>2, <1>3 DEF PublisherNext

LEMMA InvCorrect == PublisherSpec => []Inv
BY InvInit, InvStep, PTL DEF PublisherSpec

\* The router's topics, the publishers' and the calls under way have their
\* types, for any number of publishers, topics and calls of Publish, Await and
\* Close.
THEOREM TypeCorrect == PublisherSpec => []PublisherTypeOK
<1>1. Inv => PublisherTypeOK
  BY DEF Inv
<1> QED
  BY <1>1, InvCorrect, PTL

\* Whenever the lock of a publisher is free, its topics are the ones the router
\* has joined for it, all with a live subscription, and none once it is closed:
\* join undoes what it cannot finish, and Close leaves what join has added.
THEOREM RouterMatchesCorrect == PublisherSpec => []RouterMatches
<1>1. Inv => RouterMatches
  <2> SUFFICES ASSUME Inv, NEW p \in Publishers, mu[p] = "Free"
      PROVE  /\ topics[p] = {t \in Topics : router[t] = p}
             /\ \A t \in topics[p] : sub[p][t] = "Active"
             /\ closed[p] => topics[p] = {}
    BY DEF RouterMatches
  <2>1. ~Leaving(p) /\ \A t \in Topics : ~Joining(p, t)
    BY DEF Leaving, Joining
  <2>2. topics[p] \subseteq Topics
    BY DEF Inv, PublisherTypeOK
  <2> QED
    BY <2>1, <2>2 DEF Inv, TopicsInv
<1> QED
  BY <1>1, InvCorrect, PTL
=============================================================================
