----------------------------- MODULE Publisher -----------------------------
(***************************************************************************)
(* The gossip publisher (gossipsub/publish.go): the topics that the        *)
(* publishers of one session have joined on its router, and the concurrent *)
(* calls Publish, Await and Close.  A publisher changes its topics under   *)
(* its lock; the calls use a joined topic after the lock is released.      *)
(*                                                                         *)
(* The router is an external library, modelled from its use: a topic can   *)
(* be joined once until it is closed, closing one with a live subscription *)
(* is refused, a closed topic publishes nothing, and a cancelled           *)
(* subscription hands out what it has queued and then ends.  Payloads are  *)
(* left out: a message is "Own" or "Peer", for who published it.           *)
(***************************************************************************)
EXTENDS Naturals, Sequences

CONSTANTS Publishers,    \* the publishers of the session
          Topics,        \* topic names
          Jobs,          \* the calls of Publish, Await and Close
          JobSets,       \* what they may be: functions from Jobs to Job
          SubQueue,      \* messages a subscription holds; others are dropped
          NoPublisher    \* not a publisher

Job == [kind : {"Publish", "Await", "Close"}, pub : Publishers, topic : Topics, wait : BOOLEAN]

ASSUME PublisherAssumption ==
  /\ SubQueue \in Nat \ {0} /\ NoPublisher \notin Publishers
  /\ "Free" \notin Jobs /\ JobSets \subseteq [Jobs -> Job]

VARIABLES
  router,  \* router[t]: the publisher whose topic the router has for t
  sub,     \* sub[p][t]: the subscription of p: "None", "Active", "Cancelled"
  queue,   \* queue[p][t]: its queued messages
  peers,   \* peers[t]: a peer has subscribed to t
  mu,      \* mu[p]: p.mu, the job that holds it or "Free"
  topics,  \* topics[p]: p.topics
  closed,  \* closed[p]: p.closed
  job      \* job[j]: see JobRec

publisherVars == <<router, sub, queue, peers, mu, topics, closed, job>>
routerVars == <<router, sub, queue, peers>>

\* due: the context of the call is done; sent: its message was published.
JobRec == [kind : {"Publish", "Await", "Close"}, pub : Publishers, topic : Topics,
           wait : BOOLEAN, due : BOOLEAN, sent : BOOLEAN,
           pc : {"Idle", "Lock", "Subscribe", "Peers", "Before", "After", "Next", "Leave", "Done"},
           out : {"None", "Ok", "Message", "TooLarge", "Closed", "JoinError", "NoPeers",
                  "Context", "Hook", "Cancelled"}]

\* The calls that may be made.
JobInits ==
  {[j \in Jobs |-> [kind |-> f[j].kind, pub |-> f[j].pub, topic |-> f[j].topic,
                     wait |-> f[j].wait, due |-> FALSE, sent |-> FALSE, pc |-> "Idle",
                     out |-> "None"]] : f \in JobSets}

PublisherInit(inits) ==
  /\ router = [t \in Topics |-> NoPublisher]
  /\ sub = [p \in Publishers |-> [t \in Topics |-> "None"]]
  /\ queue = [p \in Publishers |-> [t \in Topics |-> << >>]]
  /\ peers = [t \in Topics |-> FALSE]
  /\ mu = [p \in Publishers |-> "Free"]
  /\ topics = [p \in Publishers |-> {}]
  /\ closed = [p \in Publishers |-> FALSE]
  /\ job \in inits

Returns(j, out) == job' = [job EXCEPT ![j].pc = "Done", ![j].out = out]
Goes(j, pc) == job' = [job EXCEPT ![j].pc = pc]

\* What follows join in the call.
Joined(j) == IF job[j].kind = "Publish" THEN "Peers" ELSE "Next"
-----------------------------------------------------------------------------
(* The calls begin; a payload above MaxPayloadSize is refused.             *)

Begin(j) ==
  /\ job[j].pc = "Idle"
  /\ \/ Goes(j, "Lock")
     \/ job[j].kind = "Publish" /\ Returns(j, "TooLarge")
  /\ UNCHANGED <<routerVars, mu, topics, closed>>

\* The timeout of the call, or the end of the publisher's context.
JobDue(j) ==
  /\ job[j].pc \notin {"Idle", "Done"} /\ job[j].kind # "Close" /\ ~job[j].due
  /\ job' = [job EXCEPT ![j].due = TRUE]
  /\ UNCHANGED <<routerVars, mu, topics, closed>>
-----------------------------------------------------------------------------
(* join, under p.mu.                                                       *)

isClosed(p) == closed[p]

JoinKnown(j) ==
  LET p == job[j].pub  t == job[j].topic IN
  /\ job[j].pc = "Lock" /\ job[j].kind # "Close" /\ mu[p] = "Free"
  /\ \/ isClosed(p) /\ Returns(j, "Closed")
     \/ ~isClosed(p) /\ t \in topics[p] /\ Goes(j, Joined(j))
  /\ UNCHANGED <<routerVars, mu, topics, closed>>

\* pubsub.Join; it fails when another publisher has the topic.
Join(j) ==
  LET p == job[j].pub  t == job[j].topic IN
  /\ job[j].pc = "Lock" /\ job[j].kind # "Close" /\ mu[p] = "Free"
  /\ ~isClosed(p) /\ t \notin topics[p]
  /\ \/ /\ router[t] = NoPublisher
        /\ router' = [router EXCEPT ![t] = p]
        /\ mu' = [mu EXCEPT ![p] = j]
        /\ Goes(j, "Subscribe")
     \/ Returns(j, "JoinError") /\ UNCHANGED <<router, mu>>
  /\ UNCHANGED <<sub, queue, peers, topics, closed>>

Subscribe(j) ==
  LET p == job[j].pub  t == job[j].topic IN
  /\ job[j].pc = "Subscribe"
  /\ sub' = [sub EXCEPT ![p][t] = "Active"]
  /\ topics' = [topics EXCEPT ![p] = @ \cup {t}]
  /\ mu' = [mu EXCEPT ![p] = "Free"]
  /\ Goes(j, Joined(j))
  /\ UNCHANGED <<router, queue, peers, closed>>

\* Mutant: the topic that cannot be subscribed is not closed.
SubscribeFailsOpen(j) ==
  /\ job[j].pc = "Subscribe"
  /\ mu' = [mu EXCEPT ![job[j].pub] = "Free"]
  /\ Returns(j, "JoinError")
  /\ UNCHANGED <<routerVars, topics, closed>>

\* The topic that was just joined is closed again.
SubscribeFails(j) ==
  /\ job[j].pc = "Subscribe"
  /\ router' = [router EXCEPT ![job[j].topic] = NoPublisher]
  /\ mu' = [mu EXCEPT ![job[j].pub] = "Free"]
  /\ Returns(j, "JoinError")
  /\ UNCHANGED <<sub, queue, peers, topics, closed>>
-----------------------------------------------------------------------------
(* Publish.                                                                *)

\* waitForGossipPeer.  Its own deadline is Remaining of a context that has one,
\* hence the end of that context: when it comes, either is reported.
AwaitPeer(j) ==
  /\ job[j].pc = "Peers"
  /\ \/ (~job[j].wait \/ peers[job[j].topic]) /\ Goes(j, "Before")
     \/ /\ job[j].wait /\ ~peers[job[j].topic] /\ job[j].due
        /\ \E out \in {"NoPeers", "Context"} : Returns(j, out)
  /\ UNCHANGED <<routerVars, mu, topics, closed>>

\* BeforePublish fails.
HookFails(j) ==
  /\ job[j].pc = "Before"
  /\ Returns(j, "Hook")
  /\ UNCHANGED <<routerVars, mu, topics, closed>>

\* topic.Publish: the message reaches the router, and with it our own
\* subscription; it is refused when the topic has been closed meanwhile or the
\* context is done.
PublishMessage(j) ==
  LET p == job[j].pub  t == job[j].topic IN
  /\ job[j].pc = "Before"
  /\ \/ /\ router[t] = p
        /\ job' = [job EXCEPT ![j].pc = "After", ![j].sent = TRUE]
        /\ queue' = IF Len(queue[p][t]) < SubQueue /\ sub[p][t] = "Active"
                    THEN [queue EXCEPT ![p][t] = Append(@, "Own")] ELSE queue
     \/ router[t] # p /\ Returns(j, "Cancelled") /\ UNCHANGED queue
     \/ job[j].due /\ Returns(j, "Context") /\ UNCHANGED queue
  /\ UNCHANGED <<router, sub, peers, mu, topics, closed>>

\* The pause after the message: its end, or the context's, whichever is seen.
AfterPublish(j) ==
  /\ job[j].pc = "After"
  /\ \/ Returns(j, "Ok")
     \/ job[j].due /\ Returns(j, "Context")
  /\ UNCHANGED <<routerVars, mu, topics, closed>>
-----------------------------------------------------------------------------
(* Await: subscription.Next until a message is not our own.                *)

isOwn(m) == m = "Own"

NextMessage(j) ==
  LET p == job[j].pub  t == job[j].topic IN
  /\ job[j].pc = "Next" /\ queue[p][t] # << >>
  /\ queue' = [queue EXCEPT ![p][t] = Tail(@)]
  /\ \/ isOwn(Head(queue[p][t])) /\ UNCHANGED job
     \/ ~isOwn(Head(queue[p][t])) /\ Returns(j, "Message")
  /\ UNCHANGED <<router, sub, peers, mu, topics, closed>>

NextEnds(j) ==
  LET p == job[j].pub  t == job[j].topic IN
  /\ job[j].pc = "Next"
  /\ \/ sub[p][t] = "Cancelled" /\ queue[p][t] = << >> /\ Returns(j, "Cancelled")
     \/ job[j].due /\ Returns(j, "Context")
  /\ UNCHANGED <<routerVars, mu, topics, closed>>
-----------------------------------------------------------------------------
(* Close, under p.mu.                                                      *)

CloseBegins(j) ==
  LET p == job[j].pub IN
  /\ job[j].pc = "Lock" /\ job[j].kind = "Close" /\ mu[p] = "Free"
  /\ \/ closed[p] /\ Returns(j, "Ok") /\ UNCHANGED <<mu, closed>>
     \/ /\ ~closed[p]
        /\ closed' = [closed EXCEPT ![p] = TRUE]
        /\ mu' = [mu EXCEPT ![p] = j]
        /\ Goes(j, "Leave")
  /\ UNCHANGED <<routerVars, topics>>

\* subscription.Cancel, then topic.Close.
leave(p, t) ==
  /\ sub' = [sub EXCEPT ![p][t] = "Cancelled"]
  /\ router' = [router EXCEPT ![t] = NoPublisher]

\* One turn of the loop over p.topics; the names already left are taken out as
\* the loop goes, which nobody sees before the lock is free.
LeaveTopic(j, t) ==
  LET p == job[j].pub IN
  /\ job[j].pc = "Leave" /\ t \in topics[p]
  /\ leave(p, t)
  /\ topics' = [topics EXCEPT ![p] = @ \ {t}]
  /\ UNCHANGED <<queue, peers, mu, closed, job>>

CloseEnds(j) ==
  LET p == job[j].pub IN
  /\ job[j].pc = "Leave" /\ topics[p] = {}
  /\ mu' = [mu EXCEPT ![p] = "Free"]
  /\ Returns(j, "Ok")
  /\ UNCHANGED <<routerVars, topics, closed>>
-----------------------------------------------------------------------------
(* The network.                                                            *)

PeersChange(t) ==
  /\ peers' = [peers EXCEPT ![t] = ~@]
  /\ UNCHANGED <<router, sub, queue, mu, topics, closed, job>>

PeerPublishes(t) ==
  LET p == router[t] IN
  /\ p # NoPublisher /\ sub[p][t] = "Active" /\ Len(queue[p][t]) < SubQueue
  /\ queue' = [queue EXCEPT ![p][t] = Append(@, "Peer")]
  /\ UNCHANGED <<router, sub, peers, mu, topics, closed, job>>

JobStep(j) ==
  \/ JoinKnown(j) \/ Join(j) \/ Subscribe(j) \/ SubscribeFails(j)
  \/ AwaitPeer(j) \/ HookFails(j) \/ PublishMessage(j) \/ AfterPublish(j)
  \/ NextMessage(j) \/ NextEnds(j)
  \/ CloseBegins(j) \/ (\E t \in Topics : LeaveTopic(j, t)) \/ CloseEnds(j)

PublisherNext ==
  \/ \E j \in Jobs : Begin(j) \/ JobDue(j) \/ JobStep(j)
  \/ \E t \in Topics : PeersChange(t) \/ PeerPublishes(t)

PublisherSpec == PublisherInit(JobInits) /\ [][PublisherNext]_publisherVars
-----------------------------------------------------------------------------
(* Properties.                                                             *)

\* Every variable of the router, the publishers and the calls has its type.
PublisherTypeOK ==
  /\ router \in [Topics -> Publishers \cup {NoPublisher}]
  /\ sub \in [Publishers -> [Topics -> {"None", "Active", "Cancelled"}]]
  /\ queue \in [Publishers -> [Topics -> Seq({"Own", "Peer"})]]
  /\ peers \in [Topics -> BOOLEAN]
  /\ mu \in [Publishers -> Jobs \cup {"Free"}]
  /\ topics \in [Publishers -> SUBSET Topics]
  /\ closed \in [Publishers -> BOOLEAN]
  /\ job \in [Jobs -> JobRec]

\* Whenever nobody holds its lock, the topics a publisher believes to have are
\* exactly the ones the router has joined for it, each with a live
\* subscription, and a closed publisher has none: a Publish or Await that races
\* Close, another publisher or a failed subscription leaves no topic behind.
RouterMatches ==
  \A p \in Publishers : mu[p] = "Free" =>
    /\ topics[p] = {t \in Topics : router[t] = p}
    /\ \A t \in topics[p] : sub[p][t] = "Active"
    /\ closed[p] => topics[p] = {}

\* A call under way waits for a peer or a message, within its time; an Await
\* does so only while its publisher is open.
PublisherAtRest ==
  \A j \in Jobs :
    \/ job[j].pc \in {"Idle", "Done"}
    \/ job[j].pc = "Peers" /\ ~job[j].due
    \/ job[j].pc = "Next" /\ ~job[j].due /\ ~closed[job[j].pub]
=============================================================================
