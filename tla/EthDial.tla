------------------------------ MODULE EthDial ------------------------------
(***************************************************************************)
(* Opening an ETH session (eth/conn.go, eth/status.go, eth/ready.go,       *)
(* wit/conn.go): TCP, RLPx, Hello and Status, on up to two sockets.        *)
(*                                                                         *)
(* Dial sends its Status from a goroutine of its own while it reads the    *)
(* peer's; a fork ID learnt from the peer leads to a second attempt.       *)
(* DialReady and wit.Dial build on DialPreStatus and write the Status      *)
(* before they read.  A Status is the chain its sender is on.              *)
(*                                                                         *)
(* Handshake frames are a few hundred bytes and fit the socket buffer: a   *)
(* write does not block, but fails when the connection is gone.  A socket  *)
(* deadline is armed or not; an armed one expires sooner or later.         *)
(***************************************************************************)
EXTENDS Caps, ForkId

CONSTANTS Requests,   \* calls: entry point, configuration, wanted version
          PeerCaps,   \* capability sets a peer may advertise
          Chains,     \* parameters a node on either side may have
          Peers,      \* parameters a peer may compute its Status from
          MaxPings    \* bound: Pings answered during the Status exchange

Attempts == 1..2
NoFork == [hash |-> << >>, next |-> 0]
NoPeer == [genesis |-> 0, blocks |-> << >>, times |-> << >>, number |-> 0, time |-> 0]

ASSUME DialAssumption ==
  /\ MaxPings \in Nat
  /\ \A r \in Requests : r.mode \in {"Dial", "PreStatus", "Ready", "Wit"}
  /\ \A p \in Chains \cup Peers : IsChain(p)
  /\ NoPeer \notin Peers

VARIABLES
  request,     \* the call that is being made
  params,      \* dialParams without its ForkID
  forkID,      \* dialParams.ForkID
  pc,          \* where the dialling goroutine is
  attempt,     \* which rawDial it is in
  fd,          \* fd[a]: the socket of attempt a
  peerEnd,     \* peerEnd[a]: the peer is "Up" or "Gone"
  deadline,    \* the current socket has a deadline
  negotiated,  \* what negotiatedCapabilities returned
  sender,      \* sender[a]: where the Status sender of attempt a is
  sendErr,     \* sendErr[a]: the buffered channel of attempt a
  wrote,       \* the attempts on which our Status went out
  peerFID,     \* the peer's fork ID that rawDial returns
  peer,        \* the chain of the Status that was read last
  pings,       \* Pings answered during the Status exchange
  cause        \* why the last failed attempt failed

vars == <<request, params, forkID, pc, attempt, fd, peerEnd, deadline, negotiated,
          sender, sendErr, wrote, peerFID, peer, pings, cause>>
callVars == <<request, params>>
senderVars == <<sender, sendErr, wrote>>

Init ==
  /\ request \in Requests
  /\ params \in Chains
  /\ forkID = NoFork
  /\ pc = "Start"
  /\ attempt = 1
  /\ fd = [a \in Attempts |-> "None"]
  /\ peerEnd = [a \in Attempts |-> "Up"]
  /\ deadline = FALSE
  /\ negotiated = [n \in Names |-> 0]
  /\ sender = [a \in Attempts |-> "None"]
  /\ sendErr = [a \in Attempts |-> "Empty"]
  /\ wrote = {}
  /\ peerFID = NoFork
  /\ peer = NoPeer
  /\ pings = 0
  /\ cause = "None"

\* The capabilities an entry point offers.
Offered ==
  CASE request.mode = "Dial"  -> capabilities(request.config)
    [] request.mode = "Wit"   -> witCapabilities
    [] OTHER                  -> preStatusCapabilities(request.config)

ValidRequest ==
  /\ validate(request.config)
  /\ request.mode = "Ready" => request.config.max >= 68
-----------------------------------------------------------------------------
(* Failure.                                                                *)

\* Mutant: the number of attempts is not bounded.
retriesAgain(fid) == request.mode = "Dial" /\ fid # NoFork

\* DialWithKey makes a second attempt if the first learnt the peer's fork ID.
retries(fid) == request.mode = "Dial" /\ attempt = 1 /\ fid # NoFork

\* Mutant: the socket of a failed attempt stays open.
leaveOnError == UNCHANGED fd

closeOnError == fd' = [fd EXCEPT ![attempt] = IF @ = "Open" THEN "Closed" ELSE @]

\* An attempt ends with an error and the fork ID it learnt.
Fail(why, fid) ==
  /\ cause' = why
  /\ peerFID' = fid
  /\ deadline' = FALSE
  /\ closeOnError
  /\ \/ /\ retries(fid)
        /\ attempt' = attempt + 1
        /\ forkID' = fid
        /\ pc' = "Connect"
     \/ /\ ~retries(fid)
        /\ pc' = "Failed"
        /\ UNCHANGED <<attempt, forkID>>

\* A failed write or read on a connection that is gone, in any step.
Refuse(step, why, fid) ==
  /\ pc = step
  /\ Fail(why, fid)
  /\ UNCHANGED <<callVars, peerEnd, negotiated, senderVars, peer, pings>>

\* The peer, or the network, drops the connection.
PeerGone(a) ==
  /\ fd[a] = "Open"
  /\ peerEnd[a] = "Up"
  /\ peerEnd' = [peerEnd EXCEPT ![a] = "Gone"]
  /\ UNCHANGED <<callVars, forkID, pc, attempt, fd, deadline, negotiated, senderVars,
                 peerFID, peer, pings, cause>>

Gone == peerEnd[attempt] = "Gone"

\* An armed deadline ends the read it guards.
DeadlineExpires ==
  /\ pc \in {"Auth", "ReadHello", "ReadStatus"}
  /\ deadline
  /\ Refuse(pc, "Deadline", NoFork)
-----------------------------------------------------------------------------
(* TCP, RLPx and Hello.                                                    *)

\* The configuration is checked and the chain parameters are fetched before
\* a socket is opened.
Start ==
  /\ pc = "Start"
  /\ ValidRequest
  /\ pc' = "Connect"
  /\ forkID' = computeForkID(params)
  /\ UNCHANGED <<callVars, attempt, fd, peerEnd, deadline, negotiated, senderVars,
                 peerFID, peer, pings, cause>>

StartFails == Refuse("Start", IF ValidRequest THEN "Params" ELSE "Config", NoFork)

\* rlpx dial: its deadline is armed before the authentication.
Connect ==
  /\ pc = "Connect"
  /\ fd' = [fd EXCEPT ![attempt] = "Open"]
  /\ deadline' = TRUE
  /\ pc' = "Auth"
  /\ UNCHANGED <<callVars, forkID, attempt, peerEnd, negotiated, senderVars, peerFID,
                 peer, pings, cause>>

ConnectFails == Refuse("Connect", "Connect", NoFork)

\* DialWithKey of rlpx clears the deadline, the ETH dialler arms it for Hello.
Auth ==
  /\ pc = "Auth"
  /\ ~Gone
  /\ pc' = "WriteHello"
  /\ deadline' = TRUE
  /\ UNCHANGED <<callVars, forkID, attempt, fd, peerEnd, negotiated, senderVars,
                 peerFID, peer, pings, cause>>

\* Authentication fails, or the peer is gone.
AuthFails == Refuse("Auth", "Auth", NoFork)

WriteHello ==
  /\ pc = "WriteHello"
  /\ pc' = "ReadHello"
  /\ UNCHANGED <<callVars, forkID, attempt, fd, peerEnd, deadline, negotiated,
                 senderVars, peerFID, peer, pings, cause>>

WriteHelloFails == Gone /\ Refuse("WriteHello", "Write", NoFork)

\* A Disconnect, another code, no Hello, another identity, or no answer.
HelloRefused == Refuse("ReadHello", "Hello", NoFork)

\* What the entry point asks of the peer's capabilities.
Suits(remote, common) ==
  /\ common["eth"] # 0
  /\ request.mode = "Ready" => common["eth"] >= request.config.max
  /\ request.mode = "Wit" => [name |-> "wit", version |-> 1] \in remote

HelloUnsuitable(remote) ==
  /\ ~Suits(remote, negotiatedCapabilities(Offered, remote))
  /\ Refuse("ReadHello", "Caps", NoFork)

\* The rest of rawDial up to the Status loop: the deadline of Hello is
\* cleared, the Status sender starts, the deadline of Status is armed.
\* DialPreStatus returns here; DialReady and wit.Dial go on to ExchangeStatus.
HelloAccepted(remote) ==
  LET common == negotiatedCapabilities(Offered, remote)
      step == CASE request.mode = "Dial" -> "ReadStatus"
                [] request.mode = "PreStatus" -> "PreStatus"
                [] OTHER -> "WriteStatus"
  IN
  /\ pc = "ReadHello"
  /\ Suits(remote, common)
  /\ negotiated' = common
  /\ pc' = step
  /\ deadline' = (step = "ReadStatus")
  /\ sender' = IF step = "ReadStatus" THEN [sender EXCEPT ![attempt] = "Write"]
               ELSE sender
  /\ UNCHANGED <<callVars, forkID, attempt, fd, peerEnd, sendErr, wrote, peerFID, peer,
                 pings, cause>>
-----------------------------------------------------------------------------
(* Status.                                                                 *)

\* The sender goroutine of rawDial.  It outlives an attempt that fails.
SenderWrites(a) ==
  /\ sender[a] = "Write"
  /\ fd[a] = "Open"
  /\ wrote' = wrote \cup {a}
  /\ sender' = [sender EXCEPT ![a] = "PutNil"]
  /\ UNCHANGED <<callVars, forkID, pc, attempt, fd, peerEnd, deadline, negotiated,
                 sendErr, peerFID, peer, pings, cause>>

SenderFails(a) ==
  /\ sender[a] = "Write"
  /\ fd[a] = "Closed" \/ peerEnd[a] = "Gone"
  /\ sender' = [sender EXCEPT ![a] = "PutErr"]
  /\ UNCHANGED <<callVars, forkID, pc, attempt, fd, peerEnd, deadline, negotiated,
                 sendErr, wrote, peerFID, peer, pings, cause>>

SenderPuts(a) ==
  /\ sender[a] \in {"PutNil", "PutErr"}
  /\ sendErr[a] = "Empty"
  /\ sendErr' = [sendErr EXCEPT ![a] = IF sender[a] = "PutNil" THEN "Nil" ELSE "Err"]
  /\ sender' = [sender EXCEPT ![a] = "Done"]
  /\ UNCHANGED <<callVars, forkID, pc, attempt, fd, peerEnd, deadline, negotiated, wrote,
                 peerFID, peer, pings, cause>>

\* Mutant: the read of ExchangeStatus has no deadline.
WriteStatusUnarmed ==
  /\ pc = "WriteStatus"
  /\ wrote' = wrote \cup {attempt}
  /\ pc' = "ReadStatus"
  /\ UNCHANGED <<callVars, forkID, attempt, fd, peerEnd, deadline, negotiated, sender,
                 sendErr, peerFID, peer, pings, cause>>

\* ExchangeStatus writes first and then arms the read deadline.
WriteStatus ==
  /\ pc = "WriteStatus"
  /\ wrote' = wrote \cup {attempt}
  /\ deadline' = TRUE
  /\ pc' = "ReadStatus"
  /\ UNCHANGED <<callVars, forkID, attempt, fd, peerEnd, negotiated, sender, sendErr,
                 peerFID, peer, pings, cause>>

WriteStatusFails == Gone /\ Refuse("WriteStatus", "Write", NoFork)

\* A Ping is answered; every other frame but Disconnect and Status is skipped.
StatusPing ==
  /\ pc = "ReadStatus"
  /\ pings < MaxPings
  /\ pings' = pings + 1
  /\ UNCHANGED <<callVars, forkID, pc, attempt, fd, peerEnd, deadline, negotiated,
                 senderVars, peerFID, peer, cause>>

\* A Disconnect, a failed read or Pong, or a Status that does not decode, has
\* another version, network or genesis, or an invalid block range: no fork ID
\* is returned for any of them.
StatusRefused == Refuse("ReadStatus", "Status", NoFork)

\* Mutant: the fork ID is not checked when it is the one we offered.
validateOffered(q) == ValidateForkID(params, computeForkID(q)) \/ forkID = computeForkID(q)

validateStatus(q) == ValidateForkID(params, computeForkID(q))

StatusForkRejected(q) ==
  /\ pc = "ReadStatus"
  /\ q.genesis = params.genesis
  /\ ~validateStatus(q)
  /\ peer' = q
  /\ Fail("ForkID", computeForkID(q))
  /\ UNCHANGED <<callVars, peerEnd, negotiated, senderVars, pings>>

StatusAccepted(q) ==
  /\ pc = "ReadStatus"
  /\ q.genesis = params.genesis
  /\ validateStatus(q)
  /\ peer' = q
  /\ peerFID' = computeForkID(q)
  /\ deadline' = FALSE
  /\ pc' = IF request.mode = "Dial" THEN "AwaitSend" ELSE "Live"
  /\ UNCHANGED <<callVars, forkID, attempt, fd, peerEnd, negotiated, senderVars, pings,
                 cause>>

\* Mutant: the result of the sender is not waited for.
AwaitSendSkipped ==
  /\ pc = "AwaitSend"
  /\ pc' = "Live"
  /\ UNCHANGED <<callVars, forkID, attempt, fd, peerEnd, deadline, negotiated, senderVars,
                 peerFID, peer, pings, cause>>

\* <-sendErr: the connection is handed to its reader goroutine (EthConn).
AwaitSend ==
  /\ pc = "AwaitSend"
  /\ sendErr[attempt] = "Nil"
  /\ pc' = "Live"
  /\ UNCHANGED <<callVars, forkID, attempt, fd, peerEnd, deadline, negotiated, senderVars,
                 peerFID, peer, pings, cause>>

AwaitSendFails ==
  /\ sendErr[attempt] = "Err"
  /\ Refuse("AwaitSend", "SendError", peerFID)
-----------------------------------------------------------------------------
Sender(a) == SenderWrites(a) \/ SenderFails(a) \/ SenderPuts(a)

Next ==
  \/ Start \/ StartFails
  \/ Connect \/ ConnectFails
  \/ Auth \/ AuthFails
  \/ WriteHello \/ WriteHelloFails
  \/ HelloRefused
  \/ \E remote \in PeerCaps : HelloUnsuitable(remote) \/ HelloAccepted(remote)
  \/ WriteStatus \/ WriteStatusFails
  \/ StatusPing \/ StatusRefused
  \/ \E q \in Peers : StatusForkRejected(q) \/ StatusAccepted(q)
  \/ AwaitSend \/ AwaitSendFails
  \/ DeadlineExpires
  \/ \E a \in Attempts : Sender(a) \/ PeerGone(a)

Spec == Init /\ [][Next]_vars

(***************************************************************************)
(* Both goroutines run when they can; the TCP dial and the parameter fetch *)
(* have their own timeouts; an armed deadline expires.  Nothing is assumed *)
(* of the peer.                                                            *)
(***************************************************************************)
Fairness ==
  /\ WF_vars(Start \/ StartFails)
  /\ WF_vars(Connect \/ ConnectFails)
  /\ WF_vars(WriteHello \/ WriteHelloFails)
  /\ WF_vars(WriteStatus \/ WriteStatusFails)
  /\ WF_vars(AwaitSend \/ AwaitSendFails)
  /\ WF_vars(DeadlineExpires)
  /\ \A a \in Attempts : WF_vars(Sender(a))

FairSpec == Spec /\ Fairness
-----------------------------------------------------------------------------
(* Properties.                                                             *)

\* Types of the dialler, its sockets and its sender goroutines.
TypeOK ==
  /\ request \in Requests
  /\ params \in Chains
  /\ pc \in {"Start", "Connect", "Auth", "WriteHello", "ReadHello", "WriteStatus",
             "ReadStatus", "AwaitSend", "PreStatus", "Live", "Failed"}
  /\ attempt \in Attempts
  /\ fd \in [Attempts -> {"None", "Open", "Closed"}]
  /\ peerEnd \in [Attempts -> {"Up", "Gone"}]
  /\ deadline \in BOOLEAN
  /\ negotiated \in Negotiations
  /\ sender \in [Attempts -> {"None", "Write", "PutNil", "PutErr", "Done"}]
  /\ sendErr \in [Attempts -> {"Empty", "Nil", "Err"}]
  /\ wrote \subseteq Attempts
  /\ peer \in Peers \cup {NoPeer}
  /\ pings \in 0..MaxPings
  /\ cause \in {"None", "Deadline", "Config", "Params", "Connect", "Auth", "Write",
                "Hello", "Caps", "Status", "ForkID", "SendError"}

\* Every path out of a dial leaves the right sockets: none after a failure,
\* the one of the last attempt after a success, and the socket of a first
\* attempt is closed before the second one starts (rawDial, DialWithKey).
SocketsOwned ==
  /\ pc = "Failed" => \A a \in Attempts : fd[a] # "Open"
  /\ pc \in {"Live", "PreStatus"} => fd[attempt] = "Open"
  /\ \A a \in Attempts : a # attempt => fd[a] # "Open"

\* A connection that is handed out has no deadline left on its socket, both
\* Statuses have been exchanged on it, and its sender goroutine is through.
LiveIsReady ==
  /\ pc \in {"Live", "PreStatus"} => ~deadline
  /\ pc = "Live" => attempt \in wrote /\ peer # NoPeer
  /\ pc = "Live" /\ request.mode = "Dial" => sender[attempt] = "Done"

\* What the checksums stand for, judged by the two chains themselves: the peer
\* of a live connection has our genesis, and the forks behind its head are the
\* first ones of our schedule.  If it is behind us, the fork it announces is the
\* one we passed next; if it is level with us, its next time fork is not one
\* our head has passed without noticing.  This also holds after a second
\* attempt, whose Status carried the peer's fork ID and not ours
\* (ValidateForkID, DialWithKey).
SharedHistory ==
  pc = "Live" =>
    \E n \in 0..Len(Forks(peer)), m \in 0..Len(Forks(params)) :
      /\ IsPassed(peer, n) /\ IsPassed(params, m)
      /\ peer.genesis = params.genesis
      /\ n <= Len(Forks(params))
      /\ SubSeq(Forks(peer), 1, n) = SubSeq(Forks(params), 1, n)
      /\ n < m => n < Len(Forks(peer)) /\ Forks(peer)[n + 1] = Forks(params)[n + 1]
      /\ n = m /\ n < Len(Forks(peer)) /\ Forks(peer)[n + 1] > Threshold
           => params.time < Forks(peer)[n + 1]

\* A peer on the same fork schedule is never refused for its fork ID, wherever
\* its head and ours are in that schedule.
SameScheduleAccepted ==
  [][(fd[attempt] = "Open" /\ fd'[attempt] = "Closed" /\ cause' = "ForkID")
       => peer'.blocks # params.blocks \/ peer'.times # params.times]_vars

\* The wire codes of the negotiated capabilities and of the base protocol are
\* disjoint; ETH starts at code 16, as WaitStatus assumes, and WIT where
\* wit.Dial expects it without looking at the other capabilities.
SpacesDisjoint ==
  pc \in {"Live", "PreStatus"} =>
    /\ \A m, n \in Names :
         m # n => Space(negotiated, m) \cap Space(negotiated, n) = {}
    /\ \A n \in Names : Space(negotiated, n) \cap 0..15 = {}
    /\ capabilityOffset(negotiated, "eth") = 16
    /\ request.mode = "Wit" =>
         witOffset(negotiated) = capabilityOffset(negotiated, "wit")

\* A dial returns, whatever the peer does or leaves undone, and the sender
\* goroutine of every attempt ends, also after the dial has failed and nobody
\* receives from its channel any more.
DialReturns ==
  /\ <>(pc \in {"Live", "PreStatus", "Failed"})
  /\ \A a \in Attempts : sender[a] = "Write" ~> sender[a] = "Done"

\* "A peer Status received before a fork-ID rejection lets us retry once with
\* the peer's view.  Other failures stay under the caller's retry policy."
\* (eth/conn.go:312-313): a second attempt follows a fork-ID rejection only.
RetryOnlyAfterForkRejection ==
  [][attempt' = 2 /\ attempt = 1 => cause' = "ForkID"]_vars
=============================================================================
