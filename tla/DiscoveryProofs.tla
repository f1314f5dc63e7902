-------------------------- MODULE DiscoveryProofs --------------------------
(***************************************************************************)
(* Proofs about Discovery, for any addresses, timeouts and deadlines, and  *)
(* any number of packets and challenges.                                   *)
(***************************************************************************)
EXTENDS Discovery, TLAPS

USE UdpReadAssumption DEF UdpReadAssumption

LEMMA PlainType ==
  ASSUME NEW a \in {PeerAddr} \cup OtherAddrs, NEW k \in Kinds
  PROVE  Plain(a, k) \in Datagram
  BY DEF Plain, Datagram, MessageTypes

LEMMA NoDatagramType == NoDatagram \in Datagram /\ NoDatagram.from = PeerAddr
  BY DEF Plain, NoDatagram, Datagram, Kinds, MessageTypes

\* Time that is left is a number of ticks.
LEMMA RemainingType ==
  ASSUME UdpTypeOK, NEW t \in Nat
  PROVE  Remaining(t) \in Nat
  BY DEF UdpTypeOK, Countdown, Remaining

\* The peer's address, by ip and port, is the peer's alone.
LEMMA SameAddress ==
  ASSUME NEW d \in Datagram, SameUDPAddr(d.from, PeerAddr)
  PROVE  d.from = PeerAddr
  BY DEF Datagram, SameUDPAddr, Address
-----------------------------------------------------------------------------
(* Types.                                                                  *)

\* A handshake answers a challenge for its own packet, a session rests on one,
\* and a datagram that was read is one the peer has sent, from whatever address.
ReadInv ==
  /\ rd.d.kind = "WhoAreYou" => rd.d.chal \in DOMAIN issued /\ issued[rd.d.chal] = rd.d.id
  /\ rd.d.kind = "Ordinary" => [nonce |-> rd.d.id, chal |-> rd.d.chal] \in accepted
HandshakeInv ==
  call.op = "Handshake" => call.chal \in DOMAIN issued /\ issued[call.chal] = call.nonce

Inv == TypeOK /\ ReadInv /\ HandshakeInv /\ SessionAgreement /\ FromThePeer

\* What the network may deliver is a datagram, and says what the peer has sent.
LEMMA WireType ==
  ASSUME V5TypeOK, NEW d \in Wire
  PROVE  /\ d \in Datagram
         /\ d.kind = "WhoAreYou" => d.chal \in DOMAIN issued /\ issued[d.chal] = d.id
         /\ d.kind = "Ordinary" => [nonce |-> d.id, chal |-> d.chal] \in accepted
<1> DEFINE Sent == /\ d \in Datagram
                   /\ d.kind = "WhoAreYou" => d.chal \in DOMAIN issued /\ issued[d.chal] = d.id
                   /\ d.kind = "Ordinary" => [nonce |-> d.id, chal |-> d.chal] \in accepted
<1>1. ASSUME NEW a \in {PeerAddr} \cup OtherAddrs, NEW k \in {"Short", "Junk"}, d = Plain(a, k)
      PROVE  Sent
  BY <1>1, PlainType DEF Plain, Kinds
<1>2. ASSUME NEW c \in DOMAIN issued, NEW a \in {PeerAddr} \cup OtherAddrs,
             d = [from |-> a, kind |-> "WhoAreYou", id |-> issued[c], chal |-> c, type |-> "Pong"]
      PROVE  Sent
  <2>1. c \in 0..MaxChallenge /\ issued[c] \in 0..MaxNonce
    BY DEF V5TypeOK
  <2>2. d \in Datagram
    BY <1>2, <2>1 DEF Datagram, Kinds, MessageTypes
  <2> QED
    BY <1>2, <2>2
<1>3. ASSUME NEW s \in accepted, NEW type \in MessageTypes, NEW a \in {PeerAddr} \cup OtherAddrs,
             d = [from |-> a, kind |-> "Ordinary", id |-> s.nonce, chal |-> s.chal, type |-> type]
      PROVE  Sent
  <2>1. s \in Session /\ s.nonce \in 0..MaxNonce /\ s.chal \in 0..MaxChallenge
    BY DEF V5TypeOK, Session
  <2>2. s = [nonce |-> s.nonce, chal |-> s.chal]
    BY <2>1 DEF Session
  <2>3. d \in Datagram
    BY <1>3, <2>1 DEF Datagram, Kinds
  <2>4. d.id = s.nonce /\ d.chal = s.chal /\ d.kind = "Ordinary"
    BY <1>3
  <2> QED
    BY <2>2, <2>3, <2>4
<1>4. \/ \E a \in {PeerAddr} \cup OtherAddrs, k \in {"Short", "Junk"} : d = Plain(a, k)
      \/ \E e \in V5Datagrams, a \in {PeerAddr} \cup OtherAddrs : d = [e EXCEPT !.from = a]
  BY DEF Wire
<1>5. ASSUME NEW e \in V5Datagrams, NEW a \in {PeerAddr} \cup OtherAddrs, d = [e EXCEPT !.from = a]
      PROVE  Sent
  <2>1. ASSUME NEW c \in DOMAIN issued, e = WhoAreYou(c)
        PROVE  Sent
    <3>1. d = [from |-> a, kind |-> "WhoAreYou", id |-> issued[c], chal |-> c, type |-> "Pong"]
      BY <1>5, <2>1 DEF WhoAreYou, Plain
    <3> QED
      BY <1>2, <3>1
  <2>2. ASSUME NEW s \in accepted, NEW type \in MessageTypes,
               e = Ordinary(s, type)
        PROVE  Sent
    <3>1. d = [from |-> a, kind |-> "Ordinary", id |-> s.nonce, chal |-> s.chal, type |-> type]
      BY <1>5, <2>2 DEF Ordinary, Plain
    <3> QED
      BY <1>3, <3>1
  <2>3. \/ \E c \in DOMAIN issued : e = WhoAreYou(c)
        \/ \E s \in accepted, type \in MessageTypes : e = Ordinary(s, type)
    BY DEF V5Datagrams
  <2> QED
    BY <2>1, <2>2, <2>3
<1> QED
  BY <1>1, <1>4, <1>5
-----------------------------------------------------------------------------
(* What steps of one kind have in common.                                  *)

others == <<v4Vars, v5Vars, protocol>>

\* A step of the socket, the clock or the context keeps the invariant if the
\* read has no other datagram and the call is the same but for its time.
LEMMA SocketKeeps ==
  ASSUME Inv, UdpTypeOK', rd'.d \in {rd.d, NoDatagram},
         call' \in Call, call'.op = call.op, call'.nonce = call.nonce, call'.chal = call.chal,
         outcome' = outcome, UNCHANGED others
  PROVE  Inv'
<1> USE DEF others, v4Vars, v5Vars
<1>1. TypeOK'
  BY DEF Inv, TypeOK, V4TypeOK, V5TypeOK
<1>2. ReadInv'
  BY DEF Inv, ReadInv, NoDatagram, Plain
<1>3. HandshakeInv'
  BY DEF Inv, HandshakeInv
<1>4. SessionAgreement' /\ FromThePeer'
  BY DEF Inv, SessionAgreement, FromThePeer
<1> QED
  BY <1>1, <1>2, <1>3, <1>4 DEF Inv

LEMMA IdleType == Idle \in Call /\ Idle.op = "Idle"
  BY DEF Idle, Call, CallOps, MessageTypes

\* A call that starts out idle but for its name.
LEMMA CallType ==
  ASSUME NEW o \in CallOps
  PROVE  [Idle EXCEPT !.op = o] \in Call /\ [Idle EXCEPT !.op = o].op = o
  BY IdleType DEF Call

\* A call begins, and has no time or what is left of the context's.
LEMMA BeginKeeps ==
  ASSUME Inv, NEW c \in Call, c.op # "Handshake", Begin(c), UNCHANGED <<udpVars, v4Vars, protocol>>,
         nonces' \in 0..MaxNonce, UNCHANGED <<issued, sessions, accepted>>
  PROVE  Inv'
<1> USE DEF udpVars, v4Vars
<1>1. call' \in Call /\ call'.op = c.op
  <2>1. Remaining(Timeout) \in Nat
    BY RemainingType DEF Inv, TypeOK
  <2> QED
    BY <2>1 DEF Begin, Call
<1>2. outcome' = NoOutcome
  BY DEF Begin
<1>3. outcome' \in [op : CallOps, nonce : 0..MaxNonce, err : Errors, d : Datagram]
  BY <1>2, NoDatagramType DEF NoOutcome, CallOps, Errors
<1>4. TypeOK'
  BY <1>1, <1>3 DEF Inv, TypeOK, UdpTypeOK, V4TypeOK, V5TypeOK
<1>5. ReadInv' /\ HandshakeInv'
  BY <1>1 DEF Inv, ReadInv, HandshakeInv
<1>6. SessionAgreement' /\ FromThePeer'
  BY <1>2, NoDatagramType DEF Inv, SessionAgreement, FromThePeer, NoOutcome
<1> QED
  BY <1>4, <1>5, <1>6 DEF Inv

\* A call returns: what it reports is the peer's, and a message is one of the
\* call's session.
LEMMA ReturnKeeps ==
  ASSUME Inv, NEW err \in Errors, NEW d \in Datagram, Return(err, d), rd' \in {rd, NoRead},
         UNCHANGED <<fd, readUntil, ctxVars, watcher>>, UNCHANGED others,
         err = "None" /\ call.op # "Packet" => d.from = PeerAddr,
         err = "None" /\ call.op \in {"Ordinary", "Message"} =>
           d.id = call.nonce /\ [nonce |-> call.nonce, chal |-> d.chal] \in accepted
  PROVE  Inv'
<1> USE DEF others, v4Vars, v5Vars, ctxVars
<1>1. call' = Idle /\ Idle \in Call
  BY DEF Return, Idle, Call, CallOps, MessageTypes
<1>2. outcome' = [op |-> call.op, nonce |-> call.nonce, err |-> err, d |-> d]
  BY DEF Return
<1>3. outcome' \in [op : CallOps, nonce : 0..MaxNonce, err : Errors, d : Datagram]
  BY <1>2 DEF Inv, TypeOK, Call
<1>4. UdpTypeOK' /\ rd'.d \in {rd.d, NoDatagram}
  BY NoDatagramType DEF Inv, TypeOK, UdpTypeOK, NoRead, ReadSteps, Errors
<1>5. TypeOK'
  BY <1>1, <1>3, <1>4 DEF Inv, TypeOK, V4TypeOK, V5TypeOK
<1>6. ReadInv' /\ HandshakeInv'
  BY <1>1, <1>4 DEF Inv, ReadInv, HandshakeInv, NoDatagram, Plain, Idle
<1>7. SessionAgreement' /\ FromThePeer'
  BY <1>2 DEF Inv, SessionAgreement, FromThePeer
<1> QED
  BY <1>5, <1>6, <1>7 DEF Inv
-----------------------------------------------------------------------------
(* The steps.                                                              *)

\* readUDPWithContext, the watcher, the clock, the context, Dial and Close.
LEMMA UdpStep == Inv /\ UdpNext /\ UNCHANGED others => Inv'
<1> SUFFICES ASSUME Inv, UdpNext, UNCHANGED others PROVE Inv'
  OBVIOUS
<1>a. UdpTypeOK /\ call \in Call
  BY DEF Inv, TypeOK
<1>1. ASSUME UdpTypeOK', rd'.d \in {rd.d, NoDatagram}, UNCHANGED callVars
      PROVE  Inv'
  BY <1>a, <1>1, SocketKeeps DEF callVars
<1>2. CASE ReadStep
  <2> SUFFICES UdpTypeOK' /\ rd'.d \in {rd.d, NoDatagram}
    BY <1>1, <1>2 DEF ReadStep
  <2> USE DEF ctxVars
  <2>1. ASSUME NEW err \in Errors, NEW d \in {rd.d, NoDatagram}, Finish(err, d),
               UNCHANGED <<fd, ctxVars>>, readUntil' \in Countdown, watcher' \in {watcher, "None"}
        PROVE  UdpTypeOK' /\ rd'.d \in {rd.d, NoDatagram}
    BY <1>a, <2>1, NoDatagramType DEF Finish, UdpTypeOK, ReadSteps, ctxVars
  <2>2. ctxErr \in Errors
    BY DEF ctxErr, Errors
  <2>3. CASE CheckContext
    <3>1. CASE \E err \in {ctxErr, "DeadlineExceeded"} : Finish(err, NoDatagram)
      BY <1>a, <2>1, <2>2, <2>3, <3>1 DEF CheckContext, UdpTypeOK, Errors
    <3>2. CASE rd' = [rd EXCEPT !.pc = "SetDeadline", !.left = Remaining(rd.left)]
      <4>1. Remaining(rd.left) \in Nat
        BY <1>a, RemainingType DEF UdpTypeOK
      <4> QED
        BY <1>a, <2>3, <3>2, <4>1 DEF CheckContext, UdpTypeOK, ReadSteps, ctxVars
    <3> QED
      BY <2>3, <3>1, <3>2 DEF CheckContext
  <2>4. CASE SetReadDeadline
    <3>1. CASE Finish("Closed", NoDatagram)
      BY <1>a, <2>1, <2>4, <3>1 DEF SetReadDeadline, UdpTypeOK, Errors, Countdown
    <3>2. CASE readUntil' = rd.left /\ rd' = [rd EXCEPT !.pc = "Watch", !.left = 0]
      BY <1>a, <2>4, <3>2 DEF SetReadDeadline, UdpTypeOK, ReadSteps, ctxVars, Countdown
    <3> QED
      BY <2>4, <3>1, <3>2 DEF SetReadDeadline
  <2>5. CASE WatchContext \/ Recheck
    BY <1>a, <2>5 DEF WatchContext, Recheck, UdpTypeOK, ReadSteps, ctxVars, Countdown
  <2>6. CASE ReadFails
    BY <1>a, <2>6 DEF ReadFails, UdpTypeOK, ReadSteps, ctxVars, Errors
  <2>7. CASE AfterRead
    <3>1. rd.err \in Errors
      BY <1>a DEF UdpTypeOK
    <3>2. \E err \in Errors, d \in {rd.d, NoDatagram} : Finish(err, d)
      BY <2>2, <2>7, <3>1 DEF AfterRead
    <3> QED
      BY <1>a, <2>1, <2>7, <3>2 DEF AfterRead, UdpTypeOK
  <2> QED
    BY <1>2, <2>3, <2>4, <2>5, <2>6, <2>7 DEF ReadStep
<1>3. CASE WatcherStep
  BY <1>a, <1>1, <1>3 DEF WatcherStep, WatcherStarts, WatcherRuns, UdpTypeOK, Countdown, ctxVars
<1>4. CASE Tick
  <2>1. \A t \in Countdown : Down(t) \in Countdown
    BY DEF Countdown, Down
  <2>2. \A t \in Nat : Down(t) \in Nat
    BY DEF Down
  <2>3. call' = [call EXCEPT !.left = Down(call.left)] /\ Down(call.left) \in Nat
    BY <1>a, <1>4, <2>2 DEF Tick, Call
  <2>4. call' \in Call /\ call'.op = call.op /\ call'.nonce = call.nonce /\ call'.chal = call.chal
    BY <1>a, <2>3 DEF Call
  <2>5. UdpTypeOK'
    BY <1>a, <1>4, <2>1 DEF Tick, UdpTypeOK
  <2> QED
    BY <1>4, <2>4, <2>5, SocketKeeps DEF Tick
<1>5. CASE Cancel \/ CtxExpires \/ Dial \/ Close
  BY <1>a, <1>1, <1>5 DEF Cancel, CtxExpires, Dial, Close, UdpTypeOK, ctxVars
<1> QED
  BY <1>2, <1>3, <1>4, <1>5 DEF UdpNext

\* A datagram is read off the socket.
LEMMA ReadDatagramStep ==
  ASSUME Inv, NEW d \in Wire, ReadDatagram(d), UNCHANGED others
  PROVE  Inv'
<1> USE DEF others, v4Vars, v5Vars, ctxVars, callVars
<1>1. V5TypeOK
  BY DEF Inv, TypeOK
<1>2. /\ d \in Datagram
      /\ d.kind = "WhoAreYou" => d.chal \in DOMAIN issued /\ issued[d.chal] = d.id
      /\ d.kind = "Ordinary" => [nonce |-> d.id, chal |-> d.chal] \in accepted
  BY <1>1, WireType
<1>3. rd' = [rd EXCEPT !.pc = "After", !.d = d] /\ rd'.d = d
  BY DEF ReadDatagram, Inv, TypeOK, UdpTypeOK
<1>4. TypeOK'
  BY <1>2, <1>3 DEF ReadDatagram, Inv, TypeOK, UdpTypeOK, V4TypeOK, V5TypeOK, ReadSteps
<1>5. ReadInv' /\ HandshakeInv'
  BY <1>2, <1>3 DEF ReadDatagram, Inv, ReadInv, HandshakeInv
<1>6. SessionAgreement' /\ FromThePeer'
  BY DEF ReadDatagram, Inv, SessionAgreement, FromThePeer
<1> QED
  BY <1>4, <1>5, <1>6 DEF Inv

\* A read begins, or a datagram is taken and the call goes on.
LEMMA GoesOn ==
  ASSUME Inv, rd' = NoRead \/ \E t \in Nat : BeginRead(t), UNCHANGED <<fd, readUntil, ctxVars, watcher>>,
         call' \in Call, call'.op = call.op, call'.nonce = call.nonce, call'.chal = call.chal,
         outcome' = outcome, UNCHANGED others
  PROVE  Inv'
<1>1. rd'.d = NoDatagram /\ rd' \in [pc : ReadSteps, left : Nat, err : Errors, d : Datagram]
  <2> DEFINE Read(pc, t) == [pc |-> pc, left |-> t, err |-> "None", d |-> NoDatagram]
  <2>1. ASSUME NEW pc \in ReadSteps, NEW t \in Nat
        PROVE  /\ Read(pc, t).d = NoDatagram
               /\ Read(pc, t) \in [pc : ReadSteps, left : Nat, err : Errors, d : Datagram]
    BY NoDatagramType DEF Errors
  <2>2. CASE rd' = NoRead
    <3>1. rd' = Read("Idle", 0)
      BY <2>2 DEF NoRead
    <3> QED
      BY <2>1, <3>1 DEF ReadSteps
  <2>3. ASSUME NEW t \in Nat, BeginRead(t)
        PROVE  rd'.d = NoDatagram /\ rd' \in [pc : ReadSteps, left : Nat, err : Errors, d : Datagram]
    <3>1. rd' = Read("Check", t)
      BY <2>3 DEF BeginRead, NoRead
    <3> QED
      BY <2>1, <3>1 DEF ReadSteps
  <2> QED
    BY <2>2, <2>3
<1>2. UdpTypeOK'
  BY <1>1 DEF Inv, TypeOK, UdpTypeOK, ctxVars
<1> QED
  BY <1>1, <1>2, SocketKeeps

\* Sending, and the reads of discv4.
LEMMA V4Step == Inv /\ (V4Calls \/ V4Steps) /\ UNCHANGED <<v5Vars, protocol>> => Inv'
<1> SUFFICES ASSUME Inv, V4Calls \/ V4Steps, UNCHANGED <<v5Vars, protocol>> PROVE Inv'
  OBVIOUS
<1>a. /\ UdpTypeOK /\ call \in Call /\ rd.d \in Datagram /\ rd.err \in Errors
      /\ {"Timeout", "Invalid", "None", "Closed"} \subseteq Errors
  BY DEF Inv, TypeOK, UdpTypeOK, Errors
<1>b. Timeout \in Nat /\ call.left \in Nat
  BY <1>a DEF Call
<1>1. ASSUME NEW p, p \in [kind : {"None", "Ping", "Pong"}, token : Datagram], SendPacket(p)
      PROVE  Inv'
  <2> USE <1>1 DEF SendPacket, udpVars, callVars, v5Vars
  <2>1. TypeOK'
    BY DEF Inv, TypeOK, UdpTypeOK, V4TypeOK, V5TypeOK
  <2>2. ReadInv' /\ HandshakeInv' /\ SessionAgreement' /\ FromThePeer'
    BY DEF Inv, ReadInv, HandshakeInv, SessionAgreement, FromThePeer
  <2> QED
    BY <2>1, <2>2 DEF Inv
<1>2. CASE SendPing
  BY <1>1, <1>2, NoDatagramType DEF SendPing
<1>3. CASE ReplyToPing
  BY <1>1, <1>3 DEF ReplyToPing, Inv, TypeOK
<1>4. CASE ReadDiscv4Packet \/ ExpectAnyDiscv4Reply
  <2>1. [Idle EXCEPT !.op = "Packet"] \in Call /\ [Idle EXCEPT !.op = "Packet"].op = "Packet"
    BY CallType DEF CallOps
  <2>2. [Idle EXCEPT !.op = "Expect"] \in Call /\ [Idle EXCEPT !.op = "Expect"].op = "Expect"
    BY CallType DEF CallOps
  <2>3. UNCHANGED <<udpVars, v4Vars, protocol>> /\ nonces' \in 0..MaxNonce /\ UNCHANGED <<issued, sessions, accepted>>
    BY <1>4 DEF ReadDiscv4Packet, ExpectAnyDiscv4Reply, v5Vars, Inv, TypeOK, V5TypeOK
  <2>4. CASE ReadDiscv4Packet
    BY <2>1, <2>3, <2>4, BeginKeeps DEF ReadDiscv4Packet
  <2>5. CASE ExpectAnyDiscv4Reply
    BY <2>2, <2>3, <2>5, BeginKeeps DEF ExpectAnyDiscv4Reply
  <2> QED
    BY <1>4, <2>4, <2>5
<1>5. CASE PacketRead
  BY <1>a, <1>b, <1>5, GoesOn DEF PacketRead, callVars, others
<1>6. CASE ExpectReads
  BY <1>a, <1>b, <1>6, GoesOn DEF ExpectReads, ReadAgain, callVars, others
<1>7. CASE PacketReturns
  <2>1. UNCHANGED others /\ UNCHANGED <<fd, readUntil, ctxVars, watcher>> /\ rd' = NoRead
    BY <1>7 DEF PacketReturns, Took, TookError, others
  <2>2. \E err \in Errors, d \in Datagram : Return(err, d)
    BY <1>a, <1>7, NoDatagramType DEF PacketReturns
  <2> QED
    BY <1>7, <2>1, <2>2, ReturnKeeps DEF PacketReturns
<1>8. CASE ExpectTimesOut
  BY <1>a, <1>8, NoDatagramType, ReturnKeeps DEF ExpectTimesOut, udpVars, ctxVars, others
<1>9. CASE ExpectError
  <2>1. UNCHANGED others /\ UNCHANGED <<fd, readUntil, ctxVars, watcher>> /\ rd' = NoRead
    BY <1>9 DEF ExpectError, TookError, others
  <2>2. CASE UNCHANGED callVars
    BY <1>a, <2>1, <2>2, GoesOn DEF callVars
  <2>3. CASE Return(rd.err, NoDatagram)
    BY <1>a, <1>9, <2>1, <2>3, NoDatagramType, ReturnKeeps DEF ExpectError
  <2> QED
    BY <1>9, <2>2, <2>3 DEF ExpectError
<1>10. CASE ExpectDatagram
  <2>1. UNCHANGED others /\ UNCHANGED <<fd, readUntil, ctxVars, watcher>> /\ rd' = NoRead /\ call.op = "Expect"
    BY <1>10 DEF ExpectDatagram, Took, others
  <2>2. CASE Return("Invalid", rd.d)
    BY <1>a, <2>1, <2>2, ReturnKeeps
  <2>3. CASE Return("None", rd.d) /\ SameUDPAddr(rd.d.from, PeerAddr)
    BY <1>a, <2>1, <2>3, SameAddress, ReturnKeeps
  <2> QED
    BY <1>10, <2>2, <2>3 DEF ExpectDatagram
<1> QED
  BY <1>2, <1>3, <1>4, <1>5, <1>6, <1>7, <1>8, <1>9, <1>10 DEF V4Calls, V4Steps

\* The calls of a discv5 connection.
LEMMA V5CallStep == Inv /\ V5Calls /\ UNCHANGED <<v4Vars, protocol>> => Inv'
<1> SUFFICES ASSUME Inv, V5Calls, UNCHANGED <<v4Vars, protocol>> PROVE Inv'
  OBVIOUS
<1>a. V5TypeOK
  BY DEF Inv, TypeOK
<1>1. ASSUME NEW c \in Call, c.op # "Handshake", Begin(c), UNCHANGED udpVars,
             nonces' \in 0..MaxNonce, UNCHANGED <<issued, sessions, accepted>>
      PROVE  Inv'
  BY <1>1, BeginKeeps
<1>2. ASSUME UNCHANGED <<udpVars, call, issued, sessions, accepted>>, nonces' \in 0..MaxNonce,
             outcome' = outcome \/ outcome' = [NoOutcome EXCEPT !.op = "Establish", !.err = "Closed"]
      PROVE  Inv'
  <2> USE <1>2 DEF udpVars, v4Vars
  <2>1. \/ outcome' = outcome
        \/ /\ outcome' \in [op : CallOps, nonce : 0..MaxNonce, err : Errors, d : Datagram]
           /\ outcome'.err # "None"
    <3>1. CASE outcome' = [NoOutcome EXCEPT !.op = "Establish", !.err = "Closed"]
      <4>1. outcome' = [op |-> "Establish", nonce |-> 0, err |-> "Closed", d |-> NoDatagram]
        BY <3>1 DEF NoOutcome
      <4> QED
        BY <4>1, NoDatagramType DEF CallOps, Errors
    <3> QED
      BY <1>2, <3>1
  <2>2. TypeOK'
    BY <2>1 DEF Inv, TypeOK, UdpTypeOK, V4TypeOK, V5TypeOK
  <2>3. ReadInv' /\ HandshakeInv'
    BY DEF Inv, ReadInv, HandshakeInv
  <2>4. SessionAgreement' /\ FromThePeer'
    BY <2>1 DEF Inv, SessionAgreement, FromThePeer
  <2> QED
    BY <2>2, <2>3, <2>4 DEF Inv
<1>3. CASE EstablishSession
  <2>1. CASE fd = "Open" /\ nonces' = nonces + 1 /\ Begin([Idle EXCEPT !.op = "Establish", !.nonce = nonces + 1])
    <3>1. nonces + 1 \in 0..MaxNonce
      BY <1>a, <1>3 DEF EstablishSession, V5TypeOK
    <3>2. /\ [Idle EXCEPT !.op = "Establish", !.nonce = nonces + 1] \in Call
          /\ [Idle EXCEPT !.op = "Establish", !.nonce = nonces + 1].op = "Establish"
      BY <3>1, IdleType DEF Call, CallOps
    <3> QED
      BY <1>1, <1>3, <2>1, <3>1, <3>2 DEF EstablishSession
  <2>2. CASE /\ outcome' = [NoOutcome EXCEPT !.op = "Establish", !.err = "Closed"]
             /\ UNCHANGED <<nonces, call>>
    BY <1>a, <1>2, <1>3, <2>2 DEF EstablishSession, V5TypeOK
  <2> QED
    BY <1>3, <2>1, <2>2 DEF EstablishSession
<1>4. CASE ReadWhoAreYou
  <2>1. /\ [Idle EXCEPT !.op = "WhoAreYou"] \in Call
        /\ [Idle EXCEPT !.op = "WhoAreYou"].op = "WhoAreYou"
    BY CallType DEF CallOps
  <2> QED
    BY <1>a, <1>1, <1>4, <2>1 DEF ReadWhoAreYou, V5TypeOK, v5Vars
<1>5. ASSUME NEW s \in sessions, SendOrdinary(s) PROVE Inv'
  BY <1>a, <1>2, <1>5 DEF SendOrdinary, V5TypeOK, callVars
<1>6. ASSUME NEW s \in sessions, NEW o \in {"Ordinary", "Message"}, NEW type \in MessageTypes,
             OrdinaryCall(s, o, type)
      PROVE  Inv'
  <2>1. s.nonce \in 0..MaxNonce /\ s.chal \in 0..MaxChallenge
    BY <1>a DEF V5TypeOK, Session
  <2> DEFINE c == [Idle EXCEPT !.op = o, !.nonce = s.nonce, !.chal = s.chal, !.type = type]
  <2>2. c \in Call /\ c.op = o
    BY <2>1, IdleType DEF Call, CallOps
  <2>3. Begin(c) /\ UNCHANGED <<udpVars, v5Vars>>
    BY <1>6 DEF OrdinaryCall
  <2> HIDE DEF c
  <2> QED
    BY <1>a, <1>1, <2>2, <2>3 DEF V5TypeOK, v5Vars
<1>7. "Pong" \in MessageTypes
  BY DEF MessageTypes
<1> QED
  BY <1>3, <1>4, <1>5, <1>6, <1>7 DEF V5Calls, ReadOrdinary, ReadOrdinaryMessage

\* The loops of its reads.
LEMMA V5ReadStep == Inv /\ V5Steps /\ UNCHANGED <<v4Vars, protocol>> => Inv'
<1> SUFFICES ASSUME Inv, V5Steps, UNCHANGED <<v4Vars, protocol>> PROVE Inv'
  OBVIOUS
<1>a. /\ UdpTypeOK /\ V5TypeOK /\ call \in Call /\ rd.d \in Datagram /\ rd.err \in Errors
      /\ {"Timeout", "Invalid", "None", "Closed"} \subseteq Errors
  BY DEF Inv, TypeOK, UdpTypeOK, Errors
<1>b. call.left \in Nat
  BY <1>a DEF Call
<1>1. CASE V5Reads
  BY <1>a, <1>b, <1>1, GoesOn DEF V5Reads, ReadAgain, callVars, others
<1>2. CASE V5TimesOut
  <2>1. \E err \in Errors : err # "None" /\ Return(err, NoDatagram)
    BY <1>a, <1>2 DEF V5TimesOut
  <2>2. UNCHANGED others /\ UNCHANGED <<fd, readUntil, ctxVars, watcher>> /\ rd' = rd
    BY <1>2 DEF V5TimesOut, udpVars, ctxVars, others
  <2> QED
    BY <2>1, <2>2, NoDatagramType, ReturnKeeps
<1>3. ASSUME \/ TookError /\ UNCHANGED v5Vars
             \/ Took(rd.d) /\ UNCHANGED v5Vars
      PROVE  UNCHANGED others /\ UNCHANGED <<fd, readUntil, ctxVars, watcher>> /\ rd' = NoRead
  BY <1>3 DEF Took, TookError, others
<1>4. CASE V5Error
  BY <1>a, <1>3, <1>4, NoDatagramType, ReturnKeeps DEF V5Error, TookError
<1>5. CASE SkipForeign
  BY <1>a, <1>3, <1>5, GoesOn DEF SkipForeign, callVars
<1>6. CASE TakeChallenge
  <2>1. /\ UNCHANGED others /\ UNCHANGED <<fd, readUntil, ctxVars, watcher>> /\ rd' = NoRead
        /\ call.op \in {"Establish", "WhoAreYou"} /\ rd.d.from = PeerAddr
    BY <1>a, <1>3, <1>6, SameAddress DEF TakeChallenge
  <2>2. CASE Return("Invalid", NoDatagram)
    BY <1>a, <2>1, <2>2, NoDatagramType, ReturnKeeps
  <2>3. CASE UNCHANGED callVars
    BY <1>a, <2>1, <2>3, GoesOn DEF callVars
  <2>4. CASE Return("None", rd.d)
    BY <1>a, <2>1, <2>4, ReturnKeeps
  <2>5. CASE /\ rd.d.kind = "WhoAreYou" /\ echoes(rd.d) /\ call.op = "Establish"
             /\ call' = [call EXCEPT !.op = "Handshake", !.chal = rd.d.chal]
             /\ UNCHANGED outcome
    <3>1. /\ call' \in Call /\ call'.op = "Handshake"
          /\ call'.chal = rd.d.chal /\ call'.nonce = call.nonce
      BY <1>a, <2>5 DEF Call, CallOps, Datagram
    <3>2. rd.d.chal \in DOMAIN issued /\ issued[rd.d.chal] = call.nonce
      BY <2>5 DEF Inv, ReadInv, echoes
    <3>3. UdpTypeOK' /\ rd'.d = NoDatagram
      BY <1>a, <2>1, NoDatagramType DEF UdpTypeOK, NoRead, ReadSteps, ctxVars
    <3> USE DEF others, v4Vars, v5Vars
    <3>4. TypeOK'
      BY <2>1, <2>5, <3>1, <3>3 DEF Inv, TypeOK, V4TypeOK, V5TypeOK
    <3>5. ReadInv' /\ HandshakeInv'
      BY <2>1, <3>1, <3>2, <3>3 DEF ReadInv, HandshakeInv, NoDatagram, Plain
    <3>6. SessionAgreement' /\ FromThePeer'
      BY <2>1, <2>5 DEF Inv, SessionAgreement, FromThePeer
    <3> QED
      BY <3>4, <3>5, <3>6 DEF Inv
  <2> QED
    BY <1>6, <2>2, <2>3, <2>4, <2>5 DEF TakeChallenge
<1>7. CASE SendHandshake
  <2>1. UNCHANGED <<fd, readUntil, ctxVars, watcher>> /\ rd' = rd /\ call.op = "Handshake"
    BY <1>7 DEF SendHandshake, udpVars, ctxVars
  <2>2. CASE Return("Closed", NoDatagram) /\ UNCHANGED sessions
    BY <1>a, <1>7, <2>1, <2>2, NoDatagramType, ReturnKeeps DEF SendHandshake, others, v5Vars
  <2>3. CASE /\ sessions' = sessions \cup {[nonce |-> call.nonce, chal |-> call.chal]}
             /\ Return("None", NoDatagram)
    <3> USE DEF ctxVars, v4Vars
    <3>1. call.chal \in DOMAIN issued /\ issued[call.chal] = call.nonce
      BY <2>1 DEF Inv, HandshakeInv
    <3>2. call.chal \in 1..MaxChallenge /\ call.nonce \in 1..MaxNonce
      BY <1>a, <3>1 DEF V5TypeOK
    <3>3. V5TypeOK'
      BY <1>a, <1>7, <2>3, <3>2 DEF SendHandshake, V5TypeOK, Session
    <3>4. call' = Idle /\ outcome' = [op |-> "Handshake", nonce |-> call.nonce, err |-> "None", d |-> NoDatagram]
      BY <2>1, <2>3 DEF Return
    <3>5. outcome' \in [op : CallOps, nonce : 0..MaxNonce, err : Errors, d : Datagram]
      BY <1>a, <3>4, NoDatagramType DEF CallOps, Call
    <3>6. TypeOK'
      BY <2>1, <3>3, <3>4, <3>5, IdleType DEF Inv, TypeOK, UdpTypeOK, V4TypeOK
    <3>7. ReadInv' /\ HandshakeInv'
      BY <1>7, <2>1, <3>4, IdleType DEF SendHandshake, Inv, ReadInv, HandshakeInv
    <3>8. SessionAgreement' /\ FromThePeer'
      BY <1>7, <2>3, <3>1, <3>4, NoDatagramType DEF SendHandshake, Inv, SessionAgreement, FromThePeer
    <3> QED
      BY <3>6, <3>7, <3>8 DEF Inv
  <2> QED
    BY <1>7, <2>2, <2>3 DEF SendHandshake
<1>8. CASE TakeOrdinary
  <2>1. /\ UNCHANGED others /\ UNCHANGED <<fd, readUntil, ctxVars, watcher>> /\ rd' = NoRead
        /\ call.op \in {"Ordinary", "Message"} /\ rd.d.from = PeerAddr
    BY <1>a, <1>3, <1>8, SameAddress DEF TakeOrdinary
  <2>2. ASSUME NEW b \in BOOLEAN, call' = [call EXCEPT !.lastErr = b], UNCHANGED outcome PROVE Inv'
    <3>1. call' \in Call /\ call'.op = call.op /\ call'.nonce = call.nonce /\ call'.chal = call.chal
      BY <1>a, <2>2 DEF Call
    <3> QED
      BY <2>1, <2>2, <3>1, GoesOn
  <2>3. CASE decodeOrdinary(rd.d) /\ Return("None", rd.d)
    <3>1. rd.d.id = call.nonce /\ [nonce |-> call.nonce, chal |-> rd.d.chal] \in accepted
      BY <2>3 DEF decodeOrdinary, Inv, ReadInv
    <3> QED
      BY <1>a, <2>1, <2>3, <3>1, ReturnKeeps
  <2> QED
    BY <1>8, <2>2, <2>3 DEF TakeOrdinary
<1> QED
  BY <1>1, <1>2, <1>4, <1>5, <1>6, <1>7, <1>8 DEF V5Steps

\* The peer issues another challenge, or learns another session.
LEMMA V5PeerStep == Inv /\ V5Peer /\ UNCHANGED <<v4Vars, protocol>> => Inv'
<1> SUFFICES ASSUME Inv, V5Peer, UNCHANGED <<v4Vars, protocol>> PROVE Inv'
  OBVIOUS
<1> USE DEF udpVars, callVars, v4Vars
<1>a. V5TypeOK
  BY DEF Inv, TypeOK
<1>1. ASSUME NEW n \in 1..nonces, PeerChallenges(n) PROVE Inv'
  <2>1. n \in 1..MaxNonce /\ issued' = Append(issued, n)
    BY <1>a, <1>1 DEF PeerChallenges, V5TypeOK
  <2>2. V5TypeOK'
    BY <1>a, <1>1, <2>1 DEF PeerChallenges, V5TypeOK
  <2>3. \A c \in DOMAIN issued : c \in DOMAIN issued' /\ issued'[c] = issued[c]
    BY <1>a, <2>1 DEF V5TypeOK
  <2>4. TypeOK'
    BY <1>1, <2>2 DEF PeerChallenges, Inv, TypeOK, UdpTypeOK, V4TypeOK
  <2>5. ReadInv' /\ HandshakeInv'
    BY <1>1, <2>3 DEF PeerChallenges, Inv, ReadInv, HandshakeInv
  <2>6. SessionAgreement' /\ FromThePeer'
    BY <1>1, <2>3 DEF PeerChallenges, Inv, SessionAgreement, FromThePeer
  <2> QED
    BY <2>4, <2>5, <2>6 DEF Inv
<1>2. ASSUME NEW s \in sessions, PeerAccepts(s) PROVE Inv'
  <2>1. TypeOK'
    BY <1>2 DEF PeerAccepts, Inv, TypeOK, UdpTypeOK, V4TypeOK, V5TypeOK
  <2>2. ReadInv' /\ HandshakeInv'
    BY <1>2 DEF PeerAccepts, Inv, ReadInv, HandshakeInv
  <2>3. SessionAgreement' /\ FromThePeer'
    BY <1>2 DEF PeerAccepts, Inv, SessionAgreement, FromThePeer
  <2> QED
    BY <2>1, <2>2, <2>3 DEF Inv
<1> QED
  BY <1>1, <1>2 DEF V5Peer
-----------------------------------------------------------------------------
(* The theorems.                                                           *)

LEMMA InvInit == Init => Inv
<1> SUFFICES ASSUME Init PROVE Inv
  OBVIOUS
<1> USE NoDatagramType, IdleType DEF Init, UdpInit, V4Init, V5Init
<1>1. UdpTypeOK
  BY DEF UdpTypeOK, Countdown, NoRead, ReadSteps, Errors
<1>2. V4TypeOK /\ V5TypeOK
  BY DEF V4TypeOK, V5TypeOK
<1>3. outcome \in [op : CallOps, nonce : 0..MaxNonce, err : Errors, d : Datagram]
  BY DEF NoOutcome, CallOps, Errors
<1>4. ReadInv /\ HandshakeInv
  BY DEF ReadInv, HandshakeInv, NoRead, NoDatagram, Plain
<1>5. SessionAgreement /\ FromThePeer
  BY DEF SessionAgreement, FromThePeer, NoOutcome
<1> QED
  BY <1>1, <1>2, <1>3, <1>4, <1>5 DEF Inv, TypeOK

LEMMA InvStep == Inv /\ [Next]_vars => Inv'
<1>1. Inv /\ UNCHANGED vars => Inv'
  BY DEF vars, udpVars, callVars, v4Vars, v5Vars, Inv, TypeOK, UdpTypeOK, V4TypeOK, V5TypeOK,
         ReadInv, HandshakeInv, SessionAgreement, FromThePeer
<1>2. Inv /\ Next => Inv'
  BY UdpStep, ReadDatagramStep, V4Step, V5CallStep, V5ReadStep, V5PeerStep DEF Next, others
<1> QED
  BY <1>1, <1>2

LEMMA Invariance == Spec => []Inv
  BY InvInit, InvStep, PTL DEF Spec

\* Every variable of the socket, the calls and the two protocols has its type.
THEOREM TypeCorrect == Spec => []TypeOK
<1>1. Inv => TypeOK
  BY DEF Inv
<1> QED
  BY <1>1, Invariance, PTL

\* What a call reports was sent from the peer's own ip and port, whoever else
\* sends the same bytes (SameUDPAddr).
THEOREM FromThePeerCorrect == Spec => []FromThePeer
<1>1. Inv => FromThePeer
  BY DEF Inv
<1> QED
  BY <1>1, Invariance, PTL

\* A session rests on a challenge for the random packet of its own call, and
\* messages of other sessions never pass for its own (EstablishSession,
\* ReadOrdinary), whatever the network repeats or delays.
THEOREM SessionAgreementCorrect == Spec => []SessionAgreement
<1>1. Inv => SessionAgreement
  BY DEF Inv
<1> QED
  BY <1>1, Invariance, PTL
=============================================================================
