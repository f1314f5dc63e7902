------------------------------- MODULE Discv4 -------------------------------
(***************************************************************************)
(* A discv4 connection (discovery/discv4_conn.go, discv4_packet.go,        *)
(* discv4_peer_harness.go): signed packets out, raw or framed reads in,    *)
(* and the wait for any reply of the peer.  A packet is framed when it is  *)
(* long enough; neither hash nor signature of an inbound packet is looked  *)
(* at.  What a packet says beyond its being a Ping is left out.            *)
(***************************************************************************)
EXTENDS UdpRead

VARIABLE sentV4  \* the last packet written to the peer; a pong has a token

v4Vars == sentV4

V4Init == sentV4 = [kind |-> "None", token |-> NoDatagram]

\* sendDiscv4Packet: a payload that is too large, or a closed socket, is an
\* error and nothing is sent.
SendPacket(p) ==
  /\ fd # "None"
  /\ \/ fd = "Open" /\ sentV4' = p
     \/ UNCHANGED sentV4
  /\ UNCHANGED <<udpVars, callVars>>

SendPing == SendPacket([kind |-> "Ping", token |-> NoDatagram])

\* ReplyToPing: a body that is no Ping is an error; the Pong carries the hash
\* of the packet and goes to the connection's peer.
ReplyToPing ==
  /\ outcome.op = "Packet" /\ outcome.err = "None"
  /\ SendPacket([kind |-> "Pong", token |-> outcome.d])

ReadDiscv4Packet ==
  /\ Begin([Idle EXCEPT !.op = "Packet"])
  /\ UNCHANGED <<udpVars, v4Vars>>

ExpectAnyDiscv4Reply ==
  /\ Begin([Idle EXCEPT !.op = "Expect"])
  /\ UNCHANGED <<udpVars, v4Vars>>

\* ReadDiscv4Packet reads once, whatever is left of its time.
PacketRead ==
  /\ call.op = "Packet" /\ rd.pc = "Idle"
  /\ BeginRead(Timeout)
  /\ UNCHANGED <<fd, readUntil, ctxVars, watcher, callVars, v4Vars>>

PacketReturns ==
  /\ call.op = "Packet"
  /\ \/ TookError /\ Return(rd.err, NoDatagram)
     \/ Took(rd.d) /\ rd.d.kind = "Short" /\ Return("Invalid", NoDatagram)
     \/ Took(rd.d) /\ rd.d.kind # "Short" /\ Return("None", rd.d)
  /\ UNCHANGED v4Vars

\* The loop of ExpectAnyDiscv4Reply: each read has at least 100 ms.
ExpectReads ==
  /\ call.op = "Expect"
  /\ ReadAgain(call.left)
  /\ UNCHANGED v4Vars

ExpectTimesOut ==
  /\ call.op = "Expect" /\ call.left = 0 /\ rd.pc = "Idle"
  /\ Return("Timeout", NoDatagram)
  /\ UNCHANGED <<udpVars, v4Vars>>

\* A read that timed out is tried again, any other error ends the wait.
ExpectError ==
  /\ call.op = "Expect"
  /\ TookError
  /\ \/ isTimeout(rd.err) /\ UNCHANGED callVars
     \/ ~isTimeout(rd.err) /\ Return(rd.err, NoDatagram)
  /\ UNCHANGED v4Vars

\* A framed packet of the peer is the reply; a short one, or one of another
\* source, ends the wait without it.
ExpectDatagram ==
  /\ call.op = "Expect"
  /\ Took(rd.d)
  /\ IF rd.d.kind # "Short" /\ SameUDPAddr(rd.d.from, PeerAddr)
       THEN Return("None", rd.d)
       ELSE Return("Invalid", rd.d)
  /\ UNCHANGED v4Vars

V4Calls ==
  \/ SendPing \/ ReplyToPing \/ ReadDiscv4Packet \/ ExpectAnyDiscv4Reply

V4Steps ==
  \/ PacketRead \/ PacketReturns
  \/ ExpectReads \/ ExpectTimesOut \/ ExpectError \/ ExpectDatagram

V4TypeOK == sentV4 \in [kind : {"None", "Ping", "Pong"}, token : Datagram]
=============================================================================
