----------------------------- MODULE Discovery -----------------------------
(***************************************************************************)
(* A discovery connection of either protocol over its UDP socket: the      *)
(* calls of Discv4 or Discv5, the reads of UdpRead they are made of, and   *)
(* the network.                                                            *)
(***************************************************************************)
EXTENDS Discv4, Discv5

VARIABLE protocol  \* "discv4" or "discv5"

vars == <<udpVars, callVars, v4Vars, v5Vars, protocol>>

Init ==
  /\ UdpInit /\ V4Init /\ V5Init
  /\ protocol \in {"discv4", "discv5"}

\* What may arrive: anything that is no discv5 packet (only discv4 tells short
\* ones from others), and every datagram the peer has sent, from its own address
\* or sent again from another one.
Wire ==
  {Plain(a, k) : a \in {PeerAddr} \cup OtherAddrs,
                 k \in IF protocol = "discv4" THEN {"Short", "Junk"} ELSE {"Junk"}}
    \cup {[d EXCEPT !.from = a] : d \in V5Datagrams, a \in {PeerAddr} \cup OtherAddrs}

Next ==
  \/ UdpNext /\ UNCHANGED <<v4Vars, v5Vars, protocol>>
  \/ (\E d \in Wire : ReadDatagram(d)) /\ UNCHANGED <<v4Vars, v5Vars, protocol>>
  \/ protocol = "discv4" /\ (V4Calls \/ V4Steps) /\ UNCHANGED <<v5Vars, protocol>>
  \/ protocol = "discv5" /\ (V5Calls \/ V5Steps \/ V5Peer) /\ UNCHANGED <<v4Vars, protocol>>

Spec == Init /\ [][Next]_vars

(***************************************************************************)
(* The goroutine of the call and the watcher run.  Nothing is assumed of   *)
(* the clock, the network (no datagram need ever arrive), the peer or the  *)
(* owner: where a property needs time to pass it says so.                  *)
(***************************************************************************)
Goroutine ==
  \/ ReadStep /\ UNCHANGED <<v4Vars, v5Vars, protocol>>
  \/ V4Steps /\ UNCHANGED <<v5Vars, protocol>>
  \/ V5Steps /\ UNCHANGED <<v4Vars, protocol>>

Fairness ==
  /\ WF_vars(Goroutine)
  /\ WF_vars(WatcherStep /\ UNCHANGED <<v4Vars, v5Vars, protocol>>)

FairSpec == Spec /\ Fairness
-----------------------------------------------------------------------------
(* Properties.                                                             *)

CallOps == {"Idle", "Packet", "Expect", "Establish", "WhoAreYou", "Handshake",
            "Ordinary", "Message"}
Call == [op : CallOps, left : Nat, nonce : 0..MaxNonce,
         chal : 0..MaxChallenge, type : MessageTypes, lastErr : BOOLEAN]

\* Every variable of the socket, the calls and the two protocols has its type.
TypeOK ==
  /\ UdpTypeOK /\ V4TypeOK /\ V5TypeOK
  /\ call \in Call
  /\ outcome \in [op : CallOps, nonce : 0..MaxNonce, err : Errors, d : Datagram]
  /\ protocol \in {"discv4", "discv5"}

\* A reply, a challenge or a message that a call reports was sent from the
\* peer's own ip and port, although anybody may send the same bytes
\* (SameUDPAddr); ReadDiscv4Packet alone returns any packet, with its source.
FromThePeer ==
  outcome.err = "None" /\ outcome.op # "Packet" => outcome.d.from = PeerAddr

\* Every session rests on a challenge the peer issued for the random packet of
\* that very EstablishSession, however many challenges for earlier packets are
\* still under way; and a message that ReadOrdinary returns for a session was
\* sent by the peer under the keys of that session: messages of an earlier
\* one, still in the socket buffer, never pass for its own.
SessionAgreement ==
  /\ \A s \in sessions : s.chal \in DOMAIN issued /\ issued[s.chal] = s.nonce
  /\ outcome.err = "None" /\ outcome.op \in {"Ordinary", "Message"} =>
       /\ outcome.d.id = outcome.nonce
       /\ [nonce |-> outcome.nonce, chal |-> outcome.d.chal] \in accepted

\* Once the context ends, the call under way returns without the clock having
\* to move: the watcher or the second look at the context ends the read,
\* whatever arrives meanwhile (readUDPWithContext).  And when time passes and
\* the context's timer fires, every call returns, however many datagrams of
\* others or undecodable packets keep arriving.
CallsEnd ==
  /\ (ctx # "Live" /\ call.op # "Idle") ~> call.op = "Idle"
  /\ WF_vars(Tick /\ UNCHANGED <<v4Vars, v5Vars, protocol>>)
       /\ WF_vars(CtxExpires /\ UNCHANGED <<v4Vars, v5Vars, protocol>>)
       => (call.op # "Idle" ~> call.op = "Idle")
=============================================================================
