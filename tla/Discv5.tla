------------------------------- MODULE Discv5 -------------------------------
(***************************************************************************)
(* A discv5 connection (discovery/discv5_conn.go, discv5_session.go,       *)
(* discv5_handshake.go, discv5_whoareyou.go, discv5_packet.go) and a peer  *)
(* that answers it: EstablishSession draws a challenge out of the peer     *)
(* with a packet it cannot read, answers it with a handshake, and the keys *)
(* of the session follow from the ephemeral key and the challenge.         *)
(*                                                                         *)
(* Keys are the pair they are derived from, the ephemeral key (named by    *)
(* the nonce of the call that drew it) and the challenge: the derivation   *)
(* is injective and nobody else can compute it.  What the peer sends may   *)
(* arrive late, twice or never, and anybody may send it again from an      *)
(* address of his own.                                                     *)
(***************************************************************************)
EXTENDS UdpRead, Sequences

VARIABLES
  nonces,     \* nonces used so far; nonce n is the n-th packet's
  issued,     \* the peer's challenges: issued[c] is the nonce c answers
  sessions,   \* sessions established: the call's nonce and the challenge
  accepted    \* those whose handshake the peer has received

v5Vars == <<nonces, issued, sessions, accepted>>

Session == [nonce : 1..MaxNonce, chal : 1..MaxChallenge]

V5Init ==
  /\ nonces = 0
  /\ issued = << >>
  /\ sessions = {}
  /\ accepted = {}
-----------------------------------------------------------------------------
(* The owner's calls.                                                      *)

\* SendRandomOrdinary, then the wait for the challenge that echoes its nonce.
EstablishSession ==
  /\ nonces < MaxNonce
  /\ \/ /\ fd = "Open"
        /\ nonces' = nonces + 1
        /\ Begin([Idle EXCEPT !.op = "Establish", !.nonce = nonces + 1])
     \/ /\ fd = "Closed" /\ call.op = "Idle"
        /\ outcome' = [NoOutcome EXCEPT !.op = "Establish", !.err = "Closed"]
        /\ UNCHANGED <<nonces, call>>
  /\ UNCHANGED <<udpVars, issued, sessions, accepted>>

\* ReadWhoAreYou takes a challenge for any nonce.
ReadWhoAreYou ==
  /\ Begin([Idle EXCEPT !.op = "WhoAreYou"])
  /\ UNCHANGED <<udpVars, v5Vars>>

\* SendOrdinary and SendOrdinaryPlain: a fresh nonce under the session's key.
SendOrdinary(s) ==
  /\ s \in sessions /\ call.op = "Idle" /\ nonces < MaxNonce
  /\ \/ fd = "Open" /\ nonces' = nonces + 1
     \/ fd = "Closed" /\ UNCHANGED nonces
  /\ UNCHANGED <<udpVars, callVars, issued, sessions, accepted>>

OrdinaryCall(s, op, type) ==
  /\ s \in sessions
  /\ Begin([Idle EXCEPT !.op = op, !.nonce = s.nonce, !.chal = s.chal, !.type = type])
  /\ UNCHANGED <<udpVars, v5Vars>>

\* ReadOrdinary returns the next message of the session, ReadOrdinaryMessage
\* the next one of a type; its inner reads share one deadline.
ReadOrdinary(s) == OrdinaryCall(s, "Ordinary", "Pong")
ReadOrdinaryMessage(s, type) == OrdinaryCall(s, "Message", type)
-----------------------------------------------------------------------------
(* The loops of readWhoAreYou, ReadOrdinary and ReadOrdinaryMessage.       *)

waiting == call.op \in {"Establish", "WhoAreYou", "Ordinary", "Message"}

V5Reads ==
  /\ waiting
  /\ ReadAgain(call.left)
  /\ UNCHANGED v5Vars

\* ReadOrdinary prefers the last decoding error to "timeout".
V5TimesOut ==
  /\ waiting /\ call.left = 0 /\ rd.pc = "Idle"
  /\ Return(IF call.lastErr THEN "Invalid" ELSE "Timeout", NoDatagram)
  /\ UNCHANGED <<udpVars, v5Vars>>

V5Error ==
  /\ waiting
  /\ TookError
  /\ Return(rd.err, NoDatagram)
  /\ UNCHANGED v5Vars

\* A datagram of another source is skipped.
SkipForeign ==
  /\ waiting
  /\ Took(rd.d)
  /\ ~SameUDPAddr(rd.d.from, PeerAddr)
  /\ UNCHANGED <<callVars, v5Vars>>

\* Mutant: a challenge for another nonce is as good.
echoesAny(d) == TRUE

\* expectedNonce == nil, or the challenge echoes it.
echoes(d) == call.op = "WhoAreYou" \/ d.id = call.nonce

\* Mutant: the decoding error of readWhoAreYou is not looked at.
TakeChallengeUnchecked ==
  /\ call.op = "Establish"
  /\ Took(rd.d)
  /\ SameUDPAddr(rd.d.from, PeerAddr)
  /\ echoes(rd.d) \/ rd.d.kind # "WhoAreYou"
  /\ call' = [call EXCEPT !.op = "Handshake", !.chal = rd.d.chal]
  /\ UNCHANGED <<outcome, v5Vars>>

\* What readWhoAreYou makes of a datagram of the peer: no WHOAREYOU ends it,
\* one for another nonce is skipped.
TakeChallenge ==
  /\ call.op \in {"Establish", "WhoAreYou"}
  /\ Took(rd.d)
  /\ SameUDPAddr(rd.d.from, PeerAddr)
  /\ \/ rd.d.kind # "WhoAreYou" /\ Return("Invalid", NoDatagram)
     \/ rd.d.kind = "WhoAreYou" /\ ~echoes(rd.d) /\ UNCHANGED callVars
     \/ /\ rd.d.kind = "WhoAreYou" /\ echoes(rd.d)
        /\ \/ call.op = "WhoAreYou" /\ Return("None", rd.d)
           \/ /\ call.op = "Establish"
              /\ call' = [call EXCEPT !.op = "Handshake", !.chal = rd.d.chal]
              /\ UNCHANGED outcome
  /\ UNCHANGED v5Vars

\* sendHandshakeMessage: a fresh ephemeral key, the identity signature and the
\* keys over the challenge, and the packet that carries them.
SendHandshake ==
  /\ call.op = "Handshake"
  /\ \/ /\ fd = "Open"
        /\ sessions' = sessions \cup {[nonce |-> call.nonce, chal |-> call.chal]}
        /\ Return("None", NoDatagram)
     \/ fd = "Closed" /\ Return("Closed", NoDatagram) /\ UNCHANGED sessions
  /\ UNCHANGED <<udpVars, nonces, issued, accepted>>

\* decodeOrdinary: an ordinary packet of the peer that the session's recipient
\* key opens.
decodeOrdinary(d) == d.kind = "Ordinary" /\ d.id = call.nonce /\ d.chal = call.chal

\* A packet that does not decode is skipped and remembered; a message of
\* another type begins the next inner ReadOrdinary.
TakeOrdinary ==
  /\ call.op \in {"Ordinary", "Message"}
  /\ Took(rd.d)
  /\ SameUDPAddr(rd.d.from, PeerAddr)
  /\ \/ /\ ~decodeOrdinary(rd.d)
        /\ call' = [call EXCEPT !.lastErr = TRUE] /\ UNCHANGED outcome
     \/ /\ decodeOrdinary(rd.d)
        /\ call.op = "Message" /\ rd.d.type # call.type
        /\ call' = [call EXCEPT !.lastErr = FALSE] /\ UNCHANGED outcome
     \/ /\ decodeOrdinary(rd.d)
        /\ call.op = "Ordinary" \/ rd.d.type = call.type
        /\ Return("None", rd.d)
  /\ UNCHANGED v5Vars
-----------------------------------------------------------------------------
(* The peer.                                                               *)

\* A WHOAREYOU with a fresh challenge for a packet the peer cannot read.
PeerChallenges(n) ==
  /\ n \in 1..nonces /\ Len(issued) < MaxChallenge
  /\ issued' = Append(issued, n)
  /\ UNCHANGED <<udpVars, callVars, nonces, sessions, accepted>>

PeerAccepts(s) ==
  /\ s \in sessions \ accepted
  /\ accepted' = accepted \cup {s}
  /\ UNCHANGED <<udpVars, callVars, nonces, issued, sessions>>

\* The peer's c-th WHOAREYOU, and a message of its own under a session's keys.
WhoAreYou(c) == [Plain(PeerAddr, "WhoAreYou") EXCEPT !.id = issued[c], !.chal = c]
Ordinary(s, type) ==
  [Plain(PeerAddr, "Ordinary") EXCEPT !.id = s.nonce, !.chal = s.chal, !.type = type]

\* What the peer may have sent: the challenges it issued, and messages of any
\* type under the keys of the sessions it knows.
V5Datagrams ==
  {WhoAreYou(c) : c \in DOMAIN issued}
    \cup {Ordinary(s, type) : s \in accepted, type \in MessageTypes}

V5Calls ==
  \/ EstablishSession \/ ReadWhoAreYou
  \/ \E s \in sessions :
       \/ SendOrdinary(s) \/ ReadOrdinary(s)
       \/ \E type \in MessageTypes : ReadOrdinaryMessage(s, type)

V5Steps ==
  \/ V5Reads \/ V5TimesOut \/ V5Error \/ SkipForeign
  \/ TakeChallenge \/ SendHandshake \/ TakeOrdinary

V5Peer ==
  \/ \E n \in 1..nonces : PeerChallenges(n)
  \/ \E s \in sessions : PeerAccepts(s)

V5TypeOK ==
  /\ nonces \in 0..MaxNonce
  /\ issued \in Seq(1..MaxNonce) /\ Len(issued) <= MaxChallenge
  /\ sessions \subseteq Session /\ accepted \subseteq sessions
=============================================================================
