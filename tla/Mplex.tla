------------------------------- MODULE Mplex -------------------------------
(***************************************************************************)
(* The mplex connection (mplex/mplex.go): negotiation, sending frames      *)
(* under a byte cap, and Drain, which reads for a while and returns the    *)
(* frames it could parse, keeping the rest of the bytes for the next call. *)
(*                                                                         *)
(* A frame of n bytes is the bytes <<id, 1, n>> .. <<id, n, n>>, the first *)
(* of which stands for the two varints of its header.  A frame that        *)
(* announces more than MaxFrame has n = MaxFrame + 1.                      *)
(***************************************************************************)
EXTENDS Naturals, FiniteSets, SequencesExt

CONSTANTS MaxFrame,    \* the largest frame, in bytes
          SendCap,     \* maxSend of the dial
          MaxPeer,     \* bound: frames the peer sends
          MaxSent,     \* bound: frames we send
          MaxDrains    \* bound: calls of Drain

ASSUME MplexAssumption ==
  {MaxFrame, SendCap, MaxPeer, MaxSent, MaxDrains} \subseteq Nat /\ MaxFrame > 0

Bytes == [id : Nat, at : 1..MaxFrame + 1, of : 1..MaxFrame + 1]

VARIABLES
  link,     \* "Raw", "Secured", "Mplex", "Failed" or "Shut"
  theirs,   \* theirs: the peer's end: "Up" or "Closed"
  theirId,  \* frames the peer has begun
  theirLeft,\* bytes of its last frame still to send, and its size
  bytes,    \* all the bytes it has sent
  received, \* c.received: how many of them have been read
  buf,      \* c.buf
  frames,   \* ids of the frames that all calls of Drain have appended to their results
  drain,    \* the call of Drain: "Idle", "Read" or "Due"
  drains,   \* calls of Drain so far
  cut,      \* a write has failed inside a frame
  sent,     \* c.sent
  given,    \* bytes of our frames that the peer has been given
  ours      \* frames we have tried to send

mplexVars == <<link, theirs, theirId, theirLeft, bytes, received, buf, frames, drain, drains,
               cut, sent, given, ours>>
peerSide == <<theirs, theirId, theirLeft, bytes>>
readSide == <<received, buf, frames, drain, drains>>
writeSide == <<cut, sent, given, ours>>

MplexInit ==
  /\ link = "Raw" /\ theirs = "Up"
  /\ theirId = 0 /\ theirLeft = [at |-> 1, of |-> 0] /\ bytes = << >>
  /\ received = 0 /\ buf = << >> /\ frames = << >> /\ drain = "Idle" /\ drains = 0
  /\ cut = FALSE /\ sent = 0 /\ given = << >> /\ ours = 0
-----------------------------------------------------------------------------
(* DialWithIdentity, from the TCP connection on: Noise, then mplex.        *)

Negotiate ==
  /\ theirs = "Up"
  /\ \/ link = "Raw" /\ link' = "Secured"
     \/ link = "Secured" /\ link' = "Mplex"
  /\ UNCHANGED <<peerSide, readSide, writeSide>>

NegotiationFails ==
  /\ link \in {"Raw", "Secured"}
  /\ link' = "Failed"
  /\ UNCHANGED <<peerSide, readSide, writeSide>>

Shut ==
  /\ link = "Mplex"
  /\ link' = "Shut"
  /\ UNCHANGED <<peerSide, readSide, writeSide>>
-----------------------------------------------------------------------------
(* The peer.                                                               *)

TheirByte == [id |-> theirId, at |-> theirLeft.at, of |-> theirLeft.of]

PeerBegins(n) ==
  /\ link = "Mplex" /\ theirs = "Up" /\ theirLeft.at > theirLeft.of /\ theirId < MaxPeer
  /\ theirId' = theirId + 1
  /\ theirLeft' = [at |-> 1, of |-> n]
  /\ UNCHANGED <<link, theirs, bytes, readSide, writeSide>>

PeerSendsByte ==
  /\ link = "Mplex" /\ theirs = "Up" /\ theirLeft.at <= theirLeft.of
  /\ bytes' = Append(bytes, TheirByte)
  /\ theirLeft' = [theirLeft EXCEPT !.at = @ + 1]
  /\ UNCHANGED <<link, theirs, theirId, readSide, writeSide>>

PeerCloses ==
  /\ theirs = "Up"
  /\ theirs' = "Closed"
  /\ UNCHANGED <<link, theirId, theirLeft, bytes, readSide, writeSide>>
-----------------------------------------------------------------------------
(* send, and the helpers that choose its flag.                             *)

\* A payload or a stream id out of range, or a frame beyond the cap.
fitsCap(n) == n <= MaxFrame /\ sent + n <= SendCap

OurBytes(n, k) == [i \in 1..k |-> [id |-> ours + 1, at |-> i, of |-> n]]

Refuse(n) ==
  /\ link = "Mplex" /\ ours < MaxSent /\ ~fitsCap(n)
  /\ ours' = ours + 1
  /\ UNCHANGED <<link, peerSide, readSide, cut, sent, given>>

\* Write takes the whole frame, or fails after k bytes of it (a deadline, the
\* end of the connection); either way sent counts what was written.
Send(n) ==
  /\ link = "Mplex" /\ ours < MaxSent /\ fitsCap(n)
  /\ ours' = ours + 1
  /\ \E k \in 0..n :
       /\ theirs = "Closed" => k < n
       /\ sent' = sent + k
       /\ given' = given \o OurBytes(n, k)
       /\ cut' = (cut \/ k \in 1..n - 1)
  /\ UNCHANGED <<link, peerSide, readSide>>
-----------------------------------------------------------------------------
(* Drain.                                                                  *)

DrainBegins ==
  /\ link \in {"Mplex", "Shut"} /\ drain = "Idle" /\ drains < MaxDrains
  /\ drain' = "Read"
  /\ drains' = drains + 1
  /\ UNCHANGED <<link, peerSide, received, buf, frames, writeSide>>

DrainDue ==
  /\ drain = "Read"
  /\ drain' = "Due"
  /\ UNCHANGED <<link, peerSide, received, buf, frames, drains, writeSide>>

\* parse finds a whole frame of legal size at the front of the bytes.
parses(b) == b # << >> /\ b[1].of <= MaxFrame /\ Len(b) >= b[1].of

\* One turn of the inner loop, which ends when nothing parses.
ParseFrame ==
  /\ drain # "Idle" /\ parses(buf)
  /\ frames' = Append(frames, buf[1].id)
  /\ buf' = SubSeq(buf, buf[1].of + 1, Len(buf))
  /\ UNCHANGED <<link, peerSide, received, drain, drains, writeSide>>

\* Mutant: a call starts with an empty buffer.
keptNot(b) == << >>
kept(b) == b

\* One conn.Read of any length.
ReadChunk ==
  /\ drain = "Read" /\ ~parses(buf) /\ link = "Mplex"
  /\ \E n \in 1..Len(bytes) - received :
       /\ received' = received + n
       /\ buf' = buf \o SubSeq(bytes, received + 1, received + n)
  /\ UNCHANGED <<link, peerSide, frames, drain, drains, writeSide>>

\* The read fails: the deadline, which is no error, or the end of the
\* connection on either side; the frames read so far are returned.
DrainReturns ==
  /\ drain # "Idle" /\ ~parses(buf)
  /\ drain = "Due" \/ link # "Mplex" \/ (theirs = "Closed" /\ received = Len(bytes))
  /\ drain' = "Idle"
  /\ buf' = kept(buf)
  /\ UNCHANGED <<link, peerSide, received, frames, drains, writeSide>>

DrainStep == ReadChunk \/ ParseFrame \/ DrainReturns

MplexNext ==
  \/ Negotiate \/ NegotiationFails \/ Shut
  \/ (\E n \in 1..MaxFrame + 1 : PeerBegins(n) \/ Refuse(n) \/ Send(n))
  \/ PeerSendsByte \/ PeerCloses
  \/ DrainBegins \/ DrainDue \/ DrainStep

MplexSpec == MplexInit /\ [][MplexNext]_mplexVars
-----------------------------------------------------------------------------
(* Properties.                                                             *)

\* The bytes read so far that end a frame with no oversized frame before it.
FrameEnds ==
  {i \in 1..received : /\ bytes[i].at = bytes[i].of
                       /\ \A k \in 1..i : bytes[k].of <= MaxFrame}

\* However the peer's bytes are cut into reads, deadlines and calls, whenever
\* the inner loop is over Drain has returned every whole frame exactly once and
\* in order, up to the first one that is oversized, and c.buf is exactly what
\* follows them; and however our own writes fail, c.sent counts the bytes the
\* peer was given, within the cap.
FramesRecovered ==
  /\ drain = "Idle" \/ ~parses(buf) =>
       /\ frames = [k \in 1..Cardinality(FrameEnds) |-> k]
       /\ buf = SubSeq(bytes, Max(FrameEnds \cup {0}) + 1, received)
  /\ sent = Len(given) /\ sent <= SendCap

\* A Drain under way has time left and a connection that may still bring bytes.
MplexAtRest ==
  \/ drain = "Idle"
  \/ drain = "Read" /\ ~parses(buf) /\ received = Len(bytes) /\ theirs = "Up" /\ link = "Mplex"
=============================================================================
