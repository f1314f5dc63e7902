------------------------------ MODULE UdpRead ------------------------------
(***************************************************************************)
(* One UDP socket, the context of its owner and readUDPWithContext         *)
(* (discovery/udp_read.go), the read that every discv4 and discv5 call     *)
(* ends in.  The read arms the socket's deadline, then a watcher that      *)
(* moves the deadline to the present when the context ends, then blocks;   *)
(* the watcher is a goroutine of its own.                                  *)
(*                                                                         *)
(* Deadlines are counted down in ticks, so that a run need not bound time. *)
(* The network may lose, repeat, delay and reorder datagrams, and anybody  *)
(* may send to the socket at any time: a datagram that waits in the socket *)
(* buffer is one that the network delivers when it is read.                *)
(***************************************************************************)
EXTENDS Naturals

CONSTANTS PeerAddr,      \* the peer's address, an ip and a port
          OtherAddrs,    \* addresses of other senders
          Timeout,       \* ticks a call gives its reads
          CtxDeadlines,  \* ticks to the context's deadline, or Never
          Never,         \* a context without deadline, a socket without one
          MaxNonce,      \* bound: packets sent that carry a nonce
          MaxChallenge   \* bound: challenges the peer issues

Address == [ip : Nat, port : Nat]

ASSUME UdpReadAssumption ==
  /\ PeerAddr \in Address /\ OtherAddrs \subseteq Address \ {PeerAddr}
  /\ Timeout \in Nat \ {0}
  /\ Never \notin Nat /\ CtxDeadlines \subseteq Nat \cup {Never}
  /\ MaxNonce \in Nat /\ MaxChallenge \in Nat

(***************************************************************************)
(* A datagram is its sender and what a reader can tell of it.  "Short" is  *)
(* below the length of any packet, "Junk" long enough and neither of the   *)
(* discv5 kinds.  A WHOAREYOU carries the nonce id it echoes and a         *)
(* challenge; an ordinary packet is sealed with the keys that belong to    *)
(* the ephemeral key of packet id and a challenge.                         *)
(***************************************************************************)
Kinds == {"Short", "Junk", "WhoAreYou", "Ordinary"}
MessageTypes == {"Pong", "Nodes"}
Datagram == [from : {PeerAddr} \cup OtherAddrs, kind : Kinds, id : 0..MaxNonce,
             chal : 0..MaxChallenge, type : MessageTypes]
Plain(from, kind) ==
  [from |-> from, kind |-> kind, id |-> 0, chal |-> 0, type |-> "Pong"]
NoDatagram == Plain(PeerAddr, "Short")

Errors == {"None", "Canceled", "DeadlineExceeded", "Timeout", "Closed", "Invalid"}
Countdown == Nat \cup {Never}

VARIABLES
  fd,        \* the socket: "None" before the dial, "Open", "Closed"
  readUntil, \* ticks to its read deadline
  ctx,       \* the owner's context: "Live", "Cancelled" or "Expired"
  ctxLeft,   \* ticks to the context's deadline
  watcher,   \* the AfterFunc: "None", "Armed" or "Running"
  rd,        \* the read under way: where it is, ticks it may take, its result
  call,      \* the call of the connection's owner the read is part of
  outcome    \* what the last call returned

ctxVars == <<ctx, ctxLeft>>
udpVars == <<fd, readUntil, ctx, ctxLeft, watcher, rd>>
callVars == <<call, outcome>>

Idle == [op |-> "Idle", left |-> 0, nonce |-> 0, chal |-> 0, type |-> "Pong",
         lastErr |-> FALSE]
NoOutcome == [op |-> "Idle", nonce |-> 0, err |-> "None", d |-> NoDatagram]
NoRead == [pc |-> "Idle", left |-> 0, err |-> "None", d |-> NoDatagram]

UdpInit ==
  /\ fd = "None"
  /\ readUntil = Never
  /\ ctx = "Live"
  /\ ctxLeft \in CtxDeadlines
  /\ watcher = "None"
  /\ rd = NoRead
  /\ call = Idle
  /\ outcome = NoOutcome

\* session.Remaining: the context's time if it has a deadline, else fallback.
Remaining(fallback) == IF ctxLeft = Never THEN fallback ELSE ctxLeft

ctxErr == IF ctx = "Cancelled" THEN "Canceled" ELSE "DeadlineExceeded"

\* Whether an error of a read answers Timeout() with true.
isTimeout(err) == err \in {"Timeout", "DeadlineExceeded"}

\* Mutant: two addresses of one host are taken for the same.
SameUDPAddrHost(left, right) == left.ip = right.ip

SameUDPAddr(left, right) == left.ip = right.ip /\ left.port = right.port
-----------------------------------------------------------------------------
(* readUDPWithContext, one action for each point where the context, the    *)
(* watcher or Close may come in between.                                   *)

BeginRead(timeout) == rd' = [NoRead EXCEPT !.pc = "Check", !.left = timeout]

Finish(err, d) == rd' = [rd EXCEPT !.pc = "Done", !.err = err, !.d = d]

CheckContext ==
  /\ rd.pc = "Check"
  /\ \/ ctx # "Live" /\ Finish(ctxErr, NoDatagram)
     \/ ctx = "Live" /\ Remaining(rd.left) = 0 /\ Finish("DeadlineExceeded", NoDatagram)
     \/ /\ ctx = "Live" /\ Remaining(rd.left) # 0
        /\ rd' = [rd EXCEPT !.pc = "SetDeadline", !.left = Remaining(rd.left)]
  /\ UNCHANGED <<fd, readUntil, ctxVars, watcher>>

SetReadDeadline ==
  /\ rd.pc = "SetDeadline"
  /\ \/ /\ fd = "Open"
        /\ readUntil' = rd.left
        /\ rd' = [rd EXCEPT !.pc = "Watch", !.left = 0]
     \/ fd = "Closed" /\ Finish("Closed", NoDatagram) /\ UNCHANGED readUntil
  /\ UNCHANGED <<fd, ctxVars, watcher>>

\* Mutant: nothing watches the context while the read blocks.
WatchContextNot ==
  /\ rd.pc = "Watch"
  /\ rd' = [rd EXCEPT !.pc = "Recheck"]
  /\ UNCHANGED <<fd, readUntil, ctxVars, watcher>>

\* context.AfterFunc(ctx, ...).
WatchContext ==
  /\ rd.pc = "Watch"
  /\ watcher' = "Armed"
  /\ rd' = [rd EXCEPT !.pc = "Recheck"]
  /\ UNCHANGED <<fd, readUntil, ctxVars>>

Recheck ==
  /\ rd.pc = "Recheck"
  /\ readUntil' = IF ctx # "Live" /\ fd = "Open" THEN 0 ELSE readUntil
  /\ rd' = [rd EXCEPT !.pc = "Read"]
  /\ UNCHANGED <<fd, ctxVars, watcher>>

\* ReadFromUDP blocks until there is a datagram, the deadline or a Close; a
\* reader woken by one of them may find the others true as well.
ReadDatagram(d) ==
  /\ rd.pc = "Read" /\ fd = "Open"
  /\ rd' = [rd EXCEPT !.pc = "After", !.d = d]
  /\ UNCHANGED <<fd, readUntil, ctxVars, watcher, callVars>>

ReadFails ==
  /\ rd.pc = "Read"
  /\ \/ fd = "Open" /\ readUntil = 0
        /\ rd' = [rd EXCEPT !.pc = "After", !.err = "Timeout"]
     \/ fd = "Closed" /\ rd' = [rd EXCEPT !.pc = "After", !.err = "Closed"]
  /\ UNCHANGED <<fd, readUntil, ctxVars, watcher>>

\* The context's error replaces what was read; the deferred stop() disarms a
\* watcher that has not started.
AfterRead ==
  /\ rd.pc = "After"
  /\ IF ctx # "Live" THEN Finish(ctxErr, NoDatagram) ELSE Finish(rd.err, rd.d)
  /\ watcher' = IF watcher = "Armed" THEN "None" ELSE watcher
  /\ UNCHANGED <<fd, readUntil, ctxVars>>

WatcherStarts ==
  /\ watcher = "Armed" /\ ctx # "Live"
  /\ watcher' = "Running"
  /\ UNCHANGED <<fd, readUntil, ctxVars, rd>>

WatcherRuns ==
  /\ watcher = "Running"
  /\ watcher' = "None"
  /\ readUntil' = IF fd = "Open" THEN 0 ELSE readUntil
  /\ UNCHANGED <<fd, ctxVars, rd>>

ReadStep ==
  /\ \/ CheckContext \/ SetReadDeadline \/ WatchContext \/ Recheck
     \/ ReadFails \/ AfterRead
  /\ UNCHANGED callVars

WatcherStep == (WatcherStarts \/ WatcherRuns) /\ UNCHANGED callVars
-----------------------------------------------------------------------------
(* The clock, the context, the owner's Close and the socket buffer.        *)

Down(t) == IF t = Never \/ t = 0 THEN t ELSE t - 1

Tick ==
  /\ \E t \in {readUntil, ctxLeft, call.left} : t \notin {0, Never}
  /\ readUntil' = Down(readUntil)
  /\ ctxLeft' = Down(ctxLeft)
  /\ call' = [call EXCEPT !.left = Down(@)]
  /\ UNCHANGED <<fd, ctx, watcher, rd, outcome>>

Cancel ==
  /\ ctx = "Live"
  /\ ctx' = "Cancelled"
  /\ UNCHANGED <<fd, readUntil, ctxLeft, watcher, rd, callVars>>

CtxExpires ==
  /\ ctx = "Live" /\ ctxLeft = 0
  /\ ctx' = "Expired"
  /\ UNCHANGED <<fd, readUntil, ctxLeft, watcher, rd, callVars>>

\* Dial: the parameters are refused, the socket cannot be had, or it is open.
\* listenUDPToPeer's route socket is closed before it returns.
Dial ==
  /\ fd = "None" /\ call.op = "Idle"
  /\ fd' = "Open"
  /\ UNCHANGED <<readUntil, ctxVars, watcher, rd, callVars>>

Close ==
  /\ fd = "Open"
  /\ fd' = "Closed"
  /\ UNCHANGED <<readUntil, ctxVars, watcher, rd, callVars>>

UdpNext == ReadStep \/ WatcherStep \/ Tick \/ Cancel \/ CtxExpires \/ Dial \/ Close
-----------------------------------------------------------------------------
(* What the calls of both protocols have in common: a deadline of their    *)
(* own, one read after another.                                            *)

Begin(c) ==
  /\ fd # "None" /\ call.op = "Idle"
  /\ call' = [c EXCEPT !.left = Remaining(Timeout)]
  /\ outcome' = NoOutcome

Return(err, d) ==
  /\ call' = Idle
  /\ outcome' = [op |-> call.op, nonce |-> call.nonce, err |-> err, d |-> d]

\* for { remaining := time.Until(deadline); ... readUDPWithContext(remaining) }
ReadAgain(timeout) ==
  /\ call.left > 0 /\ rd.pc = "Idle"
  /\ BeginRead(timeout)
  /\ UNCHANGED <<fd, readUntil, ctxVars, watcher, callVars>>

\* The read of a call is over, with an error or with a datagram.
Took(d) ==
  /\ rd.pc = "Done" /\ rd.err = "None" /\ rd.d = d
  /\ rd' = NoRead
  /\ UNCHANGED <<fd, readUntil, ctxVars, watcher>>

TookError ==
  /\ rd.pc = "Done" /\ rd.err # "None"
  /\ rd' = NoRead
  /\ UNCHANGED <<fd, readUntil, ctxVars, watcher>>

ReadSteps == {"Idle", "Check", "SetDeadline", "Watch", "Recheck", "Read", "After", "Done"}

UdpTypeOK ==
  /\ fd \in {"None", "Open", "Closed"}
  /\ readUntil \in Countdown
  /\ ctx \in {"Live", "Cancelled", "Expired"}
  /\ ctxLeft \in Countdown
  /\ watcher \in {"None", "Armed", "Running"}
  /\ rd \in [pc : ReadSteps, left : Nat, err : Errors, d : Datagram]
=============================================================================
