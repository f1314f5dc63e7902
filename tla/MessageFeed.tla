---------------------------- MODULE MessageFeed ----------------------------
(***************************************************************************)
(* What an eth.Conn promises to the code that reads from it, whatever the  *)
(* socket and the other callers do: a bounded FIFO of messages that ends   *)
(* exactly once, for one reason, and the reason is there before the end is *)
(* announced.  Module EthConn is shown to implement this specification.    *)
(***************************************************************************)
EXTENDS Naturals, Sequences

CONSTANTS Message,   \* the messages a peer can send
          Capacity,  \* how many may wait for a reader
          NoCause    \* the feed has not failed

VARIABLES queue,  \* accepted, not yet taken
          cause,  \* why the feed ends, or NoCause
          ended   \* the end has been announced

feedVars == <<queue, cause, ended>>

FeedInit ==
  /\ queue = << >>
  /\ cause = NoCause
  /\ ended = FALSE

\* A message is accepted while the feed is sound and there is room.
Accept(m) ==
  /\ cause = NoCause
  /\ Len(queue) < Capacity
  /\ queue' = Append(queue, m)
  /\ UNCHANGED <<cause, ended>>

\* A reader takes the oldest message, also after the end.
Take ==
  /\ queue # << >>
  /\ queue' = Tail(queue)
  /\ UNCHANGED <<cause, ended>>

\* The feed fails for one reason, once.
Fail ==
  /\ cause = NoCause
  /\ cause' # NoCause
  /\ UNCHANGED <<queue, ended>>

\* The end is announced only when its reason can be read.
End ==
  /\ cause # NoCause
  /\ ended' = TRUE
  /\ UNCHANGED <<queue, cause>>

FeedNext ==
  \/ \E m \in Message : Accept(m)
  \/ Take
  \/ Fail
  \/ End

FeedSpec == FeedInit /\ [][FeedNext]_feedVars
=============================================================================
