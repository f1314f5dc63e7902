----------------------------- MODULE MCServices -----------------------------
EXTENDS Services, TLC

CONSTANTS a1, a2, j1, j2, j3, p1, p2, t1

\* Two calls for one protocol, the second without a request body.
MCAcceptSets ==
  {a1 :> [proto |-> t1, noBody |-> FALSE] @@ a2 :> [proto |-> t1, noBody |-> TRUE]}

Call(kind, pub, wait) == [kind |-> kind, pub |-> pub, topic |-> t1, wait |-> wait]

\* A Publish or an Await meets a Close or another Await of its publisher, and a
\* call of any kind of the other publisher, for the same topic.
MCJobSets ==
  {j1 :> a @@ j2 :> b @@ j3 :> c :
     a \in {Call("Publish", p1, TRUE), Call("Publish", p1, FALSE), Call("Await", p1, FALSE)},
     b \in {Call("Close", p1, FALSE), Call("Await", p1, FALSE)},
     c \in {Call("Publish", p2, FALSE), Call("Await", p2, FALSE), Call("Close", p2, FALSE),
            Call("Close", p1, FALSE)}}

\* Networks with Fulu and two blob-parameter forks after it, with Fulu and the
\* defaults of Electra, and without Fulu.
MCNetworks ==
  {[forks |-> {1, 2}, fulu |-> 1, electra |-> [epoch |-> 0, max |-> 9],
    blobs |-> {[epoch |-> 2, max |-> 12], [epoch |-> 3, max |-> 15]}],
   [forks |-> {1}, fulu |-> 1, electra |-> [epoch |-> 0, max |-> 9], blobs |-> {}],
   [forks |-> {1}, fulu |-> NeverEpoch, electra |-> [epoch |-> 0, max |-> 9], blobs |-> {}]}

Branch(children) == [kind |-> "Branch", children |-> children]

MCEntryKinds ==
  {[kind |-> k, children |-> << >>] : k \in {"Missing", "Malformed"}}
    \cup {Branch(<< >>), Branch(<<2, 3, 3>>)}
    \cup {Branch(<<x>>) : x \in Names} \cup {Branch(<<x, y>>) : x, y \in Names}
=============================================================================
