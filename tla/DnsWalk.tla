------------------------------ MODULE DnsWalk ------------------------------
(***************************************************************************)
(* ValidateDNSBranchWalk (discovery/dnsdisc.go): the recursive walk over a *)
(* static graph of DNS branch entries, with its depth limit, its set of    *)
(* names on the current path and its set of names already found good.  The *)
(* recursion is a stack of the calls under way.  Names are numbers, and of *)
(* an entry we keep whether it is there, whether it is well formed, and    *)
(* its children.                                                           *)
(***************************************************************************)
EXTENDS Naturals, SequencesExt

CONSTANTS NameCount,   \* names 1..NameCount
          EntryKinds,  \* what a name may have: [kind, children]
          MaxChildren, \* dnsdiscMaxBranchChildren
          Depths       \* values of maxDepth

Names == 1..NameCount

ASSUME DnsWalkAssumption ==
  /\ NameCount \in Nat \ {0} /\ Depths \subseteq Nat /\ MaxChildren \in Nat
  /\ \A e \in EntryKinds : e.children \in Seq(Names)

Root == 1

VARIABLES
  entries,   \* entries[name]
  maxDepth,
  enter,     \* the name walk is called with, 0 between calls
  stack,     \* the calls under way: name, and the next child to walk
  visiting,
  visited,
  verdict    \* "None" while the walk runs, "Ok", or the error

dnsVars == <<entries, maxDepth, enter, stack, visiting, visited, verdict>>

Graphs == [entries : [Names -> EntryKinds], depth : Depths]

DnsInit(inits) ==
  /\ \E g \in inits : entries = g.entries /\ maxDepth = g.depth
  /\ enter = Root /\ stack = << >>
  /\ visiting = {} /\ visited = {}
  /\ verdict = "None"
-----------------------------------------------------------------------------
\* ValidateDNSBranch: the prefix, the fan-out and the encoding of each child.
ValidateDNSBranch(entry) == entry.kind = "Branch" /\ Len(entry.children) <= MaxChildren

\* The error walk returns at once, in the order of its checks.
refusal(name, depth) ==
  IF depth > maxDepth THEN "Depth"
  ELSE IF name \in visiting THEN "Cycle"
  ELSE IF name \in visited THEN "None"
  ELSE IF entries[name].kind = "Missing" THEN "Missing"
  ELSE IF ~ValidateDNSBranch(entries[name]) THEN "Invalid" ELSE "None"

\* Every error goes up through all calls.
WalkFails ==
  /\ verdict = "None" /\ enter # 0
  /\ refusal(enter, Len(stack)) # "None"
  /\ verdict' = refusal(enter, Len(stack))
  /\ UNCHANGED <<entries, maxDepth, enter, stack, visiting, visited>>

\* A name already found good, or a branch without children, which is not
\* marked as visited.
WalkReturns ==
  /\ verdict = "None" /\ enter # 0
  /\ refusal(enter, Len(stack)) = "None"
  /\ enter \in visited \/ entries[enter].children = << >>
  /\ enter' = 0
  /\ UNCHANGED <<entries, maxDepth, stack, visiting, visited, verdict>>

WalkDescends ==
  /\ verdict = "None" /\ enter # 0
  /\ refusal(enter, Len(stack)) = "None"
  /\ enter \notin visited /\ entries[enter].children # << >>
  /\ visiting' = visiting \cup {enter}
  /\ stack' = Append(stack, [name |-> enter, next |-> 2])
  /\ enter' = entries[enter].children[1]
  /\ UNCHANGED <<entries, maxDepth, visited, verdict>>

NextChild ==
  LET top == stack[Len(stack)] IN
  /\ verdict = "None" /\ enter = 0 /\ stack # << >>
  /\ top.next <= Len(entries[top.name].children)
  /\ enter' = entries[top.name].children[top.next]
  /\ stack' = [stack EXCEPT ![Len(stack)].next = @ + 1]
  /\ UNCHANGED <<entries, maxDepth, visiting, visited, verdict>>

\* Mutant: the name stays on the path.
forgetNot(name) == visiting

\* The deferred delete.
forget(name) == visiting \ {name}

ChildrenDone ==
  LET top == stack[Len(stack)] IN
  /\ verdict = "None" /\ enter = 0 /\ stack # << >>
  /\ top.next > Len(entries[top.name].children)
  /\ visited' = visited \cup {top.name}
  /\ visiting' = forget(top.name)
  /\ stack' = Front(stack)
  /\ UNCHANGED <<entries, maxDepth, enter, verdict>>

WalkEnds ==
  /\ verdict = "None" /\ enter = 0 /\ stack = << >>
  /\ verdict' = "Ok"
  /\ UNCHANGED <<entries, maxDepth, enter, stack, visiting, visited>>

DnsNext ==
  WalkFails \/ WalkReturns \/ WalkDescends \/ NextChild \/ ChildrenDone \/ WalkEnds

DnsSpec == DnsInit(Graphs) /\ [][DnsNext]_dnsVars
-----------------------------------------------------------------------------
(* Properties.                                                             *)

Children(name) ==
  IF ValidateDNSBranch(entries[name])
  THEN {entries[name].children[i] : i \in DOMAIN entries[name].children} ELSE {}

\* The paths of d steps from the root.
Paths(d) ==
  {p \in [0..d -> Names] : p[0] = Root /\ \A i \in 1..d : p[i] \in Children(p[i - 1])}

\* The walk accepts a graph only if everything reachable is there and well
\* formed, no path comes to a name twice, and every name is within maxDepth
\* by some path; and it rejects one only for a path, a cycle or an entry that
\* exists.  (A name first met on a short path hides the longer one.)
WalkVerdict ==
  LET reached(n) == \E d \in 0..NameCount : \E p \in Paths(d) : p[d] = n IN
  CASE verdict = "Ok" ->
         \A d \in 0..NameCount : \A p \in Paths(d) :
           /\ ValidateDNSBranch(entries[p[d]]) /\ IsInjective(p)
           /\ \E e \in 0..maxDepth : \E q \in Paths(e) : q[e] = p[d]
    [] verdict = "Depth"   -> Paths(maxDepth + 1) # {}
    [] verdict = "Cycle"   -> \E d \in 0..NameCount : \E p \in Paths(d) : ~IsInjective(p)
    [] verdict = "Missing" -> \E n \in Names : reached(n) /\ entries[n].kind = "Missing"
    [] verdict = "Invalid" -> \E n \in Names : reached(n) /\ ~ValidateDNSBranch(entries[n])
    [] OTHER -> TRUE
=============================================================================
