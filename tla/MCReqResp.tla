----------------------------- MODULE MCReqResp -----------------------------
(* ReqResp on small instances. *)
EXTENDS ReqResp

Options(handshake, all, skip, payload, allTotal, count) ==
  [handshake |-> handshake, all |-> all, skip |-> skip, payload |-> payload,
   total |-> allTotal, chunks |-> count]

\* Single and multi-chunk calls, with and without limits of their own, one
\* that reads nothing and one with a limit above the hard one.
MCCalls ==
  {Options(TRUE, FALSE, FALSE, 0, 0, 0), Options(TRUE, TRUE, FALSE, 1, 2, 2),
   Options(FALSE, TRUE, FALSE, 2, 3, 0), Options(FALSE, FALSE, TRUE, 0, 0, 0),
   Options(FALSE, TRUE, FALSE, 9, 0, 0)}

Good(n) == [code |-> "Success", len |-> n, body |-> "Data"]
Refusal == [code |-> "Failure", len |-> 1, body |-> "Data"]
Corrupt == [code |-> "Success", len |-> 1, body |-> "Corrupt"]
Hollow == [code |-> "Success", len |-> 1, body |-> "NoData"]

\* The last three have a chunk without data: alone, before a complete one, and
\* beyond what the call with a total of 2 still allows.
MCBodies ==
  {<< >>, <<Good(0)>>, <<Good(2), Good(1)>>, <<Good(2), Good(2)>>, <<Good(3)>>,
   <<Refusal>>, <<Good(1), Refusal, Good(1)>>, <<Good(1), Corrupt>>,
   <<Good(1), Good(0), Good(1)>>, <<Good(1), Good(1), Good(0), Good(0)>>,
   <<Hollow>>, <<Good(1), Hollow, Good(1)>>, <<Good(1), Good(1), Hollow>>}

MCResponses == [chunks : MCBodies, tail : Tails, end : Ends]
=============================================================================
