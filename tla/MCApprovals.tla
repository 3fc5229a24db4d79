---------------------------- MODULE MCApprovals ----------------------------
(* Three requests about one invoice that the portfolio calls financeable or  *)
(* overdue by statute: an approval, any other decision, and a rejection or   *)
(* the fetching of what was approved.                                        *)
EXTENDS Approvals, TLC

CONSTANTS first, second, third

Financeable == [disputed |-> FALSE, statutory |-> FALSE,
                eligible |-> TRUE, shortfall |-> TRUE]
Breached == [Financeable EXCEPT !.statutory = TRUE, !.eligible = FALSE]

MCSituations == {Financeable, Breached}

Request(k, s) == [kind |-> k, situation |-> s]

MCMayBe ==
    (first :> {Request("approve", Financeable)})
    @@ (second :> {Request("approve", Breached), Request("reject", Breached)})
    @@ (third :> {Request("reject", Financeable), Request("artifact", Breached)})
=============================================================================
