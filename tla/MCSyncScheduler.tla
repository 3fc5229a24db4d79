-------------------------- MODULE MCSyncScheduler --------------------------
(* A book that gains a customer, an invoice and a payment while one request  *)
(* and one scheduled sync read it, after another organisation's.             *)
EXTENDS SyncScheduler, TLC

CONSTANTS c1, c2, i1, i2, request, scheduled

Bill(customer, status) == [customer |-> customer, status |-> status]
Receipt(customer, invoice) == [customer |-> customer, invoice |-> invoice]

MCBooks == <<
    [customers |-> c1 :> [rating |-> "new"],
     invoices |-> i1 :> Bill(c1, "PENDING"),
     payments |-> <<Receipt(c1, i1)>>],
    [customers |-> c1 :> [rating |-> "known"] @@ c2 :> [rating |-> "new"],
     invoices |-> i1 :> Bill(c1, "PAID") @@ i2 :> Bill(c2, "PENDING"),
     payments |-> <<Receipt(c1, i1), Receipt(c1, i1), Receipt(c2, i2)>>] >>

MCRound == <<"other", "own">>
OthersOnly == <<"other">>
=============================================================================
