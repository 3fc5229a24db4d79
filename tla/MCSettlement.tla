---------------------------- MODULE MCSettlement ----------------------------
(* One opportunity financed by a syndicate of two providers, settled once in *)
(* full or short, by callers that batch, overlap and retry.                  *)
EXTENDS Settlement, TLC

CONSTANTS supplier, rapid, coop, buyer

\* 1001 paise at 80%: the advance and the discount both need rounding.
D1 == [id |-> 1, supplier |-> supplier, provider |-> rapid, buyer |-> buyer,
       face |-> 10010, advanceRate |-> 80, annualRate |-> 18, tenor |-> 90,
       fee |-> 155]
D1b == [D1 EXCEPT !.provider = coop]

MCDeals == {D1, D1b}
MCAmounts == {7000, 10010}

Advanced == Economics(D1).advance

\* Rounds to 10 + 10 paise against 21: balanced only before rounding.
Unroundable ==
    [reference |-> <<"adjust", 1>>,
     postings |-> <<Debit(Account(supplier, "cash"), 104),
                    Debit(Account(supplier, "financing_expense"), 104),
                    Credit(Account(supplier, "invoice_receivable"), 208)>>]

MCScripts == {
    <<Disbursement(D1)>>,
    <<Disbursement(D1b), Unroundable>>,
    <<BuyerPayment(D1, 10010), ReserveRelease(D1, 10010, Advanced)>>,
    <<ReserveRelease(D1, 7000, Advanced), BuyerPayment(D1, 7000)>> }

MCChart ==
    {Account(supplier, n) : n \in {"cash", "invoice_receivable", "financing_expense"}}
    \union {Account(buyer, n) : n \in {"cash", "payable"}}
    \union {Account(p, n) : p \in {rapid, coop},
                n \in {"cash", "funded_receivable", "encumbered_capital", "discount_income"}}
    \union {Account(Platform, n) : n \in
                {"cash", "fee_income", "escrow_cash", "escrow_payable", "opening_balance"}}

\* The chart was seeded before the account for rapid's income was added.
MCChart0 == MCChart \ {Account(rapid, "discount_income")}
=============================================================================
