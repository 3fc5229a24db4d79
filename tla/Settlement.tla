----------------------------- MODULE Settlement -----------------------------
(***************************************************************************)
(* The money flows of frontend/src/lib/ledger/flows.ts: which entry each   *)
(* flow posts, under which reference.  A flow is a request to the ledger   *)
(* (Ledger), so it may overlap, be retried or fail like any other call;    *)
(* nothing in flows.ts orders the flows of one opportunity.                *)
(*                                                                         *)
(* A deal is a record: its id (the opportunity), its parties and terms.    *)
(* An account code is a pair of a party and one of its accounts.           *)
(***************************************************************************)
EXTENDS Ledger

CONSTANTS
    Platform,       \* the party that owns the platform accounts
    Deals,          \* the deals that are settled
    Amounts         \* amounts a buyer pays, escrow releases or a bid holds

Account(party, name) == <<party, name>>

\* DEBIT_NORMAL: debits increase assets and expenses.
DebitNormal == {"cash", "invoice_receivable", "financing_expense",
                "funded_receivable", "encumbered_capital", "escrow_cash"}
AccountNames == DebitNormal \union
    {"discount_income", "payable", "fee_income", "escrow_payable", "opening_balance"}

\* quoteEconomics.  advanceRate and annualRate are percentages.
Economics(deal) ==
    LET advance == MoneyOf(deal.face * deal.advanceRate, 100)
        discount == MoneyOf(advance * deal.annualRate * deal.tenor, 100 * 365)
    IN  [advance |-> advance,
         discount |-> discount,
         fee |-> Money(deal.fee),
         netCash |-> advance - discount - Money(deal.fee)]

\* filter((p) => p.amount > 0), for one posting.
Positive(p) == IF p.amount > 0 THEN <<p>> ELSE <<>>

\* Faulty variant: the platform's fee is not collected from the provider.
DisbursementFeeLost(deal) ==
    LET e == Economics(deal)
    IN  [reference |-> <<"disb", deal.id>>,
         postings |->
            Positive(Debit(Account(deal.supplier, "cash"), e.netCash + e.fee))
            \o Positive(Debit(Account(deal.supplier, "financing_expense"), e.discount + e.fee))
            \o Positive(Credit(Account(deal.supplier, "invoice_receivable"), e.advance))
            \o Positive(Debit(Account(deal.provider, "funded_receivable"), e.advance))
            \o Positive(Credit(Account(deal.provider, "cash"), e.advance - e.discount))
            \o Positive(Credit(Account(deal.provider, "discount_income"), e.discount))
            \o Positive(Credit(Account(Platform, "fee_income"), e.fee))]

\* postDisbursement: day 0.
Disbursement(deal) ==
    LET e == Economics(deal)
    IN  [reference |-> <<"disb", deal.id>>,
         postings |->
            Positive(Debit(Account(deal.supplier, "cash"), e.netCash))
            \o Positive(Debit(Account(deal.supplier, "financing_expense"), e.discount + e.fee))
            \o Positive(Credit(Account(deal.supplier, "invoice_receivable"), e.advance))
            \o Positive(Debit(Account(deal.provider, "funded_receivable"), e.advance))
            \o Positive(Credit(Account(deal.provider, "cash"), e.advance - e.discount))
            \o Positive(Credit(Account(deal.provider, "discount_income"), e.discount))
            \o Positive(Debit(Account(Platform, "cash"), e.fee))
            \o Positive(Credit(Account(Platform, "fee_income"), e.fee))]

\* Faulty variant: the buyer's money is booked as the platform's revenue.
BuyerPaymentEarned(deal, paid) ==
    [reference |-> <<"buyerpay", deal.id>>,
     postings |-> <<
        Debit(Account(deal.buyer, "payable"), Money(paid)),
        Credit(Account(deal.buyer, "cash"), Money(paid)),
        Debit(Account(Platform, "escrow_cash"), Money(paid)),
        Credit(Account(Platform, "fee_income"), Money(paid)) >>]

\* postBuyerPayment: the buyer settles into escrow.
BuyerPayment(deal, paid) ==
    [reference |-> <<"buyerpay", deal.id>>,
     postings |-> <<
        Debit(Account(deal.buyer, "payable"), Money(paid)),
        Credit(Account(deal.buyer, "cash"), Money(paid)),
        Debit(Account(Platform, "escrow_cash"), Money(paid)),
        Credit(Account(Platform, "escrow_payable"), Money(paid)) >>]

\* Faulty variant: the supplier's reserve is taken out first.
ReserveReleaseSupplierFirst(deal, escrow, advance) ==
    LET toSupplier == IF escrow > advance THEN escrow - advance
                      ELSE IF escrow > 10 THEN 10 ELSE 0
    IN  [reference |-> <<"release", deal.id>>,
         postings |-> <<
            Debit(Account(Platform, "escrow_payable"), escrow),
            Credit(Account(Platform, "escrow_cash"), escrow),
            Debit(Account(deal.provider, "cash"), escrow - toSupplier),
            Credit(Account(deal.provider, "funded_receivable"), escrow - toSupplier) >>
            \o Positive(Debit(Account(deal.supplier, "cash"), toSupplier))
            \o Positive(Credit(Account(deal.supplier, "invoice_receivable"), toSupplier))]

\* postReserveRelease: the provider first, what remains to the supplier.
ReserveRelease(deal, amountInEscrow, advanceAmount) ==
    LET escrow == Money(amountInEscrow)
        advance == Money(advanceAmount)
        toProvider == IF escrow <= advance THEN escrow ELSE advance
        toSupplier == escrow - toProvider
    IN  [reference |-> <<"release", deal.id>>,
         postings |-> <<
            Debit(Account(Platform, "escrow_payable"), escrow),
            Credit(Account(Platform, "escrow_cash"), escrow),
            Debit(Account(deal.provider, "cash"), toProvider),
            Credit(Account(deal.provider, "funded_receivable"), toProvider) >>
            \o IF toSupplier > 0
               THEN << Debit(Account(deal.supplier, "cash"), toSupplier),
                       Credit(Account(deal.supplier, "invoice_receivable"), toSupplier) >>
               ELSE << >>]

\* postEscrowHold: capital committed against a live bid.
EscrowHold(deal, amount) ==
    [reference |-> <<"hold", deal.id, deal.provider>>,
     postings |-> <<
        Debit(Account(deal.provider, "encumbered_capital"), Money(amount)),
        Credit(Account(deal.provider, "cash"), Money(amount)) >>]

\* postEscrowRelease: the bid lost or expired.
EscrowRelease(deal, amount) ==
    [reference |-> <<"unhold", deal.id, deal.provider>>,
     postings |-> <<
        Debit(Account(deal.provider, "cash"), Money(amount)),
        Credit(Account(deal.provider, "encumbered_capital"), Money(amount)) >>]

----------------------------------------------------------------------------

\* The entries the flows post for the deals.  A release repays the advance that
\* quoteEconomics gave (prisma/seed.ts:705-712).
Flows ==
    {Disbursement(d) : d \in Deals}
    \union UNION {{BuyerPayment(d, n), ReserveRelease(d, n, Economics(d).advance),
                   EscrowHold(d, n), EscrowRelease(d, n)} : d \in Deals, n \in Amounts}

\* An entry that balances in whole paise is one of a flow.
ASSUME FlowsAssumption ==
    \A s \in Scripts : \A i \in DOMAIN s :
        Total(s[i].postings, "DEBIT") = Total(s[i].postings, "CREDIT")
            => s[i] \in Flows

\* The platform is no party to a deal; the deals of an opportunity advance the
\* same; and no deal without a fee has a discount above its advance.  (The
\* filter of flows.ts:88 drops the negative legs of such a deal, and what is left
\* balances as a whole but not for each party; with a fee, or with the terms of
\* the only caller, prisma/seed.ts:639-644, it does not come to that.)
ASSUME DealsAssumption ==
    /\ Amounts \subseteq Int
    /\ \A d \in Deals :
        /\ {d.face, d.advanceRate, d.annualRate, d.tenor, d.fee} \subseteq Nat
        /\ Platform \notin {d.supplier, d.provider, d.buyer}
        /\ Economics(d).discount <= Economics(d).advance \/ Economics(d).fee > 0
    /\ \A d, e \in Deals :
        d.id = e.id => Economics(d).advance = Economics(e).advance

----------------------------------------------------------------------------

\* Debits less credits of the postings to some accounts.
NetOf(postings, accounts) ==
    SumFunction([i \in DOMAIN postings |->
        IF postings[i].account \notin accounts THEN 0
        ELSE IF postings[i].direction = "DEBIT" THEN postings[i].amount
        ELSE -postings[i].amount])

\* The same over the journal.
Net(accounts) == SumFunction([row \in journal |-> NetOf(row.entry.postings, accounts)])

\* accountBalance: an account's balance in its normal direction.
Balance(account) ==
    IF account[2] \in DebitNormal THEN Net({account}) ELSE -Net({account})

OfParty(party) == {Account(party, name) : name \in AccountNames}
FundedReceivables == {Account(d.provider, "funded_receivable") : d \in Deals}
InvoiceReceivables == {Account(d.supplier, "invoice_receivable") : d \in Deals}

----------------------------------------------------------------------------
(* Properties.                                                             *)

Posted(reference) == {row \in journal : row.entry.reference = reference}

\* "Each party's own sub-ledger balances, and so does the entry as a whole"
\* (flows.ts:44), whatever flows have been posted and in whatever order.
PartiesBalance ==
    \A party \in {account[1] : account \in Chart} : Net(OfParty(party)) = 0

\* "Escrow is recorded as cash held against a matching payable" (flows.ts:
\* 106): the two accounts agree, and the platform's own cash is its fees.
EscrowMatched ==
    /\ Balance(Account(Platform, "escrow_cash"))
            = Balance(Account(Platform, "escrow_payable"))
    /\ Balance(Account(Platform, "cash")) = Balance(Account(Platform, "fee_income"))

\* "The provider is made whole first" (flows.ts:145): when escrow is released
\* the supplier gets a reserve only if the provider recovers the whole advance
\* that was disbursed, and the provider never recovers more than that.
ProviderFirst ==
    \A o \in {row.entry.reference[2] : row \in journal} :
        \A d \in Posted(<<"disb", o>>), r \in Posted(<<"release", o>>) :
            LET advanced == NetOf(d.entry.postings, FundedReceivables)
                recovered == -NetOf(r.entry.postings, FundedReceivables)
                reserve == -NetOf(r.entry.postings, InvoiceReceivables)
            IN  recovered <= advanced /\ (reserve > 0 => recovered = advanced)

=============================================================================
