---------------------------- MODULE OfferScoring ----------------------------
(***************************************************************************)
(* The pure pipeline of frontend/src/lib/market that turns bids into a     *)
(* clearing decision: money.ts, offer-math.ts, utility.ts, score.ts,       *)
(* pareto.ts and clear.ts.  Amounts and dates are integers; a date is a    *)
(* number of days, day 0 a Monday.  An effective cost is the exact         *)
(* fraction <<numerator, denominator>>, <<1, 0>> being Infinity.           *)
(* Offers are a sequence in the order they were read or posted; a scored   *)
(* offer is known by its place in it.  What scoring does not look at       *)
(* (recourse, expiry, names) is left out.                                  *)
(***************************************************************************)
EXTENDS Allocation, FiniteSetsExt

CONSTANTS
    Scale,          \* BPS_SCALE: how many basis points make the whole
    YearDays,       \* DAYS_PER_YEAR
    Fine,           \* units of the last stored decimal of a rate to one basis point
    MaxPremium,     \* premium per day saved at full urgency, in basis points
    FarFuture       \* days to a deadline that never binds (one year)

ASSUME ScoringAssumption ==
    /\ Scale \in Nat \ {0} /\ YearDays \in Nat \ {0} /\ Fine \in Nat \ {0}
    /\ MaxPremium \in Nat \ {0} /\ FarFuture \in Nat

-----------------------------------------------------------------------------
\* The adapters.  Rates come in finer than a basis point and are rounded half
\* up; amounts come in paise, to the second decimal of a rupee.

ToBps(rate) == (2 * rate + Fine) \div (2 * Fine)

BidToOffer(row) ==
    [provider |-> row.provider, advanceRate |-> ToBps(row.advanceRate),
     annualRate |-> ToBps(row.annualRate), fees |-> row.flatFee, tenor |-> row.tenor,
     settlementDays |-> row.settlementDays]

\* A started day is a day.
LatencyHoursToDays(hours) == (Max({0, hours}) + 23) \div 24

\* An agent quotes its latency in hours.
LenderBidToOffer(bid) ==
    BidToOffer([provider |-> bid.provider, advanceRate |-> bid.advanceRate,
                annualRate |-> bid.apr, flatFee |-> bid.fees, tenor |-> bid.tenor,
                settlementDays |-> LatencyHoursToDays(bid.hours)])

-----------------------------------------------------------------------------
\* Dates.

IsWeekend(day) == day % 7 \in {5, 6}

RollForward(day) == CHOOSE d \in day..(day + 2) :
    /\ ~IsWeekend(d)
    /\ \A e \in day..(d - 1) : IsWeekend(e)

\* n business days after a date; T+0 on a weekend lands on the Monday.
Cursors(day, n) ==
    LET cursor[k \in 0..n] ==
            IF k = 0 THEN RollForward(day) ELSE RollForward(cursor[k - 1] + 1)
    IN  cursor

AddBusinessDays(day, n) == Cursors(day, n)[n]

-----------------------------------------------------------------------------
\* Offer arithmetic.  Math.round of a quotient, for numbers that are not
\* negative.

Rounded(n, d) == (2 * n + d) \div (2 * d)

AdvanceOf(face, rate) == Rounded(face * rate, Scale)

DiscountCharge(advance, rate, tenor) ==
    Rounded(advance * rate * tenor, Scale * YearDays)

Infinite == <<1, 0>>

\* (charge + fees) / net cash, annualised; an offer that delivers nothing has
\* infinite cost.
EffectiveCost(charges, net, tenor) ==
    IF net <= 0 \/ tenor <= 0 THEN Infinite
    ELSE <<charges * YearDays * Scale, net * tenor>>

Less(a, b) == a[1] * b[2] < b[1] * a[2]
AtMost(a, b) == ~Less(b, a)

Economics(offer, face, asOf) ==
    LET adv == AdvanceOf(face, offer.advanceRate)
        charge == DiscountCharge(adv, offer.annualRate, offer.tenor)
        net == adv - charge - offer.fees
    IN  [offer |-> offer, advance |-> adv, net |-> net,
         cost |-> EffectiveCost(charge + offer.fees, net, offer.tenor),
         arrival |-> AddBusinessDays(asOf, offer.settlementDays)]

Scored(bids, face, asOf) ==
    [i \in 1..Len(bids) |-> Economics(bids[i], face, asOf)]

-----------------------------------------------------------------------------
\* What the supplier needs.

Unconstrained(asOf) ==
    [floor |-> 0, deadline |-> asOf + FarFuture, unconstrained |-> TRUE]

\* The obligations paid when the i-th one is: dated from today on, in date
\* order, those of one day in the order they are stored.
PaidBy(obligations, asOf, i) ==
    {j \in DOMAIN obligations :
        /\ obligations[j].due >= asOf
        /\ \/ obligations[j].due < obligations[i].due
           \/ (obligations[j].due = obligations[i].due /\ j <= i)}

BalanceAt(position, asOf, i) ==
    position.cash - SumFunctionOnSet([j \in DOMAIN position.obligations |->
                                         position.obligations[j].amount],
                                     PaidBy(position.obligations, asOf, i))

Breaches(position, asOf) ==
    {i \in DOMAIN position.obligations :
        /\ position.obligations[i].due >= asOf
        /\ BalanceAt(position, asOf, i) < position.threshold}

\* Faulty variant: the worst breach sets the gates, not the first.
DeriveUtilityWorst(position, asOf) ==
    LET breaches == Breaches(position, asOf) IN
    IF breaches = {} THEN Unconstrained(asOf)
    ELSE LET worst == CHOOSE i \in breaches : \A j \in breaches :
                BalanceAt(position, asOf, i) <= BalanceAt(position, asOf, j)
         IN  [floor |-> position.threshold - BalanceAt(position, asOf, worst),
              deadline |-> position.obligations[worst].due, unconstrained |-> FALSE]

\* deriveSupplierUtility: the first obligation that takes the balance below
\* the buffer gives the floor and the deadline.
DeriveUtility(position, asOf) ==
    LET breaches == Breaches(position, asOf) IN
    IF breaches = {} THEN Unconstrained(asOf)
    ELSE LET first == CHOOSE i \in breaches : \A j \in breaches :
                i \in PaidBy(position.obligations, asOf, j)
         IN  [floor |-> position.threshold - BalanceAt(position, asOf, first),
              deadline |-> position.obligations[first].due, unconstrained |-> FALSE]

\* A nullable value is a set of at most one.
ColumnOr(column, default) ==
    IF column = {} THEN default ELSE CHOOSE v \in column : TRUE

\* The columns of the opportunity, used when it has no cash position.
StoredUtility(stored, asOf) ==
    IF stored.floor = {} /\ stored.deadline = {} THEN Unconstrained(asOf)
    ELSE [floor |-> ColumnOr(stored.floor, 0),
          deadline |-> ColumnOr(stored.deadline, asOf + FarFuture),
          unconstrained |-> FALSE]

UtilityFor(opp, asOf) ==
    IF "cash" \in DOMAIN opp.needs THEN DeriveUtility(opp.needs, asOf)
    ELSE StoredUtility(opp.needs, asOf)

-----------------------------------------------------------------------------
\* Gates and ranking.

Sufficient(s, utility) == utility.unconstrained \/ s.net >= utility.floor

Timely(s, utility) == utility.unconstrained \/ s.arrival <= utility.deadline

Passes(s, utility) == Sufficient(s, utility) /\ Timely(s, utility)

Survivors(scored, utility) == {i \in DOMAIN scored : Passes(scored[i], utility)}

\* Faulty variant: the premium is charged to the early offers.
RankKeyReversed(s, earliest, nudge) ==
    <<s.cost[1] * Scale - (s.arrival - earliest) * nudge * MaxPremium * s.cost[2],
      s.cost[2]>>

\* Effective cost, plus the premium the supplier pays for each day after the
\* earliest arrival.  All keys of one ranking are over the same scale.
RankKey(s, earliest, nudge) ==
    <<s.cost[1] * Scale + (s.arrival - earliest) * nudge * MaxPremium * s.cost[2],
      s.cost[2]>>

\* Faulty variant: a tie in the key goes to the offer read first.
RanksBeforeByPlace(scored, earliest, nudge, i, j) ==
    LET a == RankKey(scored[i], earliest, nudge)
        b == RankKey(scored[j], earliest, nudge)
    IN  Less(a, b) \/ (~Less(b, a) /\ i < j)

\* The comparator of the sort: key, then net cash; NaN, the difference of two
\* infinite keys, compares as equal, and the sort is stable.
RanksBefore(scored, earliest, nudge, i, j) ==
    LET a == RankKey(scored[i], earliest, nudge)
        b == RankKey(scored[j], earliest, nudge)
        more == IF a[2] = 0 THEN 0 ELSE scored[i].net - scored[j].net
    IN  \/ Less(a, b)
        \/ ~Less(b, a) /\ (more > 0 \/ (more = 0 /\ i < j))

\* The places of the survivors, best first; the r-th has rank r, the others none.
Ranking(scored, utility, nudge) ==
    LET kept == Survivors(scored, utility)
        earliest == Min({scored[k].arrival : k \in kept})
        before(i) == {j \in kept \ {i} : RanksBefore(scored, earliest, nudge, j, i)}
    IN  [r \in 1..Cardinality(kept) |->
            CHOOSE i \in kept : Cardinality(before(i)) = r - 1]

-----------------------------------------------------------------------------
\* Dominance over all offers, survivors or not.

Dominates(a, b) ==
    /\ a.net >= b.net /\ AtMost(a.cost, b.cost) /\ a.arrival <= b.arrival
    /\ \/ a.net > b.net
       \/ Less(a.cost, b.cost)
       \/ a.arrival < b.arrival

\* The first offer that dominates the i-th, 0 when it is on the frontier.
Dominator(scored, i) ==
    LET over == {j \in DOMAIN scored \ {i} : Dominates(scored[j], scored[i])}
    IN  IF over = {} THEN 0 ELSE Min(over)

Frontier(scored) == {i \in DOMAIN scored : Dominator(scored, i) = 0}

Degenerate(scored) == Len(scored) > 1 /\ Cardinality(Frontier(scored)) = 1

-----------------------------------------------------------------------------
\* clearOpportunity.

\* explainNoMatch: the constraint that binds.
NoMatchReason(scored, utility) ==
    LET few == \A i \in DOMAIN scored : ~Sufficient(scored[i], utility)
        late == \A i \in DOMAIN scored : ~Timely(scored[i], utility)
    IN  CASE scored = <<>> -> "NO_BID"
          [] scored # <<>> /\ few /\ late -> "TOO_LITTLE_TOO_LATE"
          [] scored # <<>> /\ few /\ ~late -> "TOO_LITTLE"
          [] scored # <<>> /\ ~few /\ late -> "TOO_LATE"
          [] OTHER -> "MIXED"

\* What clearing an opportunity at a nudge answers.  `caps' holds the capacities
\* of the providers as they were read; for bids posted inline none is read, it
\* is empty, and nothing is allocated.
ClearOpportunity(opp, bids, asOf, nudge, caps) ==
    LET utility == UtilityFor(opp, asOf)
        scored == Scored(bids, opp.face, asOf)
        order == Ranking(scored, utility, nudge)
        fill == IF caps = {}
                THEN <<[provider |-> bids[order[1]].provider,
                        funded |-> scored[order[1]].advance]>>
                ELSE Allocate([r \in DOMAIN order |-> bids[order[r]].provider],
                              scored[order[1]].advance, ColumnOr(caps, <<>>)).allocations
        answer(status, reason, allocations) ==
            [scored |-> scored, order |-> order, utility |-> utility, nudge |-> nudge,
             asOf |-> asOf,
             beatenBy |-> [i \in DOMAIN scored |-> Dominator(scored, i)],
             degenerate |-> Degenerate(scored),
             status |-> status, reason |-> reason, allocations |-> allocations]
        none(reason) == answer("NO_ACCEPTABLE_OFFER", reason, <<>>)
    IN  IF order = <<>> THEN none(IF caps = {} THEN "NO_AGENT_BID"
                                  ELSE NoMatchReason(scored, utility))
        ELSE IF fill = <<>> THEN none("UNFUNDED")
        ELSE answer("MATCHED", "NONE", fill)
=============================================================================
