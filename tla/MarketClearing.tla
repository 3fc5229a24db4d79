--------------------------- MODULE MarketClearing ---------------------------
(***************************************************************************)
(* From a request to clear an opportunity to the committed deal:           *)
(*   - clearById (server.ts) reads provider capacity outside any           *)
(*     transaction and clearOpportunity (clear.ts) allocates over it;      *)
(*   - some time later commitAllocation (CommitAllocation) draws the plan; *)
(*   - meanwhile providers edit their mandates through                     *)
(*     PATCH /api/providers/:id/mandate, which overwrites columns of the   *)
(*     same rows with absolute values.                                     *)
(* The ranking of the offers is an input here: `Ranked' gives, for each    *)
(* opportunity, the providers whose offers passed the gates, best first.   *)
(***************************************************************************)
EXTENDS CommitAllocation, Allocation

CONSTANTS
    Ranked,         \* survivors of each opportunity, in rank order
    Advance,        \* advance of the winning offer of each opportunity
    Total,          \* total_liquidity of each provider
    Mandate0,       \* mandates at the start
    Patches,        \* PATCH requests: <<provider, body>>, a body being a
                    \* function from the names of the fields it sends
    NoResult        \* the result of a clearing not made yet

ASSUME ClearingAssumption ==
    /\ Ranked \in [Opps -> Seq(Providers)]
    /\ \A o \in Opps : \A i, j \in 1..Len(Ranked[o]) :
            Ranked[o][i] = Ranked[o][j] => i = j
    /\ Advance \in [Opps -> Nat]
    /\ Total \in [Providers -> Nat]

\* The columns of a mandate, and what a PATCH may send: integers (the share
\* in percent).
MandateFields == {"minTicket", "maxTicket", "concentration"}

ASSUME MandatesAssumption ==
    /\ Mandate0 \in [Providers -> [MandateFields -> Int]]
    /\ \A patch \in Patches :
        /\ patch[1] \in Providers
        /\ \A f \in DOMAIN patch[2] : patch[2][f] \in Int

VARIABLES
    mandate,        \* the columns of each provider row clearing reads
    seen,           \* history: the capacities a clearing was given
    result          \* the MatchResult of each clearing

marketVars == <<mandate, seen, result>>
allVars == <<vars, marketVars>>

\* Math.round(totalLiquidity * concentrationLimitPct), the share in percent.
HeadroomOf(p) == (Total[p] * mandate[p].concentration + 50) \div 100

\* The capacity record clearById builds from one provider row.
CapacityOf(p) ==
    [minTicket |-> mandate[p].minTicket,
     maxTicket |-> mandate[p].maxTicket,
     available |-> liquidity[p],
     headroom |-> HeadroomOf(p)]

MarketInit ==
    /\ Init
    /\ mandate = Mandate0
    /\ seen = [c \in Calls |-> NoResult]
    /\ result = [c \in Calls |-> NoResult]

\* The capacity record of every bidder's provider: one SELECT.
CapacitiesFor(o) ==
    [p \in {Ranked[o][i] : i \in 1..Len(Ranked[o])} |-> CapacityOf(p)]

\* The MatchResult of a clearing over those capacities.
ResultOf(o) ==
    LET outcome == Allocate(Ranked[o], Advance[o], CapacitiesFor(o))
    IN  [opp |-> o,
         status |-> IF outcome.allocations = <<>>
                    THEN "NO_ACCEPTABLE_OFFER" ELSE "MATCHED",
         allocations |-> outcome.allocations,
         shortfall |-> outcome.shortfall]

\* clearById reads the rows and clears.  The status of the opportunity is not
\* looked at.
Clear(c, o) ==
    /\ result[c] = NoResult
    /\ seen' = [seen EXCEPT ![c] = CapacitiesFor(o)]
    /\ result' = [result EXCEPT ![c] = ResultOf(o)]
    /\ UNCHANGED <<vars, mandate>>

\* The caller of a MATCHED result commits its allocations, now or later.
CommitResult(c) ==
    /\ result[c] # NoResult
    /\ result[c].status = "MATCHED"
    /\ Begin(c, result[c].opp, result[c].allocations)
    /\ UNCHANGED marketVars

CommitStep(c) == (Step(c) \/ Fault(c)) /\ UNCHANGED marketVars

\* What the route refuses with 400.
Refused(body) ==
    \/ DOMAIN body = {}
    \/ /\ "concentration" \in DOMAIN body
       /\ body["concentration"] <= 0 \/ body["concentration"] > 100
    \/ /\ {"minTicket", "maxTicket"} \subseteq DOMAIN body
       /\ body["minTicket"] > body["maxTicket"]
    \/ /\ "available" \in DOMAIN body
       /\ body["available"] < 0

\* Faulty variant: the form is saved by an UPDATE that does not wait for the
\* transactions that hold the row (written from a cached copy of it).
PatchMandateUnlocked(p, body) ==
    /\ ~Refused(body)
    /\ liquidity' = IF "available" \in DOMAIN body
                    THEN [liquidity EXCEPT ![p] = body["available"]]
                    ELSE liquidity
    /\ mandate' = [mandate EXCEPT ![p] =
            [f \in MandateFields |-> IF f \in DOMAIN body THEN body[f] ELSE @[f]]]
    /\ UNCHANGED <<status, pc, opp, plan, next, durable, seen, result>>

\* capitalProvider.update with the fields that were sent: absolute values, in
\* one statement, which waits for any transaction that holds the row.
PatchMandate(p, body) ==
    /\ ~Refused(body)
    /\ \A c \in Calls : ~Holds(c, p)
    /\ liquidity' = IF "available" \in DOMAIN body
                    THEN [liquidity EXCEPT ![p] = body["available"]]
                    ELSE liquidity
    /\ mandate' = [mandate EXCEPT ![p] =
            [f \in MandateFields |-> IF f \in DOMAIN body THEN body[f] ELSE @[f]]]
    /\ UNCHANGED <<status, pc, opp, plan, next, durable, seen, result>>

MarketNext ==
    \/ \E c \in Calls, o \in Opps : Clear(c, o)
    \/ \E c \in Calls : CommitResult(c) \/ CommitStep(c)
    \/ \E patch \in Patches : PatchMandate(patch[1], patch[2])

MarketSpec == MarketInit /\ [][MarketNext]_allVars

----------------------------------------------------------------------------
(* Properties.                                                             *)

\* What the legs fund together, and what those of some providers do.
Funds(legs) == [i \in DOMAIN legs |-> legs[i].funded]
FundedBy(legs) == SumFunction(Funds(legs))
FundedTo(legs, some) ==
    SumFunctionOnSet(Funds(legs), {i \in DOMAIN legs : legs[i].provider \in some})

LegFits(leg, cap) ==
    /\ leg.funded <= cap.available
    /\ leg.funded <= cap.headroom
    /\ leg.funded \in cap.minTicket..cap.maxTicket

\* A clearing keeps to the capacity it read: no leg exceeds the provider's
\* liquidity, ticket or buyer headroom or falls under its minimum ticket, and
\* the legs and the shortfall add up to the advance (allocate.ts:66-143).
PlanWithinCapacity ==
    \A c \in Calls : result[c] # NoResult =>
        LET legs == result[c].allocations
        IN  /\ \A i \in 1..Len(legs) : LegFits(legs[i], seen[c][legs[i].provider])
            /\ FundedBy(legs) + result[c].shortfall = Advance[result[c].opp]

\* The k-th of the ranking is given its share of what the better-ranked left,
\* if that makes a legal ticket, and nothing otherwise.
GivenItsShare(ranked, target, caps, legs, k) ==
    LET cap == caps[ranked[k]]
        left == target - FundedTo(legs, {ranked[j] : j \in 1..(k - 1)})
        share == LesserOf(left, RoomOf(cap))
        given == FundedTo(legs, {ranked[k]})
    IN  IF left > 0 /\ share > 0 /\ share >= cap.minTicket
        THEN given = share ELSE given <= 0

\* The ranking decides who funds: a provider that is left out, or given less
\* than it has room for, could not have taken a legal ticket of what the
\* better-ranked left, and so of any shortfall that remains ("allocation
\* walks them in order", allocate.ts:75-81).
RankingRespected ==
    \A c \in Calls : result[c] # NoResult =>
        LET o == result[c].opp
        IN  \A k \in 1..Len(Ranked[o]) :
                GivenItsShare(Ranked[o], Advance[o], seen[c], result[c].allocations, k)

\* Deals stay indivisible, and never draw what is not there, while providers
\* restate their liquidity underneath them.
MarketAtomic == INSTANCE AtomicAllocation
    WITH Deals <- {DemandOf(s) : s \in Plans},
         Restatements <- {patch[2]["available"] : patch \in
                            {r \in Patches : "available" \in DOMAIN r[2]}}

MarketAtomicity == MarketAtomic!Spec
=============================================================================
