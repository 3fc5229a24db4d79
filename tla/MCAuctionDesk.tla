--------------------------- MODULE MCAuctionDesk ----------------------------
(***************************************************************************)
(* Bids on one invoice: a cheap one and its twin, a dear fast one and a    *)
(* dear slow one, two of one price of which one advances twice as much,    *)
(* and one whose charges eat its advance.                                  *)
(* Scale and YearDays are small so that every product fits in 32 bits; the *)
(* comparisons are of exact fractions at any scale.  The premium per day   *)
(* is large for the scale so that the slider, which reaches a twentieth of *)
(* the scale, can reorder these bids.                                      *)
(***************************************************************************)
EXTENDS AuctionDesk

Bid(p, advanceRate, annualRate, fees, settlementDays) ==
    [provider |-> p, advanceRate |-> 10 * advanceRate, annualRate |-> 10 * annualRate + 4,
     flatFee |-> fees, tenor |-> 3, settlementDays |-> settlementDays]

Bank == Bid("bank", 80, 8, 1, 3)
Twin == Bid("twin", 80, 8, 1, 3)
Fintech == Bid("fintech", 90, 20, 1, 0)
Slow == Bid("slow", 90, 20, 1, 5)
Half == Bid("half", 40, 10, 1, 2)
Whole == Bid("whole", 80, 10, 2, 2)
Shark == Bid("shark", 20, 90, 19, 0)

MCBooks == {<<>>, <<Shark, Half, Whole>>, <<Bank, Twin, Fintech, Slow>>}

\* What the agents post: late by an hour, on the dot, and at once.
AgentBid(p, advanceRate, apr, fees, hours) ==
    [provider |-> p, advanceRate |-> 10 * advanceRate, apr |-> 10 * apr,
     fees |-> fees, tenor |-> 3, hours |-> hours]

MCAgentBids ==
    <<AgentBid("slow", 90, 8, 1, 73), AgentBid("bank", 80, 8, 1, 72),
      AgentBid("fintech", 90, 20, 1, -1)>>

Obligation(due, amount) == [due |-> due, amount |-> amount]

\* A first breach and a later, deeper one; two obligations of the first day,
\* and once it has passed no shortfall; and the stored columns, one of them null.
MCNeeds ==
    {[cash |-> 50, threshold |-> 10, obligations |-> os] :
        os \in {<<Obligation(9, 50), Obligation(3, 60)>>,
                <<Obligation(0, 60), Obligation(0, 70), Obligation(5, 10)>>}}
    \cup {[floor |-> {80}, deadline |-> {}]}

MCCapacity ==
    [p \in {"bank", "twin", "fintech", "slow", "half", "whole", "shark"} |->
        [available |-> 100, minTicket |-> 10, headroom |-> 100,
         maxTicket |-> IF p = "fintech" THEN 60 ELSE 100]]
=============================================================================
