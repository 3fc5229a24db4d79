-------------------------- MODULE MCMarketClearing --------------------------
(* Two providers, two opportunities ranked in opposite orders, two         *)
(* clearings in flight, and mandate edits that raise and lower liquidity   *)
(* and move both ticket limits.                                            *)
EXTENDS MarketClearing, TLC

CONSTANTS rapid, coop, o1, o2

MCRanked == (o1 :> <<rapid, coop>>) @@ (o2 :> <<coop, rapid>>)
MCAdvance == (o1 :> 4) @@ (o2 :> 3)
MCTotal == (rapid :> 5) @@ (coop :> 4)
MCLiquidity0 == (rapid :> 3) @@ (coop :> 2)

\* rapid may carry 4 of its 5 on one buyer; coop anything it has.
MCMandate0 ==
    (rapid :> [minTicket |-> 1, maxTicket |-> 3, concentration |-> 80]) @@
    (coop :> [minTicket |-> 1, maxTicket |-> 4, concentration |-> 100])

MCPatches == {
    <<rapid, [available |-> 4]>>,
    <<rapid, [available |-> -1]>>,
    <<coop, [available |-> 1]>>,
    <<rapid, [concentration |-> 30]>>,
    <<coop, [minTicket |-> 2, maxTicket |-> 3]>>,
    <<coop, [minTicket |-> 3, maxTicket |-> 1]>> }

MCSymmetry == Permutations(Calls)

MCLeg == [provider : {rapid, coop}, funded : 0..4]

\* At most one leg of each provider.
MCPlans ==
    {<<l>> : l \in MCLeg} \union
    {s \in MCLeg \X MCLeg : s[1].provider # s[2].provider}
=============================================================================
