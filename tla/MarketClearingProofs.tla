------------------------ MODULE MarketClearingProofs ------------------------
(***************************************************************************)
(* Proofs about MarketClearing for any providers, rankings, mandates,      *)
(* edits of them and number of clearings in flight.                        *)
(*                                                                         *)
(* The walk of allocate.ts is a recursive function over the ranking: that  *)
(* it exists, and what every prefix of it has handed out, is shown by      *)
(* induction on the number of offers visited.  Deals stay indivisible      *)
(* while providers edit their rows because an edit waits for the row lock  *)
(* that CommitAllocationProofs is about.                                   *)
(***************************************************************************)
EXTENDS MarketClearing, CommitAllocationProofs

----------------------------------------------------------------------------
(* The walk.                                                               *)

Base(target) == [legs |-> <<>>, remaining |-> target, skipped |-> <<>>]

\* What the recursive definition says of a function over the first n offers.
WalksOver(walk, ranked, target, caps, n) ==
    walk = [i \in 0..n |-> IF i = 0 THEN Base(target)
                           ELSE Visit(walk[i - 1], caps, ranked[i])]

\* There is such a function, for every n.
LEMMA WalkExists ==
  ASSUME NEW ranked, NEW target, NEW caps, NEW n \in Nat
  PROVE  \E walk : WalksOver(walk, ranked, target, caps, n)
<1> USE DEF WalksOver
<1> DEFINE Good == {m \in Nat : \E walk : WalksOver(walk, ranked, target, caps, m)}
<1>1. 0 \in Good
  <2> DEFINE w == [i \in 0..0 |-> Base(target)]
  <2>1. WalksOver(w, ranked, target, caps, 0)
    OBVIOUS
  <2> HIDE DEF w
  <2> QED
    BY <2>1
<1>2. ASSUME NEW m \in Nat, m \in Good PROVE m + 1 \in Good
  <2>1. PICK f : WalksOver(f, ranked, target, caps, m)
    BY <1>2
  <2> DEFINE g == [i \in 0..(m + 1) |-> IF i <= m THEN f[i]
                                        ELSE Visit(f[m], caps, ranked[m + 1])]
  <2>2. ASSUME NEW i \in 0..(m + 1)
        PROVE  g[i] = IF i = 0 THEN Base(target) ELSE Visit(g[i - 1], caps, ranked[i])
    <3>1. CASE i = 0
      BY <2>1, <3>1
    <3>2. CASE i # 0 /\ i <= m
      <4>1. i \in 0..m /\ i - 1 \in 0..(m + 1) /\ i - 1 <= m
        BY <3>2
      <4>2. f[i] = Visit(f[i - 1], caps, ranked[i])
        BY <2>1, <3>2, <4>1
      <4> QED
        BY <3>2, <4>1, <4>2
    <3>3. CASE i = m + 1
      BY <3>3
    <3> QED
      BY <3>1, <3>2, <3>3
  <2>3. g = [i \in 0..(m + 1) |-> g[i]]
    OBVIOUS
  <2> HIDE DEF g
  <2>4. WalksOver(g, ranked, target, caps, m + 1)
    BY <2>2, <2>3
  <2> QED
    BY <2>4
<1> HIDE DEF Good, WalksOver
<1>3. n \in Good
  BY <1>1, <1>2, NatSetInduction
<1> QED
  BY <1>3 DEF Good

\* So the walk begins with nothing handed out and visits the offers in turn.
LEMMA WalkSteps ==
  ASSUME NEW ranked, NEW target, NEW caps, Len(ranked) \in Nat
  PROVE  /\ Walks(ranked, target, caps)[0] = Base(target)
         /\ \A i \in 1..Len(ranked) :
               Walks(ranked, target, caps)[i]
                  = Visit(Walks(ranked, target, caps)[i - 1], caps, ranked[i])
<1> DEFINE walk == Walks(ranked, target, caps)
<1>1. walk = CHOOSE w : WalksOver(w, ranked, target, caps, Len(ranked))
  BY DEF Walks, Base, WalksOver
<1>2. WalksOver(walk, ranked, target, caps, Len(ranked))
  BY <1>1, WalkExists
<1> HIDE DEF walk
<1>3. walk[0] = Base(target)
      /\ \A i \in 1..Len(ranked) : walk[i] = Visit(walk[i - 1], caps, ranked[i])
  BY <1>2 DEF WalksOver
<1> QED
  BY <1>3 DEF walk

----------------------------------------------------------------------------
(* What legs fund.                                                         *)

LEMMA FundsSummable ==
  ASSUME NEW legs \in Seq(Leg), NEW U \in SUBSET (DOMAIN legs)
  PROVE  Summable(Funds(legs), U)
<1>1. DOMAIN legs = 1..Len(legs) /\ Len(legs) \in Nat
  OBVIOUS
<1>2. IsFiniteSet(DOMAIN legs)
  BY <1>1, FS_Interval
<1>3. \A i \in DOMAIN legs : Funds(legs)[i] = legs[i].funded /\ legs[i] \in Leg
  BY <1>1 DEF Funds
<1> QED
  BY <1>2, <1>3, FS_Subset DEF Summable, Leg

LEMMA FundedToNone ==
  ASSUME NEW some
  PROVE  FundedTo(<<>>, some) = 0
<1>1. DOMAIN <<>> = {}
  OBVIOUS
<1> QED
  BY <1>1, SumOfNone DEF FundedTo

LEMMA FundedToType ==
  ASSUME NEW legs \in Seq(Leg), NEW some
  PROVE  FundedTo(legs, some) \in Int
<1>1. {i \in DOMAIN legs : legs[i].provider \in some} \in SUBSET (DOMAIN legs)
  OBVIOUS
<1> QED
  BY <1>1, FundsSummable, SumIsInt DEF FundedTo

\* One leg more.
LEMMA FundedToAppend ==
  ASSUME NEW legs \in Seq(Leg), NEW leg \in Leg, NEW some
  PROVE  FundedTo(Append(legs, leg), some)
            = FundedTo(legs, some) + IF leg.provider \in some THEN leg.funded ELSE 0
<1> DEFINE more == Append(legs, leg)
           n == Len(legs) + 1
           old == {i \in DOMAIN legs : legs[i].provider \in some}
           new == {i \in DOMAIN more : more[i].provider \in some}
<1>1. /\ Len(legs) \in Nat
      /\ DOMAIN legs = 1..Len(legs)
      /\ DOMAIN more = 1..n
      /\ more[n] = leg
      /\ \A i \in DOMAIN legs : more[i] = legs[i]
      /\ more \in Seq(Leg)
  OBVIOUS
<1>2. new = IF leg.provider \in some THEN old \union {n} ELSE old
  BY <1>1
<1>3. n \notin old /\ old \in SUBSET (DOMAIN legs) /\ n \in DOMAIN more
  BY <1>1
<1>4. old \in SUBSET (DOMAIN more)
  BY <1>1
<1>5. \A i \in old : Funds(legs)[i] = Funds(more)[i]
  BY <1>1 DEF Funds
<1>6. Funds(more)[n] = leg.funded /\ leg.funded \in Int
  BY <1>1, <1>3 DEF Funds, Leg
<1> HIDE DEF more, n, old, new
<1>7. Summable(Funds(legs), old) /\ Summable(Funds(more), old)
  BY <1>1, <1>3, <1>4, FundsSummable
<1>8. SumFunctionOnSet(Funds(more), old) = SumFunctionOnSet(Funds(legs), old)
  BY <1>5, <1>7, SumSame
<1>9. SumFunctionOnSet(Funds(legs), old) \in Int
  BY <1>7, SumIsInt
<1>10. SumFunctionOnSet(Funds(more), old \union {n}) = leg.funded + SumFunctionOnSet(Funds(more), old)
  BY <1>3, <1>6, <1>7, SumAdd
<1>11. FundedTo(more, some) = SumFunctionOnSet(Funds(more), new)
       /\ FundedTo(legs, some) = SumFunctionOnSet(Funds(legs), old)
  BY DEF FundedTo, more, new, old
<1> QED
  BY <1>2, <1>6, <1>8, <1>9, <1>10, <1>11 DEF more

\* All of the legs, when all of their providers are meant.
LEMMA FundedToAll ==
  ASSUME NEW legs, NEW some, \A i \in DOMAIN legs : legs[i].provider \in some
  PROVE  FundedTo(legs, some) = FundedBy(legs)
<1>1. {i \in DOMAIN legs : legs[i].provider \in some} = DOMAIN Funds(legs)
  BY DEF Funds
<1> QED
  BY <1>1 DEF FundedTo, FundedBy, SumFunction

\* None of the legs.
LEMMA FundedToStranger ==
  ASSUME NEW legs, NEW some, \A i \in DOMAIN legs : legs[i].provider \notin some
  PROVE  FundedTo(legs, some) = 0
<1>1. {i \in DOMAIN legs : legs[i].provider \in some} = {}
  OBVIOUS
<1> QED
  BY <1>1, SumOfNone DEF FundedTo

----------------------------------------------------------------------------
(* What every prefix of the walk has handed out.                           *)

\* A ranking names a provider once; every provider in it has a capacity.
Rankable(ranked, caps) ==
    /\ ranked \in Seq(Providers)
    /\ \A i, j \in 1..Len(ranked) : ranked[i] = ranked[j] => i = j
    /\ \A i \in 1..Len(ranked) : ranked[i] \in DOMAIN caps
    /\ \A p \in DOMAIN caps : /\ caps[p].available \in Int /\ caps[p].headroom \in Int
                              /\ caps[p].minTicket \in Int /\ caps[p].maxTicket \in Int

\* The walk after i offers.
WalkShape(walk) ==
    /\ DOMAIN walk = {"legs", "remaining", "skipped"}
    /\ walk.legs \in Seq(Leg)
    /\ walk.remaining \in Nat

LegsLegal(legs, i, ranked, caps) ==
    /\ \A j \in 1..Len(legs) : /\ \E k \in 1..i : legs[j].provider = ranked[k]
                               /\ LegFits(legs[j], caps[legs[j].provider])
    /\ \A j, k \in 1..Len(legs) : legs[j].provider = legs[k].provider => j = k

WalkInv(walk, i, ranked, target, caps) ==
    /\ WalkShape(walk)
    /\ LegsLegal(walk.legs, i, ranked, caps)
    /\ FundedBy(walk.legs) + walk.remaining = target
    /\ \A k \in 1..i : GivenItsShare(ranked, target, caps, walk.legs, k)

\* One visit: the walk goes on as it was, or with one leg more, the share of
\* the provider visited.
LEMMA VisitOutcome ==
  ASSUME NEW walk, WalkShape(walk), NEW caps, NEW p \in DOMAIN caps, p \in Providers,
         caps[p].available \in Int, caps[p].headroom \in Int,
         caps[p].minTicket \in Int, caps[p].maxTicket \in Int
  PROVE  LET after == Visit(walk, caps, p)
             share == LesserOf(walk.remaining, RoomOf(caps[p]))
             leg == [provider |-> p, funded |-> share]
         IN  /\ WalkShape(after)
             /\ \/ /\ after.legs = walk.legs /\ after.remaining = walk.remaining
                   /\ walk.remaining <= 0 \/ share <= 0 \/ share < caps[p].minTicket
                \/ /\ after.legs = Append(walk.legs, leg)
                   /\ after.remaining = walk.remaining - share
                   /\ leg \in Leg /\ LegFits(leg, caps[p]) /\ walk.remaining > 0
<1> DEFINE after == Visit(walk, caps, p)
           share == LesserOf(walk.remaining, RoomOf(caps[p]))
           leg == [provider |-> p, funded |-> share]
           reason == SkipReason(caps, p, walk.remaining)
<1>1. /\ share \in Int
      /\ share <= walk.remaining /\ share <= caps[p].available
      /\ share <= caps[p].headroom /\ share <= caps[p].maxTicket
  BY DEF WalkShape, LesserOf, RoomOf
<1>2. CASE walk.remaining <= 0
  BY <1>2 DEF Visit
<1>3. CASE walk.remaining > 0 /\ reason # "NONE"
  <2>1. after = [walk EXCEPT !.skipped = Append(@, [provider |-> p, reason |-> reason])]
    BY <1>3 DEF Visit, WalkShape
  <2>2. share <= 0 \/ share < caps[p].minTicket
    BY <1>1, <1>3 DEF SkipReason, CapacityFor
  <2> QED
    BY <2>1, <2>2 DEF WalkShape
<1>4. CASE walk.remaining > 0 /\ reason = "NONE"
  <2>1. after = [walk EXCEPT !.legs = Append(@, leg), !.remaining = @ - share]
    BY <1>4 DEF Visit, CapacityFor, WalkShape
  <2>2. share >= caps[p].minTicket
    BY <1>1, <1>4 DEF SkipReason, CapacityFor
  <2>3. leg \in Leg
    BY <1>1 DEF Leg
  <2>4. LegFits(leg, caps[p])
    BY <1>1, <2>2 DEF LegFits
  <2>5. after.legs = Append(walk.legs, leg) /\ after.remaining = walk.remaining - share
        /\ DOMAIN after = {"legs", "remaining", "skipped"}
    BY <2>1 DEF WalkShape
  <2>6. walk.remaining - share \in Nat
    BY <1>1 DEF WalkShape
  <2>7. Append(walk.legs, leg) \in Seq(Leg)
    BY <2>3 DEF WalkShape
  <2> HIDE DEF leg, share, after
  <2>8. WalkShape(after)
    BY <2>5, <2>6, <2>7 DEF WalkShape
  <2> QED
    BY <1>4, <2>3, <2>4, <2>5, <2>8 DEF leg, share, after
<1> QED
  BY <1>2, <1>3, <1>4 DEF WalkShape

\* The providers up to the i-th.
UpTo(ranked, i) == {ranked[j] : j \in 1..i}

\* What the better-ranked left is what remains.
LEMMA LeftIsRemaining ==
  ASSUME NEW ranked, NEW i \in Nat, NEW caps, NEW legs \in Seq(Leg),
         LegsLegal(legs, i, ranked, caps)
  PROVE  FundedTo(legs, UpTo(ranked, i)) = FundedBy(legs)
<1>1. \A j \in DOMAIN legs : legs[j].provider \in UpTo(ranked, i)
  BY DEF LegsLegal, UpTo
<1> QED
  BY <1>1, FundedToAll

LEMMA LegalLater ==
  ASSUME NEW ranked, NEW caps, NEW legs, NEW m \in Nat, NEW n \in Nat, m <= n,
         LegsLegal(legs, m, ranked, caps)
  PROVE  LegsLegal(legs, n, ranked, caps)
<1>1. \A k \in 1..m : k \in 1..n
  OBVIOUS
<1> QED
  BY <1>1 DEF LegsLegal

\* A visit that adds no leg.
LEMMA VisitPasses ==
  ASSUME NEW ranked, NEW caps, Rankable(ranked, caps), NEW target \in Int,
         NEW i \in 1..Len(ranked), NEW walk, WalkInv(walk, i - 1, ranked, target, caps),
         NEW after, WalkShape(after),
         after.legs = walk.legs, after.remaining = walk.remaining,
         LET share == LesserOf(walk.remaining, RoomOf(caps[ranked[i]])) IN
         walk.remaining <= 0 \/ share <= 0 \/ share < caps[ranked[i]].minTicket
  PROVE  WalkInv(after, i, ranked, target, caps)
<1> DEFINE legs == walk.legs
<1>1. i \in Nat /\ i - 1 \in Nat /\ Len(ranked) \in Nat /\ legs \in Seq(Leg)
  BY DEF Rankable, WalkInv, WalkShape
<1>2. LegsLegal(legs, i - 1, ranked, caps)
  BY DEF WalkInv
<1>3. LegsLegal(legs, i, ranked, caps)
  BY <1>1, <1>2, LegalLater
<1>4. FundedTo(legs, UpTo(ranked, i - 1)) = FundedBy(legs)
  BY <1>1, <1>2, LeftIsRemaining
<1>5. FundedTo(legs, {ranked[i]}) = 0
  <2>1. \A j \in DOMAIN legs : legs[j].provider \notin {ranked[i]}
    BY <1>1, <1>2 DEF LegsLegal, Rankable
  <2> QED
    BY <2>1, FundedToStranger
<1>6. target - FundedTo(legs, UpTo(ranked, i - 1)) = walk.remaining
  <2>1. FundedTo(legs, UpTo(ranked, i - 1)) \in Int
    BY <1>1, FundedToType
  <2> QED
    BY <1>4, <2>1 DEF WalkInv, WalkShape
<1>7. GivenItsShare(ranked, target, caps, legs, i)
  <2> DEFINE share == LesserOf(walk.remaining, RoomOf(caps[ranked[i]]))
  <2>1. walk.remaining \in Int /\ caps[ranked[i]].minTicket \in Int /\ share \in Int
    BY DEF WalkInv, WalkShape, Rankable, LesserOf, RoomOf
  <2>2. ~(walk.remaining > 0 /\ share > 0 /\ share >= caps[ranked[i]].minTicket)
    BY <2>1
  <2> HIDE DEF legs
  <2> QED
    BY <1>5, <1>6, <2>2 DEF GivenItsShare, UpTo
<1>8. \A k \in 1..i : GivenItsShare(ranked, target, caps, legs, k)
  <2>1. \A k \in 1..(i - 1) : GivenItsShare(ranked, target, caps, legs, k)
    BY DEF WalkInv
  <2> QED
    BY <1>1, <1>7, <2>1
<1> QED
  BY <1>3, <1>8 DEF WalkInv

\* A visit that adds the visited provider's share.
LEMMA VisitTakes ==
  ASSUME NEW ranked, NEW caps, Rankable(ranked, caps), NEW target \in Int,
         NEW i \in 1..Len(ranked), NEW walk, WalkInv(walk, i - 1, ranked, target, caps),
         NEW after, WalkShape(after), NEW leg \in Leg,
         leg.provider = ranked[i],
         leg.funded = LesserOf(walk.remaining, RoomOf(caps[ranked[i]])),
         after.legs = Append(walk.legs, leg), after.remaining = walk.remaining - leg.funded,
         LegFits(leg, caps[ranked[i]]), walk.remaining > 0
  PROVE  WalkInv(after, i, ranked, target, caps)
<1> DEFINE legs == walk.legs
           more == Append(legs, leg)
           share == leg.funded
<1>1. /\ i \in Nat /\ i - 1 \in Nat /\ Len(ranked) \in Nat
      /\ legs \in Seq(Leg) /\ Len(legs) \in Nat
      /\ share \in Int /\ walk.remaining \in Int
      /\ \A p \in DOMAIN caps : caps[p].minTicket \in Int /\ caps[p].maxTicket \in Int
  BY DEF Rankable, WalkInv, WalkShape, Leg
<1>2. LegsLegal(legs, i - 1, ranked, caps)
  BY DEF WalkInv
<1>3. \A j \in 1..Len(legs) : more[j] = legs[j] /\ legs[j].provider # ranked[i]
  BY <1>1, <1>2 DEF LegsLegal, Rankable
<1>4. more[Len(legs) + 1] = leg /\ Len(more) = Len(legs) + 1
  BY <1>1
<1>5. LegsLegal(more, i, ranked, caps)
  <2> SUFFICES /\ \A j \in 1..Len(more) : /\ \E k \in 1..i : more[j].provider = ranked[k]
                                          /\ LegFits(more[j], caps[more[j].provider])
               /\ \A j, k \in 1..Len(more) : more[j].provider = more[k].provider => j = k
    BY DEF LegsLegal
  <2> HIDE DEF more, legs
  <2>1. \A j \in 1..Len(legs) : /\ \E k \in 1..i : legs[j].provider = ranked[k]
                                /\ LegFits(legs[j], caps[legs[j].provider])
    BY <1>1, <1>2 DEF LegsLegal
  <2>2. \A j \in 1..Len(more) : j \in 1..Len(legs) \/ j = Len(legs) + 1
    BY <1>1, <1>4
  <2>3. i \in 1..i /\ leg.provider = ranked[i]
    BY <1>1
  <2>4. \A j, k \in 1..Len(legs) : legs[j].provider = legs[k].provider => j = k
    BY <1>2 DEF LegsLegal
  <2> QED
    BY <1>3, <1>4, <2>1, <2>2, <2>3, <2>4
<1>6. \A some : ranked[i] \notin some => FundedTo(more, some) = FundedTo(legs, some)
  BY <1>1, FundedToAppend, FundedToType
<1>7. \A k \in 1..i : ranked[i] \notin UpTo(ranked, k - 1)
  BY <1>1 DEF UpTo, Rankable
<1>8. FundedTo(legs, UpTo(ranked, i - 1)) = FundedBy(legs)
  BY <1>1, <1>2, LeftIsRemaining
<1>9. target - FundedTo(legs, UpTo(ranked, i - 1)) = walk.remaining
  <2>1. FundedTo(legs, UpTo(ranked, i - 1)) \in Int
    BY <1>1, FundedToType
  <2> QED
    BY <1>8, <2>1 DEF WalkInv, WalkShape
<1>10. FundedTo(more, {ranked[i]}) = share
  <2>1. FundedTo(legs, {ranked[i]}) = 0
    <3> HIDE DEF legs, more
    <3>1. \A j \in DOMAIN legs : legs[j].provider \notin {ranked[i]}
      BY <1>1, <1>3
    <3> QED
      BY <3>1, FundedToStranger
  <2> QED
    BY <1>1, <2>1, FundedToAppend
<1>11. GivenItsShare(ranked, target, caps, more, i)
  <2>1. target - FundedTo(more, UpTo(ranked, i - 1)) = walk.remaining
    BY <1>1, <1>6, <1>7, <1>9
  <2>2. share >= caps[ranked[i]].minTicket
    BY <1>1 DEF LegFits, Rankable
  <2> HIDE DEF more
  <2> QED
    BY <1>1, <1>10, <2>1, <2>2 DEF GivenItsShare, UpTo
<1>12. ASSUME NEW k \in 1..(i - 1)
       PROVE  GivenItsShare(ranked, target, caps, more, k)
  <2>1. GivenItsShare(ranked, target, caps, legs, k)
    BY DEF WalkInv
  <2>2. ranked[i] \notin {ranked[k]} /\ k \in 1..i
    BY <1>1 DEF Rankable
  <2>3. /\ FundedTo(more, UpTo(ranked, k - 1)) = FundedTo(legs, UpTo(ranked, k - 1))
        /\ FundedTo(more, {ranked[k]}) = FundedTo(legs, {ranked[k]})
    BY <1>6, <1>7, <2>2
  <2> HIDE DEF more, legs
  <2> QED
    BY <2>1, <2>3 DEF GivenItsShare, UpTo
<1>13. \A k \in 1..i : GivenItsShare(ranked, target, caps, more, k)
  BY <1>1, <1>11, <1>12
<1>14. FundedBy(more) = FundedBy(legs) + share
  <2>1. more \in Seq(Leg)
    BY <1>1
  <2>2. FundedTo(more, UpTo(ranked, i)) = FundedBy(more)
    BY <1>1, <1>5, <2>1, LeftIsRemaining
  <2>3. LegsLegal(legs, i, ranked, caps)
    BY <1>1, <1>2, LegalLater
  <2>4. FundedTo(legs, UpTo(ranked, i)) = FundedBy(legs)
    BY <1>1, <2>3, LeftIsRemaining
  <2>5. leg.provider \in UpTo(ranked, i)
    BY <1>1 DEF UpTo
  <2> QED
    BY <1>1, <2>2, <2>4, <2>5, FundedToAppend
<1>15. FundedBy(more) + after.remaining = target
  <2>1. FundedBy(legs) \in Int
    BY <1>1, <1>8, FundedToType
  <2>2. FundedBy(legs) + walk.remaining = target
    BY DEF WalkInv
  <2> QED
    BY <1>1, <1>14, <2>1, <2>2
<1> QED
  BY <1>5, <1>13, <1>15 DEF WalkInv

\* Every prefix of the walk keeps to the capacities and to the ranking.
LEMMA WalkInvariant ==
  ASSUME NEW ranked, NEW caps, Rankable(ranked, caps), NEW target \in Nat,
         NEW i \in 0..Len(ranked)
  PROVE  WalkInv(Walks(ranked, target, caps)[i], i, ranked, target, caps)
<1> DEFINE walk == Walks(ranked, target, caps)
           Good == {n \in Nat : n <= Len(ranked) => WalkInv(walk[n], n, ranked, target, caps)}
<1>1. Len(ranked) \in Nat
  BY DEF Rankable
<1>2. walk[0] = Base(target)
      /\ \A n \in 1..Len(ranked) : walk[n] = Visit(walk[n - 1], caps, ranked[n])
  BY <1>1, WalkSteps
<1> HIDE DEF walk
<1>3. 0 \in Good
  <2>1. walk[0].legs = <<>> /\ walk[0].remaining = target
        /\ DOMAIN walk[0] = {"legs", "remaining", "skipped"}
    BY <1>2 DEF Base
  <2>2. <<>> \in Seq(Leg) /\ DOMAIN <<>> = {} /\ 1..Len(<<>>) = {}
    OBVIOUS
  <2>3. FundedBy(<<>>) = 0
    BY <2>2, SumOfNone DEF FundedBy, Funds, SumFunction
  <2>4. LegsLegal(<<>>, 0, ranked, caps)
    BY <2>2 DEF LegsLegal
  <2>5. WalkShape(walk[0])
    BY <2>1, <2>2 DEF WalkShape
  <2>6. \A k \in 1..0 : GivenItsShare(ranked, target, caps, <<>>, k)
    OBVIOUS
  <2>7. FundedBy(<<>>) + target = target
    BY <2>3
  <2>8. WalkInv(walk[0], 0, ranked, target, caps)
    BY <2>1, <2>4, <2>5, <2>6, <2>7 DEF WalkInv
  <2> QED
    BY <2>8
<1>4. ASSUME NEW n \in Nat, n \in Good PROVE n + 1 \in Good
  <2> SUFFICES ASSUME n + 1 <= Len(ranked)
               PROVE  WalkInv(walk[n + 1], n + 1, ranked, target, caps)
    OBVIOUS
  <2> DEFINE m == n + 1
             before == walk[n]
             after == walk[m]
             p == ranked[m]
             share == LesserOf(before.remaining, RoomOf(caps[p]))
             leg == [provider |-> p, funded |-> share]
  <2>1. m \in 1..Len(ranked) /\ m - 1 = n
    BY <1>1
  <2>2. WalkInv(before, m - 1, ranked, target, caps) /\ WalkShape(before)
    BY <1>1, <1>4 DEF WalkInv
  <2>3. after = Visit(before, caps, p)
    BY <1>2, <2>1
  <2>4. /\ p \in DOMAIN caps /\ p \in Providers
        /\ caps[p].available \in Int /\ caps[p].headroom \in Int
        /\ caps[p].minTicket \in Int /\ caps[p].maxTicket \in Int
    BY <2>1 DEF Rankable
  <2> HIDE DEF m, before, after, p, Good
  <2>5. /\ WalkShape(after)
        /\ \/ /\ after.legs = before.legs /\ after.remaining = before.remaining
              /\ before.remaining <= 0 \/ share <= 0 \/ share < caps[p].minTicket
           \/ /\ after.legs = Append(before.legs, leg)
              /\ after.remaining = before.remaining - share
              /\ leg \in Leg /\ LegFits(leg, caps[p]) /\ before.remaining > 0
    BY <2>2, <2>3, <2>4, VisitOutcome
  <2>6. leg.provider = p /\ leg.funded = share
    OBVIOUS
  <2>7. p = ranked[m] /\ target \in Int
    BY DEF p
  <2>8. ASSUME after.legs = before.legs, after.remaining = before.remaining,
               before.remaining <= 0 \/ share <= 0 \/ share < caps[p].minTicket
        PROVE  WalkInv(after, m, ranked, target, caps)
    BY <2>1, <2>2, <2>5, <2>7, <2>8, VisitPasses
  <2>9. ASSUME after.legs = Append(before.legs, leg),
               after.remaining = before.remaining - share,
               leg \in Leg, LegFits(leg, caps[p]), before.remaining > 0
        PROVE  WalkInv(after, m, ranked, target, caps)
    <3> HIDE DEF leg
    <3> QED
      BY <2>1, <2>2, <2>5, <2>6, <2>7, <2>9, VisitTakes
  <2>10. WalkInv(after, m, ranked, target, caps)
    BY <2>5, <2>8, <2>9
  <2> QED
    BY <2>10 DEF after, m
<1>5. \A n \in Nat : n \in Good
  <2> HIDE DEF Good
  <2> QED
    BY <1>3, <1>4, NatSetInduction
<1> QED
  BY <1>1, <1>5 DEF walk

\* What allocate returns.
LEMMA AllocateKeeps ==
  ASSUME NEW ranked, NEW caps, Rankable(ranked, caps), NEW target \in Nat
  PROVE  LET legs == Allocate(ranked, target, caps).allocations
             shortfall == Allocate(ranked, target, caps).shortfall
         IN  /\ legs \in Seq(Leg)
             /\ LegsLegal(legs, Len(ranked), ranked, caps)
             /\ FundedBy(legs) + shortfall = target
             /\ \A k \in 1..Len(ranked) : GivenItsShare(ranked, target, caps, legs, k)
<1> DEFINE end == Walks(ranked, target, caps)[Len(ranked)]
<1>1. Len(ranked) \in Nat /\ Len(ranked) \in 0..Len(ranked)
  BY DEF Rankable
<1>2. WalkInv(end, Len(ranked), ranked, target, caps)
  BY <1>1, WalkInvariant
<1>3. /\ Allocate(ranked, target, caps).allocations = end.legs
      /\ Allocate(ranked, target, caps).shortfall = GreaterOf(0, end.remaining)
  BY DEF Allocate
<1> HIDE DEF end
<1>4. GreaterOf(0, end.remaining) = end.remaining
  BY <1>2 DEF WalkInv, WalkShape, GreaterOf
<1> QED
  BY <1>2, <1>3, <1>4 DEF WalkInv, WalkShape

----------------------------------------------------------------------------
(* Clearings.                                                              *)

\* What every clearing has returned, and the types it takes.
Cleared(c) ==
    result[c] # NoResult =>
        /\ result[c].opp \in Opps
        /\ result[c].allocations \in Seq(Leg)
        /\ Rankable(Ranked[result[c].opp], seen[c])
        /\ result[c].allocations
              = Allocate(Ranked[result[c].opp], Advance[result[c].opp], seen[c]).allocations
        /\ LegsLegal(result[c].allocations, Len(Ranked[result[c].opp]),
                     Ranked[result[c].opp], seen[c])

MarketInv ==
    /\ liquidity \in [Providers -> Int]
    /\ plan \in [Calls -> Seq(Leg)]
    /\ mandate \in [Providers -> [MandateFields -> Int]]
    /\ DOMAIN seen = Calls /\ DOMAIN result = Calls
    /\ \A c \in Calls : Cleared(c)
    /\ PlanWithinCapacity
    /\ RankingRespected

LEMMA DemandIsInt ==
  ASSUME NEW s \in Seq(Leg), NEW p
  PROVE  Demand(s, p) \in Int
<1> DEFINE k == CHOOSE i \in 1..Len(s) : s[i].provider = p
<1>1. CASE \E i \in 1..Len(s) : s[i].provider = p
  <2>1. k \in 1..Len(s)
    BY <1>1
  <2> HIDE DEF k
  <2>2. s[k] \in Leg
    BY <2>1
  <2> QED
    BY <1>1, <2>2 DEF Demand, Leg, k
<1> QED
  BY <1>1 DEF Demand

LEMMA InitMarket == MarketInit => MarketInv
<1> SUFFICES ASSUME MarketInit PROVE MarketInv
  OBVIOUS
<1>1. liquidity \in [Providers -> Int]
  BY LiquidityAssumption DEF MarketInit, Init
<1>2. \A c \in Calls : result[c] = NoResult
  BY DEF MarketInit
<1> QED
  BY <1>1, <1>2, MandatesAssumption
     DEF MarketInit, Init, MarketInv, Cleared, PlanWithinCapacity, RankingRespected

\* Every ranked provider is read, with integers in its row.
LEMMA CapacitiesRankable ==
  ASSUME MarketInv, NEW o \in Opps
  PROVE  Rankable(Ranked[o], CapacitiesFor(o))
<1>1. /\ Ranked[o] \in Seq(Providers)
      /\ \A i, j \in 1..Len(Ranked[o]) : Ranked[o][i] = Ranked[o][j] => i = j
  BY ClearingAssumption
<1>2. ASSUME NEW p \in Providers
      PROVE  /\ CapacityOf(p).available \in Int /\ CapacityOf(p).headroom \in Int
             /\ CapacityOf(p).minTicket \in Int /\ CapacityOf(p).maxTicket \in Int
  <2>1. /\ mandate[p].minTicket \in Int /\ mandate[p].maxTicket \in Int
        /\ mandate[p].concentration \in Int /\ liquidity[p] \in Int /\ Total[p] \in Int
    BY ClearingAssumption DEF MarketInv, MandateFields
  <2>2. HeadroomOf(p) \in Int
    <3>1. Total[p] * mandate[p].concentration \in Int
      BY <2>1
    <3> QED
      BY <3>1 DEF HeadroomOf
  <2> QED
    BY <2>1, <2>2 DEF CapacityOf
<1> QED
  BY <1>1, <1>2 DEF CapacitiesFor, Rankable

LEMMA ClearStep ==
  ASSUME MarketInv, NEW c \in Calls, NEW o \in Opps, Clear(c, o)
  PROVE  MarketInv'
<1> DEFINE caps == CapacitiesFor(o)
           ranked == Ranked[o]
           outcome == Allocate(ranked, Advance[o], caps)
           legs == outcome.allocations
<1>1. Rankable(ranked, caps) /\ Advance[o] \in Nat
  BY CapacitiesRankable, ClearingAssumption
<1>2. /\ legs \in Seq(Leg)
      /\ LegsLegal(legs, Len(ranked), ranked, caps)
      /\ FundedBy(legs) + outcome.shortfall = Advance[o]
      /\ \A k \in 1..Len(ranked) : GivenItsShare(ranked, Advance[o], caps, legs, k)
  <2> HIDE DEF caps, ranked
  <2> QED
    BY <1>1, AllocateKeeps
<1>3. /\ ResultOf(o).opp = o
      /\ ResultOf(o).allocations = legs
      /\ ResultOf(o).shortfall = outcome.shortfall
  BY DEF ResultOf
<1>4. /\ seen'[c] = caps /\ result'[c] = ResultOf(o)
      /\ \A d \in Calls \ {c} : seen'[d] = seen[d] /\ result'[d] = result[d]
      /\ DOMAIN seen' = Calls /\ DOMAIN result' = Calls
      /\ UNCHANGED <<liquidity, plan, mandate>>
  BY DEF Clear, MarketInv, vars
<1>0. legs = Allocate(ranked, Advance[o], caps).allocations
  OBVIOUS
<1> HIDE DEF caps, outcome, legs
<1>5. \A d \in Calls : Cleared(d)'
  BY <1>0, <1>1, <1>2, <1>3, <1>4 DEF MarketInv, Cleared
<1>6. PlanWithinCapacity'
  <2>1. \A i \in 1..Len(legs) : LegFits(legs[i], caps[legs[i].provider])
    BY <1>2 DEF LegsLegal
  <2> QED
    BY <1>2, <1>3, <1>4, <2>1 DEF MarketInv, PlanWithinCapacity
<1>7. RankingRespected'
  BY <1>2, <1>3, <1>4 DEF MarketInv, RankingRespected
<1> QED
  BY <1>4, <1>5, <1>6, <1>7 DEF MarketInv

LEMMA MarketInvStep == MarketInv /\ [MarketNext]_allVars => MarketInv'
<1> SUFFICES ASSUME MarketInv, [MarketNext]_allVars PROVE MarketInv'
  OBVIOUS
<1> DEFINE Types == liquidity' \in [Providers -> Int] /\ plan' \in [Calls -> Seq(Leg)]
<1>1. ASSUME Types, UNCHANGED marketVars PROVE MarketInv'
  BY <1>1 DEF marketVars, MarketInv, Cleared, PlanWithinCapacity, RankingRespected
<1>2. ASSUME NEW c \in Calls, CommitResult(c) PROVE MarketInv'
  <2>1. Types
    BY <1>2 DEF CommitResult, Begin, MarketInv, Cleared
  <2> QED
    BY <1>1, <1>2, <2>1 DEF CommitResult
<1>3. ASSUME NEW c \in Calls, CommitStep(c) PROVE MarketInv'
  <2>1. Types
    <3>1. CASE Commit(c)
      BY <3>1, DemandIsInt DEF Commit, MarketInv
    <3>2. CASE ~Commit(c)
      BY <1>3, <3>2 DEF CommitStep, Step, Fault, ApplyLeg, RefuseLeg, UpdateStatus,
                        Acknowledge, Rollback, Abort, LoseAnswer, MarketInv
    <3> QED
      BY <3>1, <3>2
  <2> QED
    BY <1>1, <1>3, <2>1 DEF CommitStep
<1>4. ASSUME NEW patch \in Patches, PatchMandate(patch[1], patch[2]) PROVE MarketInv'
  <2> DEFINE p == patch[1]
             body == patch[2]
  <2>1. p \in Providers /\ \A f \in DOMAIN body : body[f] \in Int
    BY MandatesAssumption
  <2> HIDE DEF p, body
  <2>2. PatchMandate(p, body)
    BY <1>4 DEF p, body
  <2>3. mandate' \in [Providers -> [MandateFields -> Int]]
    BY <2>1, <2>2 DEF PatchMandate, MarketInv
  <2>4. Types
    BY <2>1, <2>2 DEF PatchMandate, MarketInv
  <2> QED
    BY <2>2, <2>3, <2>4 DEF PatchMandate, MarketInv, Cleared, PlanWithinCapacity, RankingRespected
<1>5. CASE UNCHANGED allVars
  BY <1>1, <1>5 DEF allVars, vars, MarketInv
<1> QED
  BY <1>2, <1>3, <1>4, <1>5, ClearStep DEF MarketNext

\* Whatever the rankings and mandates, and however the rows move meanwhile,
\* every clearing keeps the invariant.
THEOREM MarketInvariance == MarketSpec => []MarketInv
BY InitMarket, MarketInvStep, PTL DEF MarketSpec

\* Every leg of every clearing is within the capacity that was read, and the
\* legs and the shortfall add up to the advance.
THEOREM PlansKeepWithinCapacity == MarketSpec => []PlanWithinCapacity
<1>1. MarketInv => PlanWithinCapacity
  BY DEF MarketInv
<1> QED
  BY <1>1, MarketInvariance, PTL

\* Every ranked provider is given its share of what the better-ranked left, or
\* could not have taken a legal ticket of it.
THEOREM RankingDecides == MarketSpec => []RankingRespected
<1>1. MarketInv => RankingRespected
  BY DEF MarketInv
<1> QED
  BY <1>1, MarketInvariance, PTL

----------------------------------------------------------------------------
(* Deals under mandate edits.                                              *)

\* An edit waits for the row's lock, so no open transaction counts on what it
\* overwrites.
LEMMA PatchIInv ==
  ASSUME IInv, NEW p \in Providers, NEW body, \A f \in DOMAIN body : body[f] \in Int,
         PatchMandate(p, body)
  PROVE  IInv'
<1>1. /\ UNCHANGED <<status, pc, opp, plan, next, durable>>
      /\ \A c \in Calls : ~Holds(c, p)
      /\ liquidity' \in [Providers -> Int]
      /\ \A q \in Providers \ {p} : liquidity'[q] = liquidity[q]
      /\ liquidity'[p] >= 0
  BY DEF PatchMandate, Refused, IInv, Shape, NoOverdraw
<1>2. Shape'
  BY <1>1 DEF IInv, Shape
<1>3. RowLocks' /\ AllApplied' /\ Begun' /\ DurableCalls' /\ MatchedIffFunded'
  BY <1>1 DEF IInv, RowLocks, Holds, AllApplied, Begun, DurableCalls, MatchedIffFunded
<1>4. Fits'
  <2> SUFFICES ASSUME NEW c \in Calls, pc[c] \in {"legs", "commit"},
                      NEW i \in 1..(next[c] - 1)
               PROVE  plan[c][i].funded <= liquidity'[plan[c][i].provider]
    BY <1>1 DEF Fits
  <2>1. Holds(c, plan[c][i].provider)
    BY DEF Holds, OpenTx
  <2>2. plan[c][i].provider \in Providers
    <3>1. plan[c] \in LegalPlans /\ next[c] \in 1..(Len(plan[c]) + 1) /\ Len(plan[c]) \in Nat
      BY DEF IInv, Shape, Begun, OpenTx
    <3>2. i \in 1..Len(plan[c])
      BY <3>1
    <3> QED
      BY <3>1, <3>2, DemandOfLeg
  <2> QED
    BY <1>1, <2>1, <2>2 DEF IInv, Fits
<1>5. NoOverdraw'
  BY <1>1 DEF IInv, NoOverdraw
<1> QED
  BY <1>2, <1>3, <1>4, <1>5 DEF IInv

LEMMA MarketIInvStep ==
  ASSUME IInv, MarketInv, [MarketNext]_allVars
  PROVE  IInv'
<1>1. ASSUME NEW c \in Calls, CommitResult(c) PROVE IInv'
  <2>1. result[c].allocations \in LegalPlans /\ result[c].opp \in Opps
    BY <1>1 DEF CommitResult, MarketInv, Cleared, LegsLegal, LegalPlans
  <2> QED
    BY <1>1, <2>1, BeginStep DEF CommitResult
<1>2. ASSUME NEW c \in Calls, CommitStep(c) PROVE IInv'
  BY <1>2, NextIInv DEF CommitStep, Next
<1>3. ASSUME NEW patch \in Patches, PatchMandate(patch[1], patch[2]) PROVE IInv'
  BY <1>3, PatchIInv, MandatesAssumption
<1>4. CASE UNCHANGED vars
  BY <1>4, NextIInv
<1>5. ASSUME NEW c \in Calls, NEW o \in Opps, Clear(c, o) PROVE IInv'
  BY <1>4, <1>5 DEF Clear
<1> QED
  BY <1>1, <1>2, <1>3, <1>4, <1>5 DEF MarketNext, allVars

\* Plans, from which the abstract specification draws its deals, holds whatever
\* a clearing may hand to commitAllocation, on any capacities it may read.
PlansCoverClearings ==
    \A o \in Opps : \A caps :
        Rankable(Ranked[o], caps) =>
            LET legs == Allocate(Ranked[o], Advance[o], caps).allocations
            IN  legs # <<>> => legs \in Plans

\* So every plan in progress is one of Plans.
FromClearings == \A c \in Calls : plan[c] # <<>> => plan[c] \in Plans

LEMMA FromClearingsStep ==
  ASSUME PlansCoverClearings, IInv, MarketInv, FromClearings, [MarketNext]_allVars
  PROVE  FromClearings'
<1>1. ASSUME NEW c \in Calls, CommitResult(c) PROVE FromClearings'
  <2>1. result[c].allocations \in Plans
    BY <1>1 DEF CommitResult, Begin, MarketInv, Cleared, PlansCoverClearings
  <2>2. plan' = [plan EXCEPT ![c] = result[c].allocations]
    BY <1>1 DEF CommitResult, Begin
  <2> QED
    BY <2>1, <2>2 DEF FromClearings, IInv, Shape
<1>2. (\E c \in Calls : CommitResult(c)) \/ UNCHANGED plan
  BY DEF MarketNext, Clear, CommitStep, Step, Fault, ApplyLeg, RefuseLeg, UpdateStatus,
         Commit, Acknowledge, Rollback, Abort, LoseAnswer, PatchMandate, vars, allVars
<1> QED
  BY <1>1, <1>2 DEF FromClearings

\* Whatever is cleared, committed and edited at once, the committed rows change
\* as if each deal were struck, and each edit made, in one indivisible step,
\* and no deal draws what is not there.
THEOREM MarketDealsAreAtomic ==
  ASSUME PlansCoverClearings
  PROVE  MarketSpec => MarketAtomicity
<1>1. MarketInit => IInv /\ FromClearings /\ MarketAtomic!Init
  BY InitIInv DEF MarketInit, Init, FromClearings, MarketAtomic!Init
<1>2. IInv /\ MarketInv /\ [MarketNext]_allVars => IInv'
  BY MarketIInvStep
<1>3. IInv /\ MarketInv /\ FromClearings /\ [MarketNext]_allVars => FromClearings'
  BY FromClearingsStep
<1>4. IInv /\ FromClearings /\ [MarketNext]_allVars => [MarketAtomic!Next]_(MarketAtomic!vars)
  <2> SUFFICES ASSUME IInv, FromClearings, [MarketNext]_allVars
               PROVE  [MarketAtomic!Next]_(MarketAtomic!vars)
    OBVIOUS
  <2>1. ASSUME NEW c \in Calls, Commit(c)
        PROVE  MarketAtomic!Next
    <3>1. pc[c] = "commit" /\ plan[c] \in Plans /\ opp[c] \in Opps
      BY <2>1 DEF Commit, IInv, Shape, FromClearings, Begun, OpenTx
    <3>2. \A p \in Providers : DemandOf(plan[c])[p] = Demand(plan[c], p)
      BY DEF DemandOf
    <3>3. \A p \in Providers : DemandOf(plan[c])[p] <= liquidity[p]
      BY <3>1, <3>2, PlanFitsAtCommit
    <3>4. liquidity' = [p \in Providers |-> liquidity[p] - DemandOf(plan[c])[p]]
      BY <2>1, <3>2 DEF Commit
    <3>5. MarketAtomic!Deal(opp[c], DemandOf(plan[c]))
      BY <2>1, <3>3, <3>4 DEF Commit, MarketAtomic!Deal
    <3> QED
      BY <3>1, <3>5 DEF MarketAtomic!Next
  <2>2. ASSUME NEW patch \in Patches, PatchMandate(patch[1], patch[2])
        PROVE  MarketAtomic!Next \/ UNCHANGED <<liquidity, status>>
    <3>1. CASE "available" \in DOMAIN patch[2]
      <4>1. MarketAtomic!Restate(patch[1], patch[2]["available"])
        BY <2>2, <3>1 DEF PatchMandate, MarketAtomic!Restate
      <4>2. patch[1] \in Providers
        BY MandatesAssumption
      <4> QED
        BY <3>1, <4>1, <4>2 DEF MarketAtomic!Next
    <3>2. CASE "available" \notin DOMAIN patch[2]
      BY <2>2, <3>2 DEF PatchMandate
    <3> QED
      BY <3>1, <3>2
  <2>3. \/ \E c \in Calls : Commit(c)
        \/ \E patch \in Patches : PatchMandate(patch[1], patch[2])
        \/ UNCHANGED <<liquidity, status>>
    BY DEF MarketNext, Clear, CommitResult, CommitStep, Step, Fault, Begin, ApplyLeg,
           RefuseLeg, UpdateStatus, Acknowledge, Rollback, Abort, LoseAnswer, vars, allVars
  <2> QED
    BY <2>1, <2>2, <2>3 DEF MarketAtomic!vars
<1> QED
  BY <1>1, <1>2, <1>3, <1>4, MarketInvariance, PTL
     DEF MarketSpec, MarketAtomicity, MarketAtomic!Spec

\* And what is proved of concurrent commits alone stays true beside clearings
\* and edits: no provider is overdrawn, MATCHED means funded, and callers are
\* told the truth.
THEOREM MarketKeepsCommitPromises ==
  MarketSpec => [](NoOverdraw /\ MatchedIffFunded /\ OutcomeIsTruthful)
<1>1. MarketInit => IInv
  BY InitIInv DEF MarketInit
<1>2. IInv /\ MarketInv /\ [MarketNext]_allVars => IInv'
  BY MarketIInvStep
<1>3. IInv => NoOverdraw /\ MatchedIffFunded /\ OutcomeIsTruthful
  BY DEF IInv, DurableCalls, OutcomeIsTruthful
<1> QED
  BY <1>1, <1>2, <1>3, MarketInvariance, PTL DEF MarketSpec
=============================================================================
