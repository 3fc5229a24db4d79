----------------------------- MODULE Allocation -----------------------------
(***************************************************************************)
(* allocate of frontend/src/lib/market/allocate.ts: a pure walk over the   *)
(* ranked, gate-passing offers that fills a target from what each provider *)
(* can take.  An offer is represented by its provider (an opportunity has  *)
(* one bid per provider); `caps' is the capacities record, a function from *)
(* the providers that have an entry to                                     *)
(*     [available, minTicket, maxTicket, headroom : Int].                  *)
(***************************************************************************)
EXTENDS Integers, Sequences

LesserOf(m, n) == IF m <= n THEN m ELSE n
GreaterOf(m, n) == IF m >= n THEN m ELSE n

\* What the provider could fund if the deal were large enough.
RoomOf(cap) ==
    LesserOf(cap.available, LesserOf(cap.maxTicket, cap.headroom))

\* Faulty variant: the buyer's concentration cap is forgotten.
CapacityForUncapped(cap, remaining) ==
    LesserOf(remaining, LesserOf(cap.available, cap.maxTicket))

\* Math.min of the four limits.
CapacityFor(cap, remaining) == LesserOf(remaining, RoomOf(cap))

\* Why the provider is passed over, or "NONE": the checks, in their order.
SkipReason(caps, p, remaining) ==
    CASE p \notin DOMAIN caps -> "NO_CAPACITY_RECORD"
      [] p \in DOMAIN caps /\ caps[p].available <= 0 -> "NO_LIQUIDITY"
      [] p \in DOMAIN caps /\ caps[p].available > 0 /\ caps[p].headroom <= 0
            -> "BUYER_CONCENTRATION"
      [] p \in DOMAIN caps /\ caps[p].available > 0 /\ caps[p].headroom > 0
            -> IF CapacityFor(caps[p], remaining) < caps[p].minTicket
               THEN "BELOW_MIN_TICKET" ELSE "NONE"

\* Faulty variant: a provider that cannot take its share ends the walk.
VisitStopping(walk, caps, p) ==
    IF walk.remaining <= 0 \/ walk.skipped # <<>> THEN walk
    ELSE LET reason == SkipReason(caps, p, walk.remaining) IN
         IF reason # "NONE"
         THEN [walk EXCEPT !.skipped = Append(@, [provider |-> p, reason |-> reason])]
         ELSE LET take == CapacityFor(caps[p], walk.remaining) IN
              [walk EXCEPT !.legs = Append(@, [provider |-> p, funded |-> take]),
                           !.remaining = @ - take]

\* Faulty variant: the remainder is not reduced by what was taken.
VisitForgetting(walk, caps, p) ==
    IF walk.remaining <= 0 THEN walk
    ELSE LET reason == SkipReason(caps, p, walk.remaining) IN
         IF reason # "NONE"
         THEN [walk EXCEPT !.skipped = Append(@, [provider |-> p, reason |-> reason])]
         ELSE [walk EXCEPT !.legs = Append(@,
                  [provider |-> p, funded |-> CapacityFor(caps[p], walk.remaining)])]

\* One turn of the loop.
Visit(walk, caps, p) ==
    IF walk.remaining <= 0 THEN walk
    ELSE LET reason == SkipReason(caps, p, walk.remaining) IN
         IF reason # "NONE"
         THEN [walk EXCEPT !.skipped = Append(@, [provider |-> p, reason |-> reason])]
         ELSE LET take == CapacityFor(caps[p], walk.remaining) IN
              [walk EXCEPT !.legs = Append(@, [provider |-> p, funded |-> take]),
                           !.remaining = @ - take]

\* The walk after the first i offers, for every i.
Walks(ranked, target, caps) ==
    LET walk[i \in 0..Len(ranked)] ==
            IF i = 0
            THEN [legs |-> <<>>, remaining |-> target, skipped |-> <<>>]
            ELSE Visit(walk[i - 1], caps, ranked[i])
    IN  walk

Allocate(ranked, target, caps) ==
    LET end == Walks(ranked, target, caps)[Len(ranked)]
    IN  [allocations |-> end.legs,
         shortfall |-> GreaterOf(0, end.remaining),
         skipped |-> end.skipped,
         syndicated |-> Len(end.legs) > 1]
=============================================================================
