-------------------------- MODULE AuctionDeskProofs --------------------------
(***************************************************************************)
(* Proofs about AuctionDesk, the OfferScoring and the Session it extends,  *)
(* for any bids, needs, slider and number of answers in flight.  The       *)
(* argument for the arena: each run of the effect has one nudge, so an     *)
(* answer to the current run is an answer to what the slider stands at     *)
(* (Questions), and every way into the arena starts a run (NoWayBack).     *)
(* The argument for what is answered: every answer on its way is computed  *)
(* from a date and a nudge (Sourced), and whatever is cleared from these   *)
(* ranks first what no survivor precedes, because exact fractions, and so  *)
(* the keys of the sort, are ordered totally.                              *)
(***************************************************************************)
EXTENDS AuctionDesk, SumLemmas

----------------------------------------------------------------------------
(* The inductive invariant.                                                *)

\* A request and its answer carry the nudge of the run that made it.
Asked(r) ==
    /\ r = [run |-> r.run, nudge |-> r.nudge, answer |-> r.answer]
    /\ r.run \in 0..gen /\ r.nudge \in 0..Scale
    /\ r.run = gen /\ gen # 0 => r.nudge = nudge
    /\ r.answer \notin {Waiting, Failed} => r.answer.nudge = r.nudge

Questions ==
    /\ gen \in Nat /\ nudge \in 0..Scale
    /\ \A r \in requests : Asked(r)

\* A sign-in never leads straight back into the arena.
NoWayBack == next # Nothing => next # "arena"

\* The arena is never there without a run of its effect.
Mounted == page = "arena" => gen # 0

IInv == Questions /\ NoWayBack /\ Mounted /\ AnswerMatchesSlider

----------------------------------------------------------------------------
(* Steps.                                                                  *)

LEMMA ScaleIsNat == Scale \in Nat /\ Scale > 0
BY ScoringAssumption

LEMMA ClampIsOnScale == ASSUME NEW n \in Int PROVE ClampNudge(n) \in 0..Scale
BY ScaleIsNat DEF ClampNudge

LEMMA NudgeIsClamped == ASSUME NEW n \in 0..Scale PROVE ClampNudge(n) = n
BY ScaleIsNat DEF ClampNudge

\* Leaving the page forgets everything but what the agents posted.
LEMMA LeaveKeeps ==
  ASSUME IInv, NEW p, p # "arena", Leave(p)
  PROVE  IInv'
<1>1. page' # "arena" /\ NoWayBack'
  <2>1. CASE signed
    BY <2>1 DEF Leave, Goto, IInv, NoWayBack
  <2>2. CASE ~signed
    BY <2>2 DEF Leave, Goto, NoWayBack
  <2> QED
    BY <2>1, <2>2
<1>2. nudge' = 0 /\ gen' = gen /\ requests' = {r \in requests : r.run = 0}
  BY DEF Leave
<1>3. Questions'
  BY <1>2, ScaleIsNat DEF IInv, Questions, Asked
<1> QED
  BY <1>1, <1>3 DEF IInv, Mounted, AnswerMatchesSlider

\* Steps of the sign-in, of the server and of other pages touch no question.
LEMMA ElsewhereKeeps ==
  ASSUME IInv, UNCHANGED <<nudge, gen, requests>>,
         \/ UNCHANGED <<page, next, shown, loading>>
         \/ page' # "arena" /\ NoWayBack'
  PROVE  IInv'
BY DEF IInv, Questions, Asked, NoWayBack, Mounted, AnswerMatchesSlider

LEMMA SessionStepKeeps ==
  ASSUME IInv, Identify
  PROVE  IInv'
<1>1. UNCHANGED <<nudge, gen, requests, shown, loading>>
  BY DEF Identify, tab, arena
<1>2. UNCHANGED <<page, next>> \/ (page' # "arena" /\ NoWayBack')
  <2>1. CASE LeaveLogin \/ ExchangeCode \/ LookUpUser \/ CallbackThrows
    BY <2>1 DEF LeaveLogin, ExchangeCode, LookUpUser, CallbackThrows, IInv, NoWayBack
  <2>2. CASE Admit
    BY <2>2 DEF Admit, IInv, NoWayBack
  <2>3. CASE Bind
    BY <2>3 DEF Bind, IInv, NoWayBack
  <2>4. CASE OtherTabSignsIn \/ SessionEnds
    BY <2>4 DEF OtherTabSignsIn, SessionEnds
  <2> QED
    BY <2>1, <2>2, <2>3, <2>4 DEF Identify, SessionStep
<1> QED
  BY <1>1, <1>2, ElsewhereKeeps

\* A new run has no request yet, and those of its predecessors are late.
LEMMA RunKeeps ==
  ASSUME IInv, NEW n \in 0..Scale, RunEffect(n), UNCHANGED <<next, requests>>
  PROVE  IInv'
<1>1. gen' = gen + 1 /\ nudge' = n /\ loading'
  BY DEF RunEffect
<1>2. Questions'
  BY <1>1 DEF IInv, Questions, Asked
<1>3. Mounted'
  BY <1>1 DEF Mounted, IInv, Questions
<1> QED
  BY <1>1, <1>2, <1>3 DEF IInv, NoWayBack, AnswerMatchesSlider

LEMMA AskKeeps ==
  ASSUME IInv, TimerFires \/ AgentsPost
  PROVE  IInv'
<1>1. UNCHANGED <<nudge, gen, page, next, shown, loading>>
  BY DEF TimerFires, AgentsPost, session, arena
<1>2. \A r \in requests' : r \in requests \/ Asked(r)
  <2>1. CASE TimerFires
    BY <2>1 DEF TimerFires, IInv, Questions, Asked
  <2>2. CASE AgentsPost
    <3>1. gen = 0
      BY <2>2 DEF AgentsPost
    <3>2. \A n \in AgentNudges : ClampNudge(n) \in 0..Scale
      BY ClampIsOnScale, DeskAssumption
    <3> QED
      BY <2>2, <3>1, <3>2 DEF AgentsPost, ScoreAgentBids, Asked
  <2> QED
    BY <2>1, <2>2
<1> QED
  BY <1>1, <1>2 DEF IInv, Questions, Asked, NoWayBack, Mounted, AnswerMatchesSlider

LEMMA ServeKeeps ==
  ASSUME IInv, NEW r \in requests, Serve(r)
  PROVE  IInv'
<1>1. UNCHANGED <<nudge, gen, page, next, shown, loading>>
  BY DEF Serve, session, arena
<1>2. PICK a \in {ClearById(ClampNudge(r.nudge)), Failed} :
          requests' = (requests \ {r}) \cup {[r EXCEPT !.answer = a]}
  BY DEF Serve
<1>3. Asked(r) /\ ClampNudge(r.nudge) = r.nudge
  BY NudgeIsClamped DEF IInv, Questions, Asked
<1>4. a = Failed \/ a.nudge = r.nudge
  BY <1>2, <1>3 DEF ClearById
<1>5. Asked([r EXCEPT !.answer = a])
  BY <1>3, <1>4 DEF Asked
<1> QED
  BY <1>1, <1>2, <1>5 DEF IInv, Questions, Asked, NoWayBack, Mounted, AnswerMatchesSlider

LEMMA DeliverKeeps ==
  ASSUME IInv, NEW r \in requests, Deliver(r)
  PROVE  IInv'
<1>1. UNCHANGED <<nudge, gen, page, next>> /\ requests' \subseteq requests
  BY DEF Deliver, session
<1>2. Questions' /\ NoWayBack' /\ Mounted'
  BY <1>1 DEF IInv, Questions, Asked, NoWayBack, Mounted
<1>3. AnswerMatchesSlider'
  BY <1>1 DEF Deliver, IInv, Questions, Asked, Mounted, AnswerMatchesSlider
<1> QED
  BY <1>2, <1>3 DEF IInv

\* The pages one browses, and those after the arena.
LEMMA BrowseKeeps ==
  ASSUME IInv,
         Browse \/ LeaveForGoogle \/ OpenSettlement \/ FindSettled \/ ClearSettled
  PROVE  IInv'
<1>1. CASE \E p \in {"lender", "board", "reading", "finding", "list", "home", "opening"} :
                Leave(p)
  BY <1>1, LeaveKeeps
<1>2. CASE LoadBoard \/ ReadInvoice \/ ReadMarket \/ FindSettled \/ ClearSettled
  <2>1. UNCHANGED <<nudge, gen, requests, next>> /\ page' # "arena"
    BY <1>2 DEF LoadBoard, ReadInvoice, ReadMarket, FindSettled, ClearSettled, tab, arena
  <2> QED
    BY <2>1, ElsewhereKeeps DEF IInv, NoWayBack
<1>3. CASE OpenMarketPage
  <2>1. UNCHANGED <<nudge, gen, requests>>
    BY <1>3 DEF OpenMarketPage
  <2>2. page' # "arena" /\ NoWayBack'
    <3>1. CASE signed
      BY <1>3, <3>1 DEF OpenMarketPage, Goto, IInv, NoWayBack
    <3>2. CASE ~signed
      BY <1>3, <3>2 DEF OpenMarketPage, Goto, NoWayBack
    <3> QED
      BY <3>1, <3>2
  <2> QED
    BY <2>1, <2>2, ElsewhereKeeps
<1>4. CASE LeaveForGoogle
  <2>1. /\ page' = "google" /\ UNCHANGED <<next, nudge, gen, shown, loading>>
        /\ requests' \subseteq requests
    BY <1>4 DEF LeaveForGoogle, SignIn, arena
  <2> QED
    BY <2>1 DEF IInv, Questions, Asked, NoWayBack, Mounted, AnswerMatchesSlider
<1> QED
  BY <1>1, <1>2, <1>3, <1>4 DEF Browse, EnterHome, BrandLink, SwitchRole, OpenInvoice,
     RunAuction, BackToInvoice, BackToMarket, OpenAddress, OpenSettlement, Follow, Dashboard,
     Role

LEMMA InitIInv == Init => IInv
BY ScaleIsNat DEF Init, SessionInit, IInv, Questions, NoWayBack, Mounted,
   AnswerMatchesSlider

LEMMA NextIInv == IInv /\ [Next]_vars => IInv'
<1> SUFFICES ASSUME IInv, [Next]_vars PROVE IInv'
  OBVIOUS
<1>1. CASE FindInvoice
  <2>1. CASE RunEffect(0)
    BY <1>1, <2>1, RunKeeps, ScaleIsNat DEF FindInvoice
  <2>2. CASE page' = "notfound" /\ UNCHANGED <<nudge, gen>>
    BY <1>1, <2>2, ElsewhereKeeps DEF FindInvoice, IInv, NoWayBack
  <2> QED
    BY <1>1, <2>1, <2>2 DEF FindInvoice
<1>2. CASE \E n \in Nudges : MoveSlider(n)
  BY <1>2, RunKeeps, DeskAssumption DEF MoveSlider, session
<1>3. CASE TimerFires \/ AgentsPost
  BY <1>3, AskKeeps
<1>4. CASE \E k \in 0..MaxMounts : AnswerRun(k)
  BY <1>4, ServeKeeps, DeliverKeeps DEF AnswerRun
<1>5. CASE Browse \/ LeaveForGoogle \/ OpenSettlement \/ FindSettled \/ ClearSettled
  BY <1>5, BrowseKeeps
<1>6. CASE Identify
  BY <1>6, SessionStepKeeps
<1>7. CASE \/ Accept \/ DayPasses \/ UNCHANGED vars
           \/ \E p \in Rivals : OtherDealFunds(p)
  <2>1. UNCHANGED <<page, next, nudge, gen, requests, shown, loading>>
    BY <1>7 DEF Accept, DayPasses, OtherDealFunds, vars, session, tab, arena
  <2> QED
    BY <2>1, ElsewhereKeeps
<1> QED
  BY <1>1, <1>2, <1>3, <1>4, <1>5, <1>6, <1>7 DEF Next, TabStep

----------------------------------------------------------------------------
(* The sign-in.                                                            *)

\* A row waits to be bound only where there is an organisation.
Listed == user \in {"absent", "nameless", "bound"} \/ (user = "listed" /\ platform)

\* A row that is bound stays bound; only binding it, or turning the person away,
\* gives a session; and a row appears only where there is an organisation.
LEMMA SessionStepHolds ==
  ASSUME Listed, OnlyTurnedAwayLinger, SessionStep
  PROVE  Listed' /\ OnlyTurnedAwayLinger'
<1>1. CASE LeaveLogin \/ LookUpUser \/ CallbackThrows
  BY <1>1 DEF Listed, OnlyTurnedAwayLinger, TurnedAway, LeaveLogin, LookUpUser,
     CallbackThrows
<1>2. CASE ExchangeCode
  BY <1>2 DEF Listed, OnlyTurnedAwayLinger, TurnedAway, ExchangeCode
<1>3. CASE Admit
  <2>1. CASE ~platform
    BY <1>3, <2>1 DEF Admit, Listed, OnlyTurnedAwayLinger, TurnedAway
  <2>2. CASE platform
    BY <1>3, <2>2 DEF Admit, Listed, OnlyTurnedAwayLinger, TurnedAway
  <2> QED
    BY <2>1, <2>2
<1>4. CASE Bind \/ SessionEnds
  BY <1>4 DEF Bind, SessionEnds, Listed, OnlyTurnedAwayLinger
<1>5. CASE OtherTabSignsIn
  BY <1>5 DEF OtherTabSignsIn, Listed, OnlyTurnedAwayLinger, TurnedAway
<1> QED
  BY <1>1, <1>2, <1>3, <1>4, <1>5 DEF SessionStep

\* Every other step leaves the cookie jar and the table alone.
LEMMA OthersNeedNoSession ==
  ASSUME [Next]_vars, ~Identify
  PROVE  UNCHANGED <<signed, user, platform>>
<1>1. ASSUME NEW p, Leave(p)
      PROVE  UNCHANGED <<signed, user, platform>>
  BY <1>1 DEF Leave, identity
<1>2. CASE TabStep
  BY <1>1, <1>2 DEF TabStep, FindInvoice, TimerFires, OpenSettlement, FindSettled,
     ClearSettled, identity, session
<1>3. CASE Browse
  BY <1>1, <1>3 DEF Browse, EnterHome, BrandLink, SwitchRole, OpenInvoice, RunAuction,
     BackToInvoice, BackToMarket, OpenAddress, Follow, LoadBoard, ReadInvoice, ReadMarket,
     OpenMarketPage, identity
<1>4. CASE LeaveForGoogle
  BY <1>4 DEF LeaveForGoogle, SignIn
<1>5. CASE \/ Accept \/ AgentsPost \/ DayPasses \/ UNCHANGED vars
           \/ \E n \in Nudges : MoveSlider(n)
           \/ \E p \in Rivals : OtherDealFunds(p)
           \/ \E k \in 0..MaxMounts : AnswerRun(k)
  BY <1>5 DEF Accept, AgentsPost, DayPasses, MoveSlider, OtherDealFunds, AnswerRun, Serve,
     Deliver, session, vars
<1> QED
  BY <1>2, <1>3, <1>4, <1>5 DEF Next

----------------------------------------------------------------------------
(* Costs are fractions.                                                    *)

Fraction(q) ==
    /\ q = <<q[1], q[2]>> /\ q[1] \in Int /\ q[2] \in Nat
    /\ q[2] = 0 => q[1] > 0

LEMMA ProductKeepsOrder ==
  ASSUME NEW x \in Int, NEW y \in Int, NEW k \in Nat, x <= y
  PROVE  x * k <= y * k
OBVIOUS

LEMMA ProductTellsOrder ==
  ASSUME NEW x \in Int, NEW y \in Int, NEW k \in Nat, k > 0, x * k <= y * k
  PROVE  x <= y
OBVIOUS

LEMMA ProductIsPositive ==
  ASSUME NEW x \in Nat, NEW y \in Nat, x > 0, y > 0
  PROVE  x * y \in Nat /\ x * y > 0
OBVIOUS

\* Comparing cross products orders fractions totally, infinity last.
LEMMA AtMostIs ==
  ASSUME NEW a, NEW b, Fraction(a), Fraction(b)
  PROVE  /\ AtMost(a, b) <=> a[1] * b[2] <= b[1] * a[2]
         /\ Less(a, b) <=> ~AtMost(b, a)
         /\ AtMost(a, b) \/ AtMost(b, a)
BY DEF Fraction, AtMost, Less

LEMMA AtMostTransitive ==
  ASSUME NEW a, NEW b, NEW c, Fraction(a), Fraction(b), Fraction(c),
         AtMost(a, b), AtMost(b, c)
  PROVE  AtMost(a, c)
<1> DEFINE a1 == a[1]
           a2 == a[2]
           b1 == b[1]
           b2 == b[2]
           c1 == c[1]
           c2 == c[2]
<1>1. /\ a1 \in Int /\ b1 \in Int /\ c1 \in Int
      /\ a2 \in Nat /\ b2 \in Nat /\ c2 \in Nat
      /\ b2 = 0 => b1 > 0
      /\ c2 = 0 => c1 > 0
  BY DEF Fraction
<1>2. a1 * b2 <= b1 * a2 /\ b1 * c2 <= c1 * b2
  BY AtMostIs
<1>3. SUFFICES a1 * c2 <= c1 * a2
  BY AtMostIs
<1> HIDE DEF a1, a2, b1, b2, c1, c2
<1>4. CASE b2 > 0
  <2>1. (a1 * b2) * c2 <= (b1 * a2) * c2
    BY <1>1, <1>2, ProductKeepsOrder
  <2>2. (b1 * c2) * a2 <= (c1 * b2) * a2
    BY <1>1, <1>2, ProductKeepsOrder
  <2>3. (a1 * c2) * b2 <= (c1 * a2) * b2
    BY <1>1, <2>1, <2>2
  <2> QED
    BY <1>1, <1>4, <2>3, ProductTellsOrder
<1>5. CASE b2 = 0
  <2>1. b1 * c2 <= 0 /\ b1 > 0
    BY <1>1, <1>2, <1>5
  <2>2. c2 = 0
    BY <1>1, <2>1
  <2> QED
    BY <1>1, <2>2
<1> QED
  BY <1>1, <1>4, <1>5

----------------------------------------------------------------------------
(* Dates.                                                                  *)

LEMMA RollForwardIsDate ==
  ASSUME NEW day \in Int
  PROVE  RollForward(day) \in Int
<1> DEFINE open(d) == /\ ~IsWeekend(d)
                      /\ \A e \in day..(d - 1) : IsWeekend(e)
<1>1. CASE ~IsWeekend(day)
  <2>1. day \in day..(day + 2) /\ open(day)
    BY <1>1
  <2> QED
    BY <2>1 DEF RollForward
<1>2. CASE IsWeekend(day) /\ ~IsWeekend(day + 1)
  <2>1. day + 1 \in day..(day + 2) /\ open(day + 1)
    BY <1>2
  <2> QED
    BY <2>1 DEF RollForward
<1>3. CASE IsWeekend(day) /\ IsWeekend(day + 1)
  <2>1. day + 2 \in day..(day + 2) /\ ~IsWeekend(day + 2)
    BY <1>3 DEF IsWeekend
  <2>2. \A e \in day..((day + 2) - 1) : e = day \/ e = day + 1
    OBVIOUS
  <2>3. open(day + 2)
    BY <1>3, <2>1, <2>2
  <2> QED
    BY <2>1, <2>3 DEF RollForward
<1> QED
  BY <1>1, <1>2, <1>3

\* What the recursive definition says of a function over the first n days.
CountsOver(cursor, day, n) ==
    cursor = [k \in 0..n |-> IF k = 0 THEN RollForward(day)
                             ELSE RollForward(cursor[k - 1] + 1)]

LEMMA CountExists ==
  ASSUME NEW day, NEW n \in Nat
  PROVE  \E cursor : CountsOver(cursor, day, n)
<1> USE DEF CountsOver
<1> DEFINE Good == {m \in Nat : \E cursor : CountsOver(cursor, day, m)}
<1>1. 0 \in Good
  <2> DEFINE c == [k \in 0..0 |-> RollForward(day)]
  <2>1. CountsOver(c, day, 0)
    OBVIOUS
  <2> HIDE DEF c
  <2> QED
    BY <2>1
<1>2. ASSUME NEW m \in Nat, m \in Good PROVE m + 1 \in Good
  <2>1. PICK f : CountsOver(f, day, m)
    BY <1>2
  <2> DEFINE g == [k \in 0..(m + 1) |-> IF k <= m THEN f[k] ELSE RollForward(f[m] + 1)]
  <2>2. ASSUME NEW k \in 0..(m + 1)
        PROVE  g[k] = IF k = 0 THEN RollForward(day) ELSE RollForward(g[k - 1] + 1)
    <3>1. CASE k = 0
      BY <2>1, <3>1
    <3>2. CASE k # 0 /\ k <= m
      <4>1. k \in 0..m /\ k - 1 \in 0..(m + 1) /\ k - 1 <= m
        BY <3>2
      <4>2. f[k] = RollForward(f[k - 1] + 1)
        BY <2>1, <3>2, <4>1
      <4> QED
        BY <3>2, <4>1, <4>2
    <3>3. CASE k = m + 1
      BY <3>3
    <3> QED
      BY <3>1, <3>2, <3>3
  <2>3. g = [k \in 0..(m + 1) |-> g[k]]
    OBVIOUS
  <2> HIDE DEF g
  <2>4. CountsOver(g, day, m + 1)
    BY <2>2, <2>3
  <2> QED
    BY <2>4
<1> HIDE DEF Good, CountsOver
<1>3. n \in Good
  BY <1>1, <1>2, NatSetInduction
<1> QED
  BY <1>3 DEF Good

LEMMA BusinessDayIsDate ==
  ASSUME NEW day \in Int, NEW n \in Nat
  PROVE  AddBusinessDays(day, n) \in Int
<1> DEFINE cursor == Cursors(day, n)
<1>1. cursor = CHOOSE c : CountsOver(c, day, n)
  BY DEF Cursors, CountsOver
<1>2. CountsOver(cursor, day, n)
  BY <1>1, CountExists
<1> HIDE DEF cursor
<1> DEFINE Good == {k \in Nat : k <= n => cursor[k] \in Int}
<1>3. 0 \in Good
  BY <1>2, RollForwardIsDate DEF CountsOver
<1>4. ASSUME NEW k \in Nat, k \in Good PROVE k + 1 \in Good
  <2>1. CASE k + 1 <= n
    <3>1. cursor[k + 1] = RollForward(cursor[k] + 1)
      BY <1>2, <2>1 DEF CountsOver
    <3>2. cursor[k] \in Int
      BY <1>4, <2>1
    <3> QED
      BY <3>1, <3>2, RollForwardIsDate
  <2> QED
    BY <2>1
<1>5. n \in Good
  <2> HIDE DEF Good
  <2> QED
    BY <1>3, <1>4, NatSetInduction
<1> QED
  BY <1>5 DEF cursor, AddBusinessDays

----------------------------------------------------------------------------
(* Scored offers.                                                          *)

IsOffer(offer) ==
    /\ offer.advanceRate \in Int /\ offer.annualRate \in Int
    /\ offer.fees \in Int /\ offer.tenor \in Int /\ offer.settlementDays \in Nat

IsScored(s) ==
    /\ s.net \in Int /\ s.arrival \in Int
    /\ Fraction(s.cost) /\ (s.cost[2] = 0 => s.cost = Infinite)

LEMMA RoundedIsInt ==
  ASSUME NEW n \in Int, NEW d \in Nat, d > 0
  PROVE  (2 * n + d) \div (2 * d) \in Int
OBVIOUS

LEMMA EconomicsAreTyped ==
  ASSUME NEW offer, IsOffer(offer), NEW face \in Int, NEW asOf \in Int
  PROVE  IsScored(Economics(offer, face, asOf))
<1> DEFINE adv == AdvanceOf(face, offer.advanceRate)
           charge == DiscountCharge(adv, offer.annualRate, offer.tenor)
           net == adv - charge - offer.fees
           arrival == AddBusinessDays(asOf, offer.settlementDays)
           cost == EffectiveCost(charge + offer.fees, net, offer.tenor)
<1>1. Scale \in Nat /\ Scale > 0 /\ YearDays \in Nat /\ YearDays > 0
  BY ScoringAssumption
<1>2. adv \in Int
  <2>1. face * offer.advanceRate \in Int
    BY DEF IsOffer
  <2> QED
    BY <1>1, <2>1, RoundedIsInt DEF AdvanceOf, Rounded
<1>3. charge \in Int
  <2> HIDE DEF adv
  <2>1. adv * offer.annualRate * offer.tenor \in Int
    BY <1>2 DEF IsOffer
  <2>2. Scale * YearDays \in Nat /\ Scale * YearDays > 0
    BY <1>1, ProductIsPositive
  <2> QED
    BY <2>1, <2>2, RoundedIsInt DEF DiscountCharge, Rounded
<1>4. arrival \in Int
  BY BusinessDayIsDate DEF IsOffer
<1> HIDE DEF adv, charge, arrival
<1>5. net \in Int /\ charge + offer.fees \in Int
  BY <1>2, <1>3 DEF IsOffer
<1> HIDE DEF net
<1>6. Fraction(cost) /\ (cost[2] = 0 => cost = Infinite)
  <2>1. CASE net <= 0 \/ offer.tenor <= 0
    BY <2>1 DEF EffectiveCost, Infinite, Fraction
  <2>2. CASE ~(net <= 0 \/ offer.tenor <= 0)
    <3>1. net * offer.tenor \in Nat /\ net * offer.tenor > 0
      BY <1>5, <2>2, ProductIsPositive DEF IsOffer
    <3>2. (charge + offer.fees) * YearDays * Scale \in Int
      BY <1>1, <1>5
    <3>3. cost = <<(charge + offer.fees) * YearDays * Scale, net * offer.tenor>>
      BY <2>2 DEF EffectiveCost
    <3> QED
      BY <3>1, <3>2, <3>3 DEF Fraction
  <2> QED
    BY <2>1, <2>2
<1> HIDE DEF cost
<1>7. IsScored([offer |-> offer, advance |-> adv, net |-> net, cost |-> cost,
                arrival |-> arrival])
  BY <1>4, <1>5, <1>6 DEF IsScored
<1> QED
  BY <1>7 DEF Economics, adv, charge, net, cost, arrival

\* The offers of an answer, as the pipeline takes them.
AreOffers(bids) == Len(bids) \in Nat /\ \A i \in 1..Len(bids) : IsOffer(bids[i])

AreScored(scored) ==
    \E n \in Nat : DOMAIN scored = 1..n /\ \A i \in 1..n : IsScored(scored[i])

LEMMA ScoredAreTyped ==
  ASSUME NEW bids, AreOffers(bids), NEW face \in Int, NEW asOf \in Int
  PROVE  AreScored(Scored(bids, face, asOf))
BY EconomicsAreTyped DEF AreOffers, AreScored, Scored

----------------------------------------------------------------------------
(* The ranking.                                                            *)

\* Math.min over some integers is one of them.
LEMMA MinIsLeast ==
  ASSUME NEW S, IsFiniteSet(S), S # {}, S \subseteq Int
  PROVE  Min(S) \in S /\ \A n \in S : Min(S) <= n
<1> DEFINE R == {p \in S \X S : p[1] < p[2]}
<1>0. \A x \in S : x \in Int
  OBVIOUS
<1>1. \A x, y \in S : <<x, y>> \in R <=> x < y
  OBVIOUS
<1> HIDE DEF R
<1>2. \E m \in S : \A x \in S : x = m \/ <<m, x>> \in R
  <2>1. \A x, y \in S : x = y \/ <<x, y>> \in R \/ <<y, x>> \in R
    <3> SUFFICES ASSUME NEW x \in S, NEW y \in S, x # y
                 PROVE  <<x, y>> \in R \/ <<y, x>> \in R
      OBVIOUS
    <3>1. x \in Int /\ y \in Int /\ (x < y \/ y < x)
      BY <1>0
    <3> QED
      BY <1>1, <3>1
  <2>2. \A x, y, z \in S : <<x, y>> \in R /\ <<y, z>> \in R => <<x, z>> \in R
    BY <1>1
  <2>3. \A U \in SUBSET S : U # {} => \E m \in U : \A x \in U : x = m \/ <<m, x>> \in R
    BY ONLY <2>1, <2>2, IsFiniteSet(S), FirstExists
  <2> QED
    BY <2>3
<1>3. \E m \in S : \A x \in S : m <= x
  <2>1. PICK m \in S : \A x \in S : x = m \/ <<m, x>> \in R
    BY <1>2
  <2>2. ASSUME NEW x \in S PROVE m <= x
    <3>1. m \in Int /\ x \in Int
      BY <1>0
    <3>2. x = m \/ m < x
      BY <1>1, <2>1
    <3> QED
      BY <3>1, <3>2
  <2> QED
    BY <2>2
<1> QED
  BY <1>3 DEF Min

\* The sort keys are fractions too, and so are ordered totally.
LEMMA KeyIsFraction ==
  ASSUME NEW s, IsScored(s), NEW e \in Int, NEW n \in Nat
  PROVE  /\ Fraction(RankKey(s, e, n))
         /\ RankKey(s, e, n)[2] = s.cost[2]
<1> DEFINE c1 == s.cost[1]
           c2 == s.cost[2]
           days == s.arrival - e
<1>1. /\ c1 \in Int /\ c2 \in Nat /\ days \in Int /\ (c2 = 0 => c1 > 0)
      /\ Scale \in Nat /\ Scale > 0 /\ MaxPremium \in Nat
  BY ScoringAssumption DEF IsScored, Fraction
<1>2. RankKey(s, e, n) = <<c1 * Scale + days * n * MaxPremium * c2, c2>>
  BY DEF RankKey
<1> HIDE DEF c1, c2, days
<1>3. c1 * Scale + days * n * MaxPremium * c2 \in Int
  BY <1>1
<1>4. c2 = 0 => c1 * Scale + days * n * MaxPremium * c2 > 0
  <2> SUFFICES ASSUME c2 = 0 PROVE c1 * Scale + days * n * MaxPremium * c2 > 0
    OBVIOUS
  <2>1. days * n * MaxPremium * c2 = 0
    BY <1>1
  <2>2. c1 * Scale > 0
    BY <1>1, ProductIsPositive
  <2> QED
    BY <1>1, <2>1, <2>2
<1>5. Fraction(RankKey(s, e, n)) /\ RankKey(s, e, n)[2] = c2
  BY <1>1, <1>2, <1>3, <1>4 DEF Fraction
<1> QED
  BY <1>5 DEF c2

\* The comparator is a strict total order on the places.
LEMMA ComparatorOrders ==
  ASSUME NEW scored, AreScored(scored), NEW e \in Int, NEW n \in Nat
  PROVE  /\ \A i, j \in DOMAIN scored :
               i = j \/ RanksBefore(scored, e, n, i, j) \/ RanksBefore(scored, e, n, j, i)
         /\ \A i, j, k \in DOMAIN scored :
               RanksBefore(scored, e, n, i, j) /\ RanksBefore(scored, e, n, j, k)
                  => RanksBefore(scored, e, n, i, k)
         /\ \A i, j \in DOMAIN scored :
               RanksBefore(scored, e, n, i, j) => ~RanksBefore(scored, e, n, j, i)
<1> DEFINE K(i) == RankKey(scored[i], e, n)
<1>1. \A i \in DOMAIN scored :
          i \in Nat /\ scored[i].net \in Int /\ Fraction(K(i))
  <2>1. \A i \in DOMAIN scored : i \in Nat /\ IsScored(scored[i])
    BY DEF AreScored
  <2>2. \A i \in DOMAIN scored : Fraction(K(i))
    BY <2>1, KeyIsFraction
  <2> QED
    BY <2>1, <2>2 DEF IsScored
<1>2. \A i, j \in DOMAIN scored : AtMost(K(i), K(j)) \/ AtMost(K(j), K(i))
  BY <1>1, AtMostIs
<1>3. \A i, j, k \in DOMAIN scored :
          AtMost(K(i), K(j)) /\ AtMost(K(j), K(k)) => AtMost(K(i), K(k))
  BY <1>1, AtMostTransitive
<1>4. \A i, j \in DOMAIN scored :
          AtMost(K(i), K(j)) /\ AtMost(K(j), K(i)) => (K(i)[2] = 0 <=> K(j)[2] = 0)
  <2> SUFFICES ASSUME NEW i \in DOMAIN scored, NEW j \in DOMAIN scored,
                      AtMost(K(i), K(j)), AtMost(K(j), K(i))
               PROVE  K(i)[2] = 0 <=> K(j)[2] = 0
    OBVIOUS
  <2>1. Fraction(K(i)) /\ Fraction(K(j))
    BY <1>1
  <2>2. K(i)[1] * K(j)[2] = K(j)[1] * K(i)[2]
    <3> HIDE DEF K
    <3>1. K(i)[1] * K(j)[2] \in Int /\ K(j)[1] * K(i)[2] \in Int
      BY <2>1 DEF Fraction
    <3> QED
      BY <2>1, <3>1, AtMostIs
  <2> HIDE DEF K
  <2> QED
    BY <2>1, <2>2 DEF Fraction
<1> DEFINE More(i, j) == IF K(i)[2] = 0 THEN 0 ELSE scored[i].net - scored[j].net
<1>5. \A i, j \in DOMAIN scored :
          RanksBefore(scored, e, n, i, j) <=>
              \/ ~AtMost(K(j), K(i))
              \/ AtMost(K(i), K(j)) /\ (More(i, j) > 0 \/ (More(i, j) = 0 /\ i < j))
  BY DEF RanksBefore, AtMost
<1> HIDE DEF K
<1>6. ASSUME NEW i \in DOMAIN scored, NEW j \in DOMAIN scored
      PROVE  i = j \/ RanksBefore(scored, e, n, i, j) \/ RanksBefore(scored, e, n, j, i)
  BY <1>1, <1>2, <1>4, <1>5
<1>7. ASSUME NEW i \in DOMAIN scored, NEW j \in DOMAIN scored, NEW k \in DOMAIN scored,
             RanksBefore(scored, e, n, i, j), RanksBefore(scored, e, n, j, k)
      PROVE  RanksBefore(scored, e, n, i, k)
  <2>1. AtMost(K(i), K(j)) /\ AtMost(K(j), K(k)) /\ AtMost(K(i), K(k))
    BY <1>2, <1>3, <1>5, <1>7
  <2>2. CASE ~AtMost(K(k), K(i))
    BY <1>5, <2>2
  <2>3. CASE AtMost(K(k), K(i))
    <3>1. AtMost(K(j), K(i)) /\ AtMost(K(k), K(j))
      BY <1>3, <2>1, <2>3
    <3>2. (K(i)[2] = 0 <=> K(j)[2] = 0) /\ (K(j)[2] = 0 <=> K(k)[2] = 0)
      BY <1>4, <2>1, <3>1
    <3>3. /\ More(i, j) > 0 \/ (More(i, j) = 0 /\ i < j)
          /\ More(j, k) > 0 \/ (More(j, k) = 0 /\ j < k)
      BY <1>5, <1>7, <2>1, <3>1
    <3>4. More(i, k) > 0 \/ (More(i, k) = 0 /\ i < k)
      BY <1>1, <3>2, <3>3
    <3> QED
      BY <1>5, <2>1, <3>4
  <2> QED
    BY <2>2, <2>3
<1>8. ASSUME NEW i \in DOMAIN scored, NEW j \in DOMAIN scored,
             RanksBefore(scored, e, n, i, j), RanksBefore(scored, e, n, j, i)
      PROVE  FALSE
  <2>1. AtMost(K(i), K(j)) /\ AtMost(K(j), K(i))
    BY <1>2, <1>5, <1>8
  <2>2. /\ More(i, j) > 0 \/ (More(i, j) = 0 /\ i < j)
        /\ More(j, i) > 0 \/ (More(j, i) = 0 /\ j < i)
    BY <1>5, <1>8, <2>1
  <2> QED
    BY <1>1, <1>4, <2>1, <2>2
<1> QED
  BY <1>6, <1>7, <1>8

\* The earliest arrival among the survivors.
EarliestArrival(scored, utility) ==
    Min({scored[k].arrival : k \in Survivors(scored, utility)})

LEMMA SurvivorsAreFinite ==
  ASSUME NEW scored, AreScored(scored), NEW utility
  PROVE  /\ Survivors(scored, utility) \subseteq DOMAIN scored
         /\ IsFiniteSet(Survivors(scored, utility))
         /\ Survivors(scored, utility) # {} => EarliestArrival(scored, utility) \in Int
<1>1. Survivors(scored, utility) \subseteq DOMAIN scored
  BY DEF Survivors
<1>2. IsFiniteSet(Survivors(scored, utility))
  <2>1. PICK n \in Nat : DOMAIN scored = 1..n
    BY DEF AreScored
  <2>2. IsFiniteSet(1..n)
    BY FS_Interval
  <2> QED
    BY <1>1, <2>1, <2>2, FS_Subset
<1>3. ASSUME Survivors(scored, utility) # {}
      PROVE  EarliestArrival(scored, utility) \in Int
  <2> DEFINE kept == Survivors(scored, utility)
             dates == {scored[k].arrival : k \in kept}
  <2>1. IsFiniteSet(kept) /\ kept # {}
    BY <1>2, <1>3
  <2>2. dates # {} /\ dates \subseteq Int
    BY <1>1, <2>1 DEF AreScored, IsScored
  <2> HIDE DEF kept
  <2>3. IsFiniteSet(dates)
    <3> DEFINE f == [k \in kept |-> scored[k].arrival]
    <3>1. f \in Surjection(kept, dates)
      BY DEF Surjection
    <3> HIDE DEF f, dates
    <3> QED
      BY <2>1, <3>1, FS_Surjection
  <2> HIDE DEF dates
  <2>4. Min(dates) \in Int
    BY <2>2, <2>3, MinIsLeast
  <2> QED
    BY <2>4 DEF EarliestArrival, dates, kept
<1> QED
  BY <1>1, <1>2, <1>3

\* When anything is ranked, the place ranked first is a survivor's, and no
\* survivor ranks before it.
LEMMA RankedFirst ==
  ASSUME NEW scored, AreScored(scored), NEW utility, NEW n \in Nat,
         Ranking(scored, utility, n) # <<>>
  PROVE  LET w == Ranking(scored, utility, n)[1]
             e == EarliestArrival(scored, utility)
         IN  /\ w \in Survivors(scored, utility)
             /\ e \in Int
             /\ \A j \in Survivors(scored, utility) : ~RanksBefore(scored, e, n, j, w)
<1> DEFINE kept == Survivors(scored, utility)
           e == EarliestArrival(scored, utility)
           before(i) == {j \in kept \ {i} : RanksBefore(scored, e, n, j, i)}
           order == Ranking(scored, utility, n)
<1>1. order = [r \in 1..Cardinality(kept) |->
                  CHOOSE i \in kept : Cardinality(before(i)) = r - 1]
  BY DEF Ranking, EarliestArrival
<1>2. IsFiniteSet(kept) /\ Cardinality(kept) \in Nat /\ kept \subseteq DOMAIN scored
  BY SurvivorsAreFinite, FS_CardinalityType
<1>3. kept # {}
  <2>1. order # <<>>
    OBVIOUS
  <2> HIDE DEF order, before, kept
  <2>2. kept = {} => Cardinality(kept) = 0
    BY FS_EmptySet
  <2>3. SUFFICES ASSUME Cardinality(kept) = 0 PROVE order = <<>>
    BY <2>1, <2>2
  <2>4. 1..Cardinality(kept) = {}
    BY <2>3
  <2> QED
    BY <1>1, <2>4
<1>4. e \in Int
  BY <1>3, SurvivorsAreFinite
<1> HIDE DEF e
<1>5. /\ \A i, j \in kept :
            i = j \/ RanksBefore(scored, e, n, i, j) \/ RanksBefore(scored, e, n, j, i)
      /\ \A i, j, k \in kept :
            RanksBefore(scored, e, n, i, j) /\ RanksBefore(scored, e, n, j, k)
               => RanksBefore(scored, e, n, i, k)
      /\ \A i, j \in kept :
            RanksBefore(scored, e, n, i, j) => ~RanksBefore(scored, e, n, j, i)
  <2> HIDE DEF kept
  <2> QED
    BY <1>2, <1>4, ComparatorOrders
<1> HIDE DEF kept, order
<1>6. PICK m \in kept : \A j \in kept : j = m \/ RanksBefore(scored, e, n, m, j)
  <2> DEFINE R == {p \in kept \X kept : RanksBefore(scored, e, n, p[1], p[2])}
  <2>1. \A i, j \in kept : <<i, j>> \in R <=> RanksBefore(scored, e, n, i, j)
    OBVIOUS
  <2> HIDE DEF R
  <2>2. \A x, y \in kept : x = y \/ <<x, y>> \in R \/ <<y, x>> \in R
    BY <1>5, <2>1
  <2>3. \A x, y, z \in kept : <<x, y>> \in R /\ <<y, z>> \in R => <<x, z>> \in R
    BY <1>5, <2>1
  <2>4. \A U \in SUBSET kept : U # {} => \E k \in U : \A x \in U : x = k \/ <<k, x>> \in R
    BY ONLY <2>2, <2>3, <1>2, FirstExists
  <2>5. PICK k \in kept : \A x \in kept : x = k \/ <<k, x>> \in R
    BY <1>3, <2>4
  <2> QED
    BY <2>1, <2>5
<1>7. before(m) = {}
  BY <1>5, <1>6
<1> DEFINE first(i) == Cardinality(before(i)) = 0
<1>8. order[1] = CHOOSE i \in kept : first(i)
  <2>1. Cardinality(kept) # 0
    BY <1>2, <1>3, FS_EmptySet
  <2>2. 1 \in 1..Cardinality(kept)
    BY <1>2, <2>1
  <2>3. order[1] = CHOOSE i \in kept : Cardinality(before(i)) = 1 - 1
    <3> HIDE DEF before
    <3> QED
      BY <1>1, <2>2
  <2> QED
    BY <2>3
<1>9. order[1] \in kept /\ first(order[1])
  <2>1. first(m)
    BY <1>7, FS_EmptySet
  <2> HIDE DEF first
  <2> QED
    BY <1>6, <1>8, <2>1
<1>10. before(order[1]) = {}
  <2>1. before(order[1]) \subseteq kept
    OBVIOUS
  <2>2. IsFiniteSet(before(order[1]))
    BY <1>2, <2>1, FS_Subset
  <2> HIDE DEF before
  <2> QED
    BY <1>9, <2>2, FS_EmptySet
<1>11. \A j \in kept : ~RanksBefore(scored, e, n, j, order[1])
  BY <1>5, <1>9, <1>10
<1> QED
  BY <1>4, <1>9, <1>11 DEF e, kept, order

----------------------------------------------------------------------------
(* What the first rank means for cost, cash and arrival.                   *)

\* The comparison of two sort keys, multiplied out: the earliest arrival
\* cancels.
LEMMA KeysCompare ==
  ASSUME NEW s, NEW t, IsScored(s), IsScored(t), NEW e \in Int, NEW n \in Nat
  PROVE  AtMost(RankKey(s, e, n), RankKey(t, e, n)) <=>
            (s.cost[1] * t.cost[2]) * Scale
                <= (t.cost[1] * s.cost[2]) * Scale
                   + ((t.arrival - s.arrival) * (n * MaxPremium)) * (s.cost[2] * t.cost[2])
<1> DEFINE s1 == s.cost[1]
           s2 == s.cost[2]
           t1 == t.cost[1]
           t2 == t.cost[2]
           sa == s.arrival
           ta == t.arrival
           p == n * MaxPremium
           S == Scale
<1>1. /\ s1 \in Int /\ s2 \in Nat /\ t1 \in Int /\ t2 \in Nat /\ sa \in Int /\ ta \in Int
      /\ S \in Nat /\ MaxPremium \in Nat
  BY ScoringAssumption DEF IsScored, Fraction
<1>2. p \in Nat
  BY <1>1
<1>3. /\ RankKey(s, e, n) = <<s1 * S + (sa - e) * n * MaxPremium * s2, s2>>
      /\ RankKey(t, e, n) = <<t1 * S + (ta - e) * n * MaxPremium * t2, t2>>
  BY DEF RankKey
<1>4. AtMost(RankKey(s, e, n), RankKey(t, e, n)) <=>
          (s1 * S + (sa - e) * n * MaxPremium * s2) * t2
             <= (t1 * S + (ta - e) * n * MaxPremium * t2) * s2
  BY <1>3, KeyIsFraction, AtMostIs
<1> HIDE DEF s1, s2, t1, t2, sa, ta, p, S
<1>5. /\ (sa - e) * n * MaxPremium = (sa - e) * p
      /\ (ta - e) * n * MaxPremium = (ta - e) * p
  BY <1>1 DEF p
<1>6. (s1 * S + ((sa - e) * p) * s2) * t2
         = (s1 * t2) * S + ((sa - e) * p) * (s2 * t2)
  BY <1>1, <1>2
<1>7. (t1 * S + ((ta - e) * p) * t2) * s2
         = (t1 * s2) * S + ((ta - e) * p) * (s2 * t2)
  BY <1>1, <1>2
<1>8. ((ta - e) * p) * (s2 * t2)
         = ((ta - sa) * p) * (s2 * t2) + ((sa - e) * p) * (s2 * t2)
  BY <1>1, <1>2
<1>9. AtMost(RankKey(s, e, n), RankKey(t, e, n)) <=>
          (s1 * t2) * S <= (t1 * s2) * S + ((ta - sa) * p) * (s2 * t2)
  BY <1>1, <1>2, <1>4, <1>5, <1>6, <1>7, <1>8
<1> QED
  BY <1>9 DEF s1, s2, t1, t2, sa, ta, p, S

\* A survivor the winner is more expensive than lands later, by enough days.
LEMMA FirstRankIsWorthIt ==
  ASSUME NEW w, NEW o, IsScored(w), IsScored(o), NEW e \in Int, NEW n \in Nat,
         AtMost(RankKey(w, e, n), RankKey(o, e, n)), Less(o.cost, w.cost)
  PROVE  LET saved == o.arrival - w.arrival IN
         /\ saved > 0
         /\ AtMost(<<w.cost[1] * Scale, w.cost[2]>>,
                   <<o.cost[1] * Scale + saved * n * MaxPremium * o.cost[2], o.cost[2]>>)
<1> DEFINE w1 == w.cost[1]
           w2 == w.cost[2]
           o1 == o.cost[1]
           o2 == o.cost[2]
           saved == o.arrival - w.arrival
           p == n * MaxPremium
           S == Scale
           x == w1 * o2
           y == o1 * w2
           d == w2 * o2
<1>1. /\ w1 \in Int /\ w2 \in Nat /\ o1 \in Int /\ o2 \in Nat /\ saved \in Int
      /\ S \in Nat /\ S > 0 /\ MaxPremium \in Nat
  BY ScoringAssumption DEF IsScored, Fraction
<1>2. x * S <= y * S + (saved * p) * d
  BY KeysCompare
<1>3. y < x
  BY <1>1 DEF Less
<1>4. p \in Nat /\ x \in Int /\ y \in Int /\ d \in Nat
  BY <1>1
<1>5. AtMost(<<w1 * S, w2>>, <<o1 * S + saved * n * MaxPremium * o2, o2>>)
         <=> (w1 * S) * o2 <= (o1 * S + saved * n * MaxPremium * o2) * w2
  <2>1. (w1 * S) * o2 \in Int /\ (o1 * S + saved * n * MaxPremium * o2) * w2 \in Int
    BY <1>1
  <2> HIDE DEF w1, w2, o1, o2, saved, S
  <2> QED
    BY <2>1 DEF AtMost, Less
<1> HIDE DEF w1, w2, o1, o2, saved, S
<1>6. (w1 * S) * o2 = x * S
  BY <1>1
<1>7. (o1 * S + saved * n * MaxPremium * o2) * w2 = y * S + (saved * p) * d
  <2>1. saved * n * MaxPremium = saved * p
    BY <1>1
  <2> HIDE DEF p
  <2>2. (o1 * S + (saved * p) * o2) * w2 = (o1 * w2) * S + (saved * p) * (w2 * o2)
    BY <1>1, <1>4
  <2> QED
    BY <2>1, <2>2
<1>8. saved > 0
  <2> HIDE DEF x, y, p, d
  <2>1. y * S < x * S
    <3>1. y + 1 <= x
      BY <1>3, <1>4
    <3>2. (y + 1) * S <= x * S
      BY <1>1, <1>4, <3>1, ProductKeepsOrder
    <3>3. (y + 1) * S = y * S + S
      BY <1>1, <1>4
    <3> QED
      BY <1>1, <1>4, <3>2, <3>3
  <2>2. (saved * p) * d > 0
    BY <1>1, <1>2, <1>4, <2>1
  <2> SUFFICES ASSUME saved <= 0 PROVE FALSE
    BY <1>1
  <2>3. saved * p <= 0 * p /\ saved * p \in Int
    BY <1>1, <1>4, ProductKeepsOrder
  <2>4. (saved * p) * d <= 0 * d
    BY <1>4, <2>3, ProductKeepsOrder
  <2> QED
    BY <1>1, <1>4, <2>2, <2>4
<1>9. AtMost(<<w1 * S, w2>>, <<o1 * S + saved * n * MaxPremium * o2, o2>>)
  BY <1>2, <1>5, <1>6, <1>7
<1> QED
  BY <1>8, <1>9 DEF w1, w2, o1, o2, saved, S

\* At no nudge the first rank is the lowest cost.
LEMMA FirstRankIsCheapest ==
  ASSUME NEW w, NEW o, IsScored(w), IsScored(o), NEW e \in Int,
         AtMost(RankKey(w, e, 0), RankKey(o, e, 0))
  PROVE  AtMost(w.cost, o.cost)
<1> SUFFICES ASSUME Less(o.cost, w.cost) PROVE FALSE
  BY DEF AtMost
<1> DEFINE x == w.cost[1] * o.cost[2]
           y == o.cost[1] * w.cost[2]
           d == w.cost[2] * o.cost[2]
           saved == o.arrival - w.arrival
<1>1. x \in Int /\ y \in Int /\ d \in Nat /\ saved \in Int /\ MaxPremium \in Nat
  BY ScoringAssumption DEF IsScored, Fraction
<1>2. x * Scale <= y * Scale + (saved * (0 * MaxPremium)) * d
  BY KeysCompare
<1>3. y < x
  BY DEF Less
<1> HIDE DEF x, y, d, saved
<1>4. (saved * (0 * MaxPremium)) * d = 0
  BY <1>1
<1>5. Scale \in Nat /\ Scale > 0
  BY ScoringAssumption
<1>6. x * Scale <= y * Scale
  BY <1>1, <1>2, <1>4, <1>5
<1> QED
  BY <1>1, <1>3, <1>5, <1>6, ProductTellsOrder

\* Nothing that loses on nothing, and gains on something, ranks after, unless
\* it gains only days and days count for nothing.
LEMMA FirstRankIsUnbeaten ==
  ASSUME NEW w, NEW o, IsScored(w), IsScored(o), NEW e \in Int, NEW n \in Nat,
         w.cost[2] # 0, Dominates(o, w),
         AtMost(RankKey(w, e, n), RankKey(o, e, n)),
         \/ ~AtMost(RankKey(o, e, n), RankKey(w, e, n))
         \/ o.cost[2] = 0
         \/ o.net <= w.net
  PROVE  n = 0 /\ o.net = w.net /\ ~Less(o.cost, w.cost)
<1> DEFINE x == w.cost[1] * o.cost[2]
           y == o.cost[1] * w.cost[2]
           d == w.cost[2] * o.cost[2]
           saved == o.arrival - w.arrival
           p == n * MaxPremium
           S == Scale
<1>1. /\ x \in Int /\ y \in Int /\ d \in Nat /\ saved \in Int /\ p \in Nat
      /\ S \in Nat /\ S > 0 /\ MaxPremium \in Nat /\ MaxPremium > 0
      /\ w.net \in Int /\ o.net \in Int
  BY ScoringAssumption DEF IsScored, Fraction
<1>2. y <= x /\ (Less(o.cost, w.cost) <=> y < x)
  <2>1. AtMost(o.cost, w.cost)
    BY DEF Dominates
  <2> QED
    BY <1>1, <2>1 DEF AtMost, Less
<1>3. saved <= 0 /\ (o.arrival < w.arrival <=> saved < 0)
  BY DEF Dominates, IsScored
<1>4. d > 0 /\ o.cost[2] # 0
  <2>1. o.cost[2] # 0
    <3> SUFFICES ASSUME o.cost[2] = 0 PROVE FALSE
      OBVIOUS
    <3>1. x = 0 /\ o.cost[1] > 0 /\ w.cost[2] \in Nat /\ w.cost[2] > 0
      BY DEF IsScored, Fraction
    <3>2. o.cost[1] * w.cost[2] > 0
      BY <3>1, ProductIsPositive DEF IsScored, Fraction
    <3> QED
      BY <1>1, <1>2, <3>1, <3>2
  <2> QED
    BY <2>1, ProductIsPositive DEF IsScored, Fraction
<1>5. /\ o.net >= w.net
      /\ o.net > w.net \/ Less(o.cost, w.cost) \/ o.arrival < w.arrival
  BY DEF Dominates
<1>6. x * S <= y * S + (saved * p) * d
  BY KeysCompare
<1>7. AtMost(RankKey(o, e, n), RankKey(w, e, n)) <=>
          y * S <= x * S + ((-saved) * p) * d
  <2>1. w.arrival - o.arrival = -saved /\ o.cost[2] * w.cost[2] = d
    BY DEF IsScored, Fraction
  <2>2. AtMost(RankKey(o, e, n), RankKey(w, e, n)) <=>
          y * S <= x * S + ((w.arrival - o.arrival) * p) * (o.cost[2] * w.cost[2])
    BY KeysCompare
  <2> HIDE DEF x, y, d, saved, p, S
  <2> QED
    BY <2>1, <2>2
<1> HIDE DEF x, y, d, saved, S
<1>8. y * S <= x * S
  BY <1>1, <1>2, ProductKeepsOrder
<1> DEFINE gain == (saved * p) * d
<1>9. gain \in Int /\ gain <= 0 /\ ((-saved) * p) * d = -gain
  <2> HIDE DEF p
  <2>1. saved * p <= 0 * p /\ saved * p \in Int
    BY <1>1, <1>3, ProductKeepsOrder
  <2>2. (saved * p) * d <= 0 * d
    BY <1>1, <2>1, ProductKeepsOrder
  <2>3. ((-saved) * p) * d = -((saved * p) * d)
    BY <1>1
  <2> QED
    BY <1>1, <2>1, <2>2, <2>3
<1>10. x * S \in Int /\ y * S \in Int
  BY <1>1
<1>11. gain = 0 /\ x * S = y * S /\ AtMost(RankKey(o, e, n), RankKey(w, e, n))
  <2> HIDE DEF gain
  <2>1. x * S <= y * S + gain
    BY <1>6 DEF gain
  <2>2. AtMost(RankKey(o, e, n), RankKey(w, e, n)) <=> y * S <= x * S + -gain
    BY <1>7, <1>9
  <2> QED
    BY <1>8, <1>9, <1>10, <2>1, <2>2
<1>12. o.net = w.net
  BY <1>1, <1>4, <1>5, <1>11
<1>13. x = y
  <2>1. x <= y
    BY <1>1, <1>10, <1>11, ProductTellsOrder
  <2> QED
    BY <1>1, <1>2, <2>1
<1>14. ~Less(o.cost, w.cost)
  BY <1>1, <1>2, <1>13
<1>15. saved < 0
  BY <1>1, <1>3, <1>5, <1>12, <1>14
<1>16. n = 0
  <2> SUFFICES ASSUME n # 0 PROVE FALSE
    OBVIOUS
  <2>1. p > 0
    BY <1>1, ProductIsPositive
  <2> HIDE DEF p
  <2>2. (-saved) * p \in Nat /\ (-saved) * p > 0
    BY <1>1, <1>15, <2>1, ProductIsPositive
  <2>3. ((-saved) * p) * d > 0
    BY <1>1, <1>4, <2>2, ProductIsPositive
  <2> QED
    BY <1>9, <1>11, <2>3
<1> QED
  BY <1>12, <1>14, <1>16

----------------------------------------------------------------------------
(* What is cleared: the offers, the needs and the result.                  *)

\* What the database and the clock hold.
OnRecord ==
    /\ today \in Nat /\ book \in Books
    /\ opp \in [face : {Face}, needs : NeedsOptions]

LEMMA BpsAreInt ==
  ASSUME NEW rate \in Int
  PROVE  ToBps(rate) \in Int
<1>1. Fine \in Nat /\ Fine > 0
  BY ScoringAssumption
<1> QED
  BY <1>1 DEF ToBps

LEMMA LatencyIsDays ==
  ASSUME NEW hours \in Int
  PROVE  LatencyHoursToDays(hours) \in Nat
<1>1. \E m \in {0, hours} : \A n \in {0, hours} : m >= n
  OBVIOUS
<1>2. Max({0, hours}) \in {0, hours} /\ \A n \in {0, hours} : Max({0, hours}) >= n
  BY <1>1 DEF Max
<1>3. Max({0, hours}) \in Nat
  BY <1>2
<1> QED
  BY <1>3 DEF LatencyHoursToDays

LEMMA RowIsOffer ==
  ASSUME NEW row,
         {row.advanceRate, row.annualRate, row.flatFee, row.tenor} \subseteq Int,
         row.settlementDays \in Nat
  PROVE  IsOffer(BidToOffer(row))
<1>1. /\ row.advanceRate \in Int /\ row.annualRate \in Int /\ row.flatFee \in Int
      /\ row.tenor \in Int
  OBVIOUS
<1>2. ToBps(row.advanceRate) \in Int /\ ToBps(row.annualRate) \in Int
  BY <1>1, BpsAreInt
<1> QED
  BY <1>1, <1>2 DEF BidToOffer, IsOffer

LEMMA OffersAreTyped ==
  ASSUME OnRecord, NEW a
  PROVE  AreOffers(OffersOf(a))
<1>1. CASE a.caps = {}
  <2> DEFINE n == Len(AgentBids)
             offers == [i \in 1..n |-> LenderBidToOffer(AgentBids[i])]
  <2>1. OffersOf(a) = offers /\ n \in Nat
    BY <1>1, BidsAssumption DEF OffersOf
  <2>2. ASSUME NEW i \in 1..n PROVE IsOffer(LenderBidToOffer(AgentBids[i]))
    <3> DEFINE bid == AgentBids[i]
               row == [provider |-> bid.provider, advanceRate |-> bid.advanceRate,
                       annualRate |-> bid.apr, flatFee |-> bid.fees, tenor |-> bid.tenor,
                       settlementDays |-> LatencyHoursToDays(bid.hours)]
    <3>1. {bid.advanceRate, bid.apr, bid.fees, bid.tenor, bid.hours} \subseteq Int
      BY BidsAssumption
    <3> HIDE DEF bid
    <3>2. LatencyHoursToDays(bid.hours) \in Nat
      BY <3>1, LatencyIsDays
    <3>3. IsOffer(BidToOffer(row))
      BY <3>1, <3>2, RowIsOffer
    <3> QED
      BY <3>3 DEF LenderBidToOffer, bid
  <2>3. Len(offers) = n
    BY <2>1
  <2> QED
    BY <2>1, <2>2, <2>3 DEF AreOffers
<1>2. CASE a.caps # {}
  <2> DEFINE n == Len(book)
             offers == [i \in 1..n |-> BidToOffer(book[i])]
  <2>1. OffersOf(a) = offers /\ n \in Nat
    BY <1>2, BidsAssumption DEF OffersOf, OnRecord
  <2>2. ASSUME NEW i \in 1..n PROVE IsOffer(BidToOffer(book[i]))
    <3>1. /\ {book[i].advanceRate, book[i].annualRate, book[i].flatFee, book[i].tenor}
                \subseteq Int
          /\ book[i].settlementDays \in Nat
      BY BidsAssumption DEF OnRecord
    <3> QED
      BY <3>1, RowIsOffer
  <2>3. Len(offers) = n
    BY <2>1
  <2> QED
    BY <2>1, <2>2, <2>3 DEF AreOffers
<1> QED
  BY <1>1, <1>2

IsPosition(needs) ==
    /\ needs.cash \in Int /\ needs.threshold \in Int
    /\ \E n \in Nat : DOMAIN needs.obligations = 1..n
    /\ \A i \in DOMAIN needs.obligations :
          needs.obligations[i].due \in Int /\ needs.obligations[i].amount \in Int

LEMMA NeedsAreTyped ==
  ASSUME OnRecord
  PROVE  IF "cash" \in DOMAIN opp.needs THEN IsPosition(opp.needs)
         ELSE opp.needs.floor \subseteq Int /\ opp.needs.deadline \subseteq Int
<1>1. opp.needs \in NeedsOptions
  BY DEF OnRecord
<1> DEFINE needs == opp.needs
<1> HIDE DEF needs
<1>2. needs \in NeedsOptions
  BY <1>1 DEF needs
<1>3. CASE "cash" \in DOMAIN needs
  <2>1. /\ needs.cash \in Int /\ needs.threshold \in Int
        /\ Len(needs.obligations) \in Nat
        /\ DOMAIN needs.obligations = 1..Len(needs.obligations)
        /\ \A i \in DOMAIN needs.obligations :
               {needs.obligations[i].due, needs.obligations[i].amount} \subseteq Int
    BY <1>2, <1>3, NeedsAssumption
  <2>2. \A i \in DOMAIN needs.obligations :
           needs.obligations[i].due \in Int /\ needs.obligations[i].amount \in Int
    BY <2>1
  <2>3. IsPosition(needs)
    BY <2>1, <2>2 DEF IsPosition
  <2> QED
    BY <1>3, <2>3 DEF needs
<1>4. CASE "cash" \notin DOMAIN needs
  BY <1>2, <1>4, NeedsAssumption DEF needs
<1> QED
  BY <1>3, <1>4 DEF needs

LEMMA BalanceIsInt ==
  ASSUME NEW needs, IsPosition(needs), NEW asOf, NEW i
  PROVE  BalanceAt(needs, asOf, i) \in Int
<1> DEFINE paid == PaidBy(needs.obligations, asOf, i)
           amounts == [j \in DOMAIN needs.obligations |-> needs.obligations[j].amount]
<1>1. paid \subseteq DOMAIN needs.obligations
  BY DEF PaidBy
<1>2. IsFiniteSet(paid)
  <2>1. PICK n \in Nat : DOMAIN needs.obligations = 1..n
    BY DEF IsPosition
  <2>2. IsFiniteSet(1..n)
    BY FS_Interval
  <2> HIDE DEF paid
  <2> QED
    BY <1>1, <2>1, <2>2, FS_Subset
<1>3. Summable(amounts, paid)
  BY <1>1, <1>2 DEF Summable, IsPosition
<1>4. SumFunctionOnSet(amounts, paid) \in Int
  <2> HIDE DEF amounts, paid
  <2> QED
    BY <1>3, SumIsInt
<1> QED
  BY <1>4 DEF BalanceAt, IsPosition

\* The walk meets one breach before all others.
LEMMA OneBreachIsFirst ==
  ASSUME NEW needs, IsPosition(needs), NEW asOf \in Int, Breaches(needs, asOf) # {}
  PROVE  \E i \in Breaches(needs, asOf) : \A j \in Breaches(needs, asOf) :
             i \in PaidBy(needs.obligations, asOf, j)
<1> DEFINE S == Breaches(needs, asOf)
           due(i) == needs.obligations[i].due
           R == {p \in S \X S : p[1] \in PaidBy(needs.obligations, asOf, p[2])}
<1>1. \A i \in S : i \in DOMAIN needs.obligations /\ i \in Nat /\ due(i) \in Int /\ due(i) >= asOf
  BY DEF Breaches, IsPosition
<1>2. IsFiniteSet(S)
  <2>1. PICK n \in Nat : DOMAIN needs.obligations = 1..n
    BY DEF IsPosition
  <2>2. IsFiniteSet(1..n)
    BY FS_Interval
  <2>3. S \subseteq 1..n
    BY <2>1 DEF Breaches
  <2> HIDE DEF S
  <2> QED
    BY <2>2, <2>3, FS_Subset
<1> HIDE DEF S
<1>3. \A i, j \in S : i \in PaidBy(needs.obligations, asOf, j)
                         <=> due(i) < due(j) \/ (due(i) = due(j) /\ i <= j)
  BY <1>1 DEF PaidBy
<1>4. \A i, j \in S : <<i, j>> \in R <=> due(i) < due(j) \/ (due(i) = due(j) /\ i <= j)
  BY <1>3
<1> HIDE DEF R, due
<1>5. \A x, y \in S : x = y \/ <<x, y>> \in R \/ <<y, x>> \in R
  <2> SUFFICES ASSUME NEW x \in S, NEW y \in S PROVE <<x, y>> \in R \/ <<y, x>> \in R
    OBVIOUS
  <2>1. x \in Nat /\ y \in Nat /\ due(x) \in Int /\ due(y) \in Int
    BY <1>1
  <2> QED
    BY <1>4, <2>1
<1>6. \A x, y, z \in S : <<x, y>> \in R /\ <<y, z>> \in R => <<x, z>> \in R
  <2> SUFFICES ASSUME NEW x \in S, NEW y \in S, NEW z \in S, <<x, y>> \in R, <<y, z>> \in R
               PROVE  <<x, z>> \in R
    OBVIOUS
  <2>1. /\ x \in Nat /\ y \in Nat /\ z \in Nat
        /\ due(x) \in Int /\ due(y) \in Int /\ due(z) \in Int
    BY <1>1
  <2> QED
    BY <1>4, <2>1
<1>7. \A U \in SUBSET S : U # {} => \E m \in U : \A x \in U : x = m \/ <<m, x>> \in R
  BY ONLY <1>2, <1>5, <1>6, FirstExists
<1>8. PICK m \in S : \A x \in S : x = m \/ <<m, x>> \in R
  BY <1>7 DEF S
<1>9. \A x \in S : m \in PaidBy(needs.obligations, asOf, x)
  <2> SUFFICES ASSUME NEW x \in S PROVE m \in PaidBy(needs.obligations, asOf, x)
    OBVIOUS
  <2>1. m \in Nat /\ m <= m
    BY <1>1
  <2>2. x = m \/ <<m, x>> \in R
    BY <1>8
  <2> QED
    BY <1>3, <1>4, <2>1, <2>2
<1> QED
  BY <1>9 DEF S

IsUtility(u) == u.floor \in Int /\ u.deadline \in Int

\* The breach that sets the gates.
FirstBreach(needs, asOf) ==
    CHOOSE i \in Breaches(needs, asOf) : \A j \in Breaches(needs, asOf) :
        i \in PaidBy(needs.obligations, asOf, j)

LEMMA BreachSetsGates ==
  ASSUME NEW needs, IsPosition(needs), NEW asOf \in Int, Breaches(needs, asOf) # {}
  PROVE  LET first == FirstBreach(needs, asOf)
             u == DeriveUtility(needs, asOf)
         IN  /\ first \in Breaches(needs, asOf)
             /\ \A j \in Breaches(needs, asOf) : first \in PaidBy(needs.obligations, asOf, j)
             /\ u.floor = needs.threshold - BalanceAt(needs, asOf, first)
             /\ u.deadline = needs.obligations[first].due
             /\ ~u.unconstrained
<1> DEFINE first == FirstBreach(needs, asOf)
<1>1. /\ first \in Breaches(needs, asOf)
      /\ \A j \in Breaches(needs, asOf) : first \in PaidBy(needs.obligations, asOf, j)
  BY OneBreachIsFirst DEF FirstBreach
<1>2. DeriveUtility(needs, asOf)
         = [floor |-> needs.threshold - BalanceAt(needs, asOf, first),
            deadline |-> needs.obligations[first].due, unconstrained |-> FALSE]
  BY DEF DeriveUtility, FirstBreach
<1> HIDE DEF first
<1> QED
  BY <1>1, <1>2 DEF first

LEMMA UtilityIsTyped ==
  ASSUME OnRecord, NEW asOf \in Int
  PROVE  IsUtility(UtilityFor(opp, asOf))
<1>1. IsUtility(Unconstrained(asOf))
  BY ScoringAssumption DEF Unconstrained, IsUtility
<1>2. CASE "cash" \in DOMAIN opp.needs
  <2>1. IsPosition(opp.needs) /\ UtilityFor(opp, asOf) = DeriveUtility(opp.needs, asOf)
    BY <1>2, NeedsAreTyped DEF UtilityFor
  <2>2. CASE Breaches(opp.needs, asOf) = {}
    BY <1>1, <2>1, <2>2 DEF DeriveUtility
  <2>3. CASE Breaches(opp.needs, asOf) # {}
    <3>1. FirstBreach(opp.needs, asOf) \in DOMAIN opp.needs.obligations
      BY <2>1, <2>3, BreachSetsGates DEF Breaches
    <3> QED
      BY <2>1, <2>3, <3>1, BreachSetsGates, BalanceIsInt DEF IsUtility, IsPosition
  <2> QED
    BY <2>2, <2>3
<1>3. CASE "cash" \notin DOMAIN opp.needs
  <2>1. opp.needs.floor \subseteq Int /\ opp.needs.deadline \subseteq Int
    BY <1>3, NeedsAreTyped
  <2>2. UtilityFor(opp, asOf) = StoredUtility(opp.needs, asOf)
    BY <1>3 DEF UtilityFor
  <2>3. ASSUME NEW column, column \subseteq Int, NEW default \in Int
        PROVE  ColumnOr(column, default) \in Int
    BY <2>3 DEF ColumnOr
  <2>4. asOf + FarFuture \in Int
    BY ScoringAssumption
  <2>5. /\ ColumnOr(opp.needs.floor, 0) \in Int
        /\ ColumnOr(opp.needs.deadline, asOf + FarFuture) \in Int
    BY <2>1, <2>3, <2>4
  <2> QED
    BY <1>1, <2>2, <2>5 DEF StoredUtility, IsUtility
<1> QED
  BY <1>2, <1>3

\* What an answer is computed from.
Grounded(a) == a.asOf \in Nat /\ a.nudge \in Nat

\* What every answer says, matched or not.
IsClearing(r) ==
    /\ r.asOf \in Int /\ r.nudge \in Nat
    /\ AreScored(r.scored)
    /\ r.utility = UtilityFor(opp, r.asOf) /\ IsUtility(r.utility)
    /\ r.order = Ranking(r.scored, r.utility, r.nudge)
    /\ r.beatenBy = [i \in DOMAIN r.scored |-> Dominator(r.scored, i)]

LEMMA ResultIsClearing ==
  ASSUME OnRecord, NEW a, Grounded(a)
  PROVE  IsClearing(ResultOf(a)) /\ ResultOf(a).nudge = a.nudge
<1> DEFINE bids == OffersOf(a)
           utility == UtilityFor(opp, a.asOf)
           scored == Scored(bids, opp.face, a.asOf)
           order == Ranking(scored, utility, a.nudge)
           beatenBy == [i \in DOMAIN scored |-> Dominator(scored, i)]
           r == ResultOf(a)
<1>1. /\ r.scored = scored /\ r.order = order /\ r.utility = utility
      /\ r.nudge = a.nudge /\ r.asOf = a.asOf /\ r.beatenBy = beatenBy
  BY DEF ResultOf, ClearOpportunity
<1>2. AreScored(scored)
  <2>1. opp.face \in Int
    BY DeskAssumption DEF OnRecord
  <2> QED
    BY <2>1, OffersAreTyped, ScoredAreTyped DEF Grounded
<1>3. IsUtility(utility)
  BY UtilityIsTyped DEF Grounded
<1> HIDE DEF r, bids
<1>4. IsClearing(r) /\ r.nudge = a.nudge
  BY <1>1, <1>2, <1>3 DEF IsClearing, Grounded
<1> QED
  BY <1>4 DEF r

----------------------------------------------------------------------------
(* What an answer promises.                                                *)

\* The winner is a survivor and nothing that survives ranks before it.
LEMMA WinnerLeads ==
  ASSUME NEW r, IsClearing(r), NEW w \in WinnerOf(r)
  PROVE  /\ w \in Survivors(r.scored, r.utility)
         /\ Survivors(r.scored, r.utility) \subseteq DOMAIN r.scored
         /\ EarliestArrival(r.scored, r.utility) \in Int
         /\ \A j \in Survivors(r.scored, r.utility) :
               ~RanksBefore(r.scored, EarliestArrival(r.scored, r.utility), r.nudge, j, w)
<1>1. r.order # <<>> /\ w = r.order[1]
  BY DEF WinnerOf
<1>2. Survivors(r.scored, r.utility) \subseteq DOMAIN r.scored
  BY DEF Survivors
<1> QED
  BY <1>1, <1>2, RankedFirst DEF IsClearing

\* So its key is at most any survivor's, and on a tie it brings no less cash.
LEMMA WinnerCompares ==
  ASSUME NEW r, IsClearing(r), NEW w \in WinnerOf(r),
         NEW j \in Survivors(r.scored, r.utility)
  PROVE  LET e == EarliestArrival(r.scored, r.utility)
             win == r.scored[w]
             other == r.scored[j]
         IN  /\ e \in Int /\ IsScored(win) /\ IsScored(other)
             /\ AtMost(RankKey(win, e, r.nudge), RankKey(other, e, r.nudge))
             /\ \/ ~AtMost(RankKey(other, e, r.nudge), RankKey(win, e, r.nudge))
                \/ other.cost[2] = 0
                \/ other.net <= win.net
<1> DEFINE e == EarliestArrival(r.scored, r.utility)
           win == r.scored[w]
           other == r.scored[j]
           a == RankKey(other, e, r.nudge)
           b == RankKey(win, e, r.nudge)
           more == IF a[2] = 0 THEN 0 ELSE other.net - win.net
<1>1. e \in Int /\ IsScored(win) /\ IsScored(other)
  BY WinnerLeads DEF IsClearing, AreScored
<1>2. ~RanksBefore(r.scored, e, r.nudge, j, w)
  BY WinnerLeads
<1>3. ~(Less(a, b) \/ (~Less(b, a) /\ (more > 0 \/ (more = 0 /\ j < w))))
  BY <1>2 DEF RanksBefore
<1>4. a[2] = other.cost[2]
  BY <1>1, KeyIsFraction DEF IsClearing
<1> HIDE DEF a, b
<1>5. AtMost(b, a) /\ (~AtMost(a, b) \/ ~(more > 0))
  BY <1>3 DEF AtMost
<1>6. ~(more > 0) => other.cost[2] = 0 \/ other.net <= win.net
  <2> HIDE DEF win, other
  <2> QED
    BY <1>1, <1>4 DEF IsScored
<1> QED
  BY <1>1, <1>5, <1>6 DEF a, b

LEMMA ClearingBuysDays ==
  ASSUME NEW r, IsClearing(r), NEW w \in WinnerOf(r),
         NEW j \in Survivors(r.scored, r.utility),
         Less(r.scored[j].cost, r.scored[w].cost)
  PROVE  LET win == r.scored[w]
             other == r.scored[j]
             saved == other.arrival - win.arrival
         IN  /\ saved > 0
             /\ AtMost(<<win.cost[1] * Scale, win.cost[2]>>,
                       <<other.cost[1] * Scale
                             + saved * r.nudge * MaxPremium * other.cost[2],
                         other.cost[2]>>)
<1> DEFINE win == r.scored[w]
           other == r.scored[j]
           e == EarliestArrival(r.scored, r.utility)
<1>1. /\ e \in Int /\ IsScored(win) /\ IsScored(other)
      /\ AtMost(RankKey(win, e, r.nudge), RankKey(other, e, r.nudge))
  BY WinnerCompares
<1>2. r.nudge \in Nat /\ Less(other.cost, win.cost)
  BY DEF IsClearing
<1> HIDE DEF win, other, e
<1>3. LET saved == other.arrival - win.arrival IN
      /\ saved > 0
      /\ AtMost(<<win.cost[1] * Scale, win.cost[2]>>,
                <<other.cost[1] * Scale + saved * r.nudge * MaxPremium * other.cost[2],
                  other.cost[2]>>)
  BY <1>1, <1>2, FirstRankIsWorthIt
<1> QED
  BY <1>3 DEF win, other

\* An offer that dominates a survivor clears the gates too.
LEMMA ClearingIsUnbeaten ==
  ASSUME NEW r, IsClearing(r), NEW w \in WinnerOf(r),
         r.beatenBy[w] # 0, r.scored[w].cost # Infinite
  PROVE  LET other == r.scored[r.beatenBy[w]] IN
         /\ r.nudge = 0
         /\ other.net = r.scored[w].net
         /\ ~Less(other.cost, r.scored[w].cost)
<1> DEFINE o == r.beatenBy[w]
           win == r.scored[w]
           other == r.scored[o]
           e == EarliestArrival(r.scored, r.utility)
           over == {j \in DOMAIN r.scored \ {w} : Dominates(r.scored[j], r.scored[w])}
<1>1. w \in DOMAIN r.scored /\ w \in Survivors(r.scored, r.utility)
  BY WinnerLeads
<1>2. o \in DOMAIN r.scored /\ Dominates(other, win)
  <2>1. over # {} /\ o = Min(over)
    BY <1>1 DEF IsClearing, Dominator
  <2>2. IsFiniteSet(over) /\ over \subseteq Int
    <3>1. PICK n \in Nat : DOMAIN r.scored = 1..n
      BY DEF IsClearing, AreScored
    <3>2. over \subseteq 1..n
      BY <3>1
    <3>3. IsFiniteSet(1..n)
      BY FS_Interval
    <3> HIDE DEF over
    <3> QED
      BY <3>2, <3>3, FS_Subset
  <2>3. o \in over
    <3> HIDE DEF over, o
    <3> QED
      BY <2>1, <2>2, MinIsLeast
  <2> QED
    BY <2>3
<1>3. IsScored(win) /\ IsScored(other) /\ IsUtility(r.utility)
  BY <1>1, <1>2 DEF IsClearing, AreScored
<1>4. o \in Survivors(r.scored, r.utility)
  <2>1. Passes(win, r.utility)
    BY <1>1 DEF Survivors
  <2>2. other.net >= win.net /\ other.arrival <= win.arrival
    BY <1>2 DEF Dominates
  <2> HIDE DEF win, other, o
  <2>3. Passes(other, r.utility)
    BY <1>3, <2>1, <2>2 DEF Passes, Sufficient, Timely, IsScored, IsUtility
  <2> QED
    BY <1>2, <2>3 DEF Survivors, other
<1>5. /\ e \in Int
      /\ AtMost(RankKey(win, e, r.nudge), RankKey(other, e, r.nudge))
      /\ \/ ~AtMost(RankKey(other, e, r.nudge), RankKey(win, e, r.nudge))
         \/ other.cost[2] = 0
         \/ other.net <= win.net
  <2> HIDE DEF o
  <2> QED
    BY <1>4, WinnerCompares
<1>6. win.cost[2] # 0
  BY <1>3 DEF IsScored
<1>7. r.nudge \in Nat
  BY DEF IsClearing
<1> HIDE DEF win, other, e
<1>8. r.nudge = 0 /\ other.net = win.net /\ ~Less(other.cost, win.cost)
  BY <1>2, <1>3, <1>5, <1>6, <1>7, FirstRankIsUnbeaten
<1> QED
  BY <1>8 DEF win, other, o

\* The bills up to the i-th are those up to the first breach and the later ones.
LEMMA LaterBills ==
  ASSUME NEW needs, IsPosition(needs), NEW asOf \in Int, NEW i \in Breaches(needs, asOf)
  PROVE  LET first == FirstBreach(needs, asOf) IN
         /\ BilledAfterBreach(needs, asOf, i) \in Int
         /\ BalanceAt(needs, asOf, i) + BilledAfterBreach(needs, asOf, i)
                = BalanceAt(needs, asOf, first)
<1> DEFINE os == needs.obligations
           first == FirstBreach(needs, asOf)
           amounts == [j \in DOMAIN os |-> os[j].amount]
           paid(j) == PaidBy(os, asOf, j)
           later == {j \in paid(i) : \E b \in paid(j) \ {j} : b \in Breaches(needs, asOf)}
<1>1. /\ first \in Breaches(needs, asOf)
      /\ \A j \in Breaches(needs, asOf) : first \in paid(j)
  BY BreachSetsGates
<1>2. \A j \in DOMAIN os : j \in Nat /\ os[j].due \in Int
  BY DEF IsPosition
<1>3. \A j, k \in DOMAIN os : j \in paid(k) <=>
          /\ os[j].due >= asOf
          /\ os[j].due < os[k].due \/ (os[j].due = os[k].due /\ j <= k)
  BY DEF PaidBy
<1>4. /\ first \in DOMAIN os /\ i \in DOMAIN os /\ first \in paid(i)
      /\ Breaches(needs, asOf) \subseteq DOMAIN os
      /\ \A k : paid(k) \subseteq DOMAIN os
      /\ os[first].due >= asOf
  BY <1>1 DEF Breaches, PaidBy
<1> HIDE DEF os, first, paid
<1>5. paid(first) \subseteq paid(i)
  <2> SUFFICES ASSUME NEW j \in paid(first) PROVE j \in paid(i)
    OBVIOUS
  <2>1. j \in DOMAIN os /\ j \in Nat /\ first \in Nat /\ i \in Nat
    BY <1>2, <1>4
  <2> QED
    BY <1>2, <1>3, <1>4, <2>1
<1>6. later = paid(i) \ paid(first)
  <2>1. ASSUME NEW j \in later, j \in paid(first) PROVE FALSE
    <3>1. PICK b \in Breaches(needs, asOf) : b \in paid(j) /\ b # j
      OBVIOUS
    <3>2. first \in paid(b) /\ b \in DOMAIN os /\ j \in DOMAIN os
      BY <1>1, <1>4, <2>1
    <3>3. /\ j \in Nat /\ b \in Nat /\ first \in Nat
          /\ os[j].due \in Int /\ os[b].due \in Int /\ os[first].due \in Int
      BY <1>2, <1>4, <3>2
    <3>4. /\ os[first].due < os[b].due \/ (os[first].due = os[b].due /\ first <= b)
          /\ os[b].due < os[j].due \/ (os[b].due = os[j].due /\ b <= j)
          /\ os[j].due < os[first].due \/ (os[j].due = os[first].due /\ j <= first)
      BY <1>3, <1>4, <2>1, <3>1, <3>2
    <3> QED
      BY <3>1, <3>3, <3>4
  <2>2. ASSUME NEW j \in paid(i), j \notin paid(first) PROVE j \in later
    <3>1. j \in DOMAIN os
      BY <1>4
    <3>2. /\ j \in Nat /\ first \in Nat
          /\ os[j].due \in Int /\ os[first].due \in Int
      BY <1>2, <1>4, <3>1
    <3>3. os[j].due >= asOf
      BY <1>3, <1>4, <3>1
    <3>4. ~(os[j].due < os[first].due \/ (os[j].due = os[first].due /\ j <= first))
      BY <1>3, <1>4, <2>2, <3>1, <3>3
    <3>5. first # j /\ first \in paid(j)
      BY <1>3, <1>4, <3>1, <3>2, <3>4
    <3> QED
      BY <1>1, <3>5
  <2> QED
    BY <2>1, <2>2
<1>7. Summable(amounts, paid(i))
  <2>1. PICK n \in Nat : DOMAIN os = 1..n
    BY DEF IsPosition, os
  <2>2. IsFiniteSet(DOMAIN os)
    BY <2>1, FS_Interval
  <2>3. IsFiniteSet(paid(i))
    BY <1>4, <2>2, FS_Subset
  <2>4. \A j \in DOMAIN os : amounts[j] \in Int
    BY DEF IsPosition, os
  <2> QED
    BY <1>4, <2>3, <2>4 DEF Summable
<1>8. /\ BilledAfterBreach(needs, asOf, i) = SumFunctionOnSet(amounts, later)
      /\ \A k : BalanceAt(needs, asOf, k) = needs.cash - SumFunctionOnSet(amounts, paid(k))
  BY DEF BilledAfterBreach, BalanceAt, os, paid
<1> HIDE DEF amounts, later
<1>9. SumFunctionOnSet(amounts, paid(i))
        = SumFunctionOnSet(amounts, paid(first)) + SumFunctionOnSet(amounts, later)
  BY <1>5, <1>6, <1>7, SumSplit
<1>10. /\ SumFunctionOnSet(amounts, paid(first)) \in Int
       /\ SumFunctionOnSet(amounts, later) \in Int
  <2>1. Summable(amounts, paid(first)) /\ Summable(amounts, later)
    BY <1>5, <1>6, <1>7, FS_Subset DEF Summable
  <2> QED
    BY <2>1, SumIsInt
<1>11. needs.cash \in Int
  BY DEF IsPosition
<1>12. /\ BilledAfterBreach(needs, asOf, i) \in Int
       /\ BalanceAt(needs, asOf, i) + BilledAfterBreach(needs, asOf, i)
             = BalanceAt(needs, asOf, first)
  BY <1>8, <1>9, <1>10, <1>11
<1> QED
  BY <1>12 DEF first

LEMMA ClearingCovers ==
  ASSUME OnRecord, "cash" \in DOMAIN opp.needs, NEW r, IsClearing(r),
         NEW w \in WinnerOf(r), NEW i \in Breaches(opp.needs, r.asOf),
         ~(opp.needs.obligations[i].due > r.utility.deadline)
  PROVE  FundedBalance(r, w, i) + BilledAfterBreach(opp.needs, r.asOf, i)
            >= opp.needs.threshold
<1> DEFINE needs == opp.needs
           first == FirstBreach(needs, r.asOf)
           win == r.scored[w]
           balance == BalanceAt(needs, r.asOf, i)
           short == BalanceAt(needs, r.asOf, first)
           later == BilledAfterBreach(needs, r.asOf, i)
<1>1. IsPosition(needs) /\ r.asOf \in Int /\ Breaches(needs, r.asOf) # {}
  BY NeedsAreTyped DEF IsClearing
<1>2. r.utility = DeriveUtility(needs, r.asOf)
  BY DEF IsClearing, UtilityFor
<1>3. /\ first \in Breaches(needs, r.asOf)
      /\ first \in PaidBy(needs.obligations, r.asOf, i)
      /\ r.utility.floor = needs.threshold - short
      /\ r.utility.deadline = needs.obligations[first].due
      /\ ~r.utility.unconstrained
  BY <1>1, <1>2, BreachSetsGates
<1>4. needs.obligations[first].due = needs.obligations[i].due
  <2>1. /\ needs.obligations[i].due \in Int /\ needs.obligations[first].due \in Int
        /\ needs.obligations[first].due <= needs.obligations[i].due
    BY <1>1, <1>3 DEF Breaches, PaidBy, IsPosition
  <2> HIDE DEF first
  <2> QED
    BY <1>3, <2>1
<1>5. w \in Survivors(r.scored, r.utility) /\ w \in DOMAIN r.scored
  BY WinnerLeads
<1>6. IsScored(win) /\ Passes(win, r.utility)
  BY <1>5 DEF Survivors, IsClearing, AreScored
<1>7. /\ balance \in Int /\ short \in Int /\ needs.threshold \in Int
      /\ later \in Int /\ balance + later = short
  BY <1>1, BalanceIsInt, LaterBills DEF IsPosition
<1>8. /\ win.arrival <= needs.obligations[i].due
      /\ win.net >= needs.threshold - short
  BY <1>3, <1>4, <1>6 DEF Passes, Sufficient, Timely
<1>9. FundedBalance(r, w, i) = balance + win.net
  BY <1>8 DEF FundedBalance
<1> HIDE DEF balance, win, needs, short, later
<1>10. balance + win.net + later >= needs.threshold
  BY <1>6, <1>7, <1>8 DEF IsScored
<1> QED
  BY <1>9, <1>10 DEF needs, later

----------------------------------------------------------------------------
(* What the assistant says of it.                                          *)

\* The intent of the questions the property asks.
LEMMA CuesAreClassified ==
  /\ Classify({"winner"}) = "winner"
  /\ Classify({"winner", "cheapest"}) = "cheapest"
  /\ Classify({"cheapest", "disqualified"}) = "disqualified"
<1>1. /\ DOMAIN IntentOrder = 1..6
      /\ IntentOrder[1] = "disqualified" /\ IntentOrder[2] = "cheapest"
      /\ IntentOrder[3] = "winner" /\ IntentOrder[4] = "need"
      /\ IntentOrder[5] = "ledger" /\ IntentOrder[6] = "portfolio"
  BY DEF IntentOrder
<1>2. \A i \in 1..6 : i = 1 \/ i = 2 \/ i = 3 \/ i = 4 \/ i = 5 \/ i = 6
  OBVIOUS
<1>3. Min({3}) = 3 /\ Min({2, 3}) = 2 /\ Min({1, 2}) = 1
  BY DEF Min
<1>4. {i \in DOMAIN IntentOrder : IntentOrder[i] \in {"winner"}} = {3}
  BY <1>1, <1>2
<1>5. {i \in DOMAIN IntentOrder : IntentOrder[i] \in {"winner", "cheapest"}} = {2, 3}
  BY <1>1, <1>2
<1>6. {i \in DOMAIN IntentOrder : IntentOrder[i] \in {"cheapest", "disqualified"}} = {1, 2}
  BY <1>1, <1>2
<1>7. Classify({"winner"}) = "winner"
  BY <1>1, <1>3, <1>4 DEF Classify
<1>8. Classify({"winner", "cheapest"}) = "cheapest"
  BY <1>1, <1>3, <1>5 DEF Classify
<1>9. Classify({"cheapest", "disqualified"}) = "disqualified"
  BY <1>1, <1>3, <1>6 DEF Classify
<1> QED
  BY <1>7, <1>8, <1>9

\* The offer called cheapest costs no more than any.
LEMMA CheapestIsLowest ==
  ASSUME NEW scored, AreScored(scored), Cheapest(scored) # 0
  PROVE  /\ Cheapest(scored) \in DOMAIN scored
         /\ \A j \in DOMAIN scored : AtMost(scored[Cheapest(scored)].cost, scored[j].cost)
<1> DEFINE low == {i \in DOMAIN scored : \A j \in DOMAIN scored :
                      AtMost(scored[i].cost, scored[j].cost)}
<1>1. low # {} /\ Cheapest(scored) = Min(low)
  BY DEF Cheapest
<1>2. IsFiniteSet(low) /\ low \subseteq Int
  <2>1. PICK n \in Nat : DOMAIN scored = 1..n
    BY DEF AreScored
  <2>2. low \subseteq 1..n
    BY <2>1
  <2>3. IsFiniteSet(1..n) /\ 1..n \subseteq Int
    BY FS_Interval
  <2> HIDE DEF low
  <2>4. IsFiniteSet(low)
    BY <2>2, <2>3, FS_Subset
  <2>5. low \subseteq Int
    BY <2>2, <2>3
  <2> QED
    BY <2>4, <2>5
<1>3. Cheapest(scored) \in low
  <2> HIDE DEF low
  <2> QED
    BY <1>1, <1>2, MinIsLeast
<1> QED
  BY <1>3

LEMMA AdviceIsSound ==
  ASSUME NEW r, IsClearing(r), r.nudge = 0,
         NEW cues \in {{"winner"}, {"winner", "cheapest"}, {"cheapest", "disqualified"}},
         NEW i \in AnswerTo(cues, r).subjects
  PROVE  LET kept == Survivors(r.scored, r.utility) IN
         IF AnswerTo(cues, r).recommends
         THEN i \in kept /\ \A j \in kept : AtMost(r.scored[i].cost, r.scored[j].cost)
         ELSE i \notin kept
<1> DEFINE kept == Survivors(r.scored, r.utility)
           best == Cheapest(r.scored)
           claim(intent, subjects, recommends) ==
              [intent |-> intent, subjects |-> subjects, recommends |-> recommends]
           silence(intent) == claim(intent, {}, FALSE)
           say == AnswerTo(cues, r)
<1>1. CASE cues = {"winner"}
  <2>1. Classify(cues) = "winner"
    BY <1>1, CuesAreClassified
  <2>2. say = IF r.order # <<>>
              THEN claim("winner", {r.order[1]}, Explained(r, r.order[1]) = "best")
              ELSE silence("winner")
    BY <2>1 DEF AnswerTo
  <2>3. r.order # <<>> /\ i = r.order[1]
    BY <2>2
  <2>4. i \in WinnerOf(r)
    BY <2>3 DEF WinnerOf
  <2>5. i \in kept
    BY <2>4, WinnerLeads
  <2>6. Explained(r, i) = "best"
    BY <2>3, <2>5 DEF Explained, Disqualified
  <2>7. say.recommends
    <3>1. say = claim("winner", {i}, TRUE)
      BY <2>2, <2>3, <2>6
    <3> HIDE DEF say
    <3> QED
      BY <3>1
  <2>8. ASSUME NEW j \in kept PROVE AtMost(r.scored[i].cost, r.scored[j].cost)
    BY <2>4, WinnerCompares, FirstRankIsCheapest
  <2> QED
    BY <2>5, <2>7, <2>8
<1>2. CASE cues = {"winner", "cheapest"}
  <2>1. Classify(cues) = "cheapest"
    BY <1>2, CuesAreClassified
  <2>2. say = IF best # 0 THEN claim("cheapest", {best}, best \in kept) ELSE silence("cheapest")
    BY <2>1 DEF AnswerTo
  <2>3. best # 0 /\ i = best /\ (say.recommends => best \in kept)
                  /\ (~say.recommends => best \notin kept)
    <3>1. best # 0 /\ i \in {best}
      BY <2>2
    <3>2. CASE best \in kept
      <4>1. say = claim("cheapest", {best}, TRUE)
        BY <2>2, <3>1, <3>2
      <4> HIDE DEF say, best, kept
      <4> QED
        BY <3>1, <3>2, <4>1
    <3>3. CASE best \notin kept
      <4>0. (best \in kept) = FALSE
        BY <3>3
      <4>1. say = claim("cheapest", {best}, FALSE)
        <5> HIDE DEF say, best, kept
        <5> QED
          BY <2>2, <3>1, <4>0
      <4> HIDE DEF say, best, kept
      <4> QED
        BY <3>1, <3>3, <4>1
    <3> QED
      BY <3>2, <3>3
  <2>4. \A j \in DOMAIN r.scored : AtMost(r.scored[i].cost, r.scored[j].cost)
    BY <2>3, CheapestIsLowest DEF IsClearing
  <2>5. kept \subseteq DOMAIN r.scored
    BY DEF Survivors
  <2> QED
    BY <2>3, <2>4, <2>5
<1>3. CASE cues = {"cheapest", "disqualified"}
  <2>1. Classify(cues) = "disqualified"
    BY <1>3, CuesAreClassified
  <2>2. say = claim("disqualified", Disqualified(r), FALSE)
    BY <2>1 DEF AnswerTo
  <2>3. i \in Disqualified(r) /\ ~say.recommends
    BY <2>2
  <2> QED
    BY <2>3 DEF Disqualified
<1> QED
  BY <1>1, <1>2, <1>3

----------------------------------------------------------------------------
(* Every answer was computed from a date and a nudge.                      *)

Sourced ==
    /\ OnRecord
    /\ \A r \in requests : r.answer \notin {Waiting, Failed} => Grounded(r.answer)
    /\ shown \notin {Nothing, Failed} => Grounded(shown)

LEMMA FreshIsGrounded ==
  ASSUME OnRecord, NEW n \in 0..Scale
  PROVE  Grounded(ClearById(n)) /\ Grounded(ScoreAgentBids(n))
BY ScaleIsNat DEF OnRecord, ClearById, ScoreAgentBids, Grounded

\* Steps that read no bid: what is shown stays or goes, questions go out
\* unanswered, and the date moves on.
LEMMA UnreadKeeps ==
  ASSUME Sourced, UNCHANGED <<opp, book>>, today' \in {today, today + 1},
         shown' \in {shown, Nothing, Failed},
         \A r \in requests' : r \in requests \/ r.answer = Waiting
  PROVE  Sourced'
<1>1. OnRecord'
  BY DEF Sourced, OnRecord
<1> QED
  BY <1>1 DEF Sourced, Grounded

LEMMA MovingKeepsSources ==
  ASSUME Sourced, Browse \/ LeaveForGoogle \/ OpenSettlement
  PROVE  Sourced'
<1>1. ASSUME NEW p, Leave(p)
      PROVE  Sourced'
  <2>1. UNCHANGED <<today, opp, book>> /\ shown' = Nothing /\ requests' \subseteq requests
    BY <1>1 DEF Leave, server
  <2> QED
    BY <2>1, UnreadKeeps
<1>2. CASE LoadBoard \/ ReadInvoice \/ ReadMarket \/ LeaveForGoogle
  <2>1. UNCHANGED <<today, opp, book, shown>> /\ requests' \subseteq requests
    BY <1>2 DEF LoadBoard, ReadInvoice, ReadMarket, LeaveForGoogle, server, tab, arena
  <2> QED
    BY <2>1, UnreadKeeps
<1>3. CASE OpenMarketPage
  <2>1. UNCHANGED <<today, opp, book, requests>>
    BY <1>3 DEF OpenMarketPage, server
  <2>2. shown' = Nothing \/ Grounded(shown')
    BY <1>3, FreshIsGrounded, ScaleIsNat DEF OpenMarketPage, Sourced
  <2> QED
    BY <2>1, <2>2 DEF Sourced, OnRecord, Grounded
<1> QED
  BY <1>1, <1>2, <1>3 DEF Browse, EnterHome, BrandLink, SwitchRole, OpenInvoice, RunAuction,
     BackToInvoice, BackToMarket, OpenAddress, OpenSettlement, Follow

LEMMA NextSourced ==
  ASSUME IInv, Sourced, [Next]_vars
  PROVE  Sourced'
<1>1. CASE Browse \/ LeaveForGoogle \/ OpenSettlement
  BY <1>1, MovingKeepsSources
<1>2. CASE \/ FindInvoice \/ FindSettled \/ TimerFires \/ Accept \/ DayPasses \/ Identify
           \/ UNCHANGED vars
           \/ \E n \in Nudges : MoveSlider(n)
           \/ \E p \in Rivals : OtherDealFunds(p)
  <2>1. /\ UNCHANGED <<opp, book, shown>> /\ today' \in {today, today + 1}
        /\ \A r \in requests' : r \in requests \/ r.answer = Waiting
    BY <1>2 DEF FindInvoice, FindSettled, TimerFires, Accept, DayPasses, Identify, MoveSlider,
       OtherDealFunds, vars, server, tab, arena
  <2> QED
    BY <2>1, UnreadKeeps
<1>3. CASE ClearSettled
  <2>1. UNCHANGED <<today, opp, book, requests>> /\ shown' \in {ClearById(0), Failed}
    BY <1>3 DEF ClearSettled, server
  <2>2. shown' = Failed \/ Grounded(shown')
    BY <2>1, FreshIsGrounded, ScaleIsNat DEF Sourced
  <2> QED
    BY <2>1, <2>2 DEF Sourced, OnRecord, Grounded
<1>4. CASE AgentsPost
  <2>1. /\ UNCHANGED <<today, opp, book, shown>>
        /\ \E n \in AgentNudges : requests' = requests \cup
                {[run |-> 0, nudge |-> ClampNudge(n),
                  answer |-> ScoreAgentBids(ClampNudge(n))]}
    BY <1>4 DEF AgentsPost, server, arena
  <2>2. \A n \in AgentNudges : Grounded(ScoreAgentBids(ClampNudge(n)))
    BY FreshIsGrounded, ClampIsOnScale, DeskAssumption DEF Sourced
  <2> QED
    BY <2>1, <2>2 DEF Sourced, OnRecord, Grounded
<1>5. ASSUME NEW r \in requests, Serve(r)
      PROVE  Sourced'
  <2>1. UNCHANGED <<today, opp, book, shown>>
    BY <1>5 DEF Serve, server, arena
  <2>2. PICK a \in {ClearById(ClampNudge(r.nudge)), Failed} :
            requests' = (requests \ {r}) \cup {[r EXCEPT !.answer = a]}
    BY <1>5 DEF Serve
  <2>3. Asked(r) /\ ClampNudge(r.nudge) \in 0..Scale
    BY NudgeIsClamped DEF IInv, Questions, Asked
  <2>4. a = Failed \/ Grounded(a)
    BY <2>2, <2>3, FreshIsGrounded DEF Sourced
  <2>5. [r EXCEPT !.answer = a].answer = a
    BY <2>3 DEF Asked
  <2> QED
    BY <2>1, <2>2, <2>4, <2>5 DEF Sourced, OnRecord, Grounded
<1>6. ASSUME NEW r \in requests, Deliver(r)
      PROVE  Sourced'
  <2>1. UNCHANGED <<today, opp, book>> /\ requests' \subseteq requests
    BY <1>6 DEF Deliver, server
  <2>2. shown' \in {shown, Nothing} \/ Grounded(shown')
    BY <1>6 DEF Deliver, Sourced, Grounded
  <2> QED
    BY <2>1, <2>2 DEF Sourced, OnRecord, Grounded
<1> QED
  BY <1>1, <1>2, <1>3, <1>4, <1>5, <1>6 DEF Next, TabStep, AnswerRun

LEMMA AlwaysSourced == Spec => []Sourced
<1>1. Init => Sourced
  BY DEF Init, Sourced, OnRecord
<1> QED
  BY <1>1, InitIInv, NextIInv, NextSourced, PTL DEF Spec

\* Every result in sight is that of a clearing.
LEMMA AnswersAreClearings ==
  ASSUME Sourced, NEW r \in Answers
  PROVE  IsClearing(r)
<1>1. PICK a \in {q.answer : q \in requests} \cup {shown} :
          a \notin {Nothing, Failed, Waiting} /\ r = ResultOf(a)
  BY DEF Answers
<1>2. Grounded(a)
  BY <1>1 DEF Sourced
<1> QED
  BY <1>1, <1>2, ResultIsClearing DEF Sourced

----------------------------------------------------------------------------
(* Theorems.                                                               *)

\* However answers are delayed, reordered or failed, and wherever the tab has
\* been in between, an arena that is done calculating shows the answer for the
\* urgency its slider stands at.
THEOREM SliderIsAnswered == Spec => []AnswerMatchesSlider
<1>1. IInv => AnswerMatchesSlider
  BY DEF IInv
<1> QED
  BY <1>1, InitIInv, NextIInv, PTL DEF Spec

\* However the calls of a callback fail and another tab races them, a browser
\* with a session belongs to a person whose row is bound, or to one the callback
\* turned away, whose sign-out failed or was not tried.
THEOREM OnlyRefusalsLinger == Spec => []OnlyTurnedAwayLinger
<1>1. Init => Listed /\ OnlyTurnedAwayLinger
  BY DEF Init, SessionInit, Listed, OnlyTurnedAwayLinger
<1>2. Listed /\ OnlyTurnedAwayLinger /\ [Next]_vars => Listed' /\ OnlyTurnedAwayLinger'
  BY SessionStepHolds, OthersNeedNoSession
  DEF Identify, Listed, OnlyTurnedAwayLinger, TurnedAway
<1> QED
  BY <1>1, <1>2, PTL DEF Spec

\* Whatever is on its way or on the screen, and for whatever bids: a winner
\* that costs more than another offer that clears the gates lands earlier, at
\* no more than the stated premium for each day.
THEOREM UrgencyOnlyBuysDays == Spec => []UrgencyBuysDays
<1>1. Sourced => UrgencyBuysDays
  <2> SUFFICES ASSUME Sourced, NEW a \in Answers, NEW w \in WinnerOf(a),
                      NEW j \in Survivors(a.scored, a.utility),
                      Less(a.scored[j].cost, a.scored[w].cost)
               PROVE  LET win == a.scored[w]
                          other == a.scored[j]
                          saved == other.arrival - win.arrival
                      IN  /\ saved > 0
                          /\ AtMost(<<win.cost[1] * Scale, win.cost[2]>>,
                                    <<other.cost[1] * Scale
                                          + saved * a.nudge * MaxPremium * other.cost[2],
                                      other.cost[2]>>)
    BY DEF UrgencyBuysDays
  <2>1. IsClearing(a)
    BY AnswersAreClearings
  <2> QED
    BY <2>1, ClearingBuysDays
<1> QED
  BY <1>1, AlwaysSourced, PTL

\* No offer dominates the winner on price or cash; only, at no urgency, a
\* faster one of the same price and cash.
THEOREM NoOfferBeatsTheWinner == Spec => []WinnerUnbeaten
<1>1. Sourced => WinnerUnbeaten
  <2> SUFFICES ASSUME Sourced, NEW a \in Answers, NEW w \in WinnerOf(a),
                      a.beatenBy[w] # 0, a.scored[w].cost # Infinite
               PROVE  LET other == a.scored[a.beatenBy[w]] IN
                      /\ a.nudge = 0
                      /\ other.net = a.scored[w].net
                      /\ ~Less(other.cost, a.scored[w].cost)
    BY DEF WinnerUnbeaten
  <2>1. IsClearing(a)
    BY AnswersAreClearings
  <2> QED
    BY <2>1, ClearingIsUnbeaten
<1> QED
  BY <1>1, AlwaysSourced, PTL

\* What the assistant recommends clears both gates and is the cheapest that
\* does; what it calls disqualified is not ranked.
THEOREM AssistantAdvisesSoundly == Spec => []AdviceIsCheapestThatClears
<1>1. Sourced => AdviceIsCheapestThatClears
  <2> SUFFICES ASSUME Sourced,
                      NEW cues \in {{"winner"}, {"winner", "cheapest"},
                                    {"cheapest", "disqualified"}},
                      NEW i \in AnswerTo(cues, ResultOf(ClearById(0))).subjects
               PROVE  LET result == ResultOf(ClearById(0))
                          kept == Survivors(result.scored, result.utility)
                      IN  IF AnswerTo(cues, result).recommends
                          THEN i \in kept /\ \A j \in kept :
                                  AtMost(result.scored[i].cost, result.scored[j].cost)
                          ELSE i \notin kept
    BY DEF AdviceIsCheapestThatClears
  <2>1. Grounded(ClearById(0)) /\ ClearById(0).nudge = 0
    <3>1. Grounded(ClearById(0))
      BY FreshIsGrounded, ScaleIsNat DEF Sourced
    <3>2. ClearById(0).nudge = 0
      BY DEF ClearById
    <3> QED
      BY <3>1, <3>2
  <2> DEFINE r == ResultOf(ClearById(0))
  <2>2. IsClearing(r) /\ r.nudge = 0
    BY <2>1, ResultIsClearing DEF Sourced
  <2>3. i \in AnswerTo(cues, r).subjects
    OBVIOUS
  <2> HIDE DEF r
  <2>4. LET kept == Survivors(r.scored, r.utility) IN
        IF AnswerTo(cues, r).recommends
        THEN i \in kept /\ \A j \in kept : AtMost(r.scored[i].cost, r.scored[j].cost)
        ELSE i \notin kept
    BY <2>2, <2>3, AdviceIsSound
  <2> QED
    BY <2>4 DEF r
<1> QED
  BY <1>1, AlwaysSourced, PTL

\* With the winner's cash in it, the supplier's balance does not go under the
\* buffer before the deadline; on that day it is short at most by the bills that
\* come after the one that breached first.
THEOREM WinnerCoversTheBreach == Spec => []ShortByTheRestOfTheDay
<1>1. Sourced => ShortByTheRestOfTheDay
  <2> SUFFICES ASSUME Sourced, "cash" \in DOMAIN opp.needs, NEW a \in Answers,
                      NEW w \in WinnerOf(a), NEW i \in Breaches(opp.needs, a.asOf),
                      ~(opp.needs.obligations[i].due > a.utility.deadline)
               PROVE  FundedBalance(a, w, i) + BilledAfterBreach(opp.needs, a.asOf, i)
                        >= opp.needs.threshold
    BY DEF ShortByTheRestOfTheDay
  <2>1. IsClearing(a)
    BY AnswersAreClearings
  <2> QED
    BY <2>1, ClearingCovers DEF Sourced
<1> QED
  BY <1>1, AlwaysSourced, PTL
=============================================================================
