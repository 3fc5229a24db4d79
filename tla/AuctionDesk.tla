---------------------------- MODULE AuctionDesk -----------------------------
(***************************************************************************)
(* How a supplier meets the clearing engine: POST /api/match and clearById *)
(* on the server; in one browser tab, once past the sign-in, the invoices, *)
(* the invoice and its auction, whose arena asks again whenever the slider *)
(* moves (debounced, answers ignored when they are late), the winning card *)
(* with its accept button, and the settlement page that opens after it;    *)
(* beside them the market pages, server components, and the agents that    *)
(* post their bids inline.  Meanwhile days pass, sessions end, and other   *)
(* deals draw the providers' liquidity.                                    *)
(***************************************************************************)
EXTENDS OfferScoring, Session
CONSTANTS
    Books,          \* the sequences of active bids the database may hold
    AgentBids,      \* the bids the market agents post
    AgentNudges,    \* and the urgency they post with, of any size
    Face,           \* face value of the invoice
    NeedsOptions,   \* cash positions, or stored columns, the supplier may have
    Capacity,       \* capacity of each provider at the start
    Nudges,         \* positions of the slider, 0 among them; its last is a twentieth of Scale
    LastDay,        \* bound: days that pass
    Rivals,         \* bound: providers whose liquidity another deal takes
    MaxMounts,      \* bound: slider moves and page loads
    Failed,         \* the answer of a call that failed
    Waiting         \* the answer of a call not served yet

ASSUME DeskAssumption ==
    Nudges \subseteq 0..Scale /\ AgentNudges \subseteq Int /\ Face \in Int

\* What the columns of a bid, and the fields of an agent's quote, hold.
ASSUME BidsAssumption ==
    /\ \A rows \in Books : \A i \in 1..Len(rows) :
            /\ {rows[i].advanceRate, rows[i].annualRate, rows[i].flatFee, rows[i].tenor}
                    \subseteq Int
            /\ rows[i].settlementDays \in Nat
    /\ \A rows \in Books \cup {AgentBids} : Len(rows) \in Nat
    /\ \A i \in 1..Len(AgentBids) :
            {AgentBids[i].advanceRate, AgentBids[i].apr, AgentBids[i].fees,
             AgentBids[i].tenor, AgentBids[i].hours} \subseteq Int

\* A cash position, with its obligations, or two nullable columns.
ASSUME NeedsAssumption ==
    \A needs \in NeedsOptions :
        IF "cash" \in DOMAIN needs
        THEN /\ needs.cash \in Int /\ needs.threshold \in Int
             /\ Len(needs.obligations) \in Nat
             /\ DOMAIN needs.obligations = 1..Len(needs.obligations)
             /\ \A i \in DOMAIN needs.obligations :
                    {needs.obligations[i].due, needs.obligations[i].amount} \subseteq Int
        ELSE needs.floor \subseteq Int /\ needs.deadline \subseteq Int

VARIABLES
    today,          \* the server's date
    opp, book,      \* the opportunity and its active bids
    caps,           \* capacity of each provider, as the next read finds it
    nudge, gen,     \* the slider, and how many times the effect has run
    timer,          \* the debounce timer of the current run is pending
    requests,       \* POSTs in flight: run, nudge, answer
    shown, failed, loading,
    accepting       \* the card's accept timer is pending

server == <<today, opp, book, caps>>
identity == <<signed, user, platform>>
arena == <<nudge, gen, timer, shown, failed, loading>>
tab == <<arena, requests, accepting>>
vars == <<server, session, tab>>

\* The props SettlementView falls back on.
StandIn == "Rapidfin"

-----------------------------------------------------------------------------
\* The server.

\* An answer is kept as what it was computed from: the date, the nudge and the
\* capacities, if they were read.
\* clearById reads the capacities of the bidders ...
ClearById(n) ==
    [asOf |-> today, nudge |-> n,
     caps |-> {[p \in {book[i].provider : i \in DOMAIN book} |-> caps[p]]}]

\* ... the agents' path reads none, and scores what was posted ...
ScoreAgentBids(n) == [asOf |-> today, nudge |-> n, caps |-> {}]

OffersOf(a) ==
    IF a.caps = {}
    THEN [i \in 1..Len(AgentBids) |-> LenderBidToOffer(AgentBids[i])]
    ELSE [i \in 1..Len(book) |-> BidToOffer(book[i])]

\* ... and both clear the opportunity.
ResultOf(a) == ClearOpportunity(opp, OffersOf(a), a.asOf, a.nudge, a.caps)

ClampNudge(n) == IF n < 0 THEN 0 ELSE IF n > Scale THEN Scale ELSE n

\* The offers that failed a gate, folded away under the card.
Disqualified(result) == DOMAIN result.scored \ Survivors(result.scored, result.utility)

\* What the assistant is asked: the cues of a question, the first in this order
\* naming its intent.
IntentOrder == <<"disqualified", "cheapest", "winner", "need", "ledger", "portfolio">>

Classify(cues) ==
    LET hits == {i \in DOMAIN IntentOrder : IntentOrder[i] \in cues}
    IN  IF hits = {} THEN "help" ELSE IntentOrder[Min(hits)]

\* The first offer of lowest cost, gates or none, 0 when there is no offer.
Cheapest(scored) ==
    LET low == {i \in DOMAIN scored : \A j \in DOMAIN scored :
                    AtMost(scored[i].cost, scored[j].cost)}
    IN  IF low = {} THEN 0 ELSE Min(low)

\* offerScript: what is said of one offer, its rank decided by the answer it is
\* read from.
Explained(result, i) ==
    CASE i \in Disqualified(result) -> "disqualified"
      [] result.order # <<>> /\ i = result.order[1] -> "best"
      [] OTHER -> "ranked"

\* Faulty variant: the cheapest offer is recommended as it is.
AnswerUnchecked(cues, result) ==
    LET intent == Classify(cues)
        best == Cheapest(result.scored)
    IN  [intent |-> intent,
         subjects |-> IF intent = "cheapest" /\ best # 0 THEN {best} ELSE {},
         recommends |-> intent = "cheapest" /\ best # 0]

\* What the answer claims: the offers it speaks of, and whether it recommends
\* them.  The words for ledger, portfolio and help name no offer; those for
\* need tell the gates.
AnswerTo(cues, result) ==
    LET intent == Classify(cues)
        best == Cheapest(result.scored)
        kept == Survivors(result.scored, result.utility)
        claim(subjects, recommends) ==
            [intent |-> intent, subjects |-> subjects, recommends |-> recommends]
    IN  CASE intent = "winner" /\ result.order # <<>> -> 
                claim({result.order[1]}, Explained(result, result.order[1]) = "best")
          [] intent = "cheapest" /\ best # 0 -> claim({best}, best \in kept)
          [] intent = "disqualified" -> claim(Disqualified(result), FALSE)
          [] OTHER -> claim({}, FALSE)

\* The market page, a server component: the same clearing, at no nudge.
OpenMarketPage ==
    /\ page = "opportunities"
    /\ Goto("market")
    /\ shown' = IF signed THEN ClearById(0) ELSE Nothing
    /\ UNCHANGED <<server, identity, nudge, gen, timer, failed, loading, requests,
                   accepting>>

\* The market agents post their bids with a nudge and are answered; run 0
\* stands for them.  Bound: they do so once, as the tab comes to the auction,
\* when the database holds bids too.
AgentsPost ==
    /\ book # <<>> /\ gen = 0 /\ page = "finding"
    /\ \A r \in requests : r.run # 0
    /\ \E n \in AgentNudges : requests' = requests \cup
            {[run |-> 0, nudge |-> ClampNudge(n), answer |-> ScoreAgentBids(ClampNudge(n))]}
    /\ UNCHANGED <<server, session, arena, accepting>>

DayPasses ==
    /\ today < LastDay
    /\ today' = today + 1
    /\ UNCHANGED <<opp, book, caps, session, tab>>

\* A commit of another deal takes what a provider had left.
OtherDealFunds(p) ==
    /\ \E i \in DOMAIN book : book[i].provider = p
    /\ caps[p].available > 0
    /\ caps' = [caps EXCEPT ![p].available = 0]
    /\ UNCHANGED <<today, opp, book, session, tab>>

-----------------------------------------------------------------------------
\* The arena.

\* The effect of the arena runs: its predecessor's timer is cleared, and its
\* predecessor's request is no longer current.
RunEffect(n) ==
    /\ gen < MaxMounts
    /\ gen' = gen + 1
    /\ nudge' = n
    /\ timer' = TRUE
    /\ loading' = TRUE

\* The auction page looks the invoice up among all opportunities; the fetch
\* may fail, or not hold it.
FindInvoice ==
    /\ page = "finding"
    /\ \/ /\ page' = "arena"
          /\ RunEffect(0)
       \/ /\ page' = "notfound"
          /\ UNCHANGED <<nudge, gen, timer, loading>>
    /\ UNCHANGED <<server, identity, next, requests, shown, failed, accepting>>

\* The slider is there once an answer is shown.  Setting the value it has
\* already does not run the effect.
MoveSlider(n) ==
    /\ page = "arena" /\ shown # Nothing
    /\ n # nudge
    /\ RunEffect(n)
    /\ UNCHANGED <<server, session, requests, shown, failed, accepting>>

\* After 150 ms the request goes out.
TimerFires ==
    /\ timer
    /\ timer' = FALSE
    /\ requests' = requests \cup {[run |-> gen, nudge |-> nudge, answer |-> Waiting]}
    /\ UNCHANGED <<server, session, nudge, gen, shown, failed, loading, accepting>>

\* The route clears the opportunity with what the database holds now, or the
\* call fails and matchOpportunity returns null.
Serve(r) ==
    /\ r.answer = Waiting
    /\ \E a \in {ClearById(ClampNudge(r.nudge)), Failed} :
            requests' = (requests \ {r}) \cup {[r EXCEPT !.answer = a]}
    /\ UNCHANGED <<server, session, arena, accepting>>

\* Faulty variant: the answer is taken whichever run asked for it.
DeliverAnyRun(r) ==
    /\ r.answer # Waiting
    /\ requests' = requests \ {r}
    /\ IF page = "arena"
       THEN /\ shown' = IF r.answer = Failed THEN Nothing ELSE r.answer
            /\ failed' = (r.answer = Failed)
            /\ loading' = FALSE
       ELSE UNCHANGED <<shown, failed, loading>>
    /\ UNCHANGED <<server, session, nudge, gen, timer, accepting>>

\* Faulty variant: a failed call leaves the page waiting.
DeliverForgetting(r) ==
    /\ r.answer # Waiting
    /\ requests' = requests \ {r}
    /\ IF page = "arena" /\ r.run = gen /\ r.answer # Failed
       THEN /\ shown' = r.answer
            /\ failed' = FALSE
            /\ loading' = FALSE
       ELSE UNCHANGED <<shown, failed, loading>>
    /\ UNCHANGED <<server, session, nudge, gen, timer, accepting>>

\* The answer arrives; it counts if the run that asked is the current one.
Deliver(r) ==
    /\ r.answer # Waiting
    /\ requests' = requests \ {r}
    /\ IF page = "arena" /\ r.run = gen
       THEN /\ shown' = IF r.answer = Failed THEN Nothing ELSE r.answer
            /\ failed' = (r.answer = Failed)
            /\ loading' = FALSE
       ELSE UNCHANGED <<shown, failed, loading>>
    /\ UNCHANGED <<server, session, nudge, gen, timer, accepting>>

\* The place of the offer on the winning card: the one ranked first, else the
\* first there is, else there is no card.
CardOf(result) ==
    IF result.order # <<>> THEN result.order[1]
    ELSE IF result.scored # <<>> THEN 1 ELSE 0

-----------------------------------------------------------------------------
\* Moving about.

\* The tab goes to another page without loading a new document.  The arena
\* unmounts: its timer is cleared, and its answers are no longer looked at.
Leave(p) ==
    /\ Goto(p)
    /\ nudge' = 0 /\ timer' = FALSE
    /\ shown' = Nothing /\ failed' = FALSE /\ loading' = FALSE
    /\ requests' = {r \in requests : r.run = 0}
    /\ UNCHANGED <<server, identity, gen>>

Follow(p) == Leave(p) /\ UNCHANGED accepting

\* The pages with the shell around them: all but the sign-in.
InShell == page \notin {"blank", "login", "google", "looking", "admitting", "binding", "error"}

\* An address is typed, or the page is reloaded: nothing of the tab survives.
OpenAddress(p) ==
    /\ page \in {"blank", "login", "error"} \/ InShell
    /\ accepting' = FALSE
    /\ Leave(p)

LeaveForGoogle ==
    /\ SignIn
    /\ accepting' = FALSE
    /\ requests' = {r \in requests : r.run = 0}
    /\ UNCHANGED <<server, arena>>

Identify == SessionStep /\ UNCHANGED <<server, tab>>

\* The role the shell shows: a document starts as the supplier's, and the
\* address corrects it.
Role == IF page = "lender" THEN "lender" ELSE "supplier"

Dashboard(role) == IF role = "lender" THEN "lender" ELSE "board"

\* The root page, and the brand link of the shell, lead to the role's dashboard.
EnterHome == page = "home" /\ Follow(Dashboard(Role))
BrandLink == InShell /\ Follow(Dashboard(Role))

SwitchRole(role) == InShell /\ Follow(Dashboard(role))

\* The supplier's dashboard shows no invoice until both its fetches are in,
\* and none when they fail.
LoadBoard ==
    /\ page = "board"
    /\ page' = "invoices"
    /\ UNCHANGED <<server, identity, next, tab>>

OpenInvoice == page = "invoices" /\ Follow("reading")

ReadInvoice ==
    /\ page = "reading"
    /\ page' \in {"invoice", "notfound"}
    /\ UNCHANGED <<server, identity, next, tab>>

RunAuction == page = "invoice" /\ Follow("finding")

\* The link above the arena, and the one above a clearing.
BackToInvoice == page = "arena" /\ shown # Nothing /\ Follow("reading")
\* The market's index, rendered from the database or without it.
ReadMarket ==
    /\ page = "list"
    /\ page' \in {"opportunities", "unreachable"}
    /\ UNCHANGED <<server, identity, next, tab>>

BackToMarket == page = "market" /\ Follow("list")

-----------------------------------------------------------------------------
\* Acceptance and settlement.

\* The button of the card, disabled while its timer runs.
Accept ==
    /\ page = "arena" /\ shown # Nothing /\ ~accepting
    /\ CardOf(ResultOf(shown)) # 0
    /\ accepting' = TRUE
    /\ UNCHANGED <<server, session, arena, requests>>

\* After 900 ms the router opens the settlement page, wherever the tab has gone
\* meanwhile without loading a new document.
OpenSettlement ==
    /\ accepting
    /\ accepting' = FALSE
    /\ Leave("opening")

\* The settlement page looks the invoice up ...
FindSettled ==
    /\ page = "opening"
    /\ page' \in {"clearing", "notfound"}
    /\ UNCHANGED <<server, identity, next, tab>>

\* ... and clears it again, at no nudge.
ClearSettled ==
    /\ page = "clearing"
    /\ page' = "settled"
    /\ shown' \in {ClearById(0), Failed}
    /\ UNCHANGED <<server, identity, next, nudge, gen, timer, requests, failed,
                   loading, accepting>>

\* The provider the settlement view names.  With no match, or no answer, its
\* default props are what it shows.
Named(a) ==
    IF a # Failed /\ ResultOf(a).status = "MATCHED"
    THEN OffersOf(a)[ResultOf(a).order[1]].provider ELSE StandIn

-----------------------------------------------------------------------------
Init ==
    /\ SessionInit
    /\ today = 0
    /\ opp \in [face : {Face}, needs : NeedsOptions]
    /\ book \in Books
    /\ caps = Capacity
    /\ nudge = 0 /\ gen = 0 /\ timer = FALSE /\ requests = {}
    /\ shown = Nothing /\ failed = FALSE /\ loading = FALSE
    /\ accepting = FALSE

TabStep ==
    FindInvoice \/ TimerFires \/ OpenSettlement \/ FindSettled \/ ClearSettled

AnswerRun(k) == \E r \in requests : r.run = k /\ (Serve(r) \/ Deliver(r))

Browse ==
    \/ EnterHome \/ LoadBoard \/ OpenInvoice \/ ReadInvoice \/ RunAuction
    \/ BackToInvoice \/ ReadMarket \/ OpenMarketPage \/ BackToMarket
    \/ \E p \in {"home", "finding", "list"} : OpenAddress(p)
    \/ BrandLink
    \/ \E role \in {"supplier", "lender"} : SwitchRole(role)

Next ==
    \/ TabStep \/ Accept \/ Browse \/ LeaveForGoogle
    \/ Identify
    \/ \E k \in 0..MaxMounts : AnswerRun(k)
    \/ \E n \in Nudges : MoveSlider(n)
    \/ AgentsPost \/ DayPasses
    \/ \E p \in Rivals : OtherDealFunds(p)

\* Timers fire, every call is answered or fails, and the answer arrives;
\* nobody has to touch the page, and neither the date nor other deals have to
\* move.
Spec ==
    /\ Init /\ [][Next]_vars
    /\ WF_vars(TabStep)
    /\ \A k \in 0..MaxMounts : WF_vars(AnswerRun(k))

-----------------------------------------------------------------------------
\* Properties.

Answers == {ResultOf(a) : a \in
    {a \in {r.answer : r \in requests} \cup {shown} :
        a \notin {Nothing, Failed, Waiting}}}

WinnerOf(a) == IF a.order = <<>> THEN {} ELSE {a.order[1]}

\* Once the arena has stopped recalculating, what it shows was computed for
\* the urgency the slider stands at, however the answers were reordered.
AnswerMatchesSlider ==
    page = "arena" /\ ~loading /\ shown # Nothing => shown.nudge = nudge

\* A winner that costs more than another survivor lands earlier, and costs at
\* most the stated premium more for each day it saves.
UrgencyBuysDays ==
    \A a \in Answers : \A w \in WinnerOf(a), j \in Survivors(a.scored, a.utility) :
        LET win == a.scored[w]
            other == a.scored[j]
            saved == other.arrival - win.arrival
        IN  Less(other.cost, win.cost) =>
                /\ saved > 0
                /\ AtMost(<<win.cost[1] * Scale, win.cost[2]>>,
                          <<other.cost[1] * Scale
                                + saved * a.nudge * MaxPremium * other.cost[2],
                            other.cost[2]>>)

\* No offer beats a winner of finite cost on price or on cash while losing on
\* nothing: if the winner is dominated at all it is by a faster offer of the
\* same price and cash, and the supplier asked for no urgency.
WinnerUnbeaten ==
    \A a \in Answers : \A w \in WinnerOf(a) :
        a.beatenBy[w] # 0 /\ a.scored[w].cost # Infinite =>
            LET other == a.scored[a.beatenBy[w]] IN
            /\ a.nudge = 0
            /\ other.net = a.scored[w].net
            /\ ~Less(other.cost, a.scored[w].cost)

\* Whatever the assistant is asked, and whatever words the question also holds:
\* an offer it recommends clears both gates, none that clears them is cheaper,
\* and an offer it calls disqualified is not ranked.
AdviceIsCheapestThatClears ==
    page = "arena" /\ shown # Nothing =>
    \A result \in {ResultOf(ClearById(0))} :
    \A kept \in {Survivors(result.scored, result.utility)} :
        \A cues \in {{"winner"}, {"winner", "cheapest"}, {"cheapest", "disqualified"}} :
            LET claim == AnswerTo(cues, result) IN
            \A i \in claim.subjects :
                IF claim.recommends
                THEN i \in kept /\ \A j \in kept :
                        AtMost(result.scored[i].cost, result.scored[j].cost)
                ELSE i \notin kept

\* The balance after an obligation when the winner's cash has come by then.
FundedBalance(a, w, i) ==
    BalanceAt(opp.needs, a.asOf, i)
        + IF a.scored[w].arrival <= opp.needs.obligations[i].due
          THEN a.scored[w].net ELSE 0

\* What the bills cost that are paid after a breach, up to the i-th.
BilledAfterBreach(position, asOf, i) ==
    SumFunctionOnSet([j \in DOMAIN position.obligations |-> position.obligations[j].amount],
        {j \in PaidBy(position.obligations, asOf, i) :
            \E b \in PaidBy(position.obligations, asOf, j) \ {j} :
                b \in Breaches(position, asOf)})

\* Replaying the supplier's cash with the winner's money in it.  utility.ts:14
\* promises "the shortfall on that date"; the code keeps less.  There is no
\* breach before the deadline, and on it the balance is short of the buffer at
\* most by the bills of that day that come after the one that breached first.
ShortByTheRestOfTheDay ==
    "cash" \in DOMAIN opp.needs =>
    \A a \in Answers : \A w \in WinnerOf(a), i \in Breaches(opp.needs, a.asOf) :
        \/ opp.needs.obligations[i].due > a.utility.deadline
        \/ FundedBalance(a, w, i) + BilledAfterBreach(opp.needs, a.asOf, i)
                >= opp.needs.threshold

\* The arena never recalculates for ever: the answer comes, or the failure is
\* told.
EveryQuestionAnswered == loading ~> ~loading
=============================================================================
