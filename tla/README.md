# LienRho in TLA+

LienRho is an invoice-financing product: a market in which capital providers
bid on invoices of small suppliers, a double-entry ledger of the money that
moves, a decision engine that recommends what to do with each overdue invoice
and asks a person before anything sensitive is done, and a web client in which
a supplier signs in, runs the auction, accepts an offer and has the invoice
verified by a spoken call.  This directory
holds a specification of the parts in which concurrency, failure or the order
of calls decides whether the program is right, the instances TLC checks, and
the proofs TLAPS checks.

Run a model with `tlc -config X.cfg MCModule.tla`, a proof module with
`tlapm Module.tla`.  `PROJECT.json` maps every definition to the lines it
translates and lists runs, faulty variants, findings, hazards and theorems.

## 1. Inventory

| component | code | state | operations | modelled by |
|---|---|---|---|---|
| market commitment | `frontend/src/lib/market/commit.ts` | rows of `capital_provider`, `financing_opportunity` | `commitAllocation` | `CommitAllocation` |
| market allocation | `market/allocate.ts` | none | `allocate`, `capacityFor` | `Allocation` |
| market clearing | `market/server.ts`, `clear.ts` | none (reads rows) | `clearById`, `clearOpportunity` | `MarketClearing`, `OfferScoring` |
| offer scoring, Pareto front | `market/score.ts`, `pareto.ts`, `utility.ts`, `offer-math.ts`, `money.ts`, adapters | none | pure | `OfferScoring` |
| provider mandates | `app/api/providers/[id]/mandate/route.ts` | columns of `capital_provider` | `PATCH` | `MarketClearing` |
| auction desk | `components/auction/`, `SettlementView.tsx`, `app/api/match`, `app/market`, supplier pages | one tab: page, slider, requests in flight, timers | move the slider, answers late or failed, accept, navigate, reload | `AuctionDesk` |
| sign-in and session | `proxy.ts`, `app/login`, `app/auth/callback`, `lib/auth.ts` | cookie jar, `User` rows | proxy, callback, end of a session | `Session` |
| verification call | `VoiceVerificationModal.tsx`, `app/api/verify/call` | the dialog, its loops, the invoice's tier and acceptance date | start, dismiss, confirm | `VerificationCall` |
| voice assistant | `lib/voice/`, `components/voice/`, `app/api/voice` | one audio element, the clips, the microphone | `speak`, `stop`, watchdog, ask, listen | `Speech`, `VoiceCockpit` |
| ledger posting | `frontend/src/lib/ledger/post.ts`, `accounts.ts`, `lib/money.ts` | `journal_entry`, `posting`, `account` | `postEntry`, `ensureAccounts`, balances | `Ledger` |
| money flows | `ledger/flows.ts` | none (posts) | disbursement, buyer payment, reserve release, escrow hold and release | `Settlement` |
| decision engine | `backend/app/decision_engine/engine.py`, `service.py` | none (derived per request) | `decide_action`, `approve`, `reject`, `assert_executable`, `decide_on_action`, `build_artifact` | `Approvals` |
| approval store | `decision_engine/store.py` | `action_decisions`, `audit_log_entries`, or a dictionary; `_STORE` | `get`, `record`, `get_approval_store` | `Approvals` |
| decision API | `backend/app/api/routes.py`, `outreach/` | none | approve, reject, artifact | `Approvals` |
| portfolio sync | `backend/app/sync/service.py` | customers, invoices, payments, sync runs | `sync_portfolio`, `load_portfolio`, `last_sync` | `PortfolioSync` |
| sync scheduler | `sync/scheduler.py`, `main.py` | one asyncio task | the loop, `lifespan` and its cancellation, `POST /sync` | `SyncScheduler` |
| everything else | rules, agents, delay model, connectors, backend auth, tenant scoping, drafts, seed, other views | | | not modelled, reasons in section 8 |

How they interact.  A clearing reads provider rows outside any transaction,
allocates in memory and returns a plan; a later call commits the plan in an
interactive transaction that draws each leg by a conditional UPDATE.  A PATCH
of the mandate writes the same rows.  The flows post entries to the ledger, in
a transaction of their own or of their caller.  On the backend the portfolio
(rewritten by syncs) is read by every request, the recommendation is derived
from it, the recorded decision is replayed onto it from the store, and the
artifact is built, behind a gate, from a second reading.  The scheduler's task
and `POST /sync` start syncs in threads of their own; nothing keeps two of one
organisation apart.  In the browser, the auction page asks `/api/match` for a
clearing at every position of its slider and shows the ranking, the winner and
the warnings of the answer; accepting opens the settlement page, which clears
again.  Every page lies behind the proxy, the login and the callback.  The
dialog of the verification call and the cockpit of the assistant share one
speech hook, which fetches and plays clips.

What is hard in it:

- interleaved transactions under READ COMMITTED: a predicate evaluated on a row
  version that changes, locks taken in the order of the plan, unique keys that
  decide races (commit, ledger, approval store), a DELETE that sees the rows of
  its start (payments, audit entries);
- values read outside the transaction that uses them: capacities of a
  clearing, the entries so far of a decision, the action a decision was about;
- three questions to an accounting system somebody is posting in, and three
  SELECTs of a portfolio that syncs rewrite;
- partial failure: a later leg that is refused, a later entry that fails, a
  builder that fails after the decision was recorded;
- lost answers and retries: `COMMIT` took effect, the caller does not know;
- a component that is gone while its timers, loops and fetches run on; answers
  that come in another order than the questions; a clip that comes to sound
  after it was replaced;
- a callback that reads, admits and binds in calls of their own, beside another
  tab with the same cookie jar;
- a process that restarts or falls back to a store that does not last, and a
  cancellation that arrives in the middle of a sync.

What makes each part correct, in a sentence: capital is never promised twice
(market); every rupee is accounted for once (ledger); nothing sensitive leaves
without a person's decision, and no decision disappears (decision engine); the
store holds what the accounting system said, whole, or what it held before
(sync); the arena shows the answer to the question it stands at, the winner is
the one the market's own rules promise, and nobody the market would admit has
a session without an account (desk); an invoice is upgraded only after a whole
call, and the page knows of it (verification).
The full list of hazards, each at its line, is in `PROJECT.json`.

## 2. Modules

```
AtomicAllocation <--refines-- CommitAllocation <--EXTENDS-- MarketClearing --EXTENDS--> Allocation
                                     ^                            ^
                     CommitAllocationProofs <--EXTENDS-- MarketClearingProofs
IdempotentJournal <--refines-- Ledger <--EXTENDS-- Settlement <--EXTENDS-- LedgerProofs
Allocation <--EXTENDS-- OfferScoring <--+
                            Session  <--+-- AuctionDesk <--EXTENDS-- AuctionDeskProofs
Speech <--EXTENDS-- VerificationCall <--EXTENDS-- VerificationCallProofs
       <--EXTENDS-- VoiceCockpit
Approvals <--EXTENDS-- ApprovalsProofs
PortfolioSync <--EXTENDS-- SyncScheduler <--EXTENDS-- PortfolioSyncProofs
SumLemmas <--EXTENDS-- CommitAllocationProofs, LedgerProofs, AuctionDeskProofs
```

`SumLemmas` is no model: it holds what the proofs need of sums and of
induction (section 6).

`AtomicAllocation` says what the market promises: a deal happens in one step,
draws only capital that is there, and drives no balance below zero; liquidity
may also be restated by its owner.

`CommitAllocation` is `commitAllocation`, one process per call.  `liquidity`
and `status` are the committed rows.  An open transaction is a `pc`, its `plan`
and the index `next` of its leg: the rows it has debited are those of the legs
before `next`, so locks and uncommitted debits need no variables of their own.
`ApplyLeg` is `updateMany` with `availableLiquidity >= funded` (it waits for
the row's lock), `RefuseLeg` the count of 0 and the second read that explains
it, `UpdateStatus` the update of the opportunity, `Commit` and `Acknowledge`
the two halves of COMMIT, `Rollback` the `AllocationRaced` path.  `Abort` and
`LoseAnswer` are faults; `DeadlockVictim` is Postgres ending one transaction of
a cycle.  `durable`, the set of calls whose COMMIT took effect, is history.

`Allocation` holds `allocate` as operators: `RoomOf`/`CapacityFor` (the
smaller of liquidity, ticket and buyer headroom), `Visit` (one candidate: fund
or skip) and the walk over the ranking.  `MarketClearing` extends both: `Clear`
reads the rows and allocates, `CommitResult` begins a commit with the plan of
an earlier clearing, `PatchMandate` is the route.  `seen` keeps the capacities
a clearing was given.

`IdempotentJournal` says what the ledger promises: the journal only grows, by
whole requests, and never by a reference it has.

`Ledger` is `postEntry`, one process per caller; a `script` is the list of
entries a caller posts in one transaction.  `FindExisting`/`FindNothing` is the
lookup, `Create` the insert under the unique index (it waits for another
transaction's uncommitted row of that reference), `CreateDuplicate` the error
when that row was committed meanwhile, `RejectEntry`/`RejectAccounts` the
checks that throw.  Amounts are in tenths of a paisa, so that `Money` (two
decimals, half up) loses something.  `Settlement` translates the five flows
into entries.

`OfferScoring` is what the market computes before it allocates: rates rounded
as `prisma-adapter.ts` and `agent-adapter.ts` round them, dates in business
days (`AddBusinessDays`), charges and `EffectiveCost` as an exact fraction,
`DeriveUtility` (the supplier's floor and deadline from the first obligation
that takes the cash under its threshold) or the stored columns, the two gates,
`Ranking` under the nudge of the slider, `Frontier` and `Dominator`, and the
reason when nothing matches.  `ClearOpportunity` puts them together and hands
the ranking to `Allocation`; bids that come with the request are cleared
without capacities, which then is the empty set.  `AtMost` and `Less` compare
fractions by cross products, so that no value is rounded that the code does not
round.

`Session` is the way past the sign-in: the proxy (`Goto`), the login page
(`LeaveLogin`, `SignIn`), and the callback call by call (`ExchangeCode`,
`LookUpUser`, `Admit`, `Bind`, `CallbackThrows`), with another tab that signs
the same person in between (`OtherTabSignsIn`) and sessions that end.  Whom the
callback turns away may keep the cookie: it does not read the error of
`signOut`, and a person without an email is sent back after the exchange.
`AuctionDesk` is one tab and the server behind it.  The effect of the slider is
`RunEffect`, its debounce `TimerFires`, the route `Serve`, the answer
`Deliver`, which is ignored unless it is of the current run.  A request keeps
the nudge, the date and the capacities its answer is computed from, so the
whole pipeline of `OfferScoring` runs on what that answer saw.  Navigation is
`Follow` (the client's, which keeps a pending accept timer) or `OpenAddress` (a
reload, through the proxy); `Accept`, `OpenSettlement` and `ClearSettled` are
the way to the settlement page, `AgentsPost` the path of `/api/match` with
inline bids and a nudge of their own, which the route clamps, `OpenMarketPage`
and `ReadMarket` the server-rendered pages. `DayPasses` and `OtherDealFunds`
are the environment.

`Speech` is the hook `useSpeech` as operators over `clip`, `audio` (the ref) and
`sounding` (what one hears); the modules that use it conjoin its steps with
their own and say whether the component is still mounted.  `VerificationCall`
is the invoice page, its dialog with the loops of `handleStartCall` that nothing
cancels, and the POSTs, each a read and a write under READ COMMITTED.  The
field `beside` of a loop, which other loops ran when it began, is history.
`VoiceCockpit` is the assistant: questions typed or heard, late replies and the
clips they start.

`Approvals` is one invoice of one organisation and the requests about it, each
a thread: derive the recommendation (`Arrive`), find the store (`BeginProbe`,
`ProbeSucceeds`, `ProbeFails`), replay the decision (`GetFromMemory`, or
`GetRow` and `GetRows`, two SELECTs), and for a decision read the entries again,
record them (`RecordInMemory`, or the statements `SelectExisting`,
`StartDelete`/`FinishDelete`, `Flush`/`FlushConflicts`, `Commit`), then build
what was approved (`Build`, `BuildNothing`, `BuildRefused`, `BuildIneligible`).
A DELETE that waits for row locks has two steps, because the rows it sees are
those of its start.  `Merged` is what SQLAlchemy sends: the columns whose value
differs from the one the session loaded.  `recorded`, `began` and `crowded` are
history: the decisions that took effect, how many had when a request began, and
those that met another decision in progress.

`PortfolioSync` is the store of one organisation and the `sync_portfolio` calls
that write it.  A call reads the book in three steps (`ReadCustomers`,
`ReadInvoices`, `ReadPayments`; `BookMoves` may come between), then runs the
statements of its transaction: the SELECTs of `UpsertCustomers` and
`UpsertInvoices`, `DeletePayments`/`FinishDelete` (the rows are those its start
saw, and it waits for whoever deleted one of them), and `Commit`.  The session
is made with `autoflush=False`, so all INSERTs and UPDATEs are sent with
COMMIT; flush and COMMIT are one step, and a flush that fails is `Refused`
(keys, foreign keys) or `WriteFails`.  `Updated` writes only the columns that
differ from what the SELECT loaded.  `Record` is the second transaction,
`RecordFails` its exception, after which the row is there or not.  `commits`,
`began` and `unanswered` are history.  A load is three SELECTs.
`SyncScheduler` adds the task, one step from await to await (`Wake`, `Resume`;
`Launch` starts the thread of the next organisation), the requests, the
lifespan's `Shutdown` and `Stop`, and `Kill`; a sync of another organisation is
seen only by how it ends.

## 3. Runs

| run | question | bounds | states |
|---|---|---|---|
| `commit` | Do concurrent commits overdraw, double-draw, half-draw or lie? Do they return? | 2 providers, 2 opportunities, 3 calls, 5 plans | 272,592 |
| `clearing` | Do plans made from stale capacities respect them and the ranking, and do deals stay indivisible under mandate edits? | 2 providers ranked in opposite orders, 2 clearings, 6 edits | 229,258 |
| `auction` | Does the arena show the answer to where it stands? Does a dearer winner save its premium in days? Is the winner unbeaten, the advice the cheapest that clears? Is the supplier short at most of what is billed after the breach it funds? Who keeps a session without an account? Is every question answered? | 3 books of up to 4 bids, 3 posted bids, 3 needs, 2 nudges and one of the agents, 3 mounts, 1 day, 1 rival draw | 664,512 |
| `settlement` | Is the journal whole, balanced and posted once? Is escrow matched, the provider first? | 3 callers, 4 scripts of 1 or 2 entries, full and short repayment | 69,970 |
| `approvals` | Does the gate hold; does the trail double, reorder or lose decisions; is every request answered? | 3 requests, 2 situations of the invoice, faults and restarts anywhere | 623,122 |
| `lost_decision` | Is an answered decision always on the trail? | as above | violated |
| `stale_approval` | Was what is handed out approved as what it is? | as above | violated |
| `sync` | Is the store whole readings; is a lone sync exact; are the runs true; are loads closed; does every sync end and every organisation get its turn? | 2 syncs, 1 load, a round of 2 organisations, 2 books, faults, kill, shutdown anywhere | 556,740 |
| `duplicate_payments` | Does a payment stand in the store as often as in the book? | 2 syncs | violated |
| `shutdown` | Does a server that is stopped stop? | 1 scheduled sync, 1 request | violated |
| `call` | When may the page show another tier than the invoice; is an upgrade only after a whole call; when are two clips heard at once; does every call end? | 2 calls of 2 lines, a second tab, any mounts | 495,013 |
| `two_voices` | Does one hear one clip at a time? | 2 questions, 1 recognition | violated |

Why the bounds are enough.  Two providers and two plans that name them in
opposite orders give every lock conflict and a deadlock; the third call makes a
waiter find a row that changed while it waited, and lets one call be refused by
the pair of the others.  Balances of 3 against legs of 1 to 3 give exact fits,
a remainder, and refusals at the first and the second leg.  In the ledger, one
script shares each reference with another, one contains an entry that balances
only before rounding, one account is missing until somebody ensures it, and the
batches post two references in opposite orders.  In the approvals, one request
always approves, one approves or rejects, the third rejects or fetches; two
decisions are enough for a race and the third request observes it or makes it a
chain.  Each request runs once; retries are further requests.  In the sync, the
second book has another customer, bill and receipt, changes the rows of the
first, and repeats a receipt, so a reading across the two can name a customer
it does not have; the store starts empty or filled, so that both the INSERTs
and the UPDATEs race; the two syncs are the smallest number that overlaps, and
the round puts another organisation before this one. In the auction, the bids
of the books are a cheap one and its twin (a tie), a dear fast and a dear slow
one (one dominated, one worth its price when the slider moves), two of one
price of which one advances twice as much, and one whose charges eat its
advance; the needs are two breaches of which the later is deeper, two bills of
the first day (which is over on the next, and with it the shortfall), and
stored columns of which one is null; three runs of the effect let two answers
be late for one. `Scale` and `YearDays` are small so that products stay within
32 bits; every comparison is of exact fractions, whatever the scale.  In the
call, the second call may be started in a dialog opened again while the loop of
the first still runs, and two lines are enough for a line to stall and the next
to begin.

Every property of a passing run has a faulty variant of the code, written next
to the definition it replaces (`ApplyLegUnlocked`, `CommitAppending`, ...),
under which TLC finds the property violated; so no property holds vacuously.

Deadlock is not checked where all calls may have returned, which is a state in
which the modelled system has nothing left to do; that nothing hangs before
that is what the liveness properties say.

## 4. Findings

The violated properties are sentences of the repository that the code does not
keep.  `NoDecisionErased`: two decisions read the same trail and the later
rewrite deletes the entry of the earlier, which was answered 200.
`ApprovalCoversAction`: the approval of a financing opens the gate for an
escalation derived later.  `PaymentsNotDuplicated`: two overlapping syncs leave
every payment twice.  `ShutdownCompletes`: the task suppresses the one
cancellation it gets while it awaits a sync, and the server waits for it for
ever.  `OneVoice`: `speak` silences the clip that its ref holds, and one still
being fetched is in no ref, so both come to sound.

The weaker properties of the passing runs are stated so that the line between
what the code guarantees and what it does not is visible: `DecisionsKept` is
`NoDecisionErased` for decisions that met no other, and `GateHolds` demands
some approval, not one of the same action; `StoreIsLastReading` is about syncs
that no other commit came between, `ScheduledInTurn` about a server that serves
or has stopped (in its run one scheduled sync follows a requested one; that
scheduled ones do not overlap each other is what `ScheduledRunInTurn` adds),
and `VoicesTakeTurns` is `OneVoice` for loops that each wait for their lines: a
call dismissed while it runs and started again may be heard over itself, one
that follows another that ended may not.  For those the callback does not turn
away, `OnlyTurnedAwayLinger` says what `auth/callback/route.ts:8-9` promises of
everybody; `ShortByTheRestOfTheDay` says how much of "the shortfall on that
date" (`utility.ts:14-15`) the floor leaves out; `PageAgrees` says in which
cases the page may rest on a tier that has moved.

Observations without a run of their own, met while modelling:

- market: two PATCHes of one field each can leave a minimum ticket above the
  maximum (`mandate/route.ts:93`); `expiresAt` of a bid is read by nothing that
  clears; a second escrow hold of a bid posts nothing, since its reference is
  the first one's (`flows.ts:212`); the reference of a disbursement names only
  the opportunity (`flows.ts:60`); a deal without a fee whose discount exceeds
  its advance would be posted unbalanced for each party (section 6);
- auction: the slider goes from 0 to 500 on a scale of 10,000, so it moves the
  ranking by a twentieth; the settlement page clears again at nudge 0, whatever
  the slider said; accepting commits nothing; the accept timer is not cleared
  on unmount (modelled); a failed answer removes the slider with the answer;
  the banner shows the listing's floor when the answer's is 0
  (`AuctionArena.tsx:141-145`); the winning card says all gates are cleared
  over a disqualified offer when none passes, and "Pareto Optimum" also at no
  urgency, where `WinnerUnbeaten` allows a faster offer of the same price and
  cash; the floor and the deadline are those of the first obligation that
  cannot be paid: a second one of the same day is not in the floor, although
  `utility.ts:14-15` calls it "the shortfall on that date" and `:29-31` says
  that the walk stops at "the first date the balance falls below the
  threshold"; a supplier may be short of the second with the winner's cash in;
  SettlementView falls back on a named provider although its page says it shows
  none it was not given;
- sign-in: "a half-authenticated session cannot linger"
  (`callback/route.ts:8-9`) holds only if `signOut` succeeds: its error is not
  read (`:62`), and the redirect then carries the cookie of a person without a
  row; a person whose email is not told is sent back with the cookie too
  (`:34`); a failed attempt forgets `next`; two first sign-ins of one address
  race to a 500 (modelled); later sessions are found by address only
  (`auth.ts:41`), although `schema.prisma:50-54` speaks of the Supabase id, so
  a changed address meets the unique id; no page calls `POST /api/auth/logout`;
- verification: two POSTs can both read an unaccepted invoice, and the second
  overwrites the acceptance date the comment at `route.ts:88-90` protects;
  dismissing the dialog does not cancel its loop (modelled); an interrupted
  clip overwrites the state of the next (modelled); a clip that is fetched when
  `stop()` is called plays afterwards (modelled); a page whose confirmation
  took effect but whose answer was lost, or that another tab overtook, shows
  the old tier until it is loaded anew (modelled);
- ledger: `postReserveRelease` does not look whether the buyer has paid
  (`flows.ts:8-10`), and `ProviderFirst` takes the providers of a deal
  together;
- decisions: the row may keep the state of a decision that is not the trail's
  last, since an unchanged column is not written (`store.py:223`, modelled by
  `Merged`);
- client: `fetchLedgerEntries` falls back to an invented entry, and
  `api/actions` answers a canned approval, when there is no backend.

## 5. Fairness

Safety runs assume none.  `commit` and `settlement` assume that a call that can
take its next step does (Node's event loop and Postgres run every runnable
statement), and that Postgres's deadlock detector ends a transaction of a cycle
(`deadlock_timeout`); a wait for a lock is a disabled step, so nothing is
assumed about it.  `approvals` assumes the same of the threads of the server.
`sync` and `shutdown` assume it of the threads of the syncs (the connector and
the database answer or time out: `Proceed` holds no fault), of the task's timer
and the event loop (`Wake`, `Resume`), and of the end of an await (`Stop`).
`auction` assumes that the tab's own steps (timers, the router, the fetches of
a page) and the answers of a run, good or failed, come: `TabStep`, `AnswerRun`;
nobody has to sign in, browse or move the slider.  `call` assumes it of the
POSTs, the loads, the loops, the start or failure of a clip and the watchdog
timer of `speak`, but not of the end of a playback, which the browser may never
report: that is what the watchdog is for.  `two_voices` is about safety.
No caller has to start a call, nobody has to stop or kill the server, and no
fault has to happen or has to stop.

## 6. Proofs

Every invariant, action property and refinement that a passing run checks is
also proved, for all values of the constants that satisfy the assumptions named
below.  The seven liveness properties are not (see the end of the section).

Induction.  The induction theorems of the library are about predicates and
cannot be used with these provers.  `SumLemmas` does without: the library also
states that strict inclusion is well founded on finite sets, which is about
sets; so a property of finite sets, or of natural numbers, that is written as
a set `Good` is shown by taking a smallest member outside it
(`SubsetInduction`, `NatSetInduction`).  The same argument gives a first
element of a finite set under a total order (`FirstExists`) and the laws of
`SumFunctionOnSet` (`SumAdd`, `SumRemove`, `SumSame`, `SumPlus`, ...).  A
recursive function (the walk of `allocate`, the counting of business days) is
first shown to exist, by the same induction, since a definition by `CHOOSE`
says nothing until it is.

### Market

`CommitAllocationProofs`, for any providers, opportunities, calls and plans:

- `TypeCorrect`, `NeverOverdrawn`, `FundedExactlyWhenMatched`: the invariants
  `TypeOK`, `NoOverdraw`, `MatchedIffFunded`;
- `OutcomesAreTruthful`: `OutcomeIsTruthful`;
- `NothingDrawnTwice`: `NoDoubleDraw`;
- `RefusalsAreGenuine`: `RacedMeansTaken`, for plans whose legs are not negative;
- `DealsAreAtomic`: the specification implements `AtomicAllocation`.

Assumed: a plan names a provider at most once, which the unique key on bids
gives (`PlansAssumption`), and liquidity starts as a natural number.
`NoOverdraw` is not inductive: a commit subtracts legs that were found to fit
earlier.  The strengthening `IInv` is two-phase locking: no two open
transactions hold one row (`RowLocks`), so a leg that was applied still fits
the committed row (`Fits`) until its transaction ends, and COMMIT is reached
with every leg applied (`AllApplied`); `Begun` and `DurableCalls` tie control
to plans and to the history.  Each action preserves it by one step of the
proof; a commit leaves other transactions' rows alone by `LockedByOther`.
`IInv` speaks of any list that names each provider once (`LegalPlans`), so that
it can be used again under clearings.  The refinement follows: COMMIT maps to
one deal, every other step stutters.  For `NoDoubleDraw` the invariant `Booked`
says that what is missing from each row is the sum of what the durable calls
drew; a COMMIT adds one summand, and the plans of the others are fixed.

`MarketClearingProofs`, for any rankings, mandates, edits of them and clearings
in flight:

- `PlansKeepWithinCapacity`: `PlanWithinCapacity`;
- `RankingDecides`: `RankingRespected`;
- `MarketKeepsCommitPromises`: `NoOverdraw`, `MatchedIffFunded` and
  `OutcomeIsTruthful` also hold beside clearings and edits;
- `MarketDealsAreAtomic`: `MarketAtomicity`.

Assumed: rankings name a provider once, columns and edits are integers
(`MandatesAssumption`).  The two properties of a plan are shown of every prefix
of the walk (`WalkInv`): its legs are legal, they and the remainder add up to
the advance, and every provider visited was given its share.  A visit keeps
that by cases of `Visit`; a skipped provider has no room or no legal ticket.
Deals stay indivisible because an edit waits for the row's lock, so it
overwrites no row that an open transaction counts on (`PatchIInv`).
`MarketDealsAreAtomic` has one hypothesis, `PlansCoverClearings`: `Plans`, from
which the abstract specification draws its deals, holds every non-empty list
the allocation returns.  That only fixes the value of the constant; the plans
of `clearing` satisfy it (legs of 0 to 4, advances of 4 and 3).

### Ledger

`LedgerProofs`, for any calls, scripts, chart, deals and amounts:

- `LedgerTypeCorrect`, `ReferencesPostedOnce`, `PostersAreTold`:
  `LedgerTypeOK`, `PostedOnce`, `PosterIsTold`;
- `OnlyScreenedEntries`, `JournalBalances`: `EntriesBalanced`;
- `PartiesStayBalanced`, `EscrowStaysMatched`, `ProvidersComeFirst`:
  `PartiesBalance`, `EscrowMatched`, `ProviderFirst`;
- `RequestsPostWhole`: the specification implements `IdempotentJournal`.

The strengthening says that pending rows of different transactions have
different references and that none of them is in the journal, which is what the
wait on the unique index gives, and that the references of the entries before
`at` are in the journal or pending.  `Screened` adds that every row, in the
journal or pending, is what is booked of an entry that passed the checks of
`postEntry`.  So `EntriesBalanced` holds entry by entry, and the properties of
`Settlement` are sums over the journal: a flow nets to nothing for each party
(`FlowSettled`, by arithmetic on its postings), and so does any finite number
of flows.  `ProviderFirst` is about two entries: the amounts of a release and
of its disbursement come from the same deal.

Assumed, besides the shape of entries (`ScriptsAssumption`):

- `FlowsAssumption`: an entry that balances in whole paise is one of a flow.
  The scripts may contain any entry that does not, which `postEntry` rejects.
  The opening balances of `prisma/seed.ts` are posted once before any flow and
  are no flow; the properties of parties are about what is posted after them.
  A release repays the advance `quoteEconomics` gave, as its one caller does
  (`seed.ts:705-712`).
- `DealsAssumption`: the platform is no party to a deal; the deals of one
  opportunity advance the same amount; and no deal without a fee has a discount
  above its advance.  The last is a limit of the code and not only of the proof:
  `postDisbursement` drops legs that are not positive (`flows.ts:88`), and for
  such a deal the legs that are left balance as a whole and not for each party,
  although the comment at `flows.ts:44` says they do; with a fee the entry is
  rejected.  Its one caller, the seed, has terms far from there.

### Auction desk

`AuctionDeskProofs`, for any bids, needs, slider positions on the scale and
answers in flight:

- `SliderIsAnswered` (`AnswerMatchesSlider`): a run of the effect has one
  nudge, so an answer to the current run answers the slider, and every way into
  the arena starts a run;
- `OnlyRefusalsLinger` (`OnlyTurnedAwayLinger`): a row once bound stays bound,
  one appears only where there is an organisation (`Listed`), and only binding
  it or turning the person away gives a session;
- `UrgencyOnlyBuysDays`, `NoOfferBeatsTheWinner`, `AssistantAdvisesSoundly`,
  `WinnerCoversTheBreach`: `UrgencyBuysDays`, `WinnerUnbeaten`,
  `AdviceIsCheapestThatClears`, `ShortByTheRestOfTheDay`.

The last four need of the state only that every answer, on its way or shown,
was computed from a date and a nudge (`Sourced`); the rest is about the
operators of `OfferScoring` (`IsClearing`).  Costs are fractions with positive
denominators, which are ordered totally (`AtMostTransitive`); so the comparator
of the sort, key by key and at last by position, is a strict total order of the
survivors (`ComparatorOrders`), and the first of the ranking precedes every
other (`RankedFirst`).  What the properties say of the winner follows from the
keys: a dearer one is ahead only by the urgency term, in which the earliest
arrival cancels (`KeysCompare`), so by its days.  Of the cash walk it is shown
that the first breach is unique (`OneBreachIsFirst`) and sets both gates
(`BreachSetsGates`), and that what is paid after it are the bills that come
after it (`LaterBills`, a sum split in two by `SumSplit`).  Assumed: the
columns of a bid and of the needs are integers, settlement takes a natural
number of days (`BidsAssumption`, `NeedsAssumption`, `schemas.ts:77`), and the
premium the slider may buy is positive (`score.ts:41`).

### Decision engine

`ApprovalsProofs`, for any requests, readings of the portfolio, faults and
restarts:

- `ApprovalsAreTyped`: type correctness (`ApprovalsTypeOK`);
- `GateIsHeld`, `TrailIsPartOfHistory`, `DecisionsAreKept`: the invariants
  `GateHolds`, `TrailIsHistory`, `DecisionsKept`.

`GateHolds` speaks of artifacts already handed out; the strengthening says the
same of everything on the way to one.  An approval a request can read, in the
row or in the dictionary, stands (`SqlStands`, `MemoryStands`): no decision
that met no other has revoked it.  What a request has read stays approved in
time for it (`Gate`).  Two decisions in progress at once have met (`Crowds`),
and one whose row changed between its read and its write met the one that
changed it (`Overtaken`); this is what a partial UPDATE needs.  What a decision
carries from its read to its rewrite is a part of the history that lacks only
decisions that met another (`Carries`), so COMMIT, which replaces the trail by
it, keeps `TrailIsHistory` and `DecisionsKept`.  The dictionary needs the same
argument only for its row.  The proof assumes that "no row" is not a row
(`DecisionAssumption`).

### Sync

`PortfolioSyncProofs`, for any books, syncs, loads and rounds of organisations:

- `SyncTypeCorrect`, `ReadingsStandWhole`, `RunsAreTrue`: the invariants
  `SyncTypeOK`, `PaymentsStandWhole`, `RunsTellTheTruth`;
- `LoneSyncRepairs`, `LoadsAreClosed`: `StoreIsLastReading`, `LoadIsClosed`;
- `SchedulerImplementsSync`: the scheduler's steps are steps of
  `PortfolioSync`, so all of these hold under it;
- `ScheduledRunInTurn`: `ScheduledInTurn`.

That payments stand whole is not inductive: a DELETE removes the rows it found
earlier.  The strengthening says that a sync commits once, that the rows of a
name come from its commit, that no two open transactions delete one row, and
that not only the store but every set a DELETE has found is a union of whole
readings, of those committed by then; sets made that way stay so under union,
intersection and difference (`WholeMeet`, `WholeMinus`, `WholePlus`).
`StoreInv` is about the other two: as long as no commit came between, what a
sync found and what it will write are what the store holds (`SyncsFresh`), and
what a load has read so far is what the store holds (`LoadsFresh`); the foreign
keys are an invariant of the store (`ForeignKeys`), because a flush that would
break them is refused.  Assumed: rows are rows, and the bills and receipts of a
book name customers of the same book (`BooksAssumption`); a reading across two
books need not be closed, and the proofs do not assume it is.

### Verification call

`VerificationCallProofs`, for any number of calls and lines: `PageIsTold`
(`PageAgrees`: the tier moves once, only the first load can have seen the old
one, it is in before a call starts, and whoever dated the acceptance is still to
be answered or was: `Dated`), `UpgradeComesLast` (`AcceptedAfterTheCall`: a loop
posts only once every clip of its call is over) and `VoicesDoTakeTurns`
(`VoicesTakeTurns`: a loop has one clip in the making, so a clip comes to sound
over another only if two loops run, and of those one began beside the other:
`Besides`, `Turns`).

Type invariants are parts of these inductive invariants and proved; the runs
check the properties that say something of the code.

### Not proved, and why

Liveness under fairness, and freedom from deadlock (`ENABLED`), are beyond the
prover: `EveryCallReturns`, `EveryPosterReturns`, `EveryRequestReturns`,
`EverySyncEnds`, `EveryOrgIsTried`, `EveryQuestionAnswered` and `EveryCallEnds`
are model-checked only.  The properties that the code violates have
counterexamples instead of proofs.

## 7. Plan

The market, the ledger, the approvals and the sync were done first because they
move money, release documents and feed both; then the client's auction,
sign-in, call and assistant, where late answers and abandoned loops are.  What
is left, in this order:

1. What `VoiceCockpit` does keep of `OneVoice`, stated, run and proved: a clip
   that is replaced once it sounds is never heard with its successor.
2. The MSMED and TReDS rules, the ranking of the queue and the walk of the cash
   forecast, as operators whose verdicts `Approvals` takes as its situations.
3. The Tally connector: windows of outstanding bills, and bills that leave them.

## 8. Not modelled

Agents, delay model and forecast (language models and statistics: their
verdicts are inputs of `Approvals`), the MSMED and TReDS rules (pure; likewise),
connectors (their answers are the books of `PortfolioSync`), the settings of
the scheduler (`should_run` is taken as true), the backend's authentication and
tenant scoping (the models are of one organisation and of callers that were let
in), drafts and dossiers beyond their gates (wording), views that only display
(the lender's dashboard, the risk score, grids and cards), components no page
uses (`DittoDealCard`, `BidTicker`, `ApprovalPanel`, `schemas.ts`), the
read-only proxies to the backend, the Nexus prototype, the corpus scripts, the
seed and the migrations (of the schema, the tables and unique keys enter the
models; a seed that runs again under live sessions is excluded).
`clear()` of the stores is called by tests and demo
resets only.  Postgres, Prisma and SQLAlchemy are modelled from how the code
uses them: READ COMMITTED statements, row locks, unique indexes, deadlock
victims, and updates of changed columns.
