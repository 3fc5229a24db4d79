-------------------------- MODULE CommitAllocation --------------------------
(***************************************************************************)
(* commitAllocation of frontend/src/lib/market/commit.ts: an interactive   *)
(* Postgres transaction that draws the legs of a cleared plan, one         *)
(* conditional UPDATE per leg, then marks the opportunity MATCHED.  Any    *)
(* number of calls run at once against the same capital_provider rows.     *)
(*                                                                         *)
(* The database is READ COMMITTED, Prisma's default on Postgres:           *)
(*   - `liquidity' and `status' hold the COMMITTED row versions;           *)
(*   - a leg already applied by an open transaction is a row lock plus an  *)
(*     uncommitted debit, both determined by `plan' and `next';            *)
(*   - a conditional UPDATE whose predicate fails on the committed version *)
(*     matches no row at once; one whose predicate holds waits for the     *)
(*     row's lock and is then evaluated again on the version it finds.     *)
(***************************************************************************)
EXTENDS Integers, Sequences, FiniteSets, Functions

CONSTANTS
    Providers,      \* capital_provider rows
    Opps,           \* financing_opportunity rows
    NoOpp,          \* the opportunity of a call not made yet
    Calls,          \* invocations of commitAllocation
    Plans,          \* allocation lists a caller may pass
    Liquidity0      \* available_liquidity at the start

\* One element of Allocation[]: who funds, and how many paise.
Leg == [provider : Providers, funded : Int]

ASSUME LiquidityAssumption == Liquidity0 \in [Providers -> Nat]

\* A provider has at most one bid on an opportunity (@@unique([opportunityId,
\* providerId]), prisma/schema.prisma:434), so a plan names it at most once.
ASSUME PlansAssumption ==
    \A s \in Plans :
        /\ s \in Seq(Leg)
        /\ \A i, j \in 1..Len(s) : s[i].provider = s[j].provider => i = j

ASSUME NoOppAssumption == NoOpp \notin Opps

VARIABLES
    liquidity,      \* committed available_liquidity of each provider
    status,         \* committed status; "OPEN" stands for all but MATCHED
    pc,             \* where each call is
    opp,            \* the call's opportunityId
    plan,           \* the call's allocations
    next,           \* index of the leg its loop is at
    durable         \* history: calls whose transaction Postgres committed

vars == <<liquidity, status, pc, opp, plan, next, durable>>

Returned == {"nothing", "committed", "raced", "threw"}
OpenTx == {"legs", "commit", "rollback"}

\* Rows whose lock the open transaction of call c holds.
Holds(c, p) ==
    /\ pc[c] \in OpenTx
    /\ \E i \in 1..(next[c] - 1) : plan[c][i].provider = p

HoldsOpp(c, o) == pc[c] = "commit" /\ opp[c] = o

\* The whole debit a plan puts on one provider.
Demand(s, p) ==
    IF \E i \in 1..Len(s) : s[i].provider = p
    THEN s[CHOOSE i \in 1..Len(s) : s[i].provider = p].funded
    ELSE 0

DemandOf(s) == [p \in Providers |-> Demand(s, p)]

CurrentLeg(c) == plan[c][next[c]]

RowFree(c, p) == \A d \in Calls \ {c} : ~Holds(d, p)
OppFree(c, o) == \A d \in Calls \ {c} : ~HoldsOpp(d, o)

Init ==
    /\ liquidity = Liquidity0
    /\ status = [o \in Opps |-> "OPEN"]
    /\ pc = [c \in Calls |-> "idle"]
    /\ opp = [c \in Calls |-> NoOpp]
    /\ plan = [c \in Calls |-> <<>>]
    /\ next = [c \in Calls |-> 1]
    /\ durable = {}

----------------------------------------------------------------------------
(* The call.                                                               *)

\* BEGIN: prisma.$transaction opens for a non-empty list.
Begin(c, o, s) ==
    /\ pc[c] = "idle"
    /\ s # <<>>
    /\ pc' = [pc EXCEPT ![c] = "legs"]
    /\ opp' = [opp EXCEPT ![c] = o]
    /\ plan' = [plan EXCEPT ![c] = s]
    /\ UNCHANGED <<liquidity, status, next, durable>>

\* An empty list returns at once, with no transaction.
NothingToCommit(c, s) ==
    /\ pc[c] = "idle"
    /\ s = <<>>
    /\ pc' = [pc EXCEPT ![c] = "nothing"]
    /\ UNCHANGED <<liquidity, status, opp, plan, next, durable>>

\* Faulty variants of the steps below, which the checks must tell from them.

\* The where clause lost its `gte': the decrement is unconditional.
ApplyLegUnguarded(c) ==
    /\ pc[c] = "legs"
    /\ next[c] <= Len(plan[c])
    /\ RowFree(c, CurrentLeg(c).provider)
    /\ next' = [next EXCEPT ![c] = @ + 1]
    /\ UNCHANGED <<liquidity, status, pc, opp, plan, durable>>

\* A findUnique and a later update: the check takes no row lock.
ApplyLegUnlocked(c) ==
    /\ pc[c] = "legs"
    /\ next[c] <= Len(plan[c])
    /\ CurrentLeg(c).funded <= liquidity[CurrentLeg(c).provider]
    /\ next' = [next EXCEPT ![c] = @ + 1]
    /\ UNCHANGED <<liquidity, status, pc, opp, plan, durable>>

\* A busy row is taken for a lost race (NOWAIT).
RefuseLegNoWait(c) ==
    /\ pc[c] = "legs"
    /\ next[c] <= Len(plan[c])
    /\ ~RowFree(c, CurrentLeg(c).provider)
    /\ pc' = [pc EXCEPT ![c] = "rollback"]
    /\ UNCHANGED <<liquidity, status, opp, plan, next, durable>>

\* The callback returns `committed: false' instead of throwing, so the legs
\* applied so far are committed.
RefuseLegReturning(c) ==
    /\ pc[c] = "legs"
    /\ next[c] <= Len(plan[c])
    /\ CurrentLeg(c).funded > liquidity[CurrentLeg(c).provider]
    /\ liquidity' = [p \in Providers |->
            liquidity[p] - IF Holds(c, p) THEN Demand(plan[c], p) ELSE 0]
    /\ durable' = durable \union {c}
    /\ pc' = [pc EXCEPT ![c] = "raced"]
    /\ UNCHANGED <<status, opp, plan, next>>

\* The status is written through `prisma', outside the transaction.
UpdateStatusOutside(c) ==
    /\ pc[c] = "legs"
    /\ next[c] > Len(plan[c])
    /\ OppFree(c, opp[c])
    /\ pc' = [pc EXCEPT ![c] = "commit"]
    /\ status' = [status EXCEPT ![opp[c]] = "MATCHED"]
    /\ UNCHANGED <<liquidity, opp, plan, next, durable>>

\* The refused transaction is left open.
RollbackForgotten(c) ==
    /\ pc[c] = "rollback"
    /\ UNCHANGED vars

----------------------------------------------------------------------------

\* updateMany counted 1: the row is ours and holds enough.
ApplyLeg(c) ==
    /\ pc[c] = "legs"
    /\ next[c] <= Len(plan[c])
    /\ RowFree(c, CurrentLeg(c).provider)
    /\ CurrentLeg(c).funded <= liquidity[CurrentLeg(c).provider]
    /\ next' = [next EXCEPT ![c] = @ + 1]
    /\ UNCHANGED <<liquidity, status, pc, opp, plan, durable>>

\* updateMany counted 0: re-read the row for the report and throw.
RefuseLeg(c) ==
    /\ pc[c] = "legs"
    /\ next[c] <= Len(plan[c])
    /\ CurrentLeg(c).funded > liquidity[CurrentLeg(c).provider]
    /\ pc' = [pc EXCEPT ![c] = "rollback"]
    /\ UNCHANGED <<liquidity, status, opp, plan, next, durable>>

\* financingOpportunity.update, after the last leg; it may wait for the row.
UpdateStatus(c) ==
    /\ pc[c] = "legs"
    /\ next[c] > Len(plan[c])
    /\ OppFree(c, opp[c])
    /\ pc' = [pc EXCEPT ![c] = "commit"]
    /\ UNCHANGED <<liquidity, status, opp, plan, next, durable>>

\* COMMIT: every debit and the status become visible together.
Commit(c) ==
    /\ pc[c] = "commit"
    /\ liquidity' = [p \in Providers |-> liquidity[p] - Demand(plan[c], p)]
    /\ status' = [status EXCEPT ![opp[c]] = "MATCHED"]
    /\ durable' = durable \union {c}
    /\ pc' = [pc EXCEPT ![c] = "ack"]
    /\ UNCHANGED <<opp, plan, next>>

\* The callback resolved: the caller is told committed: true.
Acknowledge(c) ==
    /\ pc[c] = "ack"
    /\ pc' = [pc EXCEPT ![c] = "committed"]
    /\ UNCHANGED <<liquidity, status, opp, plan, next, durable>>

\* AllocationRaced left the callback: ROLLBACK, then committed: false.
Rollback(c) ==
    /\ pc[c] = "rollback"
    /\ pc' = [pc EXCEPT ![c] = "raced"]
    /\ UNCHANGED <<liquidity, status, opp, plan, next, durable>>

\* Any other error of the transaction is thrown on to the caller, with the
\* transaction rolled back: a deadlock victim, Prisma's timeout, a lost
\* connection, an opportunity that does not exist.
Abort(c) ==
    /\ pc[c] \in {"legs", "commit"}
    /\ pc' = [pc EXCEPT ![c] = "threw"]
    /\ UNCHANGED <<liquidity, status, opp, plan, next, durable>>

\* The connection goes after COMMIT took effect and before its answer: the
\* caller sees an error for a deal that stands.
LoseAnswer(c) ==
    /\ pc[c] = "ack"
    /\ pc' = [pc EXCEPT ![c] = "threw"]
    /\ UNCHANGED <<liquidity, status, opp, plan, next, durable>>

----------------------------------------------------------------------------
(* Postgres's deadlock detector, which ends one call of a cycle of waits.  *)

Waits(c, d) ==
    /\ c # d
    /\ pc[c] = "legs"
    /\ IF next[c] <= Len(plan[c])
       THEN /\ CurrentLeg(c).funded <= liquidity[CurrentLeg(c).provider]
            /\ Holds(d, CurrentLeg(c).provider)
       ELSE HoldsOpp(d, opp[c])

\* A call waits for at most one other, so a set in which every call waits for
\* a member and is waited for by a member is made of cycles.
Deadlocked(c) ==
    \E D \in SUBSET Calls :
        /\ c \in D
        /\ \A d \in D : /\ \E e \in D : Waits(d, e)
                        /\ \E e \in D : Waits(e, d)

DeadlockVictim(c) == Deadlocked(c) /\ Abort(c)

----------------------------------------------------------------------------

\* What the call does on its own, once it has begun.
Step(c) ==
    \/ ApplyLeg(c)
    \/ RefuseLeg(c)
    \/ UpdateStatus(c)
    \/ Commit(c)
    \/ Acknowledge(c)
    \/ Rollback(c)

Fault(c) == Abort(c) \/ LoseAnswer(c)

Enter(c) ==
    \E s \in Plans : \/ \E o \in Opps : Begin(c, o, s)
                     \/ NothingToCommit(c, s)

Next == \E c \in Calls : Enter(c) \/ Step(c) \/ Fault(c)

Spec == Init /\ [][Next]_vars

\* A call that can go on does (Node's event loop and Postgres schedule every
\* runnable statement), and the detector runs (deadlock_timeout, 1s).  Nothing
\* makes a caller start a call, and no fault has to happen.
Fairness ==
    \A c \in Calls : /\ WF_vars(Step(c))
                     /\ WF_vars(DeadlockVictim(c))

FairSpec == Spec /\ Fairness
----------------------------------------------------------------------------
(* Properties.                                                             *)

\* Every variable keeps its shape: a loop index never runs past the end of
\* the plan, and only a call that has begun has an opportunity.
TypeOK ==
    /\ liquidity \in [Providers -> Int]
    /\ status \in [Opps -> {"OPEN", "MATCHED"}]
    /\ pc \in [Calls -> {"idle", "ack"} \union OpenTx \union Returned]
    /\ opp \in [Calls -> Opps \union {NoOpp}]
    /\ plan \in [Calls -> Seq(Leg)]
    /\ next \in [Calls -> Nat]
    /\ durable \subseteq Calls
    /\ \A c \in Calls : /\ next[c] \in 1..(Len(plan[c]) + 1)
                        /\ plan[c] # <<>> => plan[c] \in Plans /\ opp[c] \in Opps

\* No interleaving of commits drives a provider's free capital below zero
\* (the conditional update, commit.ts:49-62).
NoOverdraw == \A p \in Providers : liquidity[p] >= 0

\* "Two deals cannot draw the same rupees" (README.md:98): all that the
\* committed deals drew from a provider is capital it had, and is exactly what
\* is missing from its row.
NoDoubleDraw ==
    \A p \in Providers :
        LET drawn == SumFunctionOnSet([c \in Calls |-> Demand(plan[c], p)], durable)
        IN  drawn <= Liquidity0[p] /\ liquidity[p] = Liquidity0[p] - drawn

\* An opportunity reads MATCHED exactly when some call that drew its money
\* was committed for it: never marked without funds, never funded unmarked.
MatchedIffFunded ==
    \A o \in Opps :
        status[o] = "MATCHED" <=> \E c \in durable : opp[c] = o

\* What the caller is told is true of the database: `committed' means the
\* deal stands, `raced' and `nothing' mean it left no trace.  (An exception
\* says neither: the deal may stand, see LoseAnswer.)
OutcomeIsTruthful ==
    \A c \in Calls :
        /\ pc[c] = "committed" => c \in durable
        /\ pc[c] \in {"raced", "nothing"} => c \notin durable

\* "A count of 0 means the predicate failed: somebody else took the money
\* first" (commit.ts:60): a refusal is never spurious.  Whatever the
\* transactions it met did afterwards, the plan still does not fit.
RacedMeansTaken ==
    \A c \in Calls :
        pc[c] \in {"rollback", "raced"} =>
            \E p \in Providers : Demand(plan[c], p) > liquidity[p]

\* The transactions together implement indivisible deals.
Atomic == INSTANCE AtomicAllocation
            WITH Deals <- {DemandOf(s) : s \in Plans}, Restatements <- {}

Atomicity == Atomic!Spec

\* A call that opened a transaction returns or throws: two syndicated deals
\* that lock the same providers in opposite orders do not hang for ever.
EveryCallReturns ==
    \A c \in Calls : pc[c] = "legs" ~> pc[c] \in Returned
=============================================================================
