----------------------- MODULE CommitAllocationProofs -----------------------
(***************************************************************************)
(* Proofs about CommitAllocation for any providers, opportunities, calls   *)
(* and plans.  The argument is two-phase locking: an open transaction      *)
(* keeps the lock of every row it has debited (RowLocks), so what its      *)
(* conditional UPDATE found sufficient is still sufficient when it commits *)
(* (Fits), whatever the other transactions did in between.                 *)
(***************************************************************************)
EXTENDS CommitAllocation, SumLemmas

----------------------------------------------------------------------------
(* The inductive invariant.                                                *)

\* What the durable calls drew from a provider.
Drawn(p) == SumFunctionOnSet([c \in Calls |-> Demand(plan[c], p)], durable)

\* What is missing from each row is what the durable calls drew, and there are
\* finitely many of those.
Booked ==
    /\ IsFiniteSet(durable)
    /\ \A p \in Providers : liquidity[p] = Liquidity0[p] - Drawn(p)

\* No two open transactions hold the same provider's row.
RowLocks ==
    \A c, d \in Calls, p \in Providers : Holds(c, p) /\ Holds(d, p) => c = d

\* A leg that was applied still fits in the committed row.
Fits ==
    \A c \in Calls : pc[c] \in {"legs", "commit"} =>
        \A i \in 1..(next[c] - 1) :
            plan[c][i].funded <= liquidity[plan[c][i].provider]

\* COMMIT is reached with every leg applied.
AllApplied == \A c \in Calls : pc[c] = "commit" => next[c] = Len(plan[c]) + 1

\* A call that is past its start has a plan, and so an opportunity; one that
\* is not has none, and its loop is at the first leg.
Begun ==
    \A c \in Calls :
        /\ pc[c] \in OpenTx \union {"ack"} => plan[c] # <<>>
        /\ pc[c] = "idle" => plan[c] = <<>> /\ next[c] = 1

\* Which calls' transactions have been committed.
DurableCalls ==
    \A c \in Calls :
        /\ c \in durable => pc[c] \in {"ack", "committed", "threw"}
        /\ pc[c] \in {"ack", "committed"} => c \in durable

\* The lists commitAllocation is written for, whatever its callers pass: each
\* provider once.
LegalPlans ==
    {s \in Seq(Leg) : \A i, j \in 1..Len(s) : s[i].provider = s[j].provider => i = j}

\* TypeOK, with any such list for a plan.
Shape ==
    /\ liquidity \in [Providers -> Int]
    /\ status \in [Opps -> {"OPEN", "MATCHED"}]
    /\ pc \in [Calls -> {"idle", "ack"} \union OpenTx \union Returned]
    /\ opp \in [Calls -> Opps \union {NoOpp}]
    /\ plan \in [Calls -> Seq(Leg)]
    /\ next \in [Calls -> Nat]
    /\ durable \subseteq Calls
    /\ \A c \in Calls : /\ next[c] \in 1..(Len(plan[c]) + 1)
                        /\ plan[c] # <<>> => plan[c] \in LegalPlans /\ opp[c] \in Opps

IInv ==
    /\ Shape
    /\ RowLocks
    /\ Fits
    /\ AllApplied
    /\ Begun
    /\ DurableCalls
    /\ NoOverdraw
    /\ MatchedIffFunded

----------------------------------------------------------------------------
(* Plans.                                                                  *)

LEMMA PlansAreLegal == Plans \subseteq LegalPlans
BY PlansAssumption DEF LegalPlans

\* The legs of a plan are legs, and the demand on a leg's provider is what
\* the leg funds: a provider appears in a plan once.
LEMMA DemandOfLeg ==
  ASSUME NEW s \in LegalPlans, NEW i \in 1..Len(s)
  PROVE  /\ s[i].provider \in Providers
         /\ s[i].funded \in Int
         /\ Demand(s, s[i].provider) = s[i].funded
<1>1. s \in Seq(Leg) /\ \A j, k \in 1..Len(s) : s[j].provider = s[k].provider => j = k
  BY DEF LegalPlans
<1>2. s[i] \in Leg
  BY <1>1
<1> DEFINE k == CHOOSE j \in 1..Len(s) : s[j].provider = s[i].provider
<1>3. k \in 1..Len(s) /\ s[k].provider = s[i].provider
  OBVIOUS
<1>4. k = i
  BY <1>1, <1>3
<1> QED
  BY <1>2, <1>4 DEF Demand, Leg

\* A provider no leg names is not asked for anything.
LEMMA DemandOfStranger ==
  ASSUME NEW s, NEW p, \A i \in 1..Len(s) : s[i].provider # p
  PROVE  Demand(s, p) = 0
BY DEF Demand

LEMMA DemandType ==
  ASSUME NEW s \in LegalPlans, NEW p \in Providers
  PROVE  Demand(s, p) \in Int
<1>1. CASE \A i \in 1..Len(s) : s[i].provider # p
  BY <1>1, DemandOfStranger
<1>2. CASE \E i \in 1..Len(s) : s[i].provider = p
  BY <1>2, DemandOfLeg
<1> QED
  BY <1>1, <1>2

\* At COMMIT the whole plan fits in the committed rows.
LEMMA PlanFitsAtCommit ==
  ASSUME IInv, NEW c \in Calls, pc[c] = "commit", NEW p \in Providers
  PROVE  Demand(plan[c], p) <= liquidity[p]
<1>1. plan[c] \in LegalPlans /\ next[c] = Len(plan[c]) + 1 /\ Len(plan[c]) \in Nat
  BY DEF IInv, Shape, AllApplied, Begun, OpenTx
<1>2. CASE \A i \in 1..Len(plan[c]) : plan[c][i].provider # p
  BY <1>2, DemandOfStranger DEF IInv, NoOverdraw
<1>3. ASSUME NEW i \in 1..Len(plan[c]), plan[c][i].provider = p
      PROVE  Demand(plan[c], p) <= liquidity[p]
  <2>1. plan[c][i].funded <= liquidity[plan[c][i].provider]
    BY <1>1 DEF IInv, Fits
  <2> QED
    BY <1>1, <1>3, <2>1, DemandOfLeg
<1> QED
  BY <1>2, <1>3

\* At COMMIT a provider that another call has locked is none of this plan's.
LEMMA LockedByOther ==
  ASSUME IInv, NEW c \in Calls, pc[c] = "commit",
         NEW d \in Calls, d # c, NEW p \in Providers, Holds(d, p)
  PROVE  Demand(plan[c], p) = 0
<1>1. next[c] = Len(plan[c]) + 1 /\ Len(plan[c]) \in Nat
  BY DEF IInv, Shape, AllApplied
<1>2. ~Holds(c, p)
  BY DEF IInv, RowLocks
<1>3. \A i \in 1..Len(plan[c]) : plan[c][i].provider # p
  BY <1>1, <1>2 DEF Holds, OpenTx
<1> QED
  BY <1>3, DemandOfStranger

----------------------------------------------------------------------------
(* The invariant is inductive.                                             *)

LEMMA InitIInv == Init => IInv
<1> SUFFICES ASSUME Init PROVE IInv
  OBVIOUS
<1>1. Shape
  BY LiquidityAssumption DEF Init, Shape, OpenTx, Returned
<1>2. RowLocks /\ Fits /\ AllApplied /\ Begun /\ DurableCalls
  BY DEF Init, RowLocks, Fits, AllApplied, Begun, DurableCalls, Holds, OpenTx
<1>3. NoOverdraw /\ MatchedIffFunded
  BY LiquidityAssumption DEF Init, NoOverdraw, MatchedIffFunded
<1> QED
  BY <1>1, <1>2, <1>3 DEF IInv

\* A step that moves one call to a place without row locks of its own and
\* leaves the rows alone keeps every lock fact.
LEMMA QuietStep ==
  ASSUME IInv, NEW c \in Calls, NEW where,
         where \in {"raced", "threw", "nothing", "committed", "rollback"},
         pc' = [pc EXCEPT ![c] = where],
         UNCHANGED <<liquidity, status, opp, plan, next, durable>>,
         where = "rollback" => pc[c] = "legs",
         where \in {"raced", "nothing"} => pc[c] \in {"idle", "rollback"},
         where = "threw" => pc[c] \in {"legs", "commit", "ack"},
         where = "committed" => pc[c] = "ack"
  PROVE  IInv'
<1>1. Shape'
  BY DEF IInv, Shape, OpenTx, Returned
<1>2. \A d \in Calls, p \in Providers : Holds(d, p)' => Holds(d, p)
  BY DEF IInv, Shape, Holds, OpenTx
<1>3. RowLocks'
  BY <1>2 DEF IInv, RowLocks
<1>4. Fits'
  BY DEF IInv, Shape, Fits
<1>5. AllApplied' /\ Begun'
  BY DEF IInv, Shape, AllApplied, Begun, OpenTx
<1>6. DurableCalls'
  BY DEF IInv, Shape, DurableCalls
<1>7. NoOverdraw' /\ MatchedIffFunded'
  BY DEF IInv, Shape, NoOverdraw, MatchedIffFunded
<1> QED
  BY <1>1, <1>3, <1>4, <1>5, <1>6, <1>7 DEF IInv

LEMMA BeginStep ==
  ASSUME IInv, NEW c \in Calls, NEW o \in Opps, NEW s \in LegalPlans, Begin(c, o, s)
  PROVE  IInv'
<1>1. Shape'
  <2>1. s \in Seq(Leg) /\ Len(s) \in Nat
    BY DEF LegalPlans
  <2>2. next[c] = 1
    BY DEF Begin, IInv, Begun
  <2>3. \A d \in Calls : /\ next'[d] \in 1..(Len(plan'[d]) + 1)
                         /\ plan'[d] # <<>> => plan'[d] \in LegalPlans /\ opp'[d] \in Opps
    BY <2>1, <2>2 DEF Begin, IInv, Shape
  <2> QED
    BY <2>1, <2>3 DEF Begin, IInv, Shape, OpenTx, Returned
<1>2. next[c] = 1 /\ next' = next
  BY DEF Begin, IInv, Begun
<1>3. \A d \in Calls, p \in Providers : Holds(d, p)' => Holds(d, p)
  BY <1>2 DEF Begin, IInv, Shape, Holds, OpenTx
<1>4. RowLocks'
  BY <1>3 DEF IInv, RowLocks
<1>5. Fits'
  BY <1>2 DEF Begin, IInv, Shape, Fits
<1>6. AllApplied' /\ Begun'
  BY DEF Begin, IInv, Shape, AllApplied, Begun, OpenTx
<1>7. DurableCalls'
  BY DEF Begin, IInv, Shape, DurableCalls
<1>8. NoOverdraw'
  BY DEF Begin, IInv, NoOverdraw
<1>9. MatchedIffFunded'
  \* The call is idle, so it is not among the durable ones.
  <2>1. c \notin durable
    BY DEF Begin, IInv, DurableCalls
  <2> QED
    BY <2>1 DEF Begin, IInv, Shape, MatchedIffFunded
<1> QED
  BY <1>1, <1>4, <1>5, <1>6, <1>7, <1>8, <1>9 DEF IInv

\* The row the leg takes is free and holds enough, so the call becomes its
\* only holder and the leg fits.
LEMMA ApplyLegStep ==
  ASSUME IInv, NEW c \in Calls, ApplyLeg(c)
  PROVE  IInv'
<1> DEFINE leg == plan[c][next[c]]
<1>1. /\ plan[c] \in LegalPlans /\ Len(plan[c]) \in Nat
      /\ next[c] \in 1..Len(plan[c])
  BY DEF ApplyLeg, IInv, Shape, Begun, OpenTx
<1>2. leg.provider \in Providers /\ leg.funded \in Int
  BY <1>1, DemandOfLeg
<1>3. next'[c] = next[c] + 1 /\ \A d \in Calls \ {c} : next'[d] = next[d]
  BY DEF ApplyLeg, IInv, Shape
<1>4. Shape'
  BY <1>1, <1>3 DEF ApplyLeg, IInv, Shape
<1>5. \A d \in Calls \ {c}, p \in Providers : Holds(d, p)' <=> Holds(d, p)
  BY <1>3 DEF ApplyLeg, Holds
<1>6. \A p \in Providers : Holds(c, p)' => Holds(c, p) \/ p = leg.provider
  BY <1>1, <1>3 DEF ApplyLeg, Holds
<1>7. \A d \in Calls \ {c} : ~Holds(d, leg.provider)
  BY DEF ApplyLeg, RowFree, CurrentLeg
<1>8. RowLocks'
  <2> SUFFICES ASSUME NEW d \in Calls, NEW e \in Calls, NEW p \in Providers,
                      Holds(d, p)', Holds(e, p)'
               PROVE  d = e
    BY DEF RowLocks
  <2> QED
    BY <1>2, <1>5, <1>6, <1>7 DEF IInv, RowLocks
<1>9. Fits'
  <2> SUFFICES ASSUME NEW d \in Calls, pc[d] \in {"legs", "commit"},
                      NEW i \in 1..(next'[d] - 1)
               PROVE  plan[d][i].funded <= liquidity[plan[d][i].provider]
    BY DEF ApplyLeg, Fits
  <2>1. CASE d = c /\ i = next[c]
    BY <2>1 DEF ApplyLeg, CurrentLeg
  <2>2. CASE d = c /\ i # next[c]
    <3>1. i \in 1..(next[c] - 1)
      BY <1>1, <1>3, <2>2
    <3> QED
      BY <2>2, <3>1 DEF IInv, Fits
  <2>3. CASE d # c
    BY <1>3, <2>3 DEF IInv, Fits
  <2> QED
    BY <2>1, <2>2, <2>3
<1>10. AllApplied'
  BY <1>3 DEF ApplyLeg, IInv, AllApplied
<1>11. Begun'
  BY <1>3 DEF ApplyLeg, IInv, Begun
<1>12. DurableCalls' /\ NoOverdraw' /\ MatchedIffFunded'
  BY DEF ApplyLeg, IInv, DurableCalls, NoOverdraw, MatchedIffFunded
<1> QED
  BY <1>4, <1>8, <1>9, <1>10, <1>11, <1>12 DEF IInv

LEMMA UpdateStatusStep ==
  ASSUME IInv, NEW c \in Calls, UpdateStatus(c)
  PROVE  IInv'
<1>1. Shape'
  BY DEF UpdateStatus, IInv, Shape, OpenTx
<1>2. \A d \in Calls, p \in Providers : Holds(d, p)' => Holds(d, p)
  BY DEF UpdateStatus, IInv, Shape, Holds, OpenTx
<1>3. RowLocks'
  BY <1>2 DEF IInv, RowLocks
<1>4. Fits'
  BY DEF UpdateStatus, IInv, Shape, Fits
<1>5. next[c] = Len(plan[c]) + 1
  <2>1. next[c] \in 1..(Len(plan[c]) + 1) /\ Len(plan[c]) \in Nat
    BY DEF IInv, Shape
  <2> QED
    BY <2>1 DEF UpdateStatus
<1>6. AllApplied'
  BY <1>5 DEF UpdateStatus, IInv, Shape, AllApplied
<1>7. Begun' /\ DurableCalls'
  BY DEF UpdateStatus, IInv, Shape, Begun, DurableCalls, OpenTx
<1>8. NoOverdraw' /\ MatchedIffFunded'
  BY DEF UpdateStatus, IInv, NoOverdraw, MatchedIffFunded
<1> QED
  BY <1>1, <1>3, <1>4, <1>6, <1>7, <1>8 DEF IInv

\* The debit fits, and it touches no row another open transaction holds.
LEMMA CommitKeeps ==
  ASSUME IInv, NEW c \in Calls, Commit(c)
  PROVE  IInv'
<1>1. pc[c] = "commit" /\ plan[c] \in LegalPlans /\ opp[c] \in Opps
  BY DEF Commit, IInv, Shape, Begun, OpenTx
<1>2. \A p \in Providers : /\ Demand(plan[c], p) \in Int
                           /\ Demand(plan[c], p) <= liquidity[p]
                           /\ liquidity[p] \in Int
                           /\ liquidity'[p] = liquidity[p] - Demand(plan[c], p)
  BY <1>1, DemandType, PlanFitsAtCommit DEF Commit, IInv, Shape
<1>3. Shape'
  BY <1>1, <1>2 DEF Commit, IInv, Shape, OpenTx, Returned
<1>4. /\ pc'[c] = "ack" /\ \A d \in Calls \ {c} : pc'[d] = pc[d]
      /\ plan' = plan /\ next' = next
  BY DEF Commit, IInv, Shape
<1>5. \A d \in Calls, p \in Providers : Holds(d, p)' => d # c /\ Holds(d, p)
  BY <1>4 DEF Holds, OpenTx
<1>6. RowLocks'
  BY <1>5 DEF IInv, RowLocks
<1>7. Fits'
  <2> SUFFICES ASSUME NEW d \in Calls, pc'[d] \in {"legs", "commit"},
                      NEW i \in 1..(next[d] - 1)
               PROVE  plan[d][i].funded <= liquidity'[plan[d][i].provider]
    BY <1>4 DEF Fits
  <2> DEFINE p == plan[d][i].provider
  <2>1. d # c /\ pc[d] \in {"legs", "commit"}
    BY <1>4
  <2>2. plan[d] \in LegalPlans /\ i \in 1..Len(plan[d])
    <3>1. plan[d] \in LegalPlans /\ next[d] \in 1..(Len(plan[d]) + 1) /\ Len(plan[d]) \in Nat
      BY <2>1 DEF IInv, Shape, Begun, OpenTx
    <3> QED
      BY <3>1
  <2>3. p \in Providers
    BY <2>2, DemandOfLeg
  <2>4. Holds(d, p)
    BY <2>1 DEF Holds, OpenTx
  <2>5. liquidity'[p] = liquidity[p]
    BY <1>1, <1>2, <2>1, <2>3, <2>4, LockedByOther
  <2> QED
    BY <2>1, <2>5 DEF IInv, Fits
<1>8. AllApplied' /\ Begun'
  BY <1>1, <1>4 DEF IInv, AllApplied, Begun, OpenTx
<1>9. DurableCalls'
  BY <1>4 DEF Commit, IInv, DurableCalls
<1>10. NoOverdraw'
  BY <1>2 DEF NoOverdraw
<1>11. MatchedIffFunded'
  BY <1>1 DEF Commit, IInv, Shape, MatchedIffFunded
<1> QED
  BY <1>3, <1>6, <1>7, <1>8, <1>9, <1>10, <1>11 DEF IInv

LEMMA NextIInv ==
  ASSUME IInv, [Next]_vars
  PROVE  IInv'
<1>1. ASSUME NEW c \in Calls, NEW o \in Opps, NEW s \in Plans, Begin(c, o, s)
      PROVE  IInv'
  BY <1>1, BeginStep, PlansAreLegal
<1>2. ASSUME NEW c \in Calls, NEW s \in Plans, NothingToCommit(c, s)
      PROVE  IInv'
  BY <1>2, QuietStep DEF NothingToCommit
<1>3. ASSUME NEW c \in Calls, ApplyLeg(c) PROVE IInv'
  BY <1>3, ApplyLegStep
<1>4. ASSUME NEW c \in Calls, RefuseLeg(c) PROVE IInv'
  BY <1>4, QuietStep DEF RefuseLeg
<1>5. ASSUME NEW c \in Calls, UpdateStatus(c) PROVE IInv'
  BY <1>5, UpdateStatusStep
<1>6. ASSUME NEW c \in Calls, Commit(c) PROVE IInv'
  BY <1>6, CommitKeeps
<1>7. ASSUME NEW c \in Calls, Acknowledge(c) PROVE IInv'
  BY <1>7, QuietStep DEF Acknowledge
<1>8. ASSUME NEW c \in Calls, Rollback(c) PROVE IInv'
  BY <1>8, QuietStep DEF Rollback
<1>9. ASSUME NEW c \in Calls, Abort(c) PROVE IInv'
  BY <1>9, QuietStep DEF Abort
<1>10. ASSUME NEW c \in Calls, LoseAnswer(c) PROVE IInv'
  BY <1>10, QuietStep DEF LoseAnswer
<1>11. CASE UNCHANGED vars
  BY <1>11 DEF vars, IInv, Shape, RowLocks, Fits, AllApplied, Begun, DurableCalls,
               NoOverdraw, MatchedIffFunded, Holds
<1> QED
  BY <1>1, <1>2, <1>3, <1>4, <1>5, <1>6, <1>7, <1>8, <1>9, <1>10, <1>11
     DEF Next, Enter, Step, Fault

----------------------------------------------------------------------------
(* What holds in every reachable state.                                    *)

\* commitAllocation keeps the strengthened invariant, for any number of
\* concurrent calls.
THEOREM Invariance == Spec => []IInv
<1>1. Init => IInv
  BY InitIInv
<1>2. IInv /\ [Next]_vars => IInv'
  BY NextIInv
<1> QED
  BY <1>1, <1>2, PTL DEF Spec

\* Every variable keeps its shape (the loop index stays within the plan).
THEOREM TypeCorrect == Spec => []TypeOK
<1> DEFINE FromPlans == \A c \in Calls : plan[c] # <<>> => plan[c] \in Plans
<1>1. Init => FromPlans
  BY DEF Init
<1>2. IInv /\ FromPlans /\ [Next]_vars => FromPlans'
  BY DEF Next, Enter, Step, Fault, Begin, NothingToCommit, ApplyLeg, RefuseLeg,
         UpdateStatus, Commit, Acknowledge, Rollback, Abort, LoseAnswer, vars, IInv, Shape
<1>3. IInv /\ FromPlans => TypeOK
  BY DEF IInv, Shape, TypeOK
<1> QED
  BY <1>1, <1>2, <1>3, Invariance, PTL DEF Spec

\* No set of concurrent commits overdraws a provider (commit.ts:49-62).
THEOREM NeverOverdrawn == Spec => []NoOverdraw
<1>1. IInv => NoOverdraw
  BY DEF IInv
<1> QED
  BY <1>1, Invariance, PTL

\* An opportunity is MATCHED exactly when its money was drawn
\* (commit.ts:110-113 inside the transaction of commit.ts:74).
THEOREM FundedExactlyWhenMatched == Spec => []MatchedIffFunded
<1>1. IInv => MatchedIffFunded
  BY DEF IInv
<1> QED
  BY <1>1, Invariance, PTL

\* The outcome a caller is given is true of the database
\* (commit.ts:70-72, 115-138).
THEOREM OutcomesAreTruthful == Spec => []OutcomeIsTruthful
<1>1. IInv => OutcomeIsTruthful
  BY DEF IInv, DurableCalls, OutcomeIsTruthful
<1> QED
  BY <1>1, Invariance, PTL

----------------------------------------------------------------------------
(* What was drawn is what is missing.                                      *)

\* A step of the calls adds at most one call to the durable ones, and takes
\* exactly its demand from the rows.
LEMMA NextBooked ==
  ASSUME IInv, Booked, [Next]_vars
  PROVE  Booked'
<1> DEFINE asked(p) == [c \in Calls |-> Demand(plan[c], p)]
<1>1. \A p \in Providers : Summable(asked(p), durable)
  <2>1. \A c \in Calls : plan[c] = <<>> \/ plan[c] \in LegalPlans
    BY DEF IInv, Shape
  <2>2. \A c \in Calls, p \in Providers : Demand(plan[c], p) \in Int
    BY <2>1, DemandType DEF Demand
  <2> QED
    BY <2>2 DEF IInv, Shape, Booked, Summable
<1>2. ASSUME NEW c \in Calls, Commit(c)
      PROVE  Booked'
  <2>1. c \notin durable /\ durable' = durable \union {c} /\ plan' = plan
    BY <1>2 DEF Commit, IInv, DurableCalls
  <2>2. plan[c] \in LegalPlans
    BY <1>2 DEF Commit, IInv, Shape, Begun, OpenTx
  <2>3. IsFiniteSet(durable')
    BY <2>1, FS_AddElement DEF Booked
  <2>4. ASSUME NEW p \in Providers
        PROVE  liquidity'[p] = Liquidity0[p] - Drawn(p)'
    <3>1. Demand(plan[c], p) \in Int /\ asked(p)[c] = Demand(plan[c], p)
      BY <2>2, DemandType
    <3>2. Summable(asked(p), durable)
      BY <1>1
    <3>3. Drawn(p)' = SumFunctionOnSet(asked(p), durable \union {c})
      BY <2>1 DEF Drawn
    <3>4. Drawn(p) = SumFunctionOnSet(asked(p), durable)
      BY DEF Drawn
    <3> HIDE DEF asked
    <3>5. Drawn(p)' = Demand(plan[c], p) + Drawn(p)
      BY <2>1, <3>1, <3>2, <3>3, <3>4, SumAdd
    <3>6. Drawn(p) \in Int /\ Liquidity0[p] \in Int
      BY <3>2, <3>4, SumIsInt, LiquidityAssumption
    <3>7. liquidity'[p] = liquidity[p] - Demand(plan[c], p)
      BY <1>2 DEF Commit
    <3> QED
      BY <3>1, <3>5, <3>6, <3>7 DEF Booked
  <2> QED
    BY <2>3, <2>4 DEF Booked
<1>3. CASE /\ UNCHANGED <<liquidity, durable>>
           /\ \A c \in durable : plan'[c] = plan[c]
  <2> SUFFICES ASSUME NEW p \in Providers PROVE Drawn(p)' = Drawn(p)
    BY <1>3 DEF Booked
  <2> DEFINE later == [c \in Calls |-> Demand(plan'[c], p)]
  <2>1. \A c \in durable : asked(p)[c] = later[c]
    BY <1>3 DEF IInv, Shape
  <2>2. Drawn(p)' = SumFunctionOnSet(later, durable)
    BY <1>3 DEF Drawn
  <2>3. Drawn(p) = SumFunctionOnSet(asked(p), durable)
    BY DEF Drawn
  <2> HIDE DEF asked, later
  <2> QED
    BY <1>1, <2>1, <2>2, <2>3, SumSame
<1>4. ASSUME NEW c \in Calls, NEW o \in Opps, NEW s \in Plans, Begin(c, o, s)
      PROVE  \A d \in durable : plan'[d] = plan[d]
  BY <1>4 DEF Begin, IInv, Shape, DurableCalls
<1>5. \/ \E c \in Calls : Commit(c)
      \/ UNCHANGED <<liquidity, durable, plan>>
      \/ /\ UNCHANGED <<liquidity, durable>>
         /\ \E c \in Calls, o \in Opps, s \in Plans : Begin(c, o, s)
  BY DEF Next, Enter, Step, Fault, Begin, NothingToCommit, ApplyLeg, RefuseLeg,
         UpdateStatus, Acknowledge, Rollback, Abort, LoseAnswer, vars
<1> QED
  BY <1>2, <1>3, <1>4, <1>5

\* "Two deals cannot draw the same rupees" (README.md:98), for any number of
\* deals: the money missing from a provider is the sum of what was drawn from
\* it, and never more than it had.
THEOREM NothingDrawnTwice == Spec => []NoDoubleDraw
<1>1. Init => Booked
  <2> SUFFICES ASSUME Init PROVE Booked
    OBVIOUS
  <2>1. \A p \in Providers : Drawn(p) = 0
    BY SumOfNone DEF Init, Drawn
  <2> QED
    BY <2>1, FS_EmptySet, LiquidityAssumption DEF Init, Booked
<1>2. IInv /\ Booked /\ [Next]_vars => Booked'
  BY NextBooked
<1>3. IInv /\ Booked => NoDoubleDraw
  <2> SUFFICES ASSUME IInv, Booked, NEW p \in Providers
               PROVE  Drawn(p) <= Liquidity0[p] /\ liquidity[p] = Liquidity0[p] - Drawn(p)
    BY DEF NoDoubleDraw, Drawn
  <2>1. Drawn(p) \in Int
    <3> DEFINE asked == [c \in Calls |-> Demand(plan[c], p)]
    <3>1. \A c \in Calls : plan[c] = <<>> \/ plan[c] \in LegalPlans
      BY DEF IInv, Shape
    <3>2. \A c \in Calls : Demand(plan[c], p) \in Int
      BY <3>1, DemandType DEF Demand
    <3>3. Summable(asked, durable)
      BY <3>2 DEF IInv, Shape, Booked, Summable
    <3>4. Drawn(p) = SumFunctionOnSet(asked, durable)
      BY DEF Drawn
    <3> HIDE DEF asked
    <3> QED
      BY <3>3, <3>4, SumIsInt
  <2> QED
    BY <2>1, LiquidityAssumption DEF IInv, NoOverdraw, Booked
<1> QED
  BY <1>1, <1>2, <1>3, Invariance, PTL DEF Spec

----------------------------------------------------------------------------
(* Refusals are never spurious.                                            *)

\* Every leg funds a non-negative amount.
SoundPlans == \A s \in Plans : \A i \in 1..Len(s) : s[i].funded >= 0

\* Then committed liquidity never grows, so what did not fit does not fit later.
LEMMA LiquidityShrinks ==
  ASSUME SoundPlans, IInv, TypeOK, [Next]_vars, NEW p \in Providers
  PROVE  liquidity'[p] <= liquidity[p] /\ liquidity'[p] \in Int /\ liquidity[p] \in Int
<1>1. liquidity[p] \in Int
  BY DEF IInv, Shape, TypeOK
<1>2. ASSUME NEW c \in Calls, Commit(c)
      PROVE  liquidity'[p] <= liquidity[p] /\ liquidity'[p] \in Int
  <2>1. plan[c] \in Plans
    BY <1>2 DEF Commit, IInv, Shape, TypeOK, Begun, OpenTx
  <2>2. Demand(plan[c], p) \in Int
    BY <2>1, DemandType, PlansAreLegal
  <2>3. Demand(plan[c], p) >= 0
    <3>1. CASE \A i \in 1..Len(plan[c]) : plan[c][i].provider # p
      BY <3>1, DemandOfStranger
    <3>2. CASE \E i \in 1..Len(plan[c]) : plan[c][i].provider = p
      BY <2>1, <3>2, DemandOfLeg, PlansAreLegal DEF SoundPlans
    <3> QED
      BY <3>1, <3>2
  <2>4. liquidity'[p] = liquidity[p] - Demand(plan[c], p)
    BY <1>2 DEF Commit
  <2> QED
    BY <1>1, <2>2, <2>3, <2>4
<1>3. (\E c \in Calls : Commit(c)) \/ UNCHANGED liquidity
  BY DEF Next, Enter, Step, Fault, Begin, NothingToCommit, ApplyLeg, RefuseLeg,
         UpdateStatus, Acknowledge, Rollback, Abort, LoseAnswer, vars
<1> QED
  BY <1>1, <1>2, <1>3

\* A call reported as raced wanted more than the provider has left, and has
\* left ever since (commit.ts:60).
THEOREM RefusalsAreGenuine ==
  ASSUME SoundPlans
  PROVE  Spec => []RacedMeansTaken
<1>1. Init => RacedMeansTaken
  BY DEF Init, RacedMeansTaken
<1>2. IInv /\ TypeOK /\ RacedMeansTaken /\ [Next]_vars => RacedMeansTaken'
  <2> SUFFICES ASSUME IInv, TypeOK, RacedMeansTaken, [Next]_vars,
                      NEW d \in Calls, pc'[d] \in {"rollback", "raced"}
               PROVE  \E p \in Providers : Demand(plan'[d], p) > liquidity'[p]
    BY DEF RacedMeansTaken
  <2> DEFINE Unmet == \E p \in Providers : Demand(plan[d], p) > liquidity[p]
  <2>1. CASE pc[d] \in {"rollback", "raced"}
    <3>1. Unmet
      BY <2>1 DEF RacedMeansTaken
    <3>2. plan'[d] = plan[d]
      BY <2>1 DEF Next, Enter, Step, Fault, Begin, NothingToCommit, ApplyLeg, RefuseLeg,
             UpdateStatus, Commit, Acknowledge, Rollback, Abort, LoseAnswer, vars,
             IInv, Shape, TypeOK
    <3>3. plan[d] = <<>> \/ plan[d] \in Plans
      BY DEF IInv, Shape, TypeOK
    <3>4. \A p \in Providers : Demand(plan[d], p) \in Int
      BY <3>3, DemandType, PlansAreLegal DEF Demand
    <3> QED
      BY <3>1, <3>2, <3>4, LiquidityShrinks
  <2>2. CASE pc[d] \notin {"rollback", "raced"}
    <3>1. RefuseLeg(d)
      BY <2>2 DEF Next, Enter, Step, Fault, Begin, NothingToCommit, ApplyLeg, RefuseLeg,
             UpdateStatus, Commit, Acknowledge, Rollback, Abort, LoseAnswer, vars,
             IInv, Shape, TypeOK
    <3>2. plan[d] \in Plans /\ next[d] \in 1..Len(plan[d])
      BY <3>1 DEF RefuseLeg, IInv, Shape, TypeOK, Begun, OpenTx
    <3>3. CurrentLeg(d).provider \in Providers
          /\ Demand(plan[d], CurrentLeg(d).provider) = CurrentLeg(d).funded
      BY <3>2, DemandOfLeg, PlansAreLegal DEF CurrentLeg
    <3> QED
      BY <3>1, <3>3 DEF RefuseLeg
  <2> QED
    BY <2>1, <2>2
<1> QED
  BY <1>1, <1>2, Invariance, TypeCorrect, PTL DEF Spec

----------------------------------------------------------------------------
(* Refinement.                                                             *)

\* Whatever the interleaving, the committed rows change as if each deal had
\* been struck in one indivisible step: commitAllocation implements
\* AtomicAllocation.
THEOREM DealsAreAtomic == Spec => Atomicity
<1>1. Init => Atomic!Init
  BY DEF Init, Atomic!Init
<1>2. IInv /\ TypeOK /\ [Next]_vars => [Atomic!Next]_(Atomic!vars)
  <2> SUFFICES ASSUME IInv, TypeOK, [Next]_vars
               PROVE  [Atomic!Next]_(Atomic!vars)
    OBVIOUS
  <2>1. ASSUME NEW c \in Calls, Commit(c)
        PROVE  Atomic!Next
    <3>1. pc[c] = "commit" /\ plan[c] \in Plans /\ opp[c] \in Opps
      BY <2>1 DEF Commit, IInv, Shape, TypeOK, Begun, OpenTx
    <3>2. \A p \in Providers : DemandOf(plan[c])[p] = Demand(plan[c], p)
      BY DEF DemandOf
    <3>3. \A p \in Providers : DemandOf(plan[c])[p] <= liquidity[p]
      BY <3>1, <3>2, PlanFitsAtCommit
    <3>4. liquidity' = [p \in Providers |-> liquidity[p] - DemandOf(plan[c])[p]]
      BY <2>1, <3>2 DEF Commit
    <3>5. Atomic!Deal(opp[c], DemandOf(plan[c]))
      BY <2>1, <3>3, <3>4 DEF Commit, Atomic!Deal
    <3> QED
      BY <3>1, <3>5 DEF Atomic!Next
  <2>2. (\E c \in Calls : Commit(c)) \/ UNCHANGED <<liquidity, status>>
    BY DEF Next, Enter, Step, Fault, Begin, NothingToCommit, ApplyLeg, RefuseLeg,
           UpdateStatus, Acknowledge, Rollback, Abort, LoseAnswer, vars
  <2> QED
    BY <2>1, <2>2 DEF Atomic!vars
<1> QED
  BY <1>1, <1>2, Invariance, TypeCorrect, PTL DEF Spec, Atomicity, Atomic!Spec
=============================================================================
