----------------------------- MODULE Approvals -----------------------------
(***************************************************************************)
(* The human decision on one invoice of one organisation: the recommended  *)
(* action (backend/app/decision_engine/engine.py), the requests that       *)
(* decide on it or fetch what it produced (service.py, api/routes.py) and  *)
(* the store behind them (store.py).                                       *)
(*                                                                         *)
(* Requests run at once, in the threads of one process that may restart.   *)
(* The recommendation is derived anew by every request; the decision is    *)
(* kept in a store, Postgres or a dictionary, chosen by the first request  *)
(* that needs it.  What the portfolio says of the invoice may differ at     *)
(* every reading: a sync, or the payment of another invoice, changes it.   *)
(* Postgres is READ COMMITTED: a SELECT sees what is       *)
(* committed, a DELETE or UPDATE waits for the rows' locks, an INSERT for  *)
(* an uncommitted row of the same key.  Bounds: each request runs once.    *)
(***************************************************************************)
EXTENDS Integers, Sequences, FiniteSets

CONSTANTS
    Requests,       \* HTTP requests about this invoice
    Situations,     \* what the portfolio may say of it: records of
                    \* [disputed, statutory, eligible, shortfall : BOOLEAN]
    MayBe,          \* what each request may be, and what the portfolio may
                    \* say when it arrives: [kind, situation]
    NoDecision,     \* no action_decisions row
    Nothing         \* no artifact

ASSUME SituationsAssumption ==
    Situations \subseteq
        [disputed : BOOLEAN, statutory : BOOLEAN,
         eligible : BOOLEAN, shortfall : BOOLEAN]

ASSUME DecisionAssumption ==
    NoDecision \notin [state : {"APPROVED", "REJECTED"},
                       action : {"FOLLOW_UP", "FINANCE", "ESCALATE"}, by : Requests]

ASSUME MayBeAssumption == 
    MayBe \in [Requests -> SUBSET [kind : {"approve", "reject", "artifact"},
                                   situation : Situations]]

VARIABLES
    store,          \* _STORE: Unset, Sql, or the index of a dictionary
    memory,         \* the dictionaries this process created: [row, rows]
    decision,       \* the committed action_decisions row
    trail,          \* the committed audit_log_entries, by sequence
    pc, kind,       \* where each request is, and which it is
    rec,            \* its recommendation: [action, state]
    using,          \* the store it holds
    got,            \* what its last store.get read: [row, rows]
    tx,             \* its transaction: the row it loaded, the rows it deletes
    artifact,       \* the action whose artifact it returned, and the store
                    \* that said it was approved
    recorded,       \* history: decisions that took effect, in order
    began,          \* history: how many had when the request began
    crowded         \* history: decisions that met another one in progress

shared == <<store, memory, decision, trail>>
own == <<kind, rec, using, got, tx, artifact>>
history == <<recorded, began, crowded>>
vars == <<shared, pc, own, history>>

\* _STORE is None; the SqlApprovalStore.  Indices of `memory' are positive.
Unset == -1
Sql == 0

Kinds == {"approve", "reject", "artifact"}
Deciding == {"approve", "reject"}
Sensitive == {"FINANCE", "ESCALATE"}
Ended == {"answered", "failed"}
InStore == {"replay", "replayRows", "peek", "peekRows", "record",
            "delete", "deleting", "flush", "commit", "recorded"}
Running == {"probe", "build"} \union InStore

Empty == [row |-> NoDecision, rows |-> <<>>]

\* decide_action: a dispute comes before a statutory breach, which comes
\* before financing.
DecideAction(s) ==
    IF ~s.disputed /\ s.statutory THEN "ESCALATE"
    ELSE IF ~s.disputed /\ s.eligible /\ s.shortfall THEN "FINANCE"
    ELSE "FOLLOW_UP"

StateOf(k) == IF k = "approve" THEN "APPROVED" ELSE "REJECTED"

\* The audit entry and the row of the decision a request takes.
Entry(r) == [by |-> r, decision |-> kind[r], action |-> rec[r].action]
RowOf(r) == [state |-> StateOf(kind[r]), action |-> rec[r].action, by |-> r]

Goto(r, there) == pc' = [pc EXCEPT ![r] = there]

Proposed == [action |-> "FOLLOW_UP", state |-> "PENDING_APPROVAL"]

\* The call's local state is gone.
Forget(r) ==
    /\ kind' = [kind EXCEPT ![r] = "artifact"]
    /\ rec' = [rec EXCEPT ![r] = Proposed]
    /\ using' = [using EXCEPT ![r] = Unset]
    /\ got' = [got EXCEPT ![r] = Empty]
    /\ tx' = [tx EXCEPT ![r] = Empty]

\* The answer is 200, or 404, 409 or 500.
Answer(r) == Goto(r, "answered") /\ Forget(r)
FailWith(r) == Goto(r, "failed") /\ Forget(r) /\ UNCHANGED artifact

ViaOf(r) == IF using[r] = Sql THEN "sql" ELSE "memory"

Init ==
    /\ store = Unset
    /\ memory = <<>>
    /\ decision = NoDecision
    /\ trail = <<>>
    /\ pc = [r \in Requests |-> "idle"]
    /\ kind = [r \in Requests |-> "artifact"]
    /\ rec = [r \in Requests |-> Proposed]
    /\ using = [r \in Requests |-> Unset]
    /\ got = [r \in Requests |-> Empty]
    /\ tx = [r \in Requests |-> Empty]
    /\ artifact = [r \in Requests |-> Nothing]
    /\ recorded = <<>>
    /\ began = [r \in Requests |-> 0]
    /\ crowded = {}

----------------------------------------------------------------------------
(* The request.                                                            *)

\* Decisions in progress.
Busy == {q \in Requests : pc[q] \in Running /\ kind[q] \in Deciding}

\* build_action_queue derives the recommendation from what it reads.
Arrive(r, k, s) ==
    /\ pc[r] = "idle"
    /\ Goto(r, "replay")
    /\ kind' = [kind EXCEPT ![r] = k]
    /\ rec' = [rec EXCEPT ![r].action = DecideAction(s)]
    /\ began' = [began EXCEPT ![r] = Len(recorded)]
    /\ crowded' = IF k \in Deciding /\ Busy # {}
                  THEN crowded \union Busy \union {r} ELSE crowded
    /\ UNCHANGED <<shared, using, got, tx, artifact, recorded>>

\* The invoice is not in the queue: 404.
ArriveInVain(r) ==
    /\ pc[r] = "idle"
    /\ Goto(r, "failed")
    /\ UNCHANGED <<shared, own, history>>

----------------------------------------------------------------------------
(* get_approval_store.                                                     *)

\* _STORE is None: probe the database.
BeginProbe(r) ==
    /\ pc[r] = "replay"
    /\ store = Unset
    /\ Goto(r, "probe")
    /\ UNCHANGED <<shared, own, history>>

ProbeSucceeds(r) ==
    /\ pc[r] = "probe"
    /\ store' = Sql
    /\ Goto(r, "replay")
    /\ UNCHANGED <<memory, decision, trail, own, history>>

\* Unreachable: a new dictionary serves the process from now on.
ProbeFails(r) ==
    /\ pc[r] = "probe"
    /\ memory' = Append(memory, Empty)
    /\ store' = Len(memory')
    /\ Goto(r, "replay")
    /\ UNCHANGED <<decision, trail, own, history>>

----------------------------------------------------------------------------
(* store.get of the store the process has by then: first by                *)
(* _apply_approval, which replays the recorded state                       *)
(* onto the recommendation, then by decide_on_action, for the entries so   *)
(* far; approve or reject follows at once.                                 *)

Decide(r) ==
    /\ rec' = [rec EXCEPT ![r].state = StateOf(kind[r])]
    /\ Goto(r, "record")

Replay(r, row) ==
    /\ rec' = IF row = NoDecision THEN rec
              ELSE [rec EXCEPT ![r].state = row.state]
    /\ Goto(r, IF kind[r] = "artifact" THEN "build" ELSE "peek")

\* One dictionary lookup.
GetFromMemory(r) ==
    /\ store \in DOMAIN memory
    /\ using' = [using EXCEPT ![r] = store]
    /\ \/ pc[r] = "replay" /\ Replay(r, memory[store].row) /\ UNCHANGED got
       \/ /\ pc[r] = "peek"
          /\ Decide(r)
          /\ got' = [got EXCEPT ![r] = memory[store]]
    /\ UNCHANGED <<shared, kind, tx, artifact, history>>

\* The SELECT of the decision.
GetRow(r) ==
    /\ store = Sql
    /\ using' = [using EXCEPT ![r] = Sql]
    /\ IF decision # NoDecision
       THEN /\ \/ pc[r] = "replay" /\ Goto(r, "replayRows")
               \/ pc[r] = "peek" /\ Goto(r, "peekRows")
            /\ got' = [got EXCEPT ![r].row = decision]
            /\ UNCHANGED rec
       ELSE /\ \/ pc[r] = "replay" /\ Replay(r, NoDecision)
               \/ pc[r] = "peek" /\ Decide(r)
            /\ UNCHANGED got
    /\ UNCHANGED <<shared, kind, tx, artifact, history>>

\* Faulty variant: the entries so far are not carried over.
GetRowsForgetting(r) ==
    /\ \/ pc[r] = "replayRows" /\ Replay(r, got[r].row)
       \/ pc[r] = "peekRows" /\ Decide(r)
    /\ got' = [got EXCEPT ![r] = Empty]
    /\ UNCHANGED <<shared, kind, using, tx, artifact, history>>

\* The SELECT of the audit entries.
GetRows(r) ==
    /\ \/ /\ pc[r] = "replayRows"
          /\ Replay(r, got[r].row)
          /\ got' = [got EXCEPT ![r] = Empty]
       \/ /\ pc[r] = "peekRows"
          /\ Decide(r)
          /\ got' = [got EXCEPT ![r] = [row |-> NoDecision, rows |-> trail]]
    /\ UNCHANGED <<shared, kind, using, tx, artifact, history>>

----------------------------------------------------------------------------
(* store.record.                                                           *)

\* The session and its call are over.
Close(r) ==
    /\ got' = [got EXCEPT ![r] = Empty]
    /\ tx' = [tx EXCEPT ![r] = Empty]

Remember(r) ==
    recorded' = Append(recorded,
        [entry |-> Entry(r), via |-> ViaOf(r)])

RecordInMemory(r) ==
    /\ pc[r] = "record"
    /\ using[r] # Sql
    /\ memory' = [memory EXCEPT ![using[r]] =
                    [row |-> RowOf(r), rows |-> Append(got[r].rows, Entry(r))]]
    /\ Remember(r)
    /\ Close(r)
    /\ Goto(r, "recorded")
    /\ UNCHANGED <<store, decision, trail, kind, rec, using, artifact, began, crowded>>

\* The row as the session loads it.
SelectExisting(r) ==
    /\ pc[r] = "record"
    /\ using[r] = Sql
    /\ tx' = [tx EXCEPT ![r] = [row |-> decision, rows |-> <<>>]]
    /\ Goto(r, "delete")
    /\ UNCHANGED <<shared, kind, rec, using, got, artifact, history>>

\* DELETE of the audit rows: of those committed when the statement starts.
StartDelete(r) ==
    /\ pc[r] = "delete"
    /\ tx' = [tx EXCEPT ![r].rows = trail]
    /\ Goto(r, "deleting")
    /\ UNCHANGED <<shared, kind, rec, using, got, artifact, history>>

\* Another open transaction has deleted the same rows.
RowsLockedBy(q) == pc[q] \in {"flush", "commit"} /\ tx[q].rows # <<>>

\* Once their locks are free: rows another transaction has replaced are gone,
\* and its new ones are not seen.
FinishDelete(r) ==
    /\ pc[r] = "deleting"
    /\ tx[r].rows # <<>> => \A q \in Requests \ {r} : ~RowsLockedBy(q)
    /\ tx' = [tx EXCEPT ![r].rows = IF @ = trail THEN @ ELSE <<>>]
    /\ Goto(r, "flush")
    /\ UNCHANGED <<shared, kind, rec, using, got, artifact, history>>

\* The primary key, or a sequence number, is taken by a committed row.
Conflict(r) ==
    \/ tx[r].row = NoDecision /\ decision # NoDecision
    \/ trail # tx[r].rows

\* INSERT or UPDATE of the decision and INSERT of the entries.
Flush(r) ==
    /\ pc[r] = "flush"
    /\ \A q \in Requests \ {r} : pc[q] # "commit"
    /\ ~Conflict(r)
    /\ Goto(r, "commit")
    /\ UNCHANGED <<shared, own, history>>

\* Faulty variant: the failed transaction is neither ended nor reported.
FlushConflictsSwallowed(r) ==
    /\ pc[r] = "flush"
    /\ \A q \in Requests \ {r} : pc[q] # "commit"
    /\ Conflict(r)
    /\ UNCHANGED vars

\* IntegrityError: the transaction is rolled back and the answer is a 500.
FlushConflicts(r) ==
    /\ pc[r] = "flush"
    /\ \A q \in Requests \ {r} : pc[q] # "commit"
    /\ Conflict(r)
    /\ FailWith(r)
    /\ UNCHANGED <<shared, history>>

\* The UPDATE sets the columns the session changed: those whose new value
\* differs from the one it loaded.
Merged(loaded, new, current) ==
    IF loaded = NoDecision THEN new
    ELSE [f \in DOMAIN new |-> IF new[f] # loaded[f] THEN new[f] ELSE current[f]]

\* Faulty variant: the entries are appended to those of the table.
CommitAppending(r) ==
    /\ pc[r] = "commit"
    /\ decision' = Merged(tx[r].row, RowOf(r), decision)
    /\ trail' = trail \o Append(got[r].rows, Entry(r))
    /\ Remember(r)
    /\ Close(r)
    /\ Goto(r, "recorded")
    /\ UNCHANGED <<store, memory, kind, rec, using, artifact, began, crowded>>

Commit(r) ==
    /\ pc[r] = "commit"
    /\ decision' = Merged(tx[r].row, RowOf(r), decision)
    /\ trail' = Append(got[r].rows, Entry(r))
    /\ Remember(r)
    /\ Close(r)
    /\ Goto(r, "recorded")
    /\ UNCHANGED <<store, memory, kind, rec, using, artifact, began, crowded>>

\* A rejection is answered; an approval goes on to what it produces.
Recorded(r) ==
    /\ pc[r] = "recorded"
    /\ IF kind[r] = "approve" THEN Goto(r, "build") /\ UNCHANGED own
       ELSE Answer(r) /\ UNCHANGED artifact
    /\ UNCHANGED <<shared, history>>

----------------------------------------------------------------------------
(* build_artifact, which reads the portfolio again.                        *)

\* assert_executable.
Executable(r) ==
    rec[r].action \in Sensitive => rec[r].state = "APPROVED"

HandOut(r) ==
    /\ artifact' = [artifact EXCEPT ![r] = [action |-> rec[r].action, via |-> ViaOf(r)]]
    /\ Answer(r)

\* Faulty variant: the builder of dossiers forgot the gate.
BuildUngated(r, s) ==
    /\ pc[r] = "build"
    /\ rec[r].action = "FINANCE" => s.eligible /\ Executable(r)
    /\ HandOut(r)
    /\ UNCHANGED <<shared, history>>

\* A reminder, a TReDS submission or a dossier.
Build(r, s) ==
    /\ pc[r] = "build"
    /\ Executable(r)
    /\ rec[r].action = "FINANCE" => s.eligible
    /\ HandOut(r)
    /\ UNCHANGED <<shared, history>>

\* The invoice is gone: no artifact; 404 where that was the request.
BuildNothing(r) ==
    /\ pc[r] = "build"
    /\ IF kind[r] = "artifact" THEN FailWith(r)
       ELSE Answer(r) /\ UNCHANGED artifact
    /\ UNCHANGED <<shared, history>>

\* ApprovalRequired: 409.
BuildRefused(r) ==
    /\ pc[r] = "build"
    /\ ~Executable(r)
    /\ FailWith(r)
    /\ UNCHANGED <<shared, history>>

\* TredsIneligible: 409, and a decision just recorded stands.
BuildIneligible(r, s) ==
    /\ pc[r] = "build"
    /\ Executable(r)
    /\ rec[r].action = "FINANCE" /\ ~s.eligible
    /\ FailWith(r)
    /\ UNCHANGED <<shared, history>>

----------------------------------------------------------------------------

\* The database, for the portfolio or the decisions, fails the request; at
\* "recorded" it is the answer to COMMIT that is lost.
Fail(r) ==
    /\ \/ pc[r] = "build"
       \/ pc[r] \in InStore /\ using[r] = Sql
    /\ FailWith(r)
    /\ UNCHANGED <<shared, history>>

\* The process ends, with its requests and dictionaries, and starts again.
Restart ==
    /\ store # Unset
    /\ store' = Unset
    /\ memory' = <<>>
    /\ pc' = [r \in Requests |-> IF pc[r] \in Running THEN "failed" ELSE pc[r]]
    /\ kind' = [r \in Requests |-> "artifact"]
    /\ rec' = [r \in Requests |-> Proposed]
    /\ using' = [r \in Requests |-> Unset]
    /\ got' = [r \in Requests |-> Empty]
    /\ tx' = [r \in Requests |-> Empty]
    /\ UNCHANGED <<decision, trail, artifact, history>>

Step(r) ==
    \/ BeginProbe(r) \/ ProbeSucceeds(r) \/ ProbeFails(r)
    \/ GetFromMemory(r) \/ GetRow(r) \/ GetRows(r)
    \/ RecordInMemory(r) \/ SelectExisting(r) \/ StartDelete(r) \/ FinishDelete(r)
    \/ Flush(r) \/ FlushConflicts(r) \/ Commit(r) \/ Recorded(r)
    \/ BuildNothing(r) \/ BuildRefused(r)
    \/ \E s \in Situations : Build(r, s) \/ BuildIneligible(r, s)

Next ==
    \/ \E r \in Requests : \/ Step(r) \/ Fail(r) \/ ArriveInVain(r)
                          \/ \E a \in MayBe[r] : Arrive(r, a.kind, a.situation)
    \/ Restart

Spec == Init /\ [][Next]_vars

\* The threadpool runs every request, and Postgres every statement that can.
Fairness == \A r \in Requests : WF_vars(Step(r))

FairSpec == Spec /\ Fairness
----------------------------------------------------------------------------
(* Properties.                                                             *)

HandedOut == {r \in Requests : artifact[r] # Nothing /\ artifact[r].action \in Sensitive}

\* The decisions that took effect in the database.
InDatabase == {i \in DOMAIN recorded : recorded[i].via = "sql"}

\* "Nothing sensitive executes without a human" (engine.py:8): a submission or
\* a dossier is handed out only on an approval that took effect in the store
\* the request read, with no rejection in between that was there before the
\* request began and met no other decision.
GateHolds ==
    \A r \in HandedOut :
        \E i \in DOMAIN recorded :
            /\ recorded[i].entry.decision = "approve"
            /\ recorded[i].via = artifact[r].via
            /\ \A j \in (i + 1)..began[r] :
                ~ /\ recorded[j].entry.decision = "reject"
                  /\ recorded[j].via = recorded[i].via
                  /\ recorded[j].entry.by \notin crowded

\* "Appending would double every earlier entry" (store.py:198): whatever
\* rewrites race, the trail is a part of the decisions that took effect, in
\* their order, each once, and ends with the latest.
TrailIsHistory ==
    /\ \E at \in [DOMAIN trail -> InDatabase] :
        /\ \A m, n \in DOMAIN trail : m < n => at[m] < at[n]
        /\ \A n \in DOMAIN trail : trail[n] = recorded[at[n]].entry
    /\ \A i \in InDatabase :
        (\A j \in InDatabase : j <= i) =>
            trail # <<>> /\ trail[Len(trail)] = recorded[i].entry

\* "An approve-then-reject is two facts about who decided what" (service.py:
\* 130): an entry in the database stays on the trail, over later decisions,
\* failures and restarts, unless another decision was in progress beside it.
DecisionsKept ==
    \A i \in InDatabase :
        recorded[i].entry.by \notin crowded =>
            \E n \in DOMAIN trail : trail[n] = recorded[i].entry

\* Every request is answered: decisions that wait for one another's rows and
\* keys do not wait for ever.
EveryRequestReturns ==
    \A r \in Requests : pc[r] = "replay" ~> pc[r] \in Ended

----------------------------------------------------------------------------
(* What is said of the code and does not hold.                             *)

\* "Keep the full sequence, not just the latest" (service.py:130): a decision
\* its user was told is recorded is on the trail.
NoDecisionErased ==
    \A i \in InDatabase :
        pc[recorded[i].entry.by] = "answered" =>
            \E n \in DOMAIN trail : trail[n] = recorded[i].entry

\* "Every recommendation is born PENDING_APPROVAL.  Only an explicit user
\* decision moves it" (engine.py:8-10): what is handed out as a submission or
\* as a dossier was approved as one.
ApprovalCoversAction ==
    \A r \in HandedOut :
        \E i \in DOMAIN recorded :
            /\ recorded[i].entry.decision = "approve"
            /\ recorded[i].entry.action = artifact[r].action
=============================================================================
