--------------------------- MODULE PortfolioSync ---------------------------
(***************************************************************************)
(* The canonical store of one organisation: the syncs that copy the        *)
(* accounting system's book into it and the requests that read it back     *)
(* (backend/app/sync/service.py).                                          *)
(*                                                                         *)
(* A sync asks the connector three questions, while the bookkeeper may be  *)
(* writing, then upserts customers and invoices and replaces the payments  *)
(* in one transaction, and records the run in another.  Any number of them *)
(* overlap: POST /api/sync, the scheduler, further workers.  Postgres is   *)
(* READ COMMITTED.  The session does not flush before COMMIT, except that  *)
(* the DELETE of the payments is sent at once; so the rows are written and *)
(* committed in one step, and only DELETEs wait for each other.            *)
(***************************************************************************)
EXTENDS Naturals, Sequences, FiniteSets

CONSTANTS
    Syncs,          \* calls of sync_portfolio
    Loads,          \* calls of load_portfolio
    Books,          \* the book as the bookkeeper changes it, a sequence of
                    \* [customers, invoices : row by key, payments : sequence]
    Earlier         \* a sync that ended before any other began

\* A row is a function from its columns.
IsRow(row) == row = [column \in DOMAIN row |-> row[column]]

ASSUME BooksAssumption ==
    /\ Len(Books) \in Nat \ {0}
    /\ Earlier \notin Syncs
    /\ \A b \in 1 .. Len(Books) :
        LET book == Books[b] IN
        /\ \A i \in DOMAIN book.invoices :
              book.invoices[i].customer \in DOMAIN book.customers
        /\ \A n \in 1 .. Len(book.payments) :
              book.payments[n].customer \in DOMAIN book.customers
        /\ \A c \in DOMAIN book.customers : IsRow(book.customers[c])
        /\ \A i \in DOMAIN book.invoices :
              IsRow(book.invoices[i]) /\ "customer" \in DOMAIN book.invoices[i]

VARIABLES
    shown,          \* which of Books the accounting system shows
    customers,      \* the committed customers and invoices, by natural key
    invoices,
    payments,       \* the committed payments; `by' and `nth' are their id
    runs,           \* sync_runs, in the order of their ids
    pc,             \* where each sync is
    read,           \* what it got from the connector
    loaded,         \* the customers and invoices its SELECTs found
    found,          \* the payments its DELETE found
    deleted,        \* the payments its open transaction has deleted
    result,         \* the status it will record
    began,          \* history: how many syncs had committed at its first SELECT
    commits,        \* history: [by, wrote, alone] of every commit; `alone' if
                    \* none other came since its first SELECT
    unanswered,     \* history: COMMITs whose answer was lost
    lpc, got,       \* where each load is, and what it has read
    lbegan          \* history: how many syncs had committed when it began

tables == <<customers, invoices, payments>>
calls == <<pc, read, loaded, found, deleted, result>>
history == <<began, commits, unanswered>>
loads == <<lpc, got, lbegan>>
syncVars == <<shown, tables, runs, calls, history, loads>>

Reading == {"readCustomers", "readInvoices", "readPayments"}
Writing == {"upsertCustomers", "upsertInvoices", "deletePayments",
            "deleting", "commit"}
Running == Reading \union Writing \union {"record"}
Ended == {"returned", "raised", "died"}

Empty == [customers |-> <<>>, invoices |-> <<>>, payments |-> <<>>]
NoneLoaded == [customers |-> <<>>, invoices |-> <<>>]
NoRows == [customers |-> <<>>, invoices |-> <<>>, payments |-> {}]

\* What the connector may answer, and a call before it has asked.
Readings ==
    [customers : {<<>>} \union {Books[b].customers : b \in 1 .. Len(Books)},
     invoices : {<<>>} \union {Books[b].invoices : b \in 1 .. Len(Books)},
     payments : {<<>>} \union {Books[b].payments : b \in 1 .. Len(Books)}]
Receipts == UNION {{Books[b].payments[n] : n \in 1 .. Len(Books[b].payments)} :
                       b \in 1 .. Len(Books)}
Runs == [by : Syncs, status : {"SUCCESS", "FAILED"}]
Commits == [by : Syncs, wrote : Readings, alone : BOOLEAN]

\* The rows that a reading of the payments becomes.
RowsBy(s, paid) == {[by |-> s, nth |-> n, paid |-> paid[n]] : n \in 1 .. Len(paid)}

Goto(s, there) == pc' = [pc EXCEPT ![s] = there]

\* The store is new, or an earlier sync has filled it.
Init ==
    /\ shown = 1
    /\ \/ customers = <<>> /\ invoices = <<>> /\ payments = {}
       \/ /\ customers = Books[1].customers
          /\ invoices = Books[1].invoices
          /\ payments = RowsBy(Earlier, Books[1].payments)
    /\ runs = <<>>
    /\ pc = [s \in Syncs |-> "idle"]
    /\ read = [s \in Syncs |-> Empty]
    /\ loaded = [s \in Syncs |-> NoneLoaded]
    /\ found = [s \in Syncs |-> {}]
    /\ deleted = [s \in Syncs |-> {}]
    /\ result = [s \in Syncs |-> "none"]
    /\ began = [s \in Syncs |-> 0]
    /\ commits = <<>>
    /\ unanswered = {}
    /\ lpc = [l \in Loads |-> "idle"]
    /\ got = [l \in Loads |-> NoRows]
    /\ lbegan = [l \in Loads |-> 0]

\* The bookkeeper posts a bill or a receipt.
BookMoves ==
    /\ shown < Len(Books)
    /\ shown' = shown + 1
    /\ UNCHANGED <<tables, runs, calls, history, loads>>

----------------------------------------------------------------------------
(* Reading the connector.                                                  *)

Start(s) ==
    /\ pc[s] = "idle"
    /\ Goto(s, "readCustomers")
    /\ UNCHANGED <<shown, tables, runs, read, loaded, found, deleted, result, history, loads>>

ReadCustomers(s) ==
    /\ pc[s] = "readCustomers"
    /\ read' = [read EXCEPT ![s].customers = Books[shown].customers]
    /\ Goto(s, "readInvoices")
    /\ UNCHANGED <<shown, tables, runs, loaded, found, deleted, result, history, loads>>

ReadInvoices(s) ==
    /\ pc[s] = "readInvoices"
    /\ read' = [read EXCEPT ![s].invoices = Books[shown].invoices]
    /\ Goto(s, "readPayments")
    /\ UNCHANGED <<shown, tables, runs, loaded, found, deleted, result, history, loads>>

\* As if payments were written while they are read.
ReadPaymentsStreaming(s) ==
    /\ pc[s] = "readPayments"
    /\ read' = [read EXCEPT ![s].payments = Books[shown].payments]
    /\ payments' = payments \union RowsBy(s, SubSeq(Books[shown].payments, 1, 1))
    /\ Goto(s, "upsertCustomers")
    /\ UNCHANGED <<shown, customers, invoices, runs, loaded, found, deleted, result, history, loads>>

ReadPayments(s) ==
    /\ pc[s] = "readPayments"
    /\ read' = [read EXCEPT ![s].payments = Books[shown].payments]
    /\ Goto(s, "upsertCustomers")
    /\ UNCHANGED <<shown, tables, runs, loaded, found, deleted, result, history, loads>>

\* Any exception, of the connector or the database, rolls back what there is
\* and goes to _record_run.
Fail(s) ==
    /\ result' = [result EXCEPT ![s] = "FAILED"]
    /\ deleted' = [deleted EXCEPT ![s] = {}]
    /\ Goto(s, "record")

ReadFails(s) ==
    /\ pc[s] \in Reading
    /\ Fail(s)
    /\ UNCHANGED <<shown, tables, runs, read, loaded, found, history, loads>>

----------------------------------------------------------------------------
(* The transaction.                                                        *)

UpsertCustomers(s) ==
    /\ pc[s] = "upsertCustomers"
    /\ loaded' = [loaded EXCEPT ![s].customers = customers]
    /\ began' = [began EXCEPT ![s] = Len(commits)]
    /\ Goto(s, "upsertInvoices")
    /\ UNCHANGED <<shown, tables, runs, read, found, deleted, result, commits, unanswered, loads>>

UpsertInvoices(s) ==
    /\ pc[s] = "upsertInvoices"
    /\ loaded' = [loaded EXCEPT ![s].invoices = invoices]
    /\ Goto(s, "deletePayments")
    /\ UNCHANGED <<shown, tables, runs, read, found, deleted, result, history, loads>>

\* DELETE FROM payments finds its rows when it begins ...
DeletePayments(s) ==
    /\ pc[s] = "deletePayments"
    /\ found' = [found EXCEPT ![s] = payments]
    /\ Goto(s, "deleting")
    /\ UNCHANGED <<shown, tables, runs, read, loaded, deleted, result, history, loads>>

\* As if the table were locked before it is known who was first.
FinishDeleteExclusive(s) ==
    /\ pc[s] = "deleting"
    /\ \A t \in Syncs \ {s} : pc[t] \notin {"deleting", "commit"}
    /\ deleted' = [deleted EXCEPT ![s] = found[s] \intersect payments]
    /\ Goto(s, "commit")
    /\ UNCHANGED <<shown, tables, runs, read, loaded, found, result, history, loads>>

\* ... waits for the transactions that have deleted one of them, and passes
\* over the rows that are gone when they end.
FinishDelete(s) ==
    /\ pc[s] = "deleting"
    /\ \A t \in Syncs \ {s} : deleted[t] \intersect found[s] = {}
    /\ deleted' = [deleted EXCEPT ![s] = found[s] \intersect payments]
    /\ Goto(s, "commit")
    /\ UNCHANGED <<shown, tables, runs, read, loaded, found, result, history, loads>>

\* UPDATE sets the columns whose new value is not the loaded one.
Updated(now, was, new) ==
    [column \in DOMAIN new |->
        IF new[column] = was[column] THEN now[column] ELSE new[column]]

\* As if rows the store has were skipped.
UpsertedMissingOnly(now, was, new) ==
    [key \in DOMAIN now \union DOMAIN new |->
        IF key \in DOMAIN now THEN now[key] ELSE new[key]]

\* Every row read is inserted, or updated if the SELECT found it; rows that
\* were not read stay.
Upserted(now, was, new) ==
    [key \in DOMAIN now \union DOMAIN new |->
        IF key \notin DOMAIN new THEN now[key]
        ELSE IF key \in DOMAIN was THEN Updated(now[key], was[key], new[key])
        ELSE new[key]]

\* The primary keys: a row to insert has been committed by another sync.
Duplicate(s) ==
    \/ \E c \in DOMAIN customers : c \in DOMAIN read[s].customers
                                   /\ c \notin DOMAIN loaded[s].customers
    \/ \E i \in DOMAIN invoices : i \in DOMAIN read[s].invoices
                                  /\ i \notin DOMAIN loaded[s].invoices

\* As if payments had no foreign key.
OrphanedInvoice(s) ==
    \E i \in DOMAIN read[s].invoices :
        read[s].invoices[i].customer
            \notin DOMAIN customers \union DOMAIN read[s].customers

\* The foreign keys: an invoice or a payment of a customer nobody has read.
Orphaned(s) ==
    LET known == DOMAIN customers \union DOMAIN read[s].customers IN
    \/ \E i \in DOMAIN read[s].invoices : read[s].invoices[i].customer \notin known
    \/ \E n \in 1 .. Len(read[s].payments) : read[s].payments[n].customer \notin known

Write(s) ==
    /\ pc[s] = "commit"
    /\ ~Duplicate(s) /\ ~Orphaned(s)
    /\ customers' = Upserted(customers, loaded[s].customers, read[s].customers)
    /\ invoices' = Upserted(invoices, loaded[s].invoices, read[s].invoices)
    /\ payments' = (payments \ deleted[s]) \union RowsBy(s, read[s].payments)
    /\ deleted' = [deleted EXCEPT ![s] = {}]
    /\ commits' = Append(commits, [by |-> s, wrote |-> read[s],
                                  alone |-> Len(commits) = began[s]])
    /\ Goto(s, "record")
    /\ UNCHANGED <<shown, runs, read, loaded, found, began, loads>>

Commit(s) ==
    /\ Write(s)
    /\ result' = [result EXCEPT ![s] = "SUCCESS"]
    /\ UNCHANGED unanswered

\* The connection breaks before the answer to COMMIT: the except branch.
CommitUnanswered(s) ==
    /\ Write(s)
    /\ result' = [result EXCEPT ![s] = "FAILED"]
    /\ unanswered' = unanswered \union {s}

Refused(s) ==
    /\ pc[s] = "commit"
    /\ Duplicate(s) \/ Orphaned(s)
    /\ Fail(s)
    /\ UNCHANGED <<shown, tables, runs, read, loaded, found, history, loads>>

\* As if the except branch fell through to the last return.
WriteFailsIgnored(s) ==
    /\ pc[s] \in Writing
    /\ result' = [result EXCEPT ![s] = "SUCCESS"]
    /\ deleted' = [deleted EXCEPT ![s] = {}]
    /\ Goto(s, "record")
    /\ UNCHANGED <<shown, tables, runs, read, loaded, found, history, loads>>

\* A statement fails: a lost connection, a deadlock of two flushes.
WriteFails(s) ==
    /\ pc[s] \in Writing
    /\ Fail(s)
    /\ UNCHANGED <<shown, tables, runs, read, loaded, found, history, loads>>

----------------------------------------------------------------------------
(* The record of the run, and the end.                                     *)

\* The call's local state is gone.
Forget(s) ==
    /\ read' = [read EXCEPT ![s] = Empty]
    /\ loaded' = [loaded EXCEPT ![s] = NoneLoaded]
    /\ found' = [found EXCEPT ![s] = {}]

Record(s) ==
    /\ pc[s] = "record"
    /\ runs' = Append(runs, [by |-> s, status |-> result[s]])
    /\ Goto(s, "returned")
    /\ Forget(s)
    /\ UNCHANGED <<shown, tables, deleted, result, history, loads>>

\* The exception of _record_run goes to the caller; the row is there after all
\* if it was the answer to its COMMIT that was lost.
RecordFails(s) ==
    /\ pc[s] = "record"
    /\ runs' \in {runs, Append(runs, [by |-> s, status |-> result[s]])}
    /\ Goto(s, "raised")
    /\ Forget(s)
    /\ UNCHANGED <<shown, tables, deleted, result, history, loads>>

\* The process of these syncs is killed; Postgres rolls back.
Die(dying) ==
    /\ pc' = [s \in Syncs |->
                IF s \in dying /\ pc[s] \in Running THEN "died" ELSE pc[s]]
    /\ read' = [s \in Syncs |-> IF s \in dying THEN Empty ELSE read[s]]
    /\ loaded' = [s \in Syncs |-> IF s \in dying THEN NoneLoaded ELSE loaded[s]]
    /\ found' = [s \in Syncs |-> IF s \in dying THEN {} ELSE found[s]]
    /\ deleted' = [s \in Syncs |-> IF s \in dying THEN {} ELSE deleted[s]]
    /\ UNCHANGED <<shown, tables, runs, result, history, loads>>

----------------------------------------------------------------------------
(* load_portfolio: three SELECTs, each of what is committed by then.       *)

LoadCustomers(l) ==
    /\ lpc[l] = "idle"
    /\ got' = [got EXCEPT ![l].customers = customers]
    /\ lbegan' = [lbegan EXCEPT ![l] = Len(commits)]
    /\ lpc' = [lpc EXCEPT ![l] = "invoices"]
    /\ UNCHANGED <<shown, tables, runs, calls, history>>

LoadInvoices(l) ==
    /\ lpc[l] = "invoices"
    /\ got' = [got EXCEPT ![l].invoices = invoices]
    /\ lpc' = [lpc EXCEPT ![l] = "payments"]
    /\ UNCHANGED <<shown, tables, runs, calls, history, lbegan>>

LoadPayments(l) ==
    /\ lpc[l] = "payments"
    /\ got' = [got EXCEPT ![l].payments = payments]
    /\ lpc' = [lpc EXCEPT ![l] = "loaded"]
    /\ UNCHANGED <<shown, tables, runs, calls, history, lbegan>>

LoadStep(l) == LoadCustomers(l) \/ LoadInvoices(l) \/ LoadPayments(l)

\* What a running sync does by itself, and what may happen to it.
Proceed(s) ==
    \/ ReadCustomers(s) \/ ReadInvoices(s) \/ ReadPayments(s)
    \/ UpsertCustomers(s) \/ UpsertInvoices(s)
    \/ DeletePayments(s) \/ FinishDelete(s)
    \/ Commit(s) \/ Refused(s) \/ Record(s)

Fault(s) == ReadFails(s) \/ WriteFails(s) \/ CommitUnanswered(s) \/ RecordFails(s)

Next ==
    \/ BookMoves
    \/ \E s \in Syncs : Start(s) \/ Proceed(s) \/ Fault(s)
    \/ \E dying \in SUBSET Syncs : Die(dying)
    \/ \E l \in Loads : LoadStep(l)

Spec == Init /\ [][Next]_syncVars

----------------------------------------------------------------------------
(* Properties.                                                             *)

\* The shape of the state: keys, payments and readings that some book has
\* shown, calls and loads in one of their places, and rows deleted only by an
\* open transaction, from what is committed.
SyncTypeOK ==
    /\ shown \in 1 .. Len(Books)
    /\ DOMAIN customers \subseteq UNION {DOMAIN Books[b].customers : b \in 1 .. Len(Books)}
    /\ DOMAIN invoices \subseteq UNION {DOMAIN Books[b].invoices : b \in 1 .. Len(Books)}
    /\ \A p \in payments : p.by \in Syncs \union {Earlier} /\ p.paid \in Receipts
    /\ runs \in Seq(Runs)
    /\ pc \in [Syncs -> {"idle"} \union Running \union Ended]
    /\ read \in [Syncs -> Readings]
    /\ result \in [Syncs -> {"none", "SUCCESS", "FAILED"}]
    /\ deleted \in [Syncs -> SUBSET payments]
    /\ \A s \in Syncs : /\ deleted[s] # {} => pc[s] = "commit"
                        /\ pc[s] = "record" => result[s] # "none"
    /\ commits \in Seq(Commits)
    /\ lpc \in [Loads -> {"idle", "invoices", "payments", "loaded"}]

\* What a sync read of the payments stands in the store whole or, once another
\* has replaced it, not at all, whatever fails, dies or overlaps (AC-2: a
\* failed sync leaves no partial results); and it is there only if committed.
PaymentsStandWhole ==
    /\ \A n \in 1 .. Len(commits) :
          LET rows == RowsBy(commits[n].by, commits[n].wrote.payments) IN
          rows \subseteq payments \/ rows \intersect payments = {}
    /\ \A p \in payments :
          p.by # Earlier => \E n \in 1 .. Len(commits) : commits[n].by = p.by

\* The sync that committed last, if no other did while its transaction was
\* open, left the book it read: each customer and invoice with the values
\* read, and exactly the payments read, so that a sync on its own repairs
\* what overlapping ones have duplicated (AC-1, AC-3).
StoreIsLastReading ==
    LET last == commits[Len(commits)] IN
    commits # <<>> /\ last.alone =>
        /\ \A c \in DOMAIN last.wrote.customers :
              c \in DOMAIN customers /\ customers[c] = last.wrote.customers[c]
        /\ \A i \in DOMAIN last.wrote.invoices :
              i \in DOMAIN invoices /\ invoices[i] = last.wrote.invoices[i]
        /\ payments = RowsBy(last.by, last.wrote.payments)

\* sync_runs tells the truth: a sync has one row at most; SUCCESS says that its
\* rows were committed; FAILED says that nothing was, unless the answer to its
\* COMMIT was lost; and a sync that returned has its row (AC-2).
RunsTellTheTruth ==
    /\ \A m, n \in 1 .. Len(runs) : runs[m].by = runs[n].by => m = n
    /\ \A n \in 1 .. Len(runs) :
        LET wrote == \E k \in 1 .. Len(commits) : commits[k].by = runs[n].by IN
        IF runs[n].status = "SUCCESS" THEN wrote
        ELSE wrote => runs[n].by \in unanswered
    /\ \A s \in Syncs :
        pc[s] = "returned" => \E n \in 1 .. Len(runs) : runs[n].by = s

\* A request that loads the portfolio has the customer of every invoice and
\* payment it loaded, unless a sync committed between its SELECTs: the
\* foreign keys hold whatever the readings of a moving book were.
LoadIsClosed ==
    \A l \in Loads :
        lpc[l] = "loaded" /\ lbegan[l] = Len(commits) =>
            /\ \A i \in DOMAIN got[l].invoices :
                  got[l].invoices[i].customer \in DOMAIN got[l].customers
            /\ \A p \in got[l].payments : p.paid.customer \in DOMAIN got[l].customers

\* Every sync that starts ends, none waits forever for another's rows.
EverySyncEnds ==
    \A s \in Syncs : pc[s] \in Running ~> pc[s] \in Ended

\* backend/app/sync/scheduler.py:9-11: with several workers "syncs are
\* idempotent (FR-001 AC-3) so the result is correct rather than corrupted".
\* Violated: no payment stands in the store more often than the book had it.
PaymentsNotDuplicated ==
    \A p \in payments :
        \E b \in 1 .. Len(Books) :
            Cardinality({q \in payments : q.paid = p.paid})
                =< Cardinality({n \in 1 .. Len(Books[b].payments) :
                                    Books[b].payments[n] = p.paid})
=============================================================================
