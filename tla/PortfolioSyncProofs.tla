------------------------ MODULE PortfolioSyncProofs ------------------------
(***************************************************************************)
(* Proofs about PortfolioSync for any syncs, loads and books.  The         *)
(* argument: a sync commits at most once, and until then none of its rows  *)
(* is anywhere; every set of payments that a DELETE can find or take away  *)
(* is therefore made of whole readings, and two open transactions never    *)
(* take away the same row.  A sync whose transaction no other committed    *)
(* during has seen the store as it is when it writes.                      *)
(*                                                                         *)
(* The last section is about SyncScheduler: the scheduler and the requests *)
(* together do nothing that PortfolioSync does not allow, and the task's   *)
(* own syncs never overlap while the server serves.                        *)
(***************************************************************************)
EXTENDS SyncScheduler, TLAPS

----------------------------------------------------------------------------
(* The inductive invariant.                                                *)

WroteIn(h, s) == \E n \in 1 .. Len(h) : h[n].by = s
RowsOf(commit) == RowsBy(commit.by, commit.wrote.payments)

\* A set of payments is made of whole readings of syncs that committed.
WholeIn(h, rows) ==
    /\ \A n \in 1 .. Len(h) :
          RowsOf(h[n]) \subseteq rows \/ RowsOf(h[n]) \intersect rows = {}
    /\ \A p \in rows : p.by # Earlier => WroteIn(h, p.by)

Wrote(s) == WroteIn(commits, s)
Whole(rows) == WholeIn(commits, rows)

\* A sync commits once, at the end of its transaction.
CommitsOnce ==
    /\ \A s \in Syncs : Wrote(s) => pc[s] \in {"record"} \union Ended
    /\ \A m, n \in 1 .. Len(commits) : commits[m].by = commits[n].by => m = n

\* Row locks: no row is deleted by two open transactions.
DeletedOnce == \A s, t \in Syncs : s # t => deleted[s] \intersect deleted[t] = {}

WholeSets ==
    /\ Whole(payments)
    /\ DOMAIN found = Syncs
    /\ \A s \in Syncs : Whole(found[s]) /\ Whole(deleted[s])

\* The run row will say, or says, what happened.
Truthful(s, status) ==
    IF status = "SUCCESS" THEN Wrote(s) ELSE Wrote(s) => s \in unanswered

\* Where a sync is that has its row.
Recorded == {"returned", "raised"}

RunsInv ==
    /\ \A s \in Syncs : pc[s] = "record" => Truthful(s, result[s])
    /\ \A n \in 1 .. Len(runs) :
          pc[runs[n].by] \in Recorded /\ Truthful(runs[n].by, runs[n].status)
    /\ RunsTellTheTruth

SyncInv ==
    /\ SyncTypeOK
    /\ CommitsOnce
    /\ DeletedOnce
    /\ WholeSets
    /\ RunsInv

----------------------------------------------------------------------------
(* Types.                                                                  *)

LEMMA InitInv == Init => SyncInv
<1> SUFFICES ASSUME Init PROVE SyncInv
  OBVIOUS
<1>1. \A p \in payments : p.by = Earlier /\ p.paid \in Receipts
  BY BooksAssumption DEF Init, RowsBy, Receipts
<1>2. SyncTypeOK
  BY <1>1, BooksAssumption
     DEF Init, SyncTypeOK, Running, Ended, Readings, Empty
<1>3. Len(commits) = 0 /\ Len(runs) = 0
  BY DEF Init
<1>4. CommitsOnce /\ DeletedOnce
  BY <1>3 DEF Init, CommitsOnce, DeletedOnce, Wrote, WroteIn
<1>5. WholeSets
  BY <1>1, <1>3 DEF Init, WholeSets, Whole, WholeIn
<1>6. RunsInv
  BY <1>3 DEF Init, RunsInv, RunsTellTheTruth
<1> QED
  BY <1>2, <1>4, <1>5, <1>6 DEF SyncInv

\* The rows of a reading carry its sync's name and payments some book showed.
LEMMA RowsOfReading ==
  ASSUME NEW s, NEW r \in Readings, NEW p \in RowsBy(s, r.payments)
  PROVE  p.by = s /\ p.paid \in Receipts
<1>1. CASE r.payments = <<>>
  BY <1>1 DEF RowsBy
<1>2. CASE \E b \in 1 .. Len(Books) : r.payments = Books[b].payments
  BY <1>2 DEF RowsBy, Receipts
<1> QED
  BY <1>1, <1>2 DEF Readings

LEMMA KeysOfReading ==
  ASSUME NEW r \in Readings
  PROVE  /\ DOMAIN r.customers \subseteq UNION {DOMAIN Books[b].customers : b \in 1 .. Len(Books)}
         /\ DOMAIN r.invoices \subseteq UNION {DOMAIN Books[b].invoices : b \in 1 .. Len(Books)}
<1>1. DOMAIN <<>> = {}
  OBVIOUS
<1> QED
  BY <1>1 DEF Readings

LEMMA EmptyIsReading == Empty \in Readings
BY DEF Empty, Readings

\* Every step keeps the types.
LEMMA TypeStep ==
  ASSUME SyncTypeOK, DeletedOnce, [Next]_syncVars
  PROVE  SyncTypeOK'
<1> USE DEF SyncTypeOK, Goto, tables, calls, history, loads, Running, Reading, Writing, Ended
<1>1. CASE BookMoves
  BY <1>1 DEF BookMoves
<1>2. ASSUME NEW s \in Syncs, Start(s) PROVE SyncTypeOK'
  BY <1>2 DEF Start
<1>3. ASSUME NEW s \in Syncs, ReadCustomers(s) PROVE SyncTypeOK'
  <2>1. read' \in [Syncs -> Readings]
    BY <1>3 DEF ReadCustomers, Readings
  <2> QED
    BY <2>1, <1>3 DEF ReadCustomers
<1>4. ASSUME NEW s \in Syncs, ReadInvoices(s) PROVE SyncTypeOK'
  <2>1. read' \in [Syncs -> Readings]
    BY <1>4 DEF ReadInvoices, Readings
  <2> QED
    BY <2>1, <1>4 DEF ReadInvoices
<1>5. ASSUME NEW s \in Syncs, ReadPayments(s) PROVE SyncTypeOK'
  <2>1. read' \in [Syncs -> Readings]
    BY <1>5 DEF ReadPayments, Readings
  <2> QED
    BY <2>1, <1>5 DEF ReadPayments
<1>6. ASSUME NEW s \in Syncs, Fail(s), pc[s] \in Reading \union Writing,
             UNCHANGED <<shown, tables, runs, read, loaded, found, history, loads>>
      PROVE  SyncTypeOK'
  BY <1>6 DEF Fail
<1>7. ASSUME NEW s \in Syncs, ReadFails(s) \/ WriteFails(s) \/ Refused(s) PROVE SyncTypeOK'
  BY <1>6, <1>7 DEF ReadFails, WriteFails, Refused
<1>8. ASSUME NEW s \in Syncs, UpsertCustomers(s) \/ UpsertInvoices(s) \/ DeletePayments(s)
      PROVE  SyncTypeOK'
  BY <1>8 DEF UpsertCustomers, UpsertInvoices, DeletePayments
<1>9. ASSUME NEW s \in Syncs, FinishDelete(s) PROVE SyncTypeOK'
  BY <1>9 DEF FinishDelete
<1>10. ASSUME NEW s \in Syncs, Write(s), result'[s] \in {"SUCCESS", "FAILED"},
              result' = [result EXCEPT ![s] = result'[s]]
       PROVE  SyncTypeOK'
  <2>1. ASSUME NEW p \in payments'
        PROVE  p.by \in Syncs \union {Earlier} /\ p.paid \in Receipts
    <3>1. CASE p \in payments
      BY <3>1
    <3>2. CASE p \in RowsBy(s, read[s].payments)
      <4>1. read[s] \in Readings
        OBVIOUS
      <4> HIDE DEF SyncTypeOK
      <4>2. p.by = s /\ p.paid \in Receipts
        BY <3>2, <4>1, RowsOfReading
      <4> QED
        BY <4>2
    <3> QED
      BY <2>1, <3>1, <3>2, <1>10 DEF Write
  <2>2. deleted' \in [Syncs -> SUBSET payments']
    BY <1>10 DEF Write, DeletedOnce
  <2>3. DOMAIN customers' \subseteq UNION {DOMAIN Books[b].customers : b \in 1 .. Len(Books)}
    <3>1. DOMAIN customers' = DOMAIN customers \union DOMAIN read[s].customers
      BY <1>10 DEF Write, Upserted
    <3> QED
      BY <3>1, KeysOfReading
  <2>4. DOMAIN invoices' \subseteq UNION {DOMAIN Books[b].invoices : b \in 1 .. Len(Books)}
    <3>1. DOMAIN invoices' = DOMAIN invoices \union DOMAIN read[s].invoices
      BY <1>10 DEF Write, Upserted
    <3> QED
      BY <3>1, KeysOfReading
  <2>5. commits' \in Seq(Commits)
    <3>1. [by |-> s, wrote |-> read[s], alone |-> Len(commits) = began[s]] \in Commits
      BY DEF Commits
    <3> QED
      BY <3>1, <1>10 DEF Write
  <2> QED
    BY <2>1, <2>2, <2>3, <2>4, <2>5, <1>10 DEF Write
<1>11. ASSUME NEW s \in Syncs, Commit(s) \/ CommitUnanswered(s) PROVE SyncTypeOK'
  BY <1>10, <1>11 DEF Commit, CommitUnanswered
<1>12. ASSUME NEW s \in Syncs, Record(s) \/ RecordFails(s) PROVE SyncTypeOK'
  <2>1. read' \in [Syncs -> Readings]
    BY <1>12, EmptyIsReading DEF Record, RecordFails, Forget
  <2>2. runs' \in Seq(Runs)
    <3>1. CASE runs' = Append(runs, [by |-> s, status |-> result[s]])
      <4>1. result[s] \in {"SUCCESS", "FAILED"} /\ runs' = Append(runs, [by |-> s, status |-> result[s]])
        BY <3>1, <1>12 DEF Record, RecordFails
      <4> HIDE DEF SyncTypeOK
      <4>2. [by |-> s, status |-> result[s]] \in Runs
        BY <4>1 DEF Runs
      <4>3. runs \in Seq(Runs)
        BY DEF SyncTypeOK
      <4> QED
        BY <4>1, <4>2, <4>3
    <3>2. CASE runs' = runs
      BY <3>2
    <3> QED
      BY <3>1, <3>2, <1>12 DEF Record, RecordFails
  <2> QED
    BY <2>1, <2>2, <1>12 DEF Record, RecordFails, Forget
<1>13. ASSUME NEW dying \in SUBSET Syncs, Die(dying) PROVE SyncTypeOK'
  <2>1. read' \in [Syncs -> Readings]
    BY <1>13, EmptyIsReading DEF Die
  <2> QED
    BY <2>1, <1>13 DEF Die
<1>14. ASSUME NEW l \in Loads, LoadStep(l) PROVE SyncTypeOK'
  BY <1>14 DEF LoadStep, LoadCustomers, LoadInvoices, LoadPayments
<1>15. CASE UNCHANGED syncVars
  BY <1>15 DEF syncVars
<1> QED
  BY <1>1, <1>2, <1>3, <1>4, <1>5, <1>7, <1>8, <1>9, <1>11, <1>12, <1>13, <1>14, <1>15
     DEF Next, Proceed, Fault

----------------------------------------------------------------------------
(* What a step can change.                                                 *)

Past == {"record"} \union Ended

\* Commits and payments change by a Write only; a sync past its transaction
\* stays so; a DELETE finds the committed payments and takes those it found.
LEMMA Frame ==
  ASSUME SyncTypeOK, DOMAIN found = Syncs, [Next]_syncVars
  PROVE  /\ UNCHANGED <<commits, payments>> \/ \E s \in Syncs : Write(s)
         /\ \A s \in Syncs : pc[s] \in Past => pc'[s] \in Past
         /\ DOMAIN found' = Syncs
         /\ \A s \in Syncs : found'[s] \in {found[s], payments, {}}
         /\ \/ \A s \in Syncs : deleted'[s] \in {deleted[s], {}}
            \/ \E s \in Syncs : FinishDelete(s)
<1> USE DEF SyncTypeOK, Goto, tables, calls, history, loads, Past, Reading, Writing, Running, Ended
<1> DEFINE Claim ==
      /\ UNCHANGED <<commits, payments>> \/ \E s \in Syncs : Write(s)
      /\ \A s \in Syncs : pc[s] \in Past => pc'[s] \in Past
      /\ DOMAIN found' = Syncs
      /\ \A s \in Syncs : found'[s] \in {found[s], payments, {}}
      /\ \/ \A s \in Syncs : deleted'[s] \in {deleted[s], {}}
         \/ \E s \in Syncs : FinishDelete(s)
<1>1. CASE BookMoves \/ UNCHANGED syncVars \/ \E l \in Loads : LoadStep(l)
  BY <1>1 DEF BookMoves, syncVars, LoadStep, LoadCustomers, LoadInvoices, LoadPayments
<1>2. ASSUME NEW s \in Syncs,
             Start(s) \/ ReadCustomers(s) \/ ReadInvoices(s) \/ ReadPayments(s)
      PROVE  Claim
  BY <1>2 DEF Start, ReadCustomers, ReadInvoices, ReadPayments
<1>3. ASSUME NEW s \in Syncs, ReadFails(s) \/ WriteFails(s) \/ Refused(s) PROVE Claim
  BY <1>3 DEF ReadFails, WriteFails, Refused, Fail
<1>4. ASSUME NEW s \in Syncs, UpsertCustomers(s) \/ UpsertInvoices(s) \/ DeletePayments(s)
      PROVE  Claim
  BY <1>4 DEF UpsertCustomers, UpsertInvoices, DeletePayments
<1>5. ASSUME NEW s \in Syncs, FinishDelete(s) PROVE Claim
  BY <1>5 DEF FinishDelete
<1>6. ASSUME NEW s \in Syncs, Commit(s) \/ CommitUnanswered(s) PROVE Claim
  BY <1>6 DEF Commit, CommitUnanswered, Write
<1>7. ASSUME NEW s \in Syncs, Record(s) \/ RecordFails(s) PROVE Claim
  BY <1>7 DEF Record, RecordFails, Forget
<1>8. ASSUME NEW dying \in SUBSET Syncs, Die(dying) PROVE Claim
  BY <1>8 DEF Die
<1> QED
  BY <1>1, <1>2, <1>3, <1>4, <1>5, <1>6, <1>7, <1>8 DEF Next, Proceed, Fault

\* After a Write the history has one commit more, of a sync that had none.
LEMMA WriteAppends ==
  ASSUME SyncTypeOK, CommitsOnce, NEW s \in Syncs, Write(s)
  PROVE  /\ ~Wrote(s)
         /\ Len(commits) \in Nat
         /\ Len(commits') = Len(commits) + 1
         /\ \A n \in 1 .. Len(commits) : commits'[n] = commits[n] /\ commits[n].by \in Syncs
         /\ commits'[Len(commits) + 1].by = s
         /\ commits'[Len(commits) + 1].wrote = read[s]
<1>1. pc[s] = "commit"
  BY DEF Write
<1>2. ~Wrote(s)
  BY <1>1 DEF CommitsOnce, Ended
<1>3. commits \in Seq(Commits)
  BY DEF SyncTypeOK
<1>4. commits' = Append(commits, [by |-> s, wrote |-> read[s], alone |-> Len(commits) = began[s]])
  BY DEF Write
<1>5. PICK e : commits' = Append(commits, e) /\ e.by = s /\ e.wrote = read[s]
  BY <1>4
<1>6. /\ Len(commits) \in Nat
      /\ Len(Append(commits, e)) = Len(commits) + 1
      /\ \A n \in 1 .. Len(commits) : Append(commits, e)[n] = commits[n]
      /\ Append(commits, e)[Len(commits) + 1] = e
  BY <1>3
<1>7. \A n \in 1 .. Len(commits) : commits[n].by \in Syncs
  <2>1. \A n \in 1 .. Len(commits) : commits[n] \in Commits
    BY <1>3
  <2> QED
    BY <2>1 DEF Commits
<1> QED
  BY <1>2, <1>5, <1>6, <1>7

LEMMA OnceStep ==
  ASSUME SyncInv, [Next]_syncVars
  PROVE  CommitsOnce'
<1>1. \A s \in Syncs : pc[s] \in Past => pc'[s] \in Past
  BY Frame DEF SyncInv, WholeSets
<1>2. CASE UNCHANGED <<commits, payments>>
  BY <1>1, <1>2 DEF SyncInv, CommitsOnce, Wrote, WroteIn, Past
<1>3. ASSUME NEW s \in Syncs, Write(s) PROVE CommitsOnce'
  <2>1. pc'[s] = "record" /\ CommitsOnce
    BY <1>3 DEF Write, Goto, SyncInv, SyncTypeOK
  <2>2. /\ ~Wrote(s)
        /\ Len(commits) \in Nat
        /\ Len(commits') = Len(commits) + 1
        /\ \A n \in 1 .. Len(commits) : commits'[n] = commits[n]
        /\ commits'[Len(commits) + 1].by = s
    BY <1>3, WriteAppends DEF SyncInv
  <2>3. \A t \in Syncs : Wrote(t)' => Wrote(t) \/ t = s
    BY <2>2 DEF Wrote, WroteIn
  <2>4. \A m, n \in 1 .. Len(commits') : commits'[m].by = commits'[n].by => m = n
    BY <2>1, <2>2 DEF CommitsOnce, Wrote, WroteIn
  <2> QED
    BY <1>1, <2>1, <2>3, <2>4 DEF CommitsOnce, Past
<1> QED
  BY <1>2, <1>3, Frame DEF SyncInv, WholeSets

LEMMA DeletedStep ==
  ASSUME SyncInv, [Next]_syncVars
  PROVE  DeletedOnce'
<1>1. CASE \A s \in Syncs : deleted'[s] \in {deleted[s], {}}
  BY <1>1 DEF SyncInv, DeletedOnce
<1>2. ASSUME NEW s \in Syncs, FinishDelete(s) PROVE DeletedOnce'
  BY <1>2 DEF FinishDelete, SyncInv, DeletedOnce, SyncTypeOK
<1> QED
  BY <1>1, <1>2, Frame DEF SyncInv, WholeSets

----------------------------------------------------------------------------
(* Sets of whole readings.                                                 *)

LEMMA WholeMeet ==
  ASSUME NEW h, NEW A, NEW B, WholeIn(h, A), WholeIn(h, B)
  PROVE  WholeIn(h, A \intersect B)
BY DEF WholeIn

LEMMA WholeMinus ==
  ASSUME NEW h, NEW A, NEW B, WholeIn(h, A), WholeIn(h, B)
  PROVE  WholeIn(h, A \ B)
BY DEF WholeIn

LEMMA WholeNone == \A h : WholeIn(h, {})
BY DEF WholeIn

\* The history k is h and one commit more, of a sync that is not in h.
Extends(h, k, commit) ==
    /\ Len(h) \in Nat
    /\ Len(k) = Len(h) + 1
    /\ \A n \in 1 .. Len(h) : k[n] = h[n]
    /\ k[Len(h) + 1] = commit
    /\ commit.by # Earlier
    /\ ~WroteIn(h, commit.by)

LEMMA RowsCarryName ==
  ASSUME NEW commit, NEW p \in RowsOf(commit)
  PROVE  p.by = commit.by
BY DEF RowsOf, RowsBy

\* What was whole has no row of the new commit.
LEMMA WholeKept ==
  ASSUME NEW h, NEW k, NEW commit, Extends(h, k, commit), NEW A, WholeIn(h, A)
  PROVE  WholeIn(k, A) /\ RowsOf(commit) \intersect A = {}
<1>1. RowsOf(commit) \intersect A = {}
  BY RowsCarryName DEF Extends, WholeIn
<1>2. ASSUME NEW n \in 1 .. Len(k)
      PROVE  RowsOf(k[n]) \subseteq A \/ RowsOf(k[n]) \intersect A = {}
  <2>1. CASE n \in 1 .. Len(h)
    BY <2>1 DEF Extends, WholeIn
  <2>2. CASE n = Len(h) + 1
    BY <2>2, <1>1 DEF Extends
  <2> QED
    BY <2>1, <2>2 DEF Extends
<1>3. ASSUME NEW p \in A, p.by # Earlier
      PROVE  WroteIn(k, p.by)
  <2>1. PICK n \in 1 .. Len(h) : h[n].by = p.by
    BY <1>3 DEF WholeIn, WroteIn
  <2>2. n \in 1 .. Len(k) /\ k[n].by = p.by
    BY <2>1 DEF Extends
  <2> QED
    BY <2>2 DEF WroteIn
<1> QED
  BY <1>1, <1>2, <1>3 DEF WholeIn

\* Adding the rows of the new commit.
LEMMA WholePlus ==
  ASSUME NEW h, NEW k, NEW commit, Extends(h, k, commit), NEW A, WholeIn(h, A)
  PROVE  WholeIn(k, A \union RowsOf(commit))
<1>1. WholeIn(k, A)
  BY WholeKept
<1>2. ASSUME NEW n \in 1 .. Len(k)
      PROVE  \/ RowsOf(k[n]) \subseteq A \union RowsOf(commit)
             \/ RowsOf(k[n]) \intersect (A \union RowsOf(commit)) = {}
  <2>1. CASE n \in 1 .. Len(h)
    <3>1. k[n].by # commit.by
      BY <2>1 DEF Extends, WroteIn
    <3>2. RowsOf(k[n]) \intersect RowsOf(commit) = {}
      BY <3>1, RowsCarryName
    <3> QED
      BY <1>1, <3>2 DEF WholeIn
  <2>2. CASE n = Len(h) + 1
    BY <2>2 DEF Extends
  <2> QED
    BY <2>1, <2>2 DEF Extends
<1>3. WroteIn(k, commit.by)
  <2>1. Len(h) + 1 \in 1 .. Len(k)
    BY DEF Extends
  <2> QED
    BY <2>1 DEF Extends, WroteIn
<1>4. \A p \in A \union RowsOf(commit) : p.by # Earlier => WroteIn(k, p.by)
  BY <1>1, <1>3, RowsCarryName DEF WholeIn
<1> QED
  BY <1>2, <1>4 DEF WholeIn

LEMMA WriteExtends ==
  ASSUME SyncTypeOK, CommitsOnce, NEW s \in Syncs, Write(s)
  PROVE  /\ Extends(commits, commits', commits'[Len(commits) + 1])
         /\ RowsOf(commits'[Len(commits) + 1]) = RowsBy(s, read[s].payments)
BY WriteAppends, BooksAssumption DEF Extends, RowsOf, Wrote

LEMMA WholeStep ==
  ASSUME SyncInv, [Next]_syncVars
  PROVE  WholeSets'
<1> USE DEF SyncInv, WholeSets, Whole
<1>1. /\ DOMAIN found' = Syncs
      /\ \A s \in Syncs : found'[s] \in {found[s], payments, {}}
  BY Frame
<1>2. CASE UNCHANGED <<commits, payments>>
  <2>1. \A s \in Syncs : WholeIn(commits', found'[s])
    BY <1>1, <1>2, WholeNone
  <2>2. CASE \A s \in Syncs : deleted'[s] \in {deleted[s], {}}
    BY <1>1, <1>2, <2>1, <2>2, WholeNone
  <2>3. ASSUME NEW s \in Syncs, FinishDelete(s)
        PROVE  WholeSets'
    <3>1. deleted' = [deleted EXCEPT ![s] = found[s] \intersect payments]
          /\ deleted \in [Syncs -> SUBSET payments]
      BY <2>3 DEF FinishDelete, SyncTypeOK
    <3>2. WholeIn(commits, found[s] \intersect payments)
      BY WholeMeet
    <3>3. \A t \in Syncs : WholeIn(commits', deleted'[t])
      BY <3>1, <3>2, <1>2
    <3> QED
      BY <1>1, <1>2, <2>1, <3>3
  <2> QED
    BY <2>2, <2>3, Frame
<1>3. ASSUME NEW s \in Syncs, Write(s)
      PROVE  WholeSets'
  <2> DEFINE new == commits'[Len(commits) + 1]
  <2>1. Extends(commits, commits', new) /\ RowsOf(new) = RowsBy(s, read[s].payments)
    BY <1>3, WriteExtends
  <2>2. /\ payments' = (payments \ deleted[s]) \union RowsBy(s, read[s].payments)
        /\ deleted' = [deleted EXCEPT ![s] = {}]
        /\ found' = found
        /\ deleted \in [Syncs -> SUBSET payments]
    BY <1>3 DEF Write, SyncTypeOK
  <2> HIDE DEF new
  <2>3. WholeIn(commits, payments \ deleted[s])
    BY WholeMinus
  <2>4. WholeIn(commits', payments')
    BY <2>1, <2>2, <2>3, WholePlus
  <2>5. \A t \in Syncs : WholeIn(commits', found[t]) /\ WholeIn(commits', deleted[t])
    BY <2>1, WholeKept
  <2> QED
    BY <1>1, <2>2, <2>4, <2>5, WholeNone
<1> QED
  BY <1>2, <1>3, Frame

----------------------------------------------------------------------------
(* The recorded runs.                                                      *)

\* Steps that record nothing and commit nothing, and send a sync to `record'
\* from its transaction only, as FAILED.
LEMMA RunsQuiet ==
  ASSUME SyncInv, UNCHANGED <<runs, commits, unanswered>>,
         \A s \in Syncs : pc'[s] = "record" =>
            \/ pc[s] = "record" /\ result'[s] = result[s]
            \/ pc[s] \in Reading \union Writing /\ result'[s] = "FAILED",
         \A s \in Syncs : pc[s] = "returned" <=> pc'[s] = "returned",
         \A s \in Syncs : pc[s] = "raised" => pc'[s] = "raised"
  PROVE  RunsInv'
<1> USE DEF SyncInv, RunsInv, Truthful, Recorded
<1>1. \A s \in Syncs : pc[s] \in Reading \union Writing => ~Wrote(s)
  BY DEF CommitsOnce, Reading, Writing, Ended
<1>2. \A s \in Syncs : Wrote(s)' <=> Wrote(s)
  BY DEF Wrote
<1>3. \A n \in 1 .. Len(runs) : runs[n].by \in Syncs
  <2>1. \A n \in 1 .. Len(runs) : runs[n] \in Runs
    BY DEF SyncTypeOK
  <2> QED
    BY <2>1 DEF Runs
<1>4. \A s \in Syncs : pc'[s] = "record" => Truthful(s, result[s])'
  BY <1>1, <1>2
<1>5. \A n \in 1 .. Len(runs') :
         pc'[runs'[n].by] \in Recorded /\ Truthful(runs[n].by, runs[n].status)'
  BY <1>2, <1>3
<1>6. RunsTellTheTruth'
  BY <1>3 DEF RunsTellTheTruth
<1> QED
  BY <1>4, <1>5, <1>6

\* A COMMIT: the sync that wrote will say so, unless the answer was lost.
LEMMA RunsCommit ==
  ASSUME SyncInv, NEW s \in Syncs, Commit(s) \/ CommitUnanswered(s)
  PROVE  RunsInv'
<1> USE DEF SyncInv, RunsInv, Recorded
<1>1. Write(s) /\ SyncTypeOK /\ CommitsOnce
  BY DEF Commit, CommitUnanswered
<1>2. \A t \in Syncs : Wrote(t)' <=> Wrote(t) \/ t = s
  <2>1. /\ Len(commits) \in Nat
        /\ Len(commits') = Len(commits) + 1
        /\ \A n \in 1 .. Len(commits) : commits'[n] = commits[n]
        /\ commits'[Len(commits) + 1].by = s
    BY <1>1, WriteAppends
  <2>2. Len(commits) + 1 \in 1 .. Len(commits')
    BY <2>1
  <2> QED
    BY <2>1, <2>2 DEF Wrote, WroteIn
<1>3. /\ runs' = runs
      /\ pc' = [pc EXCEPT ![s] = "record"] /\ pc[s] = "commit"
      /\ \/ result' = [result EXCEPT ![s] = "SUCCESS"] /\ unanswered' = unanswered
         \/ result' = [result EXCEPT ![s] = "FAILED"]
            /\ unanswered' = unanswered \union {s}
  BY DEF Commit, CommitUnanswered, Write, Goto
<1>4. pc \in [Syncs -> {"idle"} \union Running \union Ended]
      /\ result \in [Syncs -> {"none", "SUCCESS", "FAILED"}]
  BY DEF SyncTypeOK
<1>5. \A n \in 1 .. Len(runs) : runs[n].by \in Syncs /\ runs[n].by # s
  <2>1. \A n \in 1 .. Len(runs) : runs[n] \in Runs
    BY DEF SyncTypeOK
  <2>2. \A n \in 1 .. Len(runs) : pc[runs[n].by] \in Recorded
    OBVIOUS
  <2> QED
    BY <1>3, <2>1, <2>2 DEF Runs
<1>6. \A t \in Syncs : pc'[t] = "record" => Truthful(t, result[t])'
  BY <1>2, <1>3, <1>4 DEF Truthful
<1>7. \A n \in 1 .. Len(runs') :
         pc'[runs'[n].by] \in Recorded /\ Truthful(runs[n].by, runs[n].status)'
  BY <1>2, <1>3, <1>4, <1>5 DEF Truthful
<1>8. RunsTellTheTruth'
  <2>1. \A m, n \in 1 .. Len(runs') : runs'[m].by = runs'[n].by => m = n
    BY <1>3 DEF RunsTellTheTruth
  <2>2. \A t \in Syncs : pc'[t] = "returned" => \E n \in 1 .. Len(runs') : runs'[n].by = t
    BY <1>3, <1>4 DEF RunsTellTheTruth
  <2> QED
    BY <2>1, <2>2, <1>7 DEF RunsTellTheTruth, Truthful, Wrote, WroteIn
<1> QED
  BY <1>6, <1>7, <1>8

\* A new row: the sync had none, for those that have one have returned.
LEMMA RunsRecord ==
  ASSUME SyncInv, NEW s \in Syncs, Record(s) \/ RecordFails(s),
         runs' = Append(runs, [by |-> s, status |-> result[s]])
  PROVE  RunsInv'
<1> USE DEF SyncInv, RunsInv, Recorded
<1> DEFINE row == [by |-> s, status |-> result[s]]
<1>1. /\ runs' = Append(runs, row)
      /\ pc[s] = "record"
      /\ \E there \in Recorded : pc' = [pc EXCEPT ![s] = there]
      /\ UNCHANGED <<result, commits, unanswered>>
  BY DEF Record, RecordFails, Goto, history
<1>2. /\ pc \in [Syncs -> {"idle"} \union Running \union Ended]
      /\ runs \in Seq(Runs)
  BY DEF SyncTypeOK
<1>3. \A n \in 1 .. Len(runs) : runs[n].by \in Syncs /\ runs[n].by # s
  <2>1. \A n \in 1 .. Len(runs) : runs[n] \in Runs
    BY <1>2
  <2>2. \A n \in 1 .. Len(runs) : pc[runs[n].by] \in Recorded
    OBVIOUS
  <2> QED
    BY <1>1, <2>1, <2>2 DEF Runs
<1> HIDE DEF row
<1>4. /\ Len(runs) \in Nat
      /\ Len(runs') = Len(runs) + 1
      /\ \A n \in 1 .. Len(runs) : runs'[n] = runs[n]
      /\ runs'[Len(runs) + 1] = row
  BY <1>1, <1>2
<1>5. row.by = s /\ row.status = result[s]
  BY DEF row
<1>6. \A t \in Syncs : Wrote(t)' <=> Wrote(t)
  BY <1>1 DEF Wrote
<1>7. \A t \in Syncs : pc'[t] = "record" => Truthful(t, result[t])'
  BY <1>1, <1>2, <1>6 DEF Truthful
<1>8. \A n \in 1 .. Len(runs') :
         pc'[runs'[n].by] \in Recorded /\ Truthful(runs[n].by, runs[n].status)'
  <2> SUFFICES ASSUME NEW n \in 1 .. Len(runs')
               PROVE  pc'[runs'[n].by] \in Recorded /\ Truthful(runs[n].by, runs[n].status)'
    OBVIOUS
  <2>1. CASE n \in 1 .. Len(runs)
    BY <2>1, <1>1, <1>2, <1>3, <1>4, <1>6 DEF Truthful
  <2>2. CASE n = Len(runs) + 1
    BY <2>2, <1>1, <1>2, <1>4, <1>5, <1>6 DEF Truthful
  <2> QED
    BY <2>1, <2>2, <1>4
<1>9. RunsTellTheTruth'
  <2>1. \A m, n \in 1 .. Len(runs') : runs'[m].by = runs'[n].by => m = n
    BY <1>3, <1>4, <1>5 DEF RunsTellTheTruth
  <2>2. \A t \in Syncs : pc'[t] = "returned" => \E n \in 1 .. Len(runs') : runs'[n].by = t
    <3> SUFFICES ASSUME NEW t \in Syncs, pc'[t] = "returned"
                 PROVE  \E n \in 1 .. Len(runs') : runs'[n].by = t
      OBVIOUS
    <3>1. CASE t = s
      <4>1. Len(runs) + 1 \in 1 .. Len(runs')
        BY <1>4
      <4> QED
        BY <3>1, <4>1, <1>4, <1>5
    <3>2. CASE t # s
      <4>1. PICK n \in 1 .. Len(runs) : runs[n].by = t
        BY <3>2, <1>1, <1>2 DEF RunsTellTheTruth
      <4>2. n \in 1 .. Len(runs') /\ runs'[n].by = t
        BY <4>1, <1>4
      <4> QED
        BY <4>2
    <3> QED
      BY <3>1, <3>2
  <2> QED
    BY <2>1, <2>2, <1>8 DEF RunsTellTheTruth, Truthful, Wrote, WroteIn
<1> QED
  BY <1>7, <1>8, <1>9

LEMMA RunsStep ==
  ASSUME SyncInv, [Next]_syncVars
  PROVE  RunsInv'
<1> DEFINE Quiet ==
      /\ UNCHANGED <<runs, commits, unanswered>>
      /\ \A s \in Syncs : pc'[s] = "record" =>
            \/ pc[s] = "record" /\ result'[s] = result[s]
            \/ pc[s] \in Reading \union Writing /\ result'[s] = "FAILED"
      /\ \A s \in Syncs : pc[s] = "returned" <=> pc'[s] = "returned"
      /\ \A s \in Syncs : pc[s] = "raised" => pc'[s] = "raised"
<1> USE DEF Goto, tables, calls, history, loads, Reading, Writing, Running, Ended
<1>0. /\ pc \in [Syncs -> {"idle"} \union Running \union Ended]
      /\ result \in [Syncs -> {"none", "SUCCESS", "FAILED"}]
  BY DEF SyncInv, SyncTypeOK
<1>1. CASE BookMoves \/ UNCHANGED syncVars \/ \E l \in Loads : LoadStep(l)
  <2>1. Quiet
    BY <1>1 DEF BookMoves, syncVars, LoadStep, LoadCustomers, LoadInvoices, LoadPayments
  <2> QED
    BY <2>1, RunsQuiet
<1>2. ASSUME NEW s \in Syncs,
             Start(s) \/ ReadCustomers(s) \/ ReadInvoices(s) \/ ReadPayments(s)
      PROVE  RunsInv'
  <2>1. Quiet
    BY <1>0, <1>2 DEF Start, ReadCustomers, ReadInvoices, ReadPayments
  <2> QED
    BY <2>1, RunsQuiet
<1>3. ASSUME NEW s \in Syncs, ReadFails(s) \/ WriteFails(s) \/ Refused(s) PROVE RunsInv'
  <2>1. Quiet
    BY <1>0, <1>3 DEF ReadFails, WriteFails, Refused, Fail
  <2> QED
    BY <2>1, RunsQuiet
<1>4. ASSUME NEW s \in Syncs,
             UpsertCustomers(s) \/ UpsertInvoices(s) \/ DeletePayments(s) \/ FinishDelete(s)
      PROVE  RunsInv'
  <2>1. Quiet
    BY <1>0, <1>4 DEF UpsertCustomers, UpsertInvoices, DeletePayments, FinishDelete
  <2> QED
    BY <2>1, RunsQuiet
<1>5. ASSUME NEW s \in Syncs, Commit(s) \/ CommitUnanswered(s) PROVE RunsInv'
  BY <1>5, RunsCommit
<1>6. ASSUME NEW s \in Syncs, Record(s) PROVE RunsInv'
  BY <1>6, RunsRecord DEF Record
<1>7. ASSUME NEW s \in Syncs, RecordFails(s) PROVE RunsInv'
  <2>1. CASE runs' = runs
    <3>1. Quiet
      BY <1>0, <1>7, <2>1 DEF RecordFails, Forget
    <3> QED
      BY <3>1, RunsQuiet
  <2>2. CASE runs' = Append(runs, [by |-> s, status |-> result[s]])
    BY <1>7, <2>2, RunsRecord
  <2> QED
    BY <1>7, <2>1, <2>2 DEF RecordFails
<1>8. ASSUME NEW dying \in SUBSET Syncs, Die(dying) PROVE RunsInv'
  <2>1. Quiet
    BY <1>0, <1>8 DEF Die
  <2> QED
    BY <2>1, RunsQuiet
<1> QED
  BY <1>1, <1>2, <1>3, <1>4, <1>5, <1>6, <1>7, <1>8 DEF Next, Proceed, Fault

----------------------------------------------------------------------------
(* The store and those who read it.                                        *)

Selected == {"upsertInvoices", "deletePayments", "deleting", "commit"}

Shapes ==
    /\ DOMAIN loaded = Syncs
    /\ \A s \in Syncs : DOMAIN loaded[s] = {"customers", "invoices"}
    /\ began \in [Syncs -> Nat]
    /\ DOMAIN got = Loads
    /\ \A l \in Loads : DOMAIN got[l] = {"customers", "invoices", "payments"}
    /\ lbegan \in [Loads -> Nat]
    /\ \A s \in Syncs : began[s] <= Len(commits)
    /\ \A l \in Loads : lbegan[l] <= Len(commits)

\* Invoices and payments are of customers the store has (the foreign keys),
\* and an invoice that was selected is still there.
ForeignKeys ==
    /\ \A i \in DOMAIN invoices : invoices[i].customer \in DOMAIN customers
    /\ \A p \in payments : p.paid.customer \in DOMAIN customers
    /\ \A s \in Syncs : DOMAIN loaded[s].invoices \subseteq DOMAIN invoices

\* A sync that none overtook since its first SELECT knows the committed rows.
SyncsFresh ==
    \A s \in Syncs : pc[s] \in Selected /\ began[s] = Len(commits) =>
        /\ loaded[s].customers = customers
        /\ pc[s] # "upsertInvoices" => loaded[s].invoices = invoices
        /\ pc[s] \in {"deleting", "commit"} => found[s] = payments
        /\ pc[s] = "commit" => deleted[s] = payments

\* So does a load.
LoadsFresh ==
    \A l \in Loads : lpc[l] # "idle" /\ lbegan[l] = Len(commits) =>
        /\ got[l].customers = customers
        /\ lpc[l] \in {"payments", "loaded"} => got[l].invoices = invoices
        /\ lpc[l] = "loaded" => got[l].payments = payments

StoreInv ==
    /\ Shapes
    /\ ForeignKeys
    /\ SyncsFresh
    /\ LoadsFresh
    /\ StoreIsLastReading

LEMMA InitStore == Init => StoreInv
<1> SUFFICES ASSUME Init PROVE StoreInv
  OBVIOUS
<1>1. Len(commits) = 0 /\ DOMAIN <<>> = {}
  BY DEF Init
<1>2. Shapes
  BY <1>1 DEF Init, Shapes, NoneLoaded, NoRows
<1>3. ForeignKeys
  <2>1. \A s \in Syncs : DOMAIN loaded[s].invoices = {}
    BY <1>1 DEF Init, NoneLoaded
  <2>2. CASE customers = <<>> /\ invoices = <<>> /\ payments = {}
    BY <1>1, <2>1, <2>2 DEF ForeignKeys
  <2>3. CASE /\ customers = Books[1].customers
             /\ invoices = Books[1].invoices
             /\ payments = RowsBy(Earlier, Books[1].payments)
    <3>1. 1 \in 1 .. Len(Books)
      BY BooksAssumption
    <3>2. \A i \in DOMAIN invoices : invoices[i].customer \in DOMAIN customers
      BY <2>3, <3>1, BooksAssumption
    <3>3. \A q \in payments : q.paid.customer \in DOMAIN customers
      BY <2>3, <3>1, BooksAssumption DEF RowsBy
    <3> QED
      BY <2>1, <3>2, <3>3 DEF ForeignKeys
  <2> QED
    BY <2>2, <2>3 DEF Init
<1>4. SyncsFresh /\ LoadsFresh /\ StoreIsLastReading
  BY DEF Init, SyncsFresh, LoadsFresh, StoreIsLastReading, Selected
<1> QED
  BY <1>2, <1>3, <1>4 DEF StoreInv

\* Steps that leave the store alone, and of a transaction at most end it.
LEMMA StoreQuiet ==
  ASSUME StoreInv, UNCHANGED <<tables, commits, began, loads>>,
         DOMAIN loaded' = Syncs,
         \A s \in Syncs : loaded'[s] \in {loaded[s], NoneLoaded},
         \A s \in Syncs : pc'[s] \in Selected =>
            /\ pc'[s] = pc[s]
            /\ loaded'[s] = loaded[s]
            /\ found'[s] = found[s]
            /\ deleted'[s] = deleted[s]
  PROVE  StoreInv'
<1> USE DEF StoreInv, tables, loads
<1>1. Shapes'
  BY DEF Shapes, NoneLoaded
<1>2. ForeignKeys'
  <2>1. DOMAIN NoneLoaded.invoices = {}
    BY DEF NoneLoaded
  <2> QED
    BY <2>1 DEF ForeignKeys
<1>3. SyncsFresh'
  BY DEF SyncsFresh
<1>4. LoadsFresh' /\ StoreIsLastReading'
  BY DEF LoadsFresh, StoreIsLastReading
<1> QED
  BY <1>1, <1>2, <1>3, <1>4

\* The SELECTs and the DELETE see the committed rows.
LEMMA StoreSelects ==
  ASSUME SyncInv, StoreInv, NEW s \in Syncs,
         \/ UpsertCustomers(s) \/ UpsertInvoices(s)
         \/ DeletePayments(s) \/ FinishDelete(s)
  PROVE  StoreInv'
<1> USE DEF tables, loads, Goto
<1>1. /\ UNCHANGED <<tables, commits, loads>>
      /\ \A t \in Syncs \ {s} : pc'[t] = pc[t] /\ loaded'[t] = loaded[t]
            /\ found'[t] = found[t] /\ deleted'[t] = deleted[t] /\ began'[t] = began[t]
  BY DEF SyncInv, SyncTypeOK, WholeSets, StoreInv, Shapes, UpsertCustomers, UpsertInvoices,
         DeletePayments, FinishDelete, history
<1>2. Shapes'
  <2>1. Len(commits) \in Nat
    BY DEF SyncInv, SyncTypeOK
  <2>2. began'[s] \in Nat /\ began'[s] <= Len(commits) /\ DOMAIN began' = Syncs
    BY <2>1 DEF StoreInv, Shapes, UpsertCustomers, UpsertInvoices, DeletePayments,
                FinishDelete, history
  <2>3. DOMAIN loaded' = Syncs /\ DOMAIN loaded'[s] = {"customers", "invoices"}
    BY DEF StoreInv, Shapes, UpsertCustomers, UpsertInvoices, DeletePayments, FinishDelete
  <2>4. began' \in [Syncs -> Nat]
    BY <2>2 DEF StoreInv, Shapes, UpsertCustomers, UpsertInvoices, DeletePayments,
                FinishDelete, history
  <2> QED
    BY <1>1, <2>2, <2>3, <2>4 DEF StoreInv, Shapes
<1>3. ForeignKeys'
  <2>1. loaded'[s].invoices \in {loaded[s].invoices, invoices}
    BY DEF StoreInv, Shapes, UpsertCustomers, UpsertInvoices, DeletePayments, FinishDelete
  <2> QED
    BY <1>1, <2>1 DEF StoreInv, ForeignKeys
<1>4. SyncsFresh'
  <2>1. ASSUME began'[s] = Len(commits)
        PROVE  /\ loaded'[s].customers = customers
               /\ pc'[s] # "upsertInvoices" => loaded'[s].invoices = invoices
               /\ pc'[s] \in {"deleting", "commit"} => found'[s] = payments
               /\ pc'[s] = "commit" => deleted'[s] = payments
    <3>1. CASE UpsertCustomers(s)
      BY <3>1 DEF UpsertCustomers, SyncInv, SyncTypeOK, StoreInv, Shapes
    <3>2. CASE UpsertInvoices(s)
      BY <2>1, <3>2 DEF UpsertInvoices, SyncInv, SyncTypeOK, StoreInv, Shapes, SyncsFresh,
                        Selected, history
    <3>3. CASE DeletePayments(s)
      BY <2>1, <3>3 DEF DeletePayments, SyncInv, SyncTypeOK, WholeSets, StoreInv, Shapes,
                        SyncsFresh, Selected, history
    <3>4. CASE FinishDelete(s)
      BY <2>1, <3>4 DEF FinishDelete, SyncInv, SyncTypeOK, WholeSets, StoreInv, Shapes,
                        SyncsFresh, Selected, history
    <3> QED
      BY <3>1, <3>2, <3>3, <3>4
  <2> QED
    BY <1>1, <2>1 DEF StoreInv, SyncsFresh
<1>5. LoadsFresh' /\ StoreIsLastReading'
  BY <1>1 DEF StoreInv, LoadsFresh, StoreIsLastReading
<1> QED
  BY <1>2, <1>3, <1>4, <1>5 DEF StoreInv

\* A row of a reading whose old values are the committed ones becomes the row
\* read.
LEMMA UpsertFresh ==
  ASSUME NEW now, NEW new, \A key \in DOMAIN new : IsRow(new[key]),
         NEW key \in DOMAIN new
  PROVE  Upserted(now, now, new)[key] = new[key]
BY DEF Upserted, Updated, IsRow

\* The rows of a reading are rows.
LEMMA RowsOfBooks ==
  ASSUME NEW r \in Readings
  PROVE  /\ \A c \in DOMAIN r.customers : IsRow(r.customers[c])
         /\ \A i \in DOMAIN r.invoices :
               IsRow(r.invoices[i]) /\ "customer" \in DOMAIN r.invoices[i]
<1>1. DOMAIN <<>> = {}
  OBVIOUS
<1> QED
  BY <1>1, BooksAssumption DEF Readings

\* An updated row has an old customer or a new one, and the store has both.
LEMMA UpsertKeeps ==
  ASSUME NEW known, NEW now, NEW was, NEW new,
         \A i \in DOMAIN now : now[i].customer \in known,
         \A i \in DOMAIN new : new[i].customer \in known /\ "customer" \in DOMAIN new[i],
         DOMAIN was \subseteq DOMAIN now
  PROVE  \A i \in DOMAIN Upserted(now, was, new) : Upserted(now, was, new)[i].customer \in known
BY DEF Upserted, Updated

LEMMA StoreWrite ==
  ASSUME SyncInv, StoreInv, NEW s \in Syncs, Write(s)
  PROVE  StoreInv'
<1> DEFINE new == commits'[Len(commits) + 1]
<1>1. /\ pc[s] = "commit"
      /\ customers' = Upserted(customers, loaded[s].customers, read[s].customers)
      /\ invoices' = Upserted(invoices, loaded[s].invoices, read[s].invoices)
      /\ payments' = (payments \ deleted[s]) \union RowsBy(s, read[s].payments)
      /\ pc' = [pc EXCEPT ![s] = "record"]
      /\ UNCHANGED <<loaded, found, began, loads>>
      /\ ~Orphaned(s)
  BY DEF Write, Goto
<1>2. read[s] \in Readings
  BY DEF SyncInv, SyncTypeOK
<1>3. Len(commits) \in Nat /\ Len(commits') = Len(commits) + 1
  BY WriteAppends DEF SyncInv
<1>4. new = [by |-> s, wrote |-> read[s], alone |-> Len(commits) = began[s]]
  BY DEF Write, SyncInv, SyncTypeOK
<1>5. Shapes'
  BY <1>1, <1>3 DEF StoreInv, Shapes, loads
<1>6. DOMAIN customers' = DOMAIN customers \union DOMAIN read[s].customers
      /\ DOMAIN invoices' = DOMAIN invoices \union DOMAIN read[s].invoices
  BY <1>1 DEF Upserted
<1>7. ForeignKeys'
  <2>1. \A i \in DOMAIN read[s].invoices :
            /\ read[s].invoices[i].customer \in DOMAIN customers'
            /\ "customer" \in DOMAIN read[s].invoices[i]
    BY <1>1, <1>2, <1>6, RowsOfBooks DEF Orphaned
  <2>2. \A i \in DOMAIN invoices : invoices[i].customer \in DOMAIN customers'
    BY <1>6 DEF StoreInv, ForeignKeys
  <2>3. DOMAIN loaded[s].invoices \subseteq DOMAIN invoices
    BY DEF StoreInv, ForeignKeys
  <2>4. \A i \in DOMAIN invoices' : invoices'[i].customer \in DOMAIN customers'
    BY <1>1, <2>1, <2>2, <2>3, UpsertKeeps
  <2>5. \A q \in RowsBy(s, read[s].payments) : q.paid.customer \in DOMAIN customers'
    BY <1>1, <1>6 DEF Orphaned, RowsBy
  <2>6. \A q \in payments' : q.paid.customer \in DOMAIN customers'
    BY <1>1, <1>6, <2>5 DEF StoreInv, ForeignKeys
  <2> QED
    BY <1>1, <1>6, <2>4, <2>6 DEF StoreInv, ForeignKeys
<1>8. SyncsFresh'
  BY <1>1, <1>3 DEF StoreInv, Shapes, SyncsFresh
<1>9. LoadsFresh'
  BY <1>1, <1>3 DEF StoreInv, Shapes, LoadsFresh, loads
<1>10. StoreIsLastReading'
  <2>1. commits'[Len(commits')] = new
    BY <1>3
  <2>2. new.alone = (Len(commits) = began[s]) /\ new.wrote = read[s] /\ new.by = s
    BY <1>4
  <2> HIDE DEF new
  <2> SUFFICES ASSUME began[s] = Len(commits)
               PROVE  /\ \A c \in DOMAIN read[s].customers :
                            c \in DOMAIN customers' /\ customers'[c] = read[s].customers[c]
                      /\ \A i \in DOMAIN read[s].invoices :
                            i \in DOMAIN invoices' /\ invoices'[i] = read[s].invoices[i]
                      /\ payments' = RowsBy(s, read[s].payments)
    BY <2>1, <2>2 DEF StoreIsLastReading
  <2>3. /\ loaded[s].customers = customers
        /\ loaded[s].invoices = invoices
        /\ deleted[s] = payments
    BY <1>1 DEF StoreInv, SyncsFresh, Selected
  <2>4. \A c \in DOMAIN read[s].customers : customers'[c] = read[s].customers[c]
    BY <1>1, <1>2, <2>3, UpsertFresh, RowsOfBooks
  <2>5. \A i \in DOMAIN read[s].invoices : invoices'[i] = read[s].invoices[i]
    BY <1>1, <1>2, <2>3, UpsertFresh, RowsOfBooks
  <2> QED
    BY <1>1, <1>6, <2>3, <2>4, <2>5
<1> QED
  BY <1>5, <1>7, <1>8, <1>9, <1>10 DEF StoreInv

LEMMA StoreLoads ==
  ASSUME SyncInv, StoreInv, NEW l \in Loads, LoadStep(l)
  PROVE  StoreInv'
<1>1. /\ UNCHANGED <<tables, commits, began, pc, loaded, found, deleted>>
      /\ \A m \in Loads \ {l} : lpc'[m] = lpc[m] /\ got'[m] = got[m] /\ lbegan'[m] = lbegan[m]
  BY DEF SyncInv, SyncTypeOK, StoreInv, Shapes, LoadStep, LoadCustomers, LoadInvoices,
         LoadPayments, calls, history
<1>2. Shapes'
  <2>1. Len(commits) \in Nat
    BY DEF SyncInv, SyncTypeOK
  <2> QED
    BY <1>1, <2>1 DEF StoreInv, Shapes, LoadStep, LoadCustomers, LoadInvoices, LoadPayments
<1>3. ForeignKeys' /\ SyncsFresh' /\ StoreIsLastReading'
  BY <1>1 DEF StoreInv, ForeignKeys, SyncsFresh, StoreIsLastReading, tables
<1>4. LoadsFresh'
  <2>1. ASSUME lpc'[l] # "idle", lbegan'[l] = Len(commits)
        PROVE  /\ got'[l].customers = customers
               /\ lpc'[l] \in {"payments", "loaded"} => got'[l].invoices = invoices
               /\ lpc'[l] = "loaded" => got'[l].payments = payments
    BY <2>1 DEF LoadStep, LoadCustomers, LoadInvoices, LoadPayments, SyncInv, SyncTypeOK,
                StoreInv, Shapes, LoadsFresh
  <2> QED
    BY <1>1, <2>1 DEF StoreInv, LoadsFresh, tables
<1> QED
  BY <1>2, <1>3, <1>4 DEF StoreInv

LEMMA StoreStep ==
  ASSUME SyncInv, StoreInv, [Next]_syncVars
  PROVE  StoreInv'
<1> DEFINE Quiet ==
      /\ UNCHANGED <<tables, commits, began, loads>>
      /\ DOMAIN loaded' = Syncs
      /\ \A s \in Syncs : loaded'[s] \in {loaded[s], NoneLoaded}
      /\ \A s \in Syncs : pc'[s] \in Selected =>
            /\ pc'[s] = pc[s]
            /\ loaded'[s] = loaded[s]
            /\ found'[s] = found[s]
            /\ deleted'[s] = deleted[s]
<1> USE DEF Goto, calls, history, Reading, Writing, Selected
<1>0. /\ pc \in [Syncs -> {"idle"} \union Running \union Ended]
      /\ deleted \in [Syncs -> SUBSET payments]
      /\ DOMAIN loaded = Syncs /\ DOMAIN found = Syncs
  BY DEF SyncInv, SyncTypeOK, WholeSets, StoreInv, Shapes
<1>1. CASE BookMoves \/ UNCHANGED syncVars
  <2>1. Quiet
    BY <1>0, <1>1 DEF BookMoves, syncVars
  <2> QED
    BY <2>1, StoreQuiet
<1>2. ASSUME NEW s \in Syncs,
             Start(s) \/ ReadCustomers(s) \/ ReadInvoices(s) \/ ReadPayments(s)
      PROVE  StoreInv'
  <2>1. Quiet
    BY <1>0, <1>2 DEF Start, ReadCustomers, ReadInvoices, ReadPayments
  <2> QED
    BY <2>1, StoreQuiet
<1>3. ASSUME NEW s \in Syncs, ReadFails(s) \/ WriteFails(s) \/ Refused(s) PROVE StoreInv'
  <2>1. Quiet
    BY <1>0, <1>3 DEF ReadFails, WriteFails, Refused, Fail
  <2> QED
    BY <2>1, StoreQuiet
<1>4. ASSUME NEW s \in Syncs, Commit(s) \/ CommitUnanswered(s) PROVE StoreInv'
  BY <1>4, StoreWrite DEF Commit, CommitUnanswered
<1>5. ASSUME NEW s \in Syncs, Record(s) \/ RecordFails(s) PROVE StoreInv'
  <2>1. Quiet
    BY <1>0, <1>5 DEF Record, RecordFails, Forget
  <2> QED
    BY <2>1, StoreQuiet
<1>6. ASSUME NEW dying \in SUBSET Syncs, Die(dying) PROVE StoreInv'
  <2>1. Quiet
    BY <1>0, <1>6 DEF Die, Running
  <2> QED
    BY <2>1, StoreQuiet
<1> QED
  BY <1>1, <1>2, <1>3, <1>4, <1>5, <1>6, StoreSelects, StoreLoads DEF Next, Proceed, Fault

----------------------------------------------------------------------------
(* The theorems.                                                           *)

LEMMA SyncInvStep == SyncInv /\ [Next]_syncVars => SyncInv'
BY TypeStep, OnceStep, DeletedStep, WholeStep, RunsStep DEF SyncInv

\* The inductive invariant holds for any syncs, loads and books.
THEOREM SyncInvariance == Spec => []SyncInv
BY InitInv, SyncInvStep, PTL DEF Spec

\* Every variable keeps its shape, and only the open transaction past its
\* DELETE holds deleted rows.
THEOREM SyncTypeCorrect == Spec => []SyncTypeOK
<1>1. SyncInv => SyncTypeOK
  BY DEF SyncInv
<1> QED
  BY <1>1, SyncInvariance, PTL

\* However syncs overlap, fail and die, the payments of a reading stand whole
\* or not at all.
THEOREM ReadingsStandWhole == Spec => []PaymentsStandWhole
<1>1. SyncInv => PaymentsStandWhole
  BY DEF SyncInv, WholeSets, Whole, WholeIn, WroteIn, RowsOf, PaymentsStandWhole
<1> QED
  BY <1>1, SyncInvariance, PTL

\* The recorded runs say what happened.
THEOREM RunsAreTrue == Spec => []RunsTellTheTruth
<1>1. SyncInv => RunsTellTheTruth
  BY DEF SyncInv, RunsInv
<1> QED
  BY <1>1, SyncInvariance, PTL

\* Both invariants together, for any syncs, loads and books.
LEMMA StoreInvariance == Spec => [](SyncInv /\ StoreInv)
<1>1. SyncInv /\ StoreInv /\ [Next]_syncVars => StoreInv'
  BY StoreStep
<1> QED
  BY <1>1, InitStore, SyncInvariance, PTL DEF Spec

\* However many syncs overlap before and after, one that ran alone leaves the
\* book it read in the store.
THEOREM LoneSyncRepairs == Spec => []StoreIsLastReading
<1>1. StoreInv => StoreIsLastReading
  BY DEF StoreInv
<1> QED
  BY <1>1, StoreInvariance, PTL

\* What a request loads while no sync commits refers to nothing it lacks,
\* whatever mixture of books the syncs have read.
THEOREM LoadsAreClosed == Spec => []LoadIsClosed
<1>1. StoreInv => LoadIsClosed
  BY DEF StoreInv, ForeignKeys, LoadsFresh, LoadIsClosed
<1> QED
  BY <1>1, StoreInvariance, PTL
----------------------------------------------------------------------------
(* The scheduler and its server implement PortfolioSync: what is proved of *)
(* overlapping syncs holds of theirs.                                      *)

LEMMA LaunchStarts ==
  ASSUME NEW n, Launch(n)
  PROVE  UNCHANGED syncVars \/ \E s \in Scheduled : Start(s)
BY DEF Launch

LEMMA SchedulerStep == [SchedulerNext]_vars => [Next]_syncVars
<1> SUFFICES ASSUME [SchedulerNext]_vars PROVE [Next]_syncVars
  OBVIOUS
<1>1. CASE Wake \/ Resume
  <2>1. UNCHANGED syncVars \/ \E s \in Scheduled : Start(s)
    BY <1>1, LaunchStarts DEF Wake, Resume
  <2> QED
    BY <2>1, ScheduledAssumption DEF Next
<1>2. CASE Shutdown \/ Stop \/ UNCHANGED vars
  BY <1>2 DEF Shutdown, Stop, vars
<1>3. CASE Kill
  BY <1>3 DEF Kill, Next
<1>4. CASE \E s \in Syncs : Request(s)
  BY <1>4 DEF Request, Next
<1>5. CASE \E s \in Syncs : (Proceed(s) \/ Fault(s)) /\ Elsewhere
  BY <1>5 DEF Next
<1>6. CASE (\E l \in Loads : LoadStep(l) /\ Elsewhere) \/ (BookMoves /\ Elsewhere)
  BY <1>6 DEF Next
<1> QED
  BY <1>1, <1>2, <1>3, <1>4, <1>5, <1>6 DEF SchedulerNext

\* Scheduled rounds, requests, shutdown and kill are a case of overlapping
\* syncs.
THEOREM SchedulerImplementsSync == SchedulerSpec => Spec
<1>1. SchedulerInit => Init
  BY DEF SchedulerInit
<1> QED
  BY <1>1, SchedulerStep, PTL DEF SchedulerSpec, Spec

----------------------------------------------------------------------------
(* The scheduled syncs come one after the other.                           *)

ScheduledRunning == {s \in Scheduled : pc[s] \in Running}

\* A task that sleeps in a serving server has no sync of its own running; one
\* that awaits has at most the one it awaits; one that was cancelled in its
\* sleep has none.
TaskInv ==
    /\ task \in {"sleeping", "awaiting", "ended"}
    /\ server = "serving" => task # "ended"
    /\ server = "serving" /\ task = "sleeping" => ScheduledRunning = {}
    /\ server = "serving" /\ task = "awaiting" => ScheduledRunning \subseteq {thread}
    /\ server = "stopping" /\ task = "ended" => ScheduledRunning = {}
    /\ server = "stopped" => task = "ended" /\ ScheduledRunning = {}

\* Only Start makes a sync run.
LEMMA NoneStarts ==
  ASSUME SyncTypeOK, NEW s \in Syncs, Proceed(s) \/ Fault(s)
  PROVE  \A t \in Syncs : pc'[t] \in Running => pc[t] \in Running
<1> USE DEF SyncTypeOK, Goto, Running, Reading, Writing, Ended
<1>1. pc[s] \in Running
  BY DEF Proceed, Fault, ReadCustomers, ReadInvoices, ReadPayments, UpsertCustomers,
         UpsertInvoices, DeletePayments, FinishDelete, Commit, CommitUnanswered, Write,
         Refused, Record, RecordFails, ReadFails, WriteFails
<1>2. \E there : pc' = [pc EXCEPT ![s] = there]
  BY DEF Proceed, Fault, ReadCustomers, ReadInvoices, ReadPayments, UpsertCustomers,
         UpsertInvoices, DeletePayments, FinishDelete, Commit, CommitUnanswered, Write,
         Refused, Record, RecordFails, ReadFails, WriteFails, Fail
<1> QED
  BY <1>1, <1>2

LEMMA LaunchKeeps ==
  ASSUME SyncTypeOK, TaskInv, ScheduledRunning = {} \/ server # "serving",
         NEW n, Launch(n), server' = server, server # "stopped"
  PROVE  TaskInv'
<1> USE ScheduledAssumption DEF TaskInv, ScheduledRunning
<1>1. CASE n > Len(Round) /\ task' = "sleeping" /\ UNCHANGED <<thread, syncVars>>
  BY <1>1 DEF syncVars, calls
<1>2. CASE task' = "awaiting" /\ \E s \in Scheduled : Start(s) /\ thread' = s
  <2>1. PICK s \in Scheduled : Start(s) /\ thread' = s
    BY <1>2
  <2>2. \A t \in Syncs \ {s} : pc'[t] = pc[t]
    BY <2>1 DEF Start, Goto, SyncTypeOK
  <2> QED
    BY <1>2, <2>1, <2>2
<1>3. CASE task' = "awaiting" /\ UNCHANGED syncVars
  BY <1>3 DEF syncVars, calls
<1> QED
  BY <1>1, <1>2, <1>3 DEF Launch

LEMMA TaskStep ==
  ASSUME SyncTypeOK, TaskInv, [SchedulerNext]_vars
  PROVE  TaskInv'
<1> USE ScheduledAssumption
<1>1. CASE Wake
  BY <1>1, LaunchKeeps DEF Wake, TaskInv
<1>2. CASE Resume
  <2>1. ScheduledRunning = {} \/ server # "serving"
    BY <1>2 DEF Resume, TaskInv, ScheduledRunning, Running, Reading, Writing
  <2> QED
    BY <1>2, <2>1, LaunchKeeps DEF Resume, TaskInv
<1>3. CASE Shutdown \/ Stop \/ UNCHANGED vars
  BY <1>3 DEF Shutdown, Stop, vars, taskVars, syncVars, calls, TaskInv, ScheduledRunning
<1>4. CASE Kill
  BY <1>4 DEF Kill, TaskInv
<1>5. ASSUME NEW s \in Syncs, Request(s) PROVE TaskInv'
  <2>1. s \notin Scheduled /\ \A t \in Syncs \ {s} : pc'[t] = pc[t]
    BY <1>5 DEF Request, Start, Goto, SyncTypeOK
  <2> QED
    BY <1>5, <2>1 DEF Request, taskVars, TaskInv, ScheduledRunning
<1>6. ASSUME NEW s \in Syncs, (Proceed(s) \/ Fault(s)) /\ Elsewhere PROVE TaskInv'
  <2>1. \A t \in Syncs : pc'[t] \in Running => pc[t] \in Running
    BY <1>6, NoneStarts
  <2> QED
    BY <1>6, <2>1 DEF Elsewhere, taskVars, TaskInv, ScheduledRunning
<1>7. CASE (\E l \in Loads : LoadStep(l) /\ Elsewhere) \/ (BookMoves /\ Elsewhere)
  BY <1>7 DEF LoadStep, LoadCustomers, LoadInvoices, LoadPayments, BookMoves, calls,
              Elsewhere, taskVars, TaskInv, ScheduledRunning
<1> QED
  BY <1>1, <1>2, <1>3, <1>4, <1>5, <1>6, <1>7 DEF SchedulerNext

\* While the server serves the task's own syncs come one after the other, and
\* a server that stopped has left none running.
THEOREM ScheduledRunInTurn == SchedulerSpec => []ScheduledInTurn
<1>1. SchedulerInit => TaskInv
  BY ScheduledAssumption
     DEF SchedulerInit, Init, TaskInv, ScheduledRunning, Running, Reading, Writing
<1>2. SyncTypeOK /\ TaskInv /\ [SchedulerNext]_vars => TaskInv'
  BY TaskStep
<1>3. TaskInv => ScheduledInTurn
  BY DEF TaskInv, ScheduledInTurn, ScheduledRunning
<1>4. SchedulerSpec => []SyncTypeOK
  BY SchedulerImplementsSync, SyncTypeCorrect, PTL
<1> QED
  BY <1>1, <1>2, <1>3, <1>4, PTL DEF SchedulerSpec
=============================================================================
