---------------------------- MODULE LedgerProofs ----------------------------
(***************************************************************************)
(* Proofs about Ledger, for any callers, scripts and chart of accounts,    *)
(* and about Settlement, for any deals and amounts.                        *)
(*                                                                         *)
(* The argument is the unique index: a transaction inserts a reference     *)
(* only when the journal does not have it and no other open transaction    *)
(* holds it, and lookups keep a transaction from inserting it twice; so    *)
(* the references of the journal and of all pending rows are distinct      *)
(* (Indexed), and stay so when a COMMIT moves rows into the journal.       *)
(*                                                                         *)
(* What the journal adds up to follows from its rows: each is what was     *)
(* booked of an entry that postEntry let pass (Screened), the entry of a   *)
(* flow; a flow nets to nothing for each party (Settled); and a sum over   *)
(* finitely many rows of nothing is nothing.                               *)
(***************************************************************************)
EXTENDS Settlement, SumLemmas

----------------------------------------------------------------------------
(* The inductive invariant.                                                *)

\* A pending row is its own call's.
OwnRows == \A c \in Calls : \A row \in pending[c] : row.by[1] = c

\* Two rows of one reference, in the journal or pending, are one row of the
\* journal, or one row of one transaction.
Indexed ==
    /\ PostedOnce
    /\ \A c \in Calls :
        /\ \A q, r \in pending[c] : q.entry.reference = r.entry.reference => q = r
        /\ \A q \in pending[c], r \in journal : q.entry.reference # r.entry.reference
    /\ \A c, d \in Calls : c # d =>
        \A q \in pending[c], r \in pending[d] : q.entry.reference # r.entry.reference

\* A call that is about to insert has not inserted the reference itself.
Looked ==
    \A c \in Calls : pc[c] = "create" =>
        Current(c).reference \notin ReferencesIn(pending[c])

\* The entries a call has gone past are posted, by whomever; at COMMIT and
\* after it these are all of them.
Covered ==
    \A c \in Calls :
        /\ pc[c] \in {"find", "create"} =>
            \A i \in 1..(at[c] - 1) :
                script[c][i].reference \in ReferencesIn(journal \union pending[c])
        /\ pc[c] \in {"commit", "ack", "posted"} =>
            \A i \in DOMAIN script[c] :
                script[c][i].reference \in ReferencesIn(journal \union pending[c])

\* A call that has not begun is at its first entry.
AtFirst == \A c \in Calls : pc[c] = "idle" => at[c] = 1

IInv ==
    /\ LedgerTypeOK
    /\ OwnRows
    /\ Indexed
    /\ Looked
    /\ Covered
    /\ AtFirst
    /\ PosterIsTold

----------------------------------------------------------------------------
(* References.                                                             *)

LEMMA ReferencesGrow ==
  ASSUME NEW A, NEW B, A \subseteq B
  PROVE  ReferencesIn(A) \subseteq ReferencesIn(B)
BY DEF ReferencesIn

LEMMA ReferencesOfUnion ==
  ASSUME NEW A, NEW B
  PROVE  ReferencesIn(A \union B) = ReferencesIn(A) \union ReferencesIn(B)
BY DEF ReferencesIn

\* Rounding leaves the reference alone.
LEMMA BookedKeepsReference ==
  ASSUME NEW s \in Scripts, NEW i \in DOMAIN s
  PROVE  Booked(s[i]).reference = s[i].reference
BY ScriptsAssumption DEF Booked

\* What a call that has begun posts is one of the scripts.
LEMMA ScriptOfCall ==
  ASSUME LedgerTypeOK, NEW c \in Calls, pc[c] # "idle"
  PROVE  /\ script[c] \in Scripts
         /\ Len(script[c]) \in Nat \ {0}
         /\ DOMAIN script[c] = 1..Len(script[c])
BY ScriptsAssumption DEF LedgerTypeOK

----------------------------------------------------------------------------
(* The invariant is inductive.                                             *)

\* However one call's pending rows are replaced, they are pending rows.
LEMMA PendingType ==
  ASSUME LedgerTypeOK, NEW c \in Calls, NEW rows, pending' = [pending EXCEPT ![c] = rows]
  PROVE  /\ pending' \in [Calls -> SUBSET PendingRows']
         /\ pending'[c] = rows
         /\ \A d \in Calls \ {c} : pending'[d] = pending[d]
<1>1. pending \in [Calls -> SUBSET PendingRows]
  BY DEF LedgerTypeOK
<1>2. pending' = [d \in Calls |-> IF d = c THEN rows ELSE pending[d]]
  BY <1>1
<1>3. \A d \in Calls : pending'[d] \subseteq PendingRows'
  BY DEF PendingRows
<1> QED
  BY <1>2, <1>3

LEMMA InitIInv == Init => IInv
<1> SUFFICES ASSUME Init PROVE IInv
  OBVIOUS
<1>1. LedgerTypeOK
  BY ChartAssumption DEF Init, LedgerTypeOK, PendingRows, OpenTx, Returned
<1>2. OwnRows /\ Indexed /\ Looked /\ Covered /\ AtFirst /\ PosterIsTold
  BY DEF Init, OwnRows, Indexed, PostedOnce, Looked, Covered, AtFirst, PosterIsTold, OpenTx
<1> QED
  BY <1>1, <1>2 DEF IInv

\* The error path: the call's pending rows are gone, the journal is as it was.
LEMMA ThrowStep ==
  ASSUME IInv, NEW c \in Calls, pc[c] \in OpenTx \union {"ack"}, Throw(c)
  PROVE  IInv'
<1>1. LedgerTypeOK'
  BY DEF Throw, IInv, LedgerTypeOK, PendingRows, OpenTx, Returned
<1>2. \A d \in Calls : pending'[d] \subseteq pending[d]
  BY DEF Throw, IInv, LedgerTypeOK
<1>3. OwnRows' /\ Indexed'
  BY <1>2 DEF Throw, IInv, OwnRows, Indexed, PostedOnce
<1>4. Looked' /\ AtFirst'
  BY DEF Throw, IInv, LedgerTypeOK, Looked, AtFirst, Current
<1>5. Covered'
  BY DEF Throw, IInv, LedgerTypeOK, Covered
<1>6. PosterIsTold'
  BY DEF Throw, IInv, LedgerTypeOK, PosterIsTold, OpenTx
<1> QED
  BY <1>1, <1>3, <1>4, <1>5, <1>6 DEF IInv

LEMMA BeginStep ==
  ASSUME IInv, NEW c \in Calls, NEW s \in Scripts, Begin(c, s)
  PROVE  IInv'
<1>1. /\ Len(s) \in Nat \ {0}
      /\ DOMAIN s = 1..Len(s)
      /\ s # <<>>
  BY ScriptsAssumption
<1>2. script[c] = <<>> /\ at[c] = 1 /\ pending[c] = {}
  BY DEF Begin, IInv, LedgerTypeOK, AtFirst, OpenTx
<1>3. \A row \in journal \union PendingRows : row.by[1] # c
  BY <1>2 DEF IInv, LedgerTypeOK
<1>4. LedgerTypeOK'
  <2>1. \A row \in journal \union PendingRows :
            /\ row.by[1] \in Calls
            /\ row.by[2] \in DOMAIN script'[row.by[1]]
            /\ row.entry = Booked(script'[row.by[1]][row.by[2]])
    BY <1>3 DEF Begin, IInv, LedgerTypeOK
  <2>2. \A d \in Calls :
            /\ pc'[d] = "idle" <=> script'[d] = <<>>
            /\ pc'[d] \in {"find", "create"} => at'[d] \in DOMAIN script'[d]
            /\ pending'[d] # {} => pc'[d] \in OpenTx
    BY <1>1, <1>2 DEF Begin, IInv, LedgerTypeOK, OpenTx
  <2>3. /\ chart' \subseteq Chart
        /\ pc' \in [Calls -> {"idle", "ack"} \union OpenTx \union Returned]
        /\ at' \in [Calls -> Nat]
        /\ script' \in [Calls -> Scripts \union {<<>>}]
        /\ pending' \in [Calls -> SUBSET PendingRows']
    BY DEF Begin, IInv, LedgerTypeOK, OpenTx, PendingRows
  <2> QED
    BY <2>1, <2>2, <2>3 DEF Begin, LedgerTypeOK, PendingRows
<1>5. OwnRows' /\ Indexed'
  BY DEF Begin, IInv, OwnRows, Indexed, PostedOnce
<1>6. Looked' /\ AtFirst'
  BY DEF Begin, IInv, LedgerTypeOK, Looked, AtFirst, Current
<1>7. Covered'
  BY <1>2 DEF Begin, IInv, LedgerTypeOK, Covered
<1>8. PosterIsTold'
  BY <1>3 DEF Begin, IInv, LedgerTypeOK, PosterIsTold
<1> QED
  BY <1>4, <1>5, <1>6, <1>7, <1>8 DEF IInv

\* Going on to the next entry, or to COMMIT, once the current one is posted.
LEMMA AdvanceCovers ==
  ASSUME IInv, NEW c \in Calls, pc[c] \in {"find", "create"}, Advance(c),
         journal' = journal, script' = script,
         pending[c] \subseteq pending'[c],
         Current(c).reference \in ReferencesIn(journal \union pending'[c]),
         \A d \in Calls \ {c} : pending'[d] = pending[d]
  PROVE  Covered' /\ pc'[c] \in {"find", "commit"}
         /\ (pc'[c] = "find" => at'[c] \in DOMAIN script[c])
<1>1. /\ script[c] \in Scripts
      /\ Len(script[c]) \in Nat
      /\ DOMAIN script[c] = 1..Len(script[c])
  BY ScriptOfCall DEF IInv
<1>2. /\ at[c] \in 1..Len(script[c])
      /\ at'[c] = at[c] + 1
      /\ pc'[c] = IF at[c] = Len(script[c]) THEN "commit" ELSE "find"
      /\ \A d \in Calls \ {c} : at'[d] = at[d] /\ pc'[d] = pc[d]
  BY <1>1 DEF Advance, IInv, LedgerTypeOK
<1>3. \A i \in 1..at[c] :
        script[c][i].reference \in ReferencesIn(journal \union pending'[c])
  <2> SUFFICES ASSUME NEW i \in 1..at[c]
               PROVE  script[c][i].reference \in ReferencesIn(journal \union pending'[c])
    OBVIOUS
  <2>1. CASE i = at[c]
    BY <2>1 DEF Current
  <2>2. CASE i # at[c]
    <3>1. i \in 1..(at[c] - 1)
      BY <1>2, <2>2
    <3>2. script[c][i].reference \in ReferencesIn(journal \union pending[c])
      BY <3>1 DEF IInv, Covered
    <3> QED
      BY <3>2, ReferencesOfUnion, ReferencesGrow
  <2> QED
    BY <2>1, <2>2
<1>4. \A d \in Calls \ {c} :
        /\ pc'[d] \in {"find", "create"} =>
            \A i \in 1..(at'[d] - 1) :
                script'[d][i].reference \in ReferencesIn(journal' \union pending'[d])
        /\ pc'[d] \in {"commit", "ack", "posted"} =>
            \A i \in DOMAIN script'[d] :
                script'[d][i].reference \in ReferencesIn(journal' \union pending'[d])
  BY <1>2 DEF IInv, Covered
<1>5. /\ pc'[c] \in {"find", "create"} =>
            \A i \in 1..(at'[c] - 1) :
                script'[c][i].reference \in ReferencesIn(journal' \union pending'[c])
      /\ pc'[c] \in {"commit", "ack", "posted"} =>
            \A i \in DOMAIN script'[c] :
                script'[c][i].reference \in ReferencesIn(journal' \union pending'[c])
  <2>1. at'[c] - 1 = at[c]
    BY <1>1, <1>2
  <2>2. CASE at[c] = Len(script[c])
    BY <1>1, <1>2, <1>3, <2>2
  <2>3. CASE at[c] # Len(script[c])
    BY <1>2, <1>3, <2>1, <2>3
  <2> QED
    BY <2>2, <2>3
<1>6. Covered'
  BY <1>4, <1>5 DEF Covered
<1> QED
  BY <1>1, <1>2, <1>6

LEMMA FindExistingStep ==
  ASSUME IInv, NEW c \in Calls, FindExisting(c)
  PROVE  IInv'
<1>1. /\ pc[c] = "find" /\ Advance(c)
      /\ UNCHANGED <<journal, chart, script, pending>>
      /\ Current(c).reference \in ReferencesIn(journal \union pending[c])
  BY DEF FindExisting
<1>2. /\ Covered'
      /\ pc'[c] \in {"find", "commit"}
      /\ pc'[c] = "find" => at'[c] \in DOMAIN script[c]
  BY <1>1, AdvanceCovers
<1>3. \A d \in Calls \ {c} : at'[d] = at[d] /\ pc'[d] = pc[d]
  BY <1>1 DEF Advance, IInv, LedgerTypeOK
<1>4. LedgerTypeOK'
  BY <1>1, <1>2, <1>3 DEF Advance, IInv, LedgerTypeOK, PendingRows, OpenTx, Returned
<1>5. OwnRows' /\ Indexed'
  BY <1>1 DEF IInv, OwnRows, Indexed, PostedOnce
<1>6. Looked' /\ AtFirst'
  BY <1>1, <1>2, <1>3 DEF IInv, Looked, AtFirst, Current
<1>7. PosterIsTold'
  BY <1>1, <1>2, <1>3 DEF IInv, LedgerTypeOK, PosterIsTold, OpenTx
<1> QED
  BY <1>2, <1>4, <1>5, <1>6, <1>7 DEF IInv

LEMMA FindNothingStep ==
  ASSUME IInv, NEW c \in Calls, FindNothing(c)
  PROVE  IInv'
<1>1. LedgerTypeOK'
  BY DEF FindNothing, IInv, LedgerTypeOK, PendingRows, OpenTx, Returned
<1>2. OwnRows' /\ Indexed'
  BY DEF FindNothing, IInv, OwnRows, Indexed, PostedOnce
<1>3. Looked'
  BY ReferencesOfUnion DEF FindNothing, IInv, LedgerTypeOK, Looked, Current
<1>4. AtFirst'
  BY DEF FindNothing, IInv, LedgerTypeOK, AtFirst
<1>5. Covered'
  BY DEF FindNothing, IInv, LedgerTypeOK, Covered
<1>6. PosterIsTold'
  BY DEF FindNothing, IInv, LedgerTypeOK, PosterIsTold, OpenTx
<1> QED
  BY <1>1, <1>2, <1>3, <1>4, <1>5, <1>6 DEF IInv

\* The insert: nobody else has the reference, so the index stays unique.
LEMMA CreateStep ==
  ASSUME IInv, NEW c \in Calls, Create(c)
  PROVE  IInv'
<1> DEFINE row == [entry |-> Booked(Current(c)), by |-> <<c, at[c]>>]
<1>1. /\ pc[c] = "create" /\ Advance(c)
      /\ UNCHANGED <<journal, chart, script>>
      /\ pending' = [pending EXCEPT ![c] = @ \union {row}]
      /\ Current(c).reference \notin ReferencesIn(journal)
      /\ \A d \in Calls : ~IndexHeldBy(c, d)
  BY DEF Create
<1>2. /\ script[c] \in Scripts
      /\ at[c] \in DOMAIN script[c]
      /\ at[c] \in Nat
  BY <1>1, ScriptOfCall DEF IInv, LedgerTypeOK
<1>3. row.entry.reference = Current(c).reference
  BY <1>2, BookedKeepsReference DEF Current
<1> HIDE DEF row
<1>4. /\ pending' \in [Calls -> SUBSET PendingRows']
      /\ pending'[c] = pending[c] \union {row}
      /\ \A d \in Calls \ {c} : pending'[d] = pending[d]
  BY <1>1, PendingType DEF IInv
<1>5. row \in pending'[c] /\ Current(c).reference \in ReferencesIn(journal \union pending'[c])
  BY <1>3, <1>4 DEF ReferencesIn
<1>6. /\ Covered'
      /\ pc'[c] \in {"find", "commit"}
      /\ pc'[c] = "find" => at'[c] \in DOMAIN script[c]
  BY <1>1, <1>4, <1>5, AdvanceCovers
<1>7. \A d \in Calls \ {c} : at'[d] = at[d] /\ pc'[d] = pc[d]
  BY <1>1 DEF Advance, IInv, LedgerTypeOK
<1>8. row.by[1] = c /\ row.by[2] = at[c] /\ row.entry = Booked(script[c][at[c]])
  BY DEF row, Current
<1>9. LedgerTypeOK'
  <2>1. PendingRows' \subseteq PendingRows \union {row}
    BY <1>4 DEF PendingRows
  <2>2. \A r \in journal' \union PendingRows' :
            /\ r.by[1] \in Calls
            /\ r.by[2] \in DOMAIN script'[r.by[1]]
            /\ r.entry = Booked(script'[r.by[1]][r.by[2]])
    BY <1>1, <1>2, <1>8, <2>1 DEF IInv, LedgerTypeOK
  <2>3. \A d \in Calls :
            /\ pc'[d] = "idle" <=> script'[d] = <<>>
            /\ pc'[d] \in {"find", "create"} => at'[d] \in DOMAIN script'[d]
            /\ pending'[d] # {} => pc'[d] \in OpenTx
    BY <1>1, <1>2, <1>4, <1>6, <1>7 DEF IInv, LedgerTypeOK, OpenTx
  <2>4. /\ chart' \subseteq Chart
        /\ pc' \in [Calls -> {"idle", "ack"} \union OpenTx \union Returned]
        /\ at' \in [Calls -> Nat]
        /\ script' \in [Calls -> Scripts \union {<<>>}]
        /\ pending' \in [Calls -> SUBSET PendingRows']
    BY <1>1, <1>2, <1>4 DEF Advance, IInv, LedgerTypeOK, OpenTx
  <2> QED
    BY <2>2, <2>3, <2>4 DEF LedgerTypeOK
<1>10. OwnRows'
  BY <1>4, <1>8 DEF IInv, OwnRows
<1>11. Indexed'
  <2>1. \A r \in journal \union pending[c] : r.entry.reference # row.entry.reference
    BY <1>1, <1>3 DEF IInv, Looked, ReferencesIn
  <2>2. \A d \in Calls \ {c} : \A r \in pending[d] :
            r.entry.reference # row.entry.reference
    BY <1>1, <1>3 DEF IndexHeldBy, IInv, LedgerTypeOK, ReferencesIn
  <2>3. PostedOnce'
    BY <1>1 DEF IInv, Indexed, PostedOnce
  <2>4. ASSUME NEW d \in Calls
        PROVE  /\ \A q, r \in pending'[d] : q.entry.reference = r.entry.reference => q = r
               /\ \A q \in pending'[d], r \in journal' :
                    q.entry.reference # r.entry.reference
    BY <1>1, <1>4, <2>1 DEF IInv, Indexed
  <2>5. ASSUME NEW d \in Calls, NEW e \in Calls, d # e,
               NEW q \in pending'[d], NEW r \in pending'[e]
        PROVE  q.entry.reference # r.entry.reference
    <3>1. CASE q \in pending[d] /\ r \in pending[e]
      BY <2>5, <3>1 DEF IInv, Indexed
    <3>2. CASE q \notin pending[d]
      BY <1>4, <2>2, <2>5, <3>2
    <3>3. CASE r \notin pending[e]
      BY <1>4, <2>2, <2>5, <3>3
    <3> QED
      BY <3>1, <3>2, <3>3
  <2> QED
    BY <2>3, <2>4, <2>5 DEF Indexed
<1>12. Looked' /\ AtFirst'
  BY <1>1, <1>4, <1>6, <1>7 DEF IInv, Looked, AtFirst, Current
<1>13. PosterIsTold'
  BY <1>1, <1>6, <1>7 DEF IInv, LedgerTypeOK, PosterIsTold, OpenTx
<1> QED
  BY <1>6, <1>9, <1>10, <1>11, <1>12, <1>13 DEF IInv

\* COMMIT moves the pending rows of one call into the journal.
LEMMA CommitStep ==
  ASSUME IInv, NEW c \in Calls, Commit(c)
  PROVE  IInv'
<1>1. /\ pc[c] = "commit"
      /\ journal' = journal \union pending[c]
      /\ UNCHANGED <<chart, script, at>>
  BY DEF Commit
<1>2. /\ pending'[c] = {} /\ pc'[c] = "ack"
      /\ \A d \in Calls \ {c} : pending'[d] = pending[d] /\ pc'[d] = pc[d]
  BY DEF Commit, IInv, LedgerTypeOK
<1>3. LedgerTypeOK'
  <2>1. journal' \union PendingRows' \subseteq journal \union PendingRows
    BY <1>1, <1>2 DEF PendingRows
  <2>2. \A r \in journal' \union PendingRows' :
            /\ r.by[1] \in Calls
            /\ r.by[2] \in DOMAIN script'[r.by[1]]
            /\ r.entry = Booked(script'[r.by[1]][r.by[2]])
    BY <1>1, <2>1 DEF IInv, LedgerTypeOK
  <2>3. \A d \in Calls :
            /\ pc'[d] = "idle" <=> script'[d] = <<>>
            /\ pc'[d] \in {"find", "create"} => at'[d] \in DOMAIN script'[d]
            /\ pending'[d] # {} => pc'[d] \in OpenTx
    BY <1>1, <1>2 DEF IInv, LedgerTypeOK
  <2>4. /\ chart' \subseteq Chart
        /\ pc' \in [Calls -> {"idle", "ack"} \union OpenTx \union Returned]
        /\ at' \in [Calls -> Nat]
        /\ script' \in [Calls -> Scripts \union {<<>>}]
        /\ pending' \in [Calls -> SUBSET PendingRows']
    BY PendingType DEF Commit, IInv, LedgerTypeOK
  <2> QED
    BY <2>2, <2>3, <2>4 DEF LedgerTypeOK
<1>4. OwnRows'
  BY <1>2 DEF IInv, OwnRows
<1>5. Indexed'
  <2>1. PostedOnce'
    BY <1>1 DEF IInv, Indexed, PostedOnce
  <2>2. ASSUME NEW d \in Calls
        PROVE  /\ \A q, r \in pending'[d] : q.entry.reference = r.entry.reference => q = r
               /\ \A q \in pending'[d], r \in journal' :
                    q.entry.reference # r.entry.reference
    BY <1>1, <1>2 DEF IInv, Indexed
  <2>3. \A d, e \in Calls : d # e =>
            \A q \in pending'[d], r \in pending'[e] :
                q.entry.reference # r.entry.reference
    BY <1>2 DEF IInv, Indexed
  <2> QED
    BY <2>1, <2>2, <2>3 DEF Indexed
<1>6. Looked' /\ AtFirst'
  BY <1>1, <1>2 DEF IInv, Looked, AtFirst, Current
<1>7. Covered'
  <2>1. \A d \in Calls :
            ReferencesIn(journal \union pending[d])
                \subseteq ReferencesIn(journal' \union pending'[d])
    BY <1>1, <1>2 DEF ReferencesIn
  <2> QED
    BY <1>1, <1>2, <2>1 DEF IInv, Covered
<1>8. PosterIsTold'
  <2>1. ASSUME NEW d \in Calls, pc'[d] = "posted", NEW i \in DOMAIN script'[d]
        PROVE  script'[d][i].reference \in ReferencesIn(journal')
    <3>1. d # c /\ pc[d] = "posted"
      BY <1>2, <2>1
    <3> QED
      BY <1>1, <2>1, <3>1, ReferencesOfUnion DEF IInv, PosterIsTold
  <2>2. \A r \in journal' : pc'[r.by[1]] \notin OpenTx
    BY <1>1, <1>2 DEF IInv, PosterIsTold, OwnRows, LedgerTypeOK, OpenTx
  <2> QED
    BY <2>1, <2>2 DEF PosterIsTold
<1> QED
  BY <1>3, <1>4, <1>5, <1>6, <1>7, <1>8 DEF IInv

LEMMA AcknowledgeStep ==
  ASSUME IInv, NEW c \in Calls, Acknowledge(c)
  PROVE  IInv'
<1>1. pending[c] = {}
  BY DEF Acknowledge, IInv, LedgerTypeOK, OpenTx
<1>2. LedgerTypeOK'
  BY DEF Acknowledge, IInv, LedgerTypeOK, PendingRows, OpenTx, Returned
<1>3. OwnRows' /\ Indexed'
  BY DEF Acknowledge, IInv, OwnRows, Indexed, PostedOnce
<1>4. Looked' /\ AtFirst'
  BY DEF Acknowledge, IInv, LedgerTypeOK, Looked, AtFirst, Current
<1>5. Covered'
  BY DEF Acknowledge, IInv, LedgerTypeOK, Covered
<1>6. PosterIsTold'
  <2>1. \A i \in DOMAIN script[c] : script[c][i].reference \in ReferencesIn(journal)
    BY <1>1, ReferencesOfUnion DEF Acknowledge, IInv, Covered, ReferencesIn
  <2> QED
    BY <2>1 DEF Acknowledge, IInv, LedgerTypeOK, PosterIsTold, OpenTx
<1> QED
  BY <1>2, <1>3, <1>4, <1>5, <1>6 DEF IInv

LEMMA EnsureAccountStep ==
  ASSUME IInv, NEW a \in Chart, EnsureAccount(a)
  PROVE  IInv'
BY DEF EnsureAccount, IInv, LedgerTypeOK, PendingRows, OwnRows, Indexed, PostedOnce,
       Looked, Covered, AtFirst, PosterIsTold, Current

LEMMA NextIInv == IInv /\ [Next]_vars => IInv'
<1> SUFFICES ASSUME IInv, [Next]_vars PROVE IInv'
  OBVIOUS
<1>1. ASSUME NEW c \in Calls, Step(c) PROVE IInv'
  <2>1. CASE RejectEntry(c)
    BY <2>1, ThrowStep DEF RejectEntry, OpenTx
  <2>2. CASE FindExisting(c)
    BY <2>2, FindExistingStep
  <2>3. CASE FindNothing(c)
    BY <2>3, FindNothingStep
  <2>4. CASE RejectAccounts(c)
    BY <2>4, ThrowStep DEF RejectAccounts, OpenTx
  <2>5. CASE Create(c)
    BY <2>5, CreateStep
  <2>6. CASE CreateDuplicate(c)
    BY <2>6, ThrowStep DEF CreateDuplicate, OpenTx
  <2>7. CASE Commit(c)
    BY <2>7, CommitStep
  <2>8. CASE Acknowledge(c)
    BY <2>8, AcknowledgeStep
  <2> QED
    BY <1>1, <2>1, <2>2, <2>3, <2>4, <2>5, <2>6, <2>7, <2>8 DEF Step
<1>2. ASSUME NEW c \in Calls, Fault(c) PROVE IInv'
  BY <1>2, ThrowStep DEF Fault, Abort, LoseAnswer
<1>3. ASSUME NEW c \in Calls, NEW s \in Scripts, Begin(c, s) PROVE IInv'
  BY <1>3, BeginStep
<1>4. ASSUME NEW a \in Chart, EnsureAccount(a) PROVE IInv'
  BY <1>4, EnsureAccountStep
<1>5. CASE UNCHANGED vars
  <2>1. LedgerTypeOK'
    BY <1>5 DEF vars, IInv, LedgerTypeOK, PendingRows
  <2>2. OwnRows' /\ Indexed'
    BY <1>5 DEF vars, IInv, OwnRows, Indexed, PostedOnce
  <2>3. Looked' /\ Covered' /\ AtFirst' /\ PosterIsTold'
    BY <1>5 DEF vars, IInv, Looked, Covered, AtFirst, PosterIsTold, Current
  <2> QED
    BY <2>1, <2>2, <2>3 DEF IInv
<1> QED
  BY <1>1, <1>2, <1>3, <1>4, <1>5 DEF Next

\* The index keeps the references of the journal and of all open transactions
\* apart, and a call has posted what it has gone past (post.ts:103-155).
THEOREM JournalInvariance == Spec => []IInv
<1> QED
  BY InitIInv, NextIInv, PTL DEF Spec

\* Every variable of the ledger keeps its shape, and every row carries, in
\* whole paise, an entry its call was asked to post.
THEOREM LedgerTypeCorrect == Spec => []LedgerTypeOK
<1>1. IInv => LedgerTypeOK
  BY DEF IInv
<1> QED
  BY <1>1, JournalInvariance, PTL

\* "A retried disbursement must not post twice" (post.ts:75-78), however many
\* callers overlap, retry, fail and batch.
THEOREM ReferencesPostedOnce == Spec => []PostedOnce
<1>1. IInv => PostedOnce
  BY DEF IInv, Indexed
<1> QED
  BY <1>1, JournalInvariance, PTL

\* A postEntry that returned has its entry in the journal, and no row of a
\* transaction is seen before its COMMIT.
THEOREM PostersAreTold == Spec => []PosterIsTold
<1>1. IInv => PosterIsTold
  BY DEF IInv
<1> QED
  BY <1>1, JournalInvariance, PTL

----------------------------------------------------------------------------
(* The entries balance.  An entry is inserted only after postEntry has     *)
(* checked it (Screened), and what is inserted is what was checked: the    *)
(* totals are of the rounded amounts, and the rounded amounts are stored.  *)

\* What postEntry writes of an entry it let pass.
WellBooked(entry) ==
    \E s \in Scripts : \E i \in DOMAIN s : Valid(s[i]) /\ entry = Booked(s[i])

Screened ==
    /\ \A c \in Calls : pc[c] = "create" => Valid(Current(c))
    /\ \A row \in journal \union PendingRows :
        WellBooked(row.entry) /\ AccountsOf(row.entry) \subseteq chart

\* Rounding changes the amounts and nothing else.
LEMMA BookedPostings ==
  ASSUME NEW s \in Scripts, NEW i \in DOMAIN s
  PROVE  /\ DOMAIN Booked(s[i]).postings = DOMAIN s[i].postings
         /\ \A j \in DOMAIN s[i].postings :
              /\ Booked(s[i]).postings[j].amount = Money(s[i].postings[j].amount)
              /\ Booked(s[i]).postings[j].account = s[i].postings[j].account
              /\ Booked(s[i]).postings[j].direction = s[i].postings[j].direction
<1> DEFINE e == s[i]
           stored == [j \in DOMAIN e.postings |-> Rounded(e.postings[j])]
<1>1. DOMAIN e = {"reference", "postings"}
  BY ScriptsAssumption
<1>2. \A j \in DOMAIN e.postings : DOMAIN e.postings[j] = {"amount", "account", "direction"}
  BY ScriptsAssumption DEF Range
<1>3. Booked(e).postings = stored
  <2> HIDE DEF e
  <2>1. Booked(e) = [e EXCEPT !.postings = stored]
    BY DEF Booked
  <2> HIDE DEF stored
  <2> QED
    BY <1>1, <2>1
<1>4. \A j \in DOMAIN e.postings :
        /\ stored[j].amount = Money(e.postings[j].amount)
        /\ stored[j].account = e.postings[j].account
        /\ stored[j].direction = e.postings[j].direction
  BY <1>2 DEF Rounded
<1> QED
  BY <1>3, <1>4

\* What is stored of a direction is what was totalled of it.
LEMMA StoredIsTotal ==
  ASSUME NEW s \in Scripts, NEW i \in DOMAIN s, NEW direction
  PROVE  Stored(Booked(s[i]).postings, direction) = Total(s[i].postings, direction)
<1> DEFINE p == s[i].postings
           b == Booked(s[i]).postings
           stored == [j \in DOMAIN b |->
                        IF b[j].direction = direction THEN b[j].amount ELSE 0]
           totalled == [j \in DOMAIN p |->
                        IF p[j].direction = direction THEN Money(p[j].amount) ELSE 0]
<1>1. /\ DOMAIN b = DOMAIN p
      /\ \A j \in DOMAIN p : b[j].amount = Money(p[j].amount) /\ b[j].direction = p[j].direction
  BY BookedPostings
<1> HIDE DEF p, b
<1>2. stored = totalled
  BY <1>1
<1>3. Stored(b, direction) = SumFunction(stored) /\ Total(p, direction) = SumFunction(totalled)
  BY DEF Stored, Total
<1> QED
  BY <1>2, <1>3 DEF p, b

\* A stored entry balances and has no leg of zero or less.
LEMMA WellBookedBalances ==
  ASSUME NEW entry, WellBooked(entry)
  PROVE  /\ Stored(entry.postings, "DEBIT") = Stored(entry.postings, "CREDIT")
         /\ \A j \in DOMAIN entry.postings : entry.postings[j].amount > 0
<1> PICK s \in Scripts : \E i \in DOMAIN s : Valid(s[i]) /\ entry = Booked(s[i])
  BY DEF WellBooked
<1> PICK i \in DOMAIN s : Valid(s[i]) /\ entry = Booked(s[i])
  OBVIOUS
<1>1. Total(s[i].postings, "DEBIT") = Total(s[i].postings, "CREDIT")
  BY DEF Valid, Balanced
<1>2. Stored(entry.postings, "DEBIT") = Stored(entry.postings, "CREDIT")
  BY <1>1, StoredIsTotal
<1>3. \A j \in DOMAIN entry.postings : entry.postings[j].amount > 0
  BY BookedPostings DEF Valid
<1> QED
  BY <1>2, <1>3

\* The accounts of an entry are those of what is stored of it.
LEMMA BookedAccounts ==
  ASSUME NEW s \in Scripts, NEW i \in DOMAIN s
  PROVE  AccountsOf(Booked(s[i])) = AccountsOf(s[i])
BY BookedPostings DEF AccountsOf

LEMMA NextScreened == IInv /\ Screened /\ [Next]_vars => Screened'
<1> SUFFICES ASSUME IInv, Screened, [Next]_vars PROVE Screened'
  OBVIOUS
\* Every step but an insert keeps the rows there are, or fewer.
<1>1. ASSUME journal' \union PendingRows' \subseteq journal \union PendingRows,
             chart \subseteq chart',
             \A c \in Calls : pc'[c] = "create" => Valid(Current(c)')
      PROVE  Screened'
  BY <1>1 DEF Screened
<1>2. ASSUME NEW c \in Calls, pc'[c] # "create",
             \A d \in Calls \ {c} : pc'[d] = pc[d] /\ script'[d] = script[d] /\ at'[d] = at[d]
      PROVE  \A d \in Calls : pc'[d] = "create" => Valid(Current(d)')
  BY <1>2 DEF Screened, Current
<1>3. ASSUME NEW c \in Calls, pending' = [pending EXCEPT ![c] = {}]
      PROVE  PendingRows' \subseteq PendingRows
  BY <1>3 DEF PendingRows, IInv, LedgerTypeOK
<1>4. ASSUME NEW c \in Calls, pc[c] # "idle", Throw(c) PROVE Screened'
  <2>1. pc'[c] = "threw" /\ \A d \in Calls \ {c} : pc'[d] = pc[d]
    BY <1>4 DEF Throw, IInv, LedgerTypeOK
  <2>2. journal' \union PendingRows' \subseteq journal \union PendingRows
    BY <1>3, <1>4 DEF Throw
  <2> QED
    BY <1>1, <1>2, <1>4, <2>1, <2>2 DEF Throw
<1>5. ASSUME NEW c \in Calls, Create(c) PROVE Screened'
  <2> DEFINE row == [entry |-> Booked(Current(c)), by |-> <<c, at[c]>>]
  <2>1. /\ pc[c] = "create" /\ Valid(Current(c))
        /\ AccountsOf(Current(c)) \subseteq chart
        /\ UNCHANGED <<journal, chart, script>>
    BY <1>5 DEF Create, Screened
  <2>2. script[c] \in Scripts /\ at[c] \in DOMAIN script[c]
    BY <2>1, ScriptOfCall DEF IInv, LedgerTypeOK
  <2>3. WellBooked(row.entry) /\ AccountsOf(row.entry) \subseteq chart
    BY <2>1, <2>2, BookedAccounts DEF WellBooked, Current
  <2>4. PendingRows' \subseteq PendingRows \union {row}
    BY <1>5 DEF Create, PendingRows, IInv, LedgerTypeOK
  <2>5. pc'[c] # "create" /\ \A d \in Calls \ {c} : pc'[d] = pc[d] /\ at'[d] = at[d]
    BY <1>5 DEF Create, Advance, IInv, LedgerTypeOK
  <2>6. \A d \in Calls : pc'[d] = "create" => Valid(Current(d)')
    BY <1>2, <2>1, <2>5
  <2> HIDE DEF row
  <2> QED
    BY <2>1, <2>3, <2>4, <2>6 DEF Screened
<1>6. ASSUME NEW c \in Calls, Step(c) PROVE Screened'
  <2>1. CASE RejectEntry(c)
    BY <1>4, <2>1 DEF RejectEntry
  <2>2. CASE FindExisting(c)
    <3>1. pc'[c] # "create" /\ \A d \in Calls \ {c} : pc'[d] = pc[d] /\ at'[d] = at[d]
      BY <2>2 DEF FindExisting, Advance, IInv, LedgerTypeOK
    <3> QED
      BY <1>1, <1>2, <2>2, <3>1 DEF FindExisting, PendingRows
  <2>3. CASE FindNothing(c)
    <3>1. \A d \in Calls : pc'[d] = "create" => Valid(Current(d)')
      BY <2>3 DEF FindNothing, Screened, Current, IInv, LedgerTypeOK
    <3> QED
      BY <1>1, <2>3, <3>1 DEF FindNothing, PendingRows
  <2>4. CASE RejectAccounts(c)
    BY <1>4, <2>4 DEF RejectAccounts
  <2>5. CASE Create(c)
    BY <1>5, <2>5
  <2>6. CASE CreateDuplicate(c)
    BY <1>4, <2>6 DEF CreateDuplicate
  <2>7. CASE Commit(c)
    <3>1. pc'[c] # "create" /\ \A d \in Calls \ {c} : pc'[d] = pc[d]
      BY <2>7 DEF Commit, IInv, LedgerTypeOK
    <3>2. journal' \union PendingRows' \subseteq journal \union PendingRows
      BY <1>3, <2>7 DEF Commit, PendingRows
    <3> QED
      BY <1>1, <1>2, <2>7, <3>1, <3>2 DEF Commit
  <2>8. CASE Acknowledge(c)
    <3>1. pc'[c] # "create" /\ \A d \in Calls \ {c} : pc'[d] = pc[d]
      BY <2>8 DEF Acknowledge, IInv, LedgerTypeOK
    <3> QED
      BY <1>1, <1>2, <2>8, <3>1 DEF Acknowledge, PendingRows
  <2> QED
    BY <1>6, <2>1, <2>2, <2>3, <2>4, <2>5, <2>6, <2>7, <2>8 DEF Step
<1>7. ASSUME NEW c \in Calls, Fault(c) PROVE Screened'
  BY <1>4, <1>7 DEF Fault, Abort, LoseAnswer, OpenTx
<1>8. ASSUME NEW c \in Calls, NEW s \in Scripts, Begin(c, s) PROVE Screened'
  <2>1. /\ pc'[c] # "create"
        /\ \A d \in Calls \ {c} : pc'[d] = pc[d] /\ script'[d] = script[d]
    BY <1>8 DEF Begin, IInv, LedgerTypeOK
  <2> QED
    BY <1>1, <1>2, <1>8, <2>1 DEF Begin, PendingRows
<1>9. ASSUME NEW a \in Chart, EnsureAccount(a) PROVE Screened'
  BY <1>9 DEF EnsureAccount, Screened, PendingRows, Current
<1>10. CASE UNCHANGED vars
  BY <1>10 DEF vars, Screened, PendingRows, Current
<1> QED
  BY <1>6, <1>7, <1>8, <1>9, <1>10 DEF Next

\* Nothing reaches the database that postEntry has not checked (post.ts:81-101).
THEOREM OnlyScreenedEntries == Spec => []Screened
<1>1. Init => Screened
  BY DEF Init, Screened, PendingRows
<1> QED
  BY <1>1, NextScreened, JournalInvariance, PTL DEF Spec

\* "Every journal entry's postings sum to zero" (docs/09-database.md:441), as
\* stored, and so does the trial balance, whatever commits it is read between.
THEOREM JournalBalances == Spec => []EntriesBalanced
<1>1. Screened => EntriesBalanced
  <2> SUFFICES ASSUME Screened PROVE EntriesBalanced
    OBVIOUS
  <2> DEFINE entries == {row.entry : row \in journal}
             sum(direction) == [e \in entries |-> Stored(e.postings, direction)]
  <2>1. \A row \in journal :
            /\ Stored(row.entry.postings, "DEBIT") = Stored(row.entry.postings, "CREDIT")
            /\ \A j \in DOMAIN row.entry.postings : row.entry.postings[j].amount > 0
    BY WellBookedBalances DEF Screened
  <2>2. \A row \in journal : \A j \in DOMAIN row.entry.postings :
            row.entry.postings[j].account \in chart
    BY DEF Screened, AccountsOf
  <2>3. sum("DEBIT") = sum("CREDIT")
    BY <2>1
  <2>4. TrialBalance(entries).balanced
    BY <2>3 DEF TrialBalance
  <2> QED
    BY <2>1, <2>2, <2>4 DEF EntriesBalanced
<1> QED
  BY <1>1, OnlyScreenedEntries, PTL

----------------------------------------------------------------------------
(* Amounts in whole paise.                                                 *)

WholePaise == {10 * k : k \in Int}

\* Rounding gives whole paise, and leaves whole paise alone.
LEMMA MoneyIsWhole ==
  ASSUME NEW n \in Int
  PROVE  /\ Money(n) \in WholePaise
         /\ n \in WholePaise => Money(n) = n
<1>1. Money(n) = 10 * ((n + 5) \div 10)
  BY DEF Money, MoneyOf
<1>2. (n + 5) \div 10 \in Int
  OBVIOUS
<1>3. ASSUME NEW k \in Int, n = 10 * k PROVE (n + 5) \div 10 = k
  BY <1>3
<1> QED
  BY <1>1, <1>2, <1>3 DEF WholePaise

LEMMA MoneyOfIsWhole ==
  ASSUME NEW n \in Nat, NEW den \in {100, 36500}
  PROVE  MoneyOf(n, den) \in WholePaise /\ MoneyOf(n, den) \in Nat
<1> DEFINE q == (n + 5 * den) \div (10 * den)
<1>1. MoneyOf(n, den) = 10 * q
  BY DEF MoneyOf
<1>2. q \in Nat
  OBVIOUS
<1> HIDE DEF q
<1> QED
  BY <1>1, <1>2 DEF WholePaise

\* Sums and differences of whole paise are whole.
LEMMA WholeArithmetic ==
  ASSUME NEW m \in WholePaise, NEW n \in WholePaise
  PROVE  /\ m + n \in WholePaise
         /\ m - n \in WholePaise
         /\ m \in Int
<1> PICK j \in Int, k \in Int : m = 10 * j /\ n = 10 * k
  BY DEF WholePaise
<1>1. m + n = 10 * (j + k) /\ m - n = 10 * (j - k)
  OBVIOUS
<1> QED
  BY <1>1 DEF WholePaise

\* What quoteEconomics returns.
LEMMA EconomicsOfDeal ==
  ASSUME NEW d \in Deals
  PROVE  LET e == Economics(d) IN
         /\ e.advance \in WholePaise /\ e.advance \in Nat
         /\ e.discount \in WholePaise /\ e.discount \in Nat
         /\ e.fee \in WholePaise /\ e.fee \in Nat
         /\ e.netCash = e.advance - e.discount - e.fee /\ e.netCash \in WholePaise
         /\ e.discount + e.fee \in WholePaise
         /\ e.advance - e.discount \in WholePaise
<1> DEFINE advance == MoneyOf(d.face * d.advanceRate, 100)
           discount == MoneyOf(advance * d.annualRate * d.tenor, 100 * 365)
           fee == Money(d.fee)
<1>1. /\ d.face \in Nat /\ d.advanceRate \in Nat /\ d.annualRate \in Nat
      /\ d.tenor \in Nat /\ d.fee \in Nat
  BY DealsAssumption
<1>2. advance \in WholePaise /\ advance \in Nat
  <2>1. d.face * d.advanceRate \in Nat
    BY <1>1
  <2> QED
    BY <2>1, MoneyOfIsWhole
<1>3. discount \in WholePaise /\ discount \in Nat
  <2> HIDE DEF advance
  <2>1. advance * d.annualRate \in Nat
    BY <1>1, <1>2
  <2>2. advance * d.annualRate * d.tenor \in Nat
    BY <1>1, <2>1
  <2>3. 100 * 365 = 36500
    OBVIOUS
  <2> QED
    BY <2>2, <2>3, MoneyOfIsWhole
<1>4. fee \in WholePaise /\ fee \in Nat
  <2>1. fee \in WholePaise
    BY <1>1, MoneyIsWhole
  <2>2. fee \in Nat
    BY <1>1 DEF Money, MoneyOf
  <2> QED
    BY <2>1, <2>2
<1>5. /\ Economics(d).advance = advance
      /\ Economics(d).discount = discount
      /\ Economics(d).fee = fee
      /\ Economics(d).netCash = advance - discount - fee
  BY DEF Economics
<1> HIDE DEF advance, discount, fee
<1> QED
  BY <1>2, <1>3, <1>4, <1>5, WholeArithmetic

----------------------------------------------------------------------------
(* Netting postings.                                                       *)

\* Postings in whole paise to some accounts.
Legs(accounts) ==
    [amount : WholePaise, account : accounts, direction : {"DEBIT", "CREDIT"}]

\* What a posting adds to the net of some accounts.
Signed(p, accounts) ==
    IF p.account \notin accounts THEN 0
    ELSE IF p.direction = "DEBIT" THEN p.amount ELSE -p.amount

LEMMA SignedIsInt ==
  ASSUME NEW Z, NEW p \in Legs(Z), NEW A
  PROVE  Signed(p, A) \in Int
BY WholeArithmetic DEF Legs, Signed

LEMMA NetOfNone == ASSUME NEW A PROVE NetOf(<<>>, A) = 0
<1> DEFINE f == [i \in DOMAIN <<>> |-> Signed(<<>>[i], A)]
<1>1. DOMAIN f = {}
  OBVIOUS
<1>2. NetOf(<<>>, A) = SumFunctionOnSet(f, DOMAIN f)
  BY DEF NetOf, SumFunction, Signed
<1> QED
  BY <1>1, <1>2, SumOfNone

\* The net of the postings is a sum over their places.
LEMMA NetOfIsSum ==
  ASSUME NEW Z, NEW s \in Seq(Legs(Z)), NEW A, NEW f, NEW n \in Nat, Len(s) = n,
         \A i \in 1..n : f[i] = Signed(s[i], A)
  PROVE  Summable(f, 1..n) /\ NetOf(s, A) = SumFunctionOnSet(f, 1..n)
<1> DEFINE g == [i \in DOMAIN s |-> Signed(s[i], A)]
<1>1. DOMAIN g = 1..n
  OBVIOUS
<1>2. NetOf(s, A) = SumFunctionOnSet(g, 1..n)
  <2>1. NetOf(s, A) = SumFunction(g)
    BY DEF NetOf, Signed
  <2> HIDE DEF g
  <2> QED
    BY <1>1, <2>1 DEF SumFunction
<1>3. \A i \in 1..n : f[i] = g[i] /\ f[i] \in Int
  BY SignedIsInt
<1>4. Summable(f, 1..n)
  BY <1>3, FS_Interval DEF Summable
<1> HIDE DEF g
<1>5. SumFunctionOnSet(f, 1..n) = SumFunctionOnSet(g, 1..n)
  BY <1>3, <1>4, SumSame
<1> QED
  BY <1>2, <1>4, <1>5

\* One posting more.
LEMMA NetOfAppend ==
  ASSUME NEW Z, NEW s \in Seq(Legs(Z)), NEW p \in Legs(Z), NEW A
  PROVE  /\ Append(s, p) \in Seq(Legs(Z))
         /\ NetOf(Append(s, p), A) = NetOf(s, A) + Signed(p, A)
         /\ NetOf(s, A) \in Int
<1> DEFINE n == Len(s)
           t == Append(s, p)
           f == [i \in 1..(n + 1) |-> Signed(t[i], A)]
<1>1. n \in Nat /\ t \in Seq(Legs(Z)) /\ Len(t) = n + 1
  OBVIOUS
<1>2. t[n + 1] = p /\ \A i \in 1..n : t[i] = s[i]
  OBVIOUS
<1> HIDE DEF t, n
<1>3. Len(s) = n /\ (\A i \in 1..n : f[i] = Signed(s[i], A)) /\ f[n + 1] = Signed(p, A)
      /\ \A i \in 1..(n + 1) : f[i] = Signed(t[i], A)
  BY <1>1, <1>2 DEF n
<1> HIDE DEF f
<1>4. Summable(f, 1..n) /\ NetOf(s, A) = SumFunctionOnSet(f, 1..n)
  BY <1>1, <1>3, NetOfIsSum
<1>5. NetOf(t, A) = SumFunctionOnSet(f, 1..(n + 1))
  <2> DEFINE m == n + 1
  <2>1. m \in Nat /\ Len(t) = m /\ t \in Seq(Legs(Z)) /\ \A i \in 1..m : f[i] = Signed(t[i], A)
    BY <1>1, <1>3
  <2> HIDE DEF m
  <2>2. NetOf(t, A) = SumFunctionOnSet(f, 1..m)
    BY <2>1, NetOfIsSum
  <2> QED
    BY <2>2 DEF m
<1>6. 1..(n + 1) = (1..n) \union {n + 1} /\ n + 1 \notin 1..n
  BY <1>1
<1>7. Signed(p, A) \in Int
  BY SignedIsInt
<1>8. SumFunctionOnSet(f, 1..(n + 1)) = f[n + 1] + SumFunctionOnSet(f, 1..n)
  BY <1>3, <1>4, <1>6, <1>7, SumAdd
<1>9. NetOf(s, A) \in Int
  BY <1>4, SumIsInt
<1>10. NetOf(t, A) = NetOf(s, A) + Signed(p, A)
  BY <1>3, <1>4, <1>5, <1>7, <1>8, <1>9
<1> QED
  BY <1>1, <1>9, <1>10 DEF t

\* What is booked of an amount to an account, if it is one of those netted.
Leg(accounts, account, amount) == IF account \in accounts THEN amount ELSE 0

\* A posting that is filtered out when its amount is not positive.
IfPositive(amount) == IF amount > 0 THEN amount ELSE 0

\* Postings to accounts of Z that come to n on those of A.
Nets(s, Z, A, n) == s \in Seq(Legs(Z)) /\ n \in Int /\ NetOf(s, A) = n

LEMMA NetOfDebit ==
  ASSUME NEW Z, NEW A, NEW s, NEW n, Nets(s, Z, A, n), NEW a \in Z, NEW x \in WholePaise
  PROVE  Nets(s \o Positive(Debit(a, x)), Z, A, n + Leg(A, a, IfPositive(x)))
<1>1. Debit(a, x) \in Legs(Z) /\ Signed(Debit(a, x), A) = Leg(A, a, x)
  BY DEF Debit, Legs, Signed, Leg
<1>2. Debit(a, x).amount = x /\ x \in Int /\ s \in Seq(Legs(Z)) /\ n \in Int
  BY WholeArithmetic DEF Debit, Nets
<1>3. /\ Append(s, Debit(a, x)) \in Seq(Legs(Z))
      /\ NetOf(Append(s, Debit(a, x)), A) = n + Leg(A, a, x)
  BY <1>1, <1>2, NetOfAppend DEF Nets
<1>4. CASE x > 0
  <2>1. s \o Positive(Debit(a, x)) = Append(s, Debit(a, x))
    BY <1>2, <1>4 DEF Positive
  <2> QED
    BY <1>2, <1>3, <1>4, <2>1 DEF IfPositive, Leg, Nets
<1>5. CASE ~(x > 0)
  <2>1. s \o Positive(Debit(a, x)) = s
    BY <1>2, <1>5 DEF Positive
  <2> QED
    BY <1>2, <1>5, <2>1 DEF IfPositive, Leg, Nets
<1> QED
  BY <1>4, <1>5

LEMMA NetOfCredit ==
  ASSUME NEW Z, NEW A, NEW s, NEW n, Nets(s, Z, A, n), NEW a \in Z, NEW x \in WholePaise
  PROVE  Nets(s \o Positive(Credit(a, x)), Z, A, n + Leg(A, a, -IfPositive(x)))
<1>1. Credit(a, x) \in Legs(Z) /\ Signed(Credit(a, x), A) = Leg(A, a, -x)
  BY WholeArithmetic DEF Credit, Legs, Signed, Leg
<1>2. Credit(a, x).amount = x /\ x \in Int /\ s \in Seq(Legs(Z)) /\ n \in Int
  BY WholeArithmetic DEF Credit, Nets
<1>3. /\ Append(s, Credit(a, x)) \in Seq(Legs(Z))
      /\ NetOf(Append(s, Credit(a, x)), A) = n + Leg(A, a, -x)
  BY <1>1, <1>2, NetOfAppend DEF Nets, Leg
<1>4. CASE x > 0
  <2>1. s \o Positive(Credit(a, x)) = Append(s, Credit(a, x))
    BY <1>2, <1>4 DEF Positive
  <2> QED
    BY <1>2, <1>3, <1>4, <2>1 DEF IfPositive, Leg, Nets
<1>5. CASE ~(x > 0)
  <2>1. s \o Positive(Credit(a, x)) = s
    BY <1>2, <1>5 DEF Positive
  <2> QED
    BY <1>2, <1>5, <2>1 DEF IfPositive, Leg, Nets
<1> QED
  BY <1>4, <1>5

----------------------------------------------------------------------------
(* What the entry of each flow nets to, for any accounts.                  *)

\* The accounts a deal's flows post to.
AccountsOfDeal(d) ==
    {Account(party, name) : party \in {d.supplier, d.provider, d.buyer, Platform},
                            name \in AccountNames}

LEMMA NamesOfAccounts ==
  {"cash", "invoice_receivable", "financing_expense", "funded_receivable",
   "encumbered_capital", "escrow_cash", "discount_income", "payable", "fee_income",
   "escrow_payable"} \subseteq AccountNames
BY DEF AccountNames, DebitNormal

DisbursementNet(d, A) ==
    LET e == Economics(d) IN
        0 + Leg(A, Account(d.supplier, "cash"), IfPositive(e.netCash))
          + Leg(A, Account(d.supplier, "financing_expense"), IfPositive(e.discount + e.fee))
          + Leg(A, Account(d.supplier, "invoice_receivable"), -IfPositive(e.advance))
          + Leg(A, Account(d.provider, "funded_receivable"), IfPositive(e.advance))
          + Leg(A, Account(d.provider, "cash"), -IfPositive(e.advance - e.discount))
          + Leg(A, Account(d.provider, "discount_income"), -IfPositive(e.discount))
          + Leg(A, Account(Platform, "cash"), IfPositive(e.fee))
          + Leg(A, Account(Platform, "fee_income"), -IfPositive(e.fee))

LEMMA DisbursementNets ==
  ASSUME NEW d \in Deals, NEW A
  PROVE  Nets(Disbursement(d).postings, AccountsOfDeal(d), A, DisbursementNet(d, A))
<1> DEFINE Z == AccountsOfDeal(d)
           e == Economics(d)
           x1 == e.netCash
           x2 == e.discount + e.fee
           x3 == e.advance
           x5 == e.advance - e.discount
           x6 == e.discount
           x7 == e.fee
           a1 == Account(d.supplier, "cash")
           a2 == Account(d.supplier, "financing_expense")
           a3 == Account(d.supplier, "invoice_receivable")
           a4 == Account(d.provider, "funded_receivable")
           a5 == Account(d.provider, "cash")
           a6 == Account(d.provider, "discount_income")
           a7 == Account(Platform, "cash")
           a8 == Account(Platform, "fee_income")
           s0 == <<>>
           s1 == s0 \o Positive(Debit(a1, x1))
           s2 == s1 \o Positive(Debit(a2, x2))
           s3 == s2 \o Positive(Credit(a3, x3))
           s4 == s3 \o Positive(Debit(a4, x3))
           s5 == s4 \o Positive(Credit(a5, x5))
           s6 == s5 \o Positive(Credit(a6, x6))
           s7 == s6 \o Positive(Debit(a7, x7))
           s8 == s7 \o Positive(Credit(a8, x7))
           n1 == 0 + Leg(A, a1, IfPositive(x1))
           n2 == n1 + Leg(A, a2, IfPositive(x2))
           n3 == n2 + Leg(A, a3, -IfPositive(x3))
           n4 == n3 + Leg(A, a4, IfPositive(x3))
           n5 == n4 + Leg(A, a5, -IfPositive(x5))
           n6 == n5 + Leg(A, a6, -IfPositive(x6))
           n7 == n6 + Leg(A, a7, IfPositive(x7))
           n8 == n7 + Leg(A, a8, -IfPositive(x7))
<1>1. {x1, x2, x3, x5, x6, x7} \subseteq WholePaise
  BY EconomicsOfDeal
<1>2. {a1, a2, a3, a4, a5, a6, a7, a8} \subseteq Z
  BY NamesOfAccounts DEF AccountsOfDeal
<1>3. Disbursement(d).postings = s8
  BY DEF Disbursement
<1>4. DisbursementNet(d, A) = n8
  BY DEF DisbursementNet
<1>5. Nets(s0, Z, A, 0)
  BY NetOfNone DEF Nets
<1> HIDE DEF e, Z, x1, x2, x3, x5, x6, x7, a1, a2, a3, a4, a5, a6, a7, a8,
         s0, s1, s2, s3, s4, s5, s6, s7, s8, n1, n2, n3, n4, n5, n6, n7, n8
<1>11. Nets(s1, Z, A, n1)
  BY <1>1, <1>2, <1>5, NetOfDebit DEF s1, n1
<1>12. Nets(s2, Z, A, n2)
  BY <1>1, <1>2, <1>11, NetOfDebit DEF s2, n2
<1>13. Nets(s3, Z, A, n3)
  BY <1>1, <1>2, <1>12, NetOfCredit DEF s3, n3
<1>14. Nets(s4, Z, A, n4)
  BY <1>1, <1>2, <1>13, NetOfDebit DEF s4, n4
<1>15. Nets(s5, Z, A, n5)
  BY <1>1, <1>2, <1>14, NetOfCredit DEF s5, n5
<1>16. Nets(s6, Z, A, n6)
  BY <1>1, <1>2, <1>15, NetOfCredit DEF s6, n6
<1>17. Nets(s7, Z, A, n7)
  BY <1>1, <1>2, <1>16, NetOfDebit DEF s7, n7
<1>18. Nets(s8, Z, A, n8)
  BY <1>1, <1>2, <1>17, NetOfCredit DEF s8, n8
<1> QED
  BY <1>3, <1>4, <1>18 DEF Z

\* Money that moves from one account to another.
Transfer(a, b, x) == <<Debit(a, x), Credit(b, x)>>

LEMMA NetOfTransfer ==
  ASSUME NEW Z, NEW A, NEW s, NEW n, Nets(s, Z, A, n),
         NEW a \in Z, NEW b \in Z, NEW x \in WholePaise
  PROVE  Nets(s \o Transfer(a, b, x), Z, A, n + Leg(A, a, x) + Leg(A, b, -x))
<1> DEFINE p == Debit(a, x)
           q == Credit(b, x)
           t == Append(s, p)
<1>1. /\ p \in Legs(Z) /\ Signed(p, A) = Leg(A, a, x)
      /\ q \in Legs(Z) /\ Signed(q, A) = Leg(A, b, -x)
  BY WholeArithmetic DEF Debit, Credit, Legs, Signed, Leg
<1>2. x \in Int /\ s \in Seq(Legs(Z)) /\ n \in Int /\ NetOf(s, A) = n
  BY WholeArithmetic DEF Nets
<1>3. s \o Transfer(a, b, x) = Append(t, q)
  <2> HIDE DEF p, q
  <2>1. Transfer(a, b, x) = <<p, q>>
    BY DEF Transfer, p, q
  <2> QED
    BY <1>1, <1>2, <2>1
<1> HIDE DEF p, q
<1>4. t \in Seq(Legs(Z)) /\ NetOf(t, A) = n + Leg(A, a, x)
  BY <1>1, <1>2, NetOfAppend
<1> HIDE DEF t
<1>5. Append(t, q) \in Seq(Legs(Z)) /\ NetOf(Append(t, q), A) = NetOf(t, A) + Leg(A, b, -x)
  BY <1>1, <1>4, NetOfAppend
<1>6. Leg(A, a, x) \in Int /\ Leg(A, b, -x) \in Int
  BY <1>2 DEF Leg
<1> QED
  BY <1>2, <1>3, <1>4, <1>5, <1>6 DEF Nets

\* The places of a concatenation.
LEMMA ConcatenationPlaces ==
  ASSUME NEW S, NEW u \in Seq(S), NEW v \in Seq(S)
  PROVE  /\ u \o v \in Seq(S)
         /\ Len(u \o v) = Len(u) + Len(v)
         /\ \A i \in 1..Len(u) : (u \o v)[i] = u[i]
         /\ \A i \in 1..Len(v) : (u \o v)[Len(u) + i] = v[i]
OBVIOUS

\* Two transfers, one after the other.
LEMMA Joined ==
  ASSUME NEW p, NEW q, NEW r, NEW t
  PROVE  (<<>> \o <<p, q>>) \o <<r, t>> = <<p, q, r, t>>
<1> DEFINE S == {p, q, r, t}
           u == <<p, q>>
           v == <<r, t>>
<1>1. <<>> \o u = u
  OBVIOUS
<1>2. u \in Seq(S) /\ v \in Seq(S) /\ Len(u) = 2 /\ Len(v) = 2
  OBVIOUS
<1>3. u[1] = p /\ u[2] = q /\ v[1] = r /\ v[2] = t
  OBVIOUS
<1> HIDE DEF u, v, S
<1> DEFINE w == u \o v
<1>4. /\ w \in Seq(S)
      /\ Len(w) = Len(u) + Len(v)
      /\ \A i \in 1..Len(u) : w[i] = u[i]
      /\ \A i \in 1..Len(v) : w[Len(u) + i] = v[i]
  BY <1>2, ConcatenationPlaces
<1> HIDE DEF w
<1>8. Len(w) = 4 /\ w[1] = p /\ w[2] = q /\ w[3] = r /\ w[4] = t
  BY <1>2, <1>3, <1>4
<1>9. w \in Seq(S)
  BY <1>4
<1>10. w = <<p, q, r, t>>
  BY <1>8, <1>9
<1> QED BY <1>1, <1>10 DEF u, v, w

BuyerPaymentNet(d, paid, A) ==
    0 + Leg(A, Account(d.buyer, "payable"), Money(paid))
      + Leg(A, Account(d.buyer, "cash"), -Money(paid))
      + Leg(A, Account(Platform, "escrow_cash"), Money(paid))
      + Leg(A, Account(Platform, "escrow_payable"), -Money(paid))

LEMMA BuyerPaymentNets ==
  ASSUME NEW d \in Deals, NEW paid \in Int, NEW A
  PROVE  Nets(BuyerPayment(d, paid).postings, AccountsOfDeal(d), A, BuyerPaymentNet(d, paid, A))
<1> DEFINE Z == AccountsOfDeal(d)
           x == Money(paid)
           a1 == Account(d.buyer, "payable")
           a2 == Account(d.buyer, "cash")
           a3 == Account(Platform, "escrow_cash")
           a4 == Account(Platform, "escrow_payable")
           s0 == <<>>
           s1 == s0 \o Transfer(a1, a2, x)
           s2 == s1 \o Transfer(a3, a4, x)
           n1 == 0 + Leg(A, a1, x) + Leg(A, a2, -x)
           n2 == n1 + Leg(A, a3, x) + Leg(A, a4, -x)
<1>1. x \in WholePaise
  BY MoneyIsWhole
<1>2. {a1, a2, a3, a4} \subseteq Z
  BY NamesOfAccounts DEF AccountsOfDeal
<1>3. BuyerPayment(d, paid).postings = s2
  <2>1. BuyerPayment(d, paid).postings =
          <<Debit(a1, x), Credit(a2, x), Debit(a3, x), Credit(a4, x)>>
    BY DEF BuyerPayment
  <2> DEFINE p1 == Debit(a1, x)
             p2 == Credit(a2, x)
             p3 == Debit(a3, x)
             p4 == Credit(a4, x)
  <2>2. Transfer(a1, a2, x) = <<p1, p2>> /\ Transfer(a3, a4, x) = <<p3, p4>>
    BY DEF Transfer
  <2> HIDE DEF p1, p2, p3, p4
  <2>3. (<<>> \o <<p1, p2>>) \o <<p3, p4>> = <<p1, p2, p3, p4>>
    BY Joined
  <2> QED
    BY <2>1, <2>2, <2>3 DEF p1, p2, p3, p4
<1>4. BuyerPaymentNet(d, paid, A) = n2
  BY DEF BuyerPaymentNet
<1>5. Nets(s0, Z, A, 0)
  BY NetOfNone DEF Nets
<1> HIDE DEF Z, x, a1, a2, a3, a4, s0, s1, s2, n1, n2
<1>6. Nets(s1, Z, A, n1)
  BY <1>1, <1>2, <1>5, NetOfTransfer DEF s1, n1
<1>7. Nets(s2, Z, A, n2)
  BY <1>1, <1>2, <1>6, NetOfTransfer DEF s2, n2
<1> QED
  BY <1>3, <1>4, <1>7 DEF Z

\* What a release gives the provider and the supplier.
ToProvider(d, n) ==
    IF Money(n) <= Economics(d).advance THEN Money(n) ELSE Economics(d).advance
ToSupplier(d, n) == Money(n) - ToProvider(d, n)

ReserveReleaseNet(d, n, A) ==
    0 + Leg(A, Account(Platform, "escrow_payable"), Money(n))
      + Leg(A, Account(Platform, "escrow_cash"), -Money(n))
      + Leg(A, Account(d.provider, "cash"), ToProvider(d, n))
      + Leg(A, Account(d.provider, "funded_receivable"), -ToProvider(d, n))
      + Leg(A, Account(d.supplier, "cash"), IfPositive(ToSupplier(d, n)))
      + Leg(A, Account(d.supplier, "invoice_receivable"), -IfPositive(ToSupplier(d, n)))

LEMMA SharesOfRelease ==
  ASSUME NEW d \in Deals, NEW n \in Int
  PROVE  /\ Money(n) \in WholePaise /\ Money(n) \in Int
         /\ ToProvider(d, n) \in WholePaise /\ ToProvider(d, n) \in Int
         /\ ToSupplier(d, n) \in WholePaise /\ ToSupplier(d, n) \in Int
         /\ Money(Economics(d).advance) = Economics(d).advance
<1>1. Money(n) \in WholePaise /\ Economics(d).advance \in WholePaise
  BY MoneyIsWhole, EconomicsOfDeal
<1>2. ToProvider(d, n) \in WholePaise
  BY <1>1 DEF ToProvider
<1>3. Economics(d).advance \in Int
  BY <1>1, WholeArithmetic
<1> QED
  BY <1>1, <1>2, <1>3, WholeArithmetic, MoneyIsWhole DEF ToSupplier

LEMMA ReserveReleaseNets ==
  ASSUME NEW d \in Deals, NEW n \in Int, NEW A
  PROVE  Nets(ReserveRelease(d, n, Economics(d).advance).postings, AccountsOfDeal(d), A,
              ReserveReleaseNet(d, n, A))
<1> DEFINE Z == AccountsOfDeal(d)
           x == Money(n)
           y == ToProvider(d, n)
           z == ToSupplier(d, n)
           a1 == Account(Platform, "escrow_payable")
           a2 == Account(Platform, "escrow_cash")
           a3 == Account(d.provider, "cash")
           a4 == Account(d.provider, "funded_receivable")
           a5 == Account(d.supplier, "cash")
           a6 == Account(d.supplier, "invoice_receivable")
           s0 == <<>>
           s1 == s0 \o Transfer(a1, a2, x)
           s2 == s1 \o Transfer(a3, a4, y)
           s3 == IF z > 0 THEN s2 \o Transfer(a5, a6, z) ELSE s2
           n1 == 0 + Leg(A, a1, x) + Leg(A, a2, -x)
           n2 == n1 + Leg(A, a3, y) + Leg(A, a4, -y)
           n3 == n2 + Leg(A, a5, IfPositive(z)) + Leg(A, a6, -IfPositive(z))
<1>1. {x, y, z} \subseteq WholePaise /\ z \in Int
  BY SharesOfRelease
<1>2. {a1, a2, a3, a4, a5, a6} \subseteq Z
  BY NamesOfAccounts DEF AccountsOfDeal
<1>3. ReserveRelease(d, n, Economics(d).advance).postings = s3
  <2> DEFINE p1 == Debit(a1, x)
             p2 == Credit(a2, x)
             p3 == Debit(a3, y)
             p4 == Credit(a4, y)
             p5 == Debit(a5, z)
             p6 == Credit(a6, z)
             rest == IF z > 0 THEN <<p5, p6>> ELSE <<>>
  <2>1. ReserveRelease(d, n, Economics(d).advance).postings = <<p1, p2, p3, p4>> \o rest
    BY SharesOfRelease DEF ReserveRelease, ToProvider, ToSupplier
  <2>2. /\ Transfer(a1, a2, x) = <<p1, p2>>
        /\ Transfer(a3, a4, y) = <<p3, p4>>
        /\ Transfer(a5, a6, z) = <<p5, p6>>
    BY DEF Transfer
  <2> HIDE DEF p1, p2, p3, p4, p5, p6, x, y, z
  <2>3. (<<>> \o <<p1, p2>>) \o <<p3, p4>> = <<p1, p2, p3, p4>>
    BY Joined
  <2>4. <<p1, p2, p3, p4>> \o <<>> = <<p1, p2, p3, p4>>
    OBVIOUS
  <2> QED
    BY <2>1, <2>2, <2>3, <2>4
<1>4. ReserveReleaseNet(d, n, A) = n3
  BY DEF ReserveReleaseNet
<1>5. Nets(s0, Z, A, 0)
  BY NetOfNone DEF Nets
<1> HIDE DEF Z, x, y, z, a1, a2, a3, a4, a5, a6, s0, s1, s2, s3, n1, n2, n3
<1>6. Nets(s1, Z, A, n1)
  BY <1>1, <1>2, <1>5, NetOfTransfer DEF s1, n1
<1>7. Nets(s2, Z, A, n2)
  BY <1>1, <1>2, <1>6, NetOfTransfer DEF s2, n2
<1>8. CASE z > 0
  <2>1. Nets(s2 \o Transfer(a5, a6, z), Z, A, n2 + Leg(A, a5, z) + Leg(A, a6, -z))
    BY <1>1, <1>2, <1>7, NetOfTransfer
  <2>2. s3 = s2 \o Transfer(a5, a6, z) /\ IfPositive(z) = z
    BY <1>8 DEF s3, IfPositive
  <2>3. Nets(s3, Z, A, n3)
    BY <2>1, <2>2 DEF n3
  <2> QED
    BY <1>3, <1>4, <2>3 DEF Z
<1>9. CASE ~(z > 0)
  <2>1. s3 = s2 /\ IfPositive(z) = 0
    BY <1>9 DEF s3, IfPositive
  <2>2. n3 = n2
    BY <1>7, <2>1 DEF n3, Leg, Nets
  <2> QED
    BY <1>3, <1>4, <1>7, <2>1, <2>2 DEF Z
<1> QED
  BY <1>8, <1>9

\* A hold, and the release of one.
LEMMA HoldNets ==
  ASSUME NEW d \in Deals, NEW n \in Int, NEW A
  PROVE  /\ Nets(EscrowHold(d, n).postings, AccountsOfDeal(d), A,
                 0 + Leg(A, Account(d.provider, "encumbered_capital"), Money(n))
                   + Leg(A, Account(d.provider, "cash"), -Money(n)))
         /\ Nets(EscrowRelease(d, n).postings, AccountsOfDeal(d), A,
                 0 + Leg(A, Account(d.provider, "cash"), Money(n))
                   + Leg(A, Account(d.provider, "encumbered_capital"), -Money(n)))
<1> DEFINE Z == AccountsOfDeal(d)
           x == Money(n)
           a == Account(d.provider, "encumbered_capital")
           b == Account(d.provider, "cash")
           s0 == <<>>
<1>1. x \in WholePaise
  BY MoneyIsWhole
<1>2. {a, b} \subseteq Z
  BY NamesOfAccounts DEF AccountsOfDeal
<1>3. /\ EscrowHold(d, n).postings = <<>> \o Transfer(a, b, x)
      /\ EscrowRelease(d, n).postings = <<>> \o Transfer(b, a, x)
  BY DEF EscrowHold, EscrowRelease, Transfer
<1>4. Nets(s0, Z, A, 0)
  BY NetOfNone DEF Nets
<1> HIDE DEF Z, x, a, b, s0
<1>5. Nets(s0 \o Transfer(a, b, x), Z, A, 0 + Leg(A, a, x) + Leg(A, b, -x))
  BY <1>1, <1>2, <1>4, NetOfTransfer
<1>6. Nets(s0 \o Transfer(b, a, x), Z, A, 0 + Leg(A, b, x) + Leg(A, a, -x))
  BY <1>1, <1>2, <1>4, NetOfTransfer
<1> QED
  BY <1>3, <1>5, <1>6 DEF Z, x, a, b, s0

----------------------------------------------------------------------------
(* What is booked of a flow.                                               *)

\* The postings of a flow are in whole paise.
LEMMA FlowLegs ==
  ASSUME NEW f \in Flows
  PROVE  \E d \in Deals : f.postings \in Seq(Legs(AccountsOfDeal(d)))
<1>1. ASSUME NEW d \in Deals, f = Disbursement(d) PROVE f.postings \in Seq(Legs(AccountsOfDeal(d)))
  BY <1>1, DisbursementNets DEF Nets
<1>2. ASSUME NEW d \in Deals, NEW n \in Amounts,
             f \in {BuyerPayment(d, n), ReserveRelease(d, n, Economics(d).advance),
                    EscrowHold(d, n), EscrowRelease(d, n)}
      PROVE  f.postings \in Seq(Legs(AccountsOfDeal(d)))
  <2>1. n \in Int
    BY DealsAssumption
  <2> QED
    BY <1>2, <2>1, BuyerPaymentNets, ReserveReleaseNets, HoldNets DEF Nets
<1> QED
  BY <1>1, <1>2 DEF Flows

LEMMA NetOfIsInt ==
  ASSUME NEW Z, NEW s \in Seq(Legs(Z)), NEW A
  PROVE  NetOf(s, A) \in Int
<1> DEFINE n == Len(s)
           f == [i \in 1..n |-> Signed(s[i], A)]
<1>1. n \in Nat /\ Len(s) = n /\ \A i \in 1..n : f[i] = Signed(s[i], A)
  OBVIOUS
<1> HIDE DEF n, f
<1>2. Summable(f, 1..n) /\ NetOf(s, A) = SumFunctionOnSet(f, 1..n)
  BY <1>1, NetOfIsSum
<1> QED
  BY <1>2, SumIsInt

\* Rounding changes nothing of it.
LEMMA BookedNets ==
  ASSUME NEW s \in Scripts, NEW i \in DOMAIN s, NEW Z, s[i].postings \in Seq(Legs(Z)), NEW A
  PROVE  NetOf(Booked(s[i]).postings, A) = NetOf(s[i].postings, A)
<1> DEFINE p == s[i].postings
           b == Booked(s[i]).postings
           net(t) == [j \in DOMAIN t |-> Signed(t[j], A)]
<1>1. /\ DOMAIN b = DOMAIN p
      /\ \A j \in DOMAIN p : /\ b[j].amount = Money(p[j].amount)
                             /\ b[j].direction = p[j].direction
                             /\ b[j].account = p[j].account
  BY BookedPostings
<1>2. \A j \in DOMAIN p : p[j].amount \in WholePaise
  <2> HIDE DEF p
  <2>1. p \in Seq(Legs(Z))
    BY DEF p
  <2>2. \A j \in DOMAIN p : p[j] \in Legs(Z)
    BY <2>1
  <2> QED
    BY <2>2 DEF Legs
<1>3. \A j \in DOMAIN p : Money(p[j].amount) = p[j].amount
  BY <1>2, MoneyIsWhole, WholeArithmetic
<1> HIDE DEF p, b
<1>4. net(b) = net(p)
  BY <1>1, <1>3 DEF Signed
<1>5. NetOf(b, A) = SumFunction(net(b)) /\ NetOf(p, A) = SumFunction(net(p))
  BY DEF NetOf, Signed
<1> QED
  BY <1>4, <1>5 DEF p, b

\* An entry that postEntry lets pass nets to nothing over all its accounts.
LEMMA ValidNetsNothing ==
  ASSUME NEW f, Valid(f), NEW Z, f.postings \in Seq(Legs(Z))
  PROVE  NetOf(f.postings, Z) = 0
<1> DEFINE p == f.postings
           n == Len(p)
           debits == [j \in DOMAIN p |-> IF p[j].direction = "DEBIT" THEN Money(p[j].amount) ELSE 0]
           credits == [j \in DOMAIN p |-> IF p[j].direction = "CREDIT" THEN Money(p[j].amount) ELSE 0]
           net == [j \in DOMAIN p |-> Signed(p[j], Z)]
<1>1. p \in Seq(Legs(Z)) /\ n \in Nat /\ DOMAIN p = 1..n
  OBVIOUS
<1>2. SumFunction(debits) = SumFunction(credits)
  <2>1. Total(p, "DEBIT") = SumFunction(debits) /\ Total(p, "CREDIT") = SumFunction(credits)
    BY DEF Total
  <2> QED
    BY <2>1 DEF Valid, Balanced
<1>3. NetOf(p, Z) = SumFunction(net)
  BY DEF NetOf, Signed
<1> HIDE DEF p
<1>4. \A j \in DOMAIN p : p[j] \in Legs(Z)
  BY <1>1
<1>5. \A j \in DOMAIN p : /\ p[j].amount \in Int
                         /\ Money(p[j].amount) = p[j].amount
                         /\ p[j].account \in Z
                         /\ p[j].direction \in {"DEBIT", "CREDIT"}
  BY <1>4, WholeArithmetic, MoneyIsWhole DEF Legs
<1>6. \A j \in 1..n : /\ net[j] \in Int /\ credits[j] \in Int /\ debits[j] \in Int
                     /\ debits[j] = net[j] + credits[j]
  BY <1>1, <1>5 DEF Signed
<1>7. DOMAIN debits = 1..n /\ DOMAIN credits = 1..n /\ DOMAIN net = 1..n
  BY <1>1
<1> HIDE DEF debits, credits, net
<1>8. Summable(debits, 1..n) /\ Summable(net, 1..n) /\ Summable(credits, 1..n)
  <2>1. IsFiniteSet(1..n)
    BY <1>1, FS_Interval
  <2> QED
    BY <1>6, <2>1 DEF Summable
<1>9. SumFunctionOnSet(debits, 1..n) = SumFunctionOnSet(net, 1..n) + SumFunctionOnSet(credits, 1..n)
  BY <1>6, <1>8, SumPlus
<1>10. /\ SumFunctionOnSet(net, 1..n) \in Int
       /\ SumFunctionOnSet(credits, 1..n) \in Int
  BY <1>8, SumIsInt
<1>11. SumFunctionOnSet(debits, 1..n) = SumFunctionOnSet(credits, 1..n)
  BY <1>2, <1>7 DEF SumFunction
<1>12. SumFunctionOnSet(net, 1..n) = 0
  BY <1>9, <1>10, <1>11
<1> QED
  BY <1>3, <1>7, <1>12 DEF SumFunction, p

\* So a disbursement that passes gives the supplier no less than nothing, and
\* what the provider keeps is not above its advance.
LEMMA DisbursementWithinAdvance ==
  ASSUME NEW d \in Deals, Valid(Disbursement(d))
  PROVE  Economics(d).netCash >= 0 /\ Economics(d).advance - Economics(d).discount >= 0
<1> DEFINE Z == AccountsOfDeal(d)
           e == Economics(d)
<1>1. Disbursement(d).postings \in Seq(Legs(Z)) /\ DisbursementNet(d, Z) = 0
  BY DisbursementNets, ValidNetsNothing DEF Nets
<1>2. {Account(d.supplier, "cash"), Account(d.supplier, "financing_expense"),
       Account(d.supplier, "invoice_receivable"), Account(d.provider, "funded_receivable"),
       Account(d.provider, "cash"), Account(d.provider, "discount_income"),
       Account(Platform, "cash"), Account(Platform, "fee_income")} \subseteq Z
  BY NamesOfAccounts DEF AccountsOfDeal
<1>3. /\ e.advance \in Nat /\ e.discount \in Nat /\ e.fee \in Nat
      /\ e.netCash = e.advance - e.discount - e.fee
  BY EconomicsOfDeal
<1> HIDE DEF Z
<1>4. IfPositive(e.netCash) + IfPositive(e.discount + e.fee)
        = IfPositive(e.advance - e.discount) + IfPositive(e.discount)
  <2> HIDE DEF e
  <2> DEFINE y1 == IfPositive(e.netCash)
             y2 == IfPositive(e.discount + e.fee)
             y3 == IfPositive(e.advance)
             y5 == IfPositive(e.advance - e.discount)
             y6 == IfPositive(e.discount)
             y7 == IfPositive(e.fee)
  <2>1. {y1, y2, y3, y5, y6, y7} \subseteq Int
    BY <1>3 DEF IfPositive
  <2> HIDE DEF y1, y2, y3, y5, y6, y7
  <2>2. DisbursementNet(d, Z) = 0 + y1 + y2 + -y3 + y3 + -y5 + -y6 + y7 + -y7
    BY <1>2 DEF DisbursementNet, Leg, e, y1, y2, y3, y5, y6, y7
  <2>3. y1 + y2 = y5 + y6
    BY <1>1, <2>1, <2>2
  <2> QED
    BY <2>3 DEF y1, y2, y5, y6
<1>5. e.discount <= e.advance \/ e.fee > 0
  BY DealsAssumption
<1> HIDE DEF e
<1>6. IfPositive(e.netCash) + e.fee = IfPositive(e.advance - e.discount)
  BY <1>3, <1>4 DEF IfPositive
<1>7. e.netCash >= 0 /\ e.advance - e.discount >= 0
  BY <1>3, <1>5, <1>6 DEF IfPositive
<1> QED
  BY <1>7 DEF e

----------------------------------------------------------------------------
(* Each flow keeps its parties and the escrow balanced.                    *)

LEMMA LegOfParty ==
  ASSUME NEW party, NEW q, NEW name \in AccountNames, NEW x
  PROVE  Leg(OfParty(party), Account(q, name), x) = IF q = party THEN x ELSE 0
BY DEF Leg, OfParty, Account

LEMMA LegOfAccount ==
  ASSUME NEW party, NEW q, NEW m, NEW n, NEW x
  PROVE  Leg({Account(party, m)}, Account(q, n), x)
            = IF q = party /\ m = n THEN x ELSE 0
BY DEF Leg, Account

\* Each party's legs of the entry balance, and so do the platform's two pairs.
Settled(postings) ==
    /\ \A party : NetOf(postings, OfParty(party)) = 0
    /\ NetOf(postings, {Account(Platform, "escrow_cash")})
        + NetOf(postings, {Account(Platform, "escrow_payable")}) = 0
    /\ NetOf(postings, {Account(Platform, "cash")})
        + NetOf(postings, {Account(Platform, "fee_income")}) = 0

LEMMA DisbursementSettled ==
  ASSUME NEW d \in Deals, Valid(Disbursement(d))
  PROVE  Settled(Disbursement(d).postings)
<1> DEFINE p == Disbursement(d).postings
           net == Economics(d).netCash
           advance == Economics(d).advance
           discount == Economics(d).discount
           fee == Economics(d).fee
<1>1. \A A : NetOf(p, A) = DisbursementNet(d, A)
  BY DisbursementNets DEF Nets
<1>2. /\ advance \in Nat /\ discount \in Nat /\ fee \in Nat
      /\ net = advance - discount - fee /\ net >= 0
      /\ advance - discount >= 0
  BY EconomicsOfDeal, DisbursementWithinAdvance
<1>3. /\ IfPositive(net) = net /\ IfPositive(discount + fee) = discount + fee
      /\ IfPositive(advance) = advance /\ IfPositive(discount) = discount
      /\ IfPositive(fee) = fee /\ IfPositive(advance - discount) = advance - discount
  BY <1>2 DEF IfPositive
<1> HIDE DEF p, net, advance, discount, fee
<1>4. \A A : NetOf(p, A) = 0
          + Leg(A, Account(d.supplier, "cash"), net)
          + Leg(A, Account(d.supplier, "financing_expense"), discount + fee)
          + Leg(A, Account(d.supplier, "invoice_receivable"), -advance)
          + Leg(A, Account(d.provider, "funded_receivable"), advance)
          + Leg(A, Account(d.provider, "cash"), -(advance - discount))
          + Leg(A, Account(d.provider, "discount_income"), -discount)
          + Leg(A, Account(Platform, "cash"), fee)
          + Leg(A, Account(Platform, "fee_income"), -fee)
  BY <1>1, <1>3 DEF DisbursementNet, net, advance, discount, fee
<1>5. ASSUME NEW party PROVE NetOf(p, OfParty(party)) = 0
  <2>1. NetOf(p, OfParty(party)) = 0
          + (IF d.supplier = party THEN net ELSE 0)
          + (IF d.supplier = party THEN discount + fee ELSE 0)
          + (IF d.supplier = party THEN -advance ELSE 0)
          + (IF d.provider = party THEN advance ELSE 0)
          + (IF d.provider = party THEN -(advance - discount) ELSE 0)
          + (IF d.provider = party THEN -discount ELSE 0)
          + (IF Platform = party THEN fee ELSE 0)
          + (IF Platform = party THEN -fee ELSE 0)
    BY <1>4, LegOfParty, NamesOfAccounts
  <2> QED
    BY <1>2, <2>1
<1>6. Platform # d.supplier /\ Platform # d.provider
  BY DealsAssumption
<1>7. /\ NetOf(p, {Account(Platform, "escrow_cash")}) = 0
      /\ NetOf(p, {Account(Platform, "escrow_payable")}) = 0
  BY <1>4, <1>6, LegOfAccount
<1>8. /\ NetOf(p, {Account(Platform, "cash")}) = fee
      /\ NetOf(p, {Account(Platform, "fee_income")}) = -fee
  BY <1>2, <1>4, <1>6, LegOfAccount
<1> QED
  BY <1>2, <1>5, <1>7, <1>8 DEF Settled, p

LEMMA BuyerPaymentSettled ==
  ASSUME NEW d \in Deals, NEW n \in Int
  PROVE  Settled(BuyerPayment(d, n).postings)
<1> DEFINE p == BuyerPayment(d, n).postings
           x == Money(n)
<1>1. \A A : NetOf(p, A) = BuyerPaymentNet(d, n, A)
  BY BuyerPaymentNets DEF Nets
<1>2. x \in Int
  BY MoneyIsWhole, WholeArithmetic
<1> HIDE DEF p, x
<1>3. \A A : NetOf(p, A) = 0
          + Leg(A, Account(d.buyer, "payable"), x)
          + Leg(A, Account(d.buyer, "cash"), -x)
          + Leg(A, Account(Platform, "escrow_cash"), x)
          + Leg(A, Account(Platform, "escrow_payable"), -x)
  BY <1>1 DEF BuyerPaymentNet, x
<1>4. ASSUME NEW party PROVE NetOf(p, OfParty(party)) = 0
  <2>1. NetOf(p, OfParty(party)) = 0
          + (IF d.buyer = party THEN x ELSE 0)
          + (IF d.buyer = party THEN -x ELSE 0)
          + (IF Platform = party THEN x ELSE 0)
          + (IF Platform = party THEN -x ELSE 0)
    BY <1>3, LegOfParty, NamesOfAccounts
  <2> QED
    BY <1>2, <2>1
<1>5. Platform # d.buyer
  BY DealsAssumption
<1>6. /\ NetOf(p, {Account(Platform, "escrow_cash")}) = x
      /\ NetOf(p, {Account(Platform, "escrow_payable")}) = -x
  BY <1>2, <1>3, <1>5, LegOfAccount
<1>7. /\ NetOf(p, {Account(Platform, "cash")}) = 0
      /\ NetOf(p, {Account(Platform, "fee_income")}) = 0
  BY <1>3, <1>5, LegOfAccount
<1> QED
  BY <1>2, <1>4, <1>6, <1>7 DEF Settled, p

LEMMA ReserveReleaseSettled ==
  ASSUME NEW d \in Deals, NEW n \in Int
  PROVE  Settled(ReserveRelease(d, n, Economics(d).advance).postings)
<1> DEFINE p == ReserveRelease(d, n, Economics(d).advance).postings
           x == Money(n)
           y == ToProvider(d, n)
           z == IfPositive(ToSupplier(d, n))
<1>1. \A A : NetOf(p, A) = ReserveReleaseNet(d, n, A)
  BY ReserveReleaseNets DEF Nets
<1>2. x \in Int /\ y \in Int /\ z \in Int
  BY SharesOfRelease DEF IfPositive
<1> HIDE DEF p, x, y, z
<1>3. \A A : NetOf(p, A) = 0
          + Leg(A, Account(Platform, "escrow_payable"), x)
          + Leg(A, Account(Platform, "escrow_cash"), -x)
          + Leg(A, Account(d.provider, "cash"), y)
          + Leg(A, Account(d.provider, "funded_receivable"), -y)
          + Leg(A, Account(d.supplier, "cash"), z)
          + Leg(A, Account(d.supplier, "invoice_receivable"), -z)
  BY <1>1 DEF ReserveReleaseNet, x, y, z
<1>4. ASSUME NEW party PROVE NetOf(p, OfParty(party)) = 0
  <2>1. NetOf(p, OfParty(party)) = 0
          + (IF Platform = party THEN x ELSE 0)
          + (IF Platform = party THEN -x ELSE 0)
          + (IF d.provider = party THEN y ELSE 0)
          + (IF d.provider = party THEN -y ELSE 0)
          + (IF d.supplier = party THEN z ELSE 0)
          + (IF d.supplier = party THEN -z ELSE 0)
    BY <1>3, LegOfParty, NamesOfAccounts
  <2> QED
    BY <1>2, <2>1
<1>5. Platform # d.supplier /\ Platform # d.provider
  BY DealsAssumption
<1>6. /\ NetOf(p, {Account(Platform, "escrow_cash")}) = -x
      /\ NetOf(p, {Account(Platform, "escrow_payable")}) = x
  BY <1>2, <1>3, <1>5, LegOfAccount
<1>7. /\ NetOf(p, {Account(Platform, "cash")}) = 0
      /\ NetOf(p, {Account(Platform, "fee_income")}) = 0
  BY <1>3, <1>5, LegOfAccount
<1> QED
  BY <1>2, <1>4, <1>6, <1>7 DEF Settled, p

LEMMA HoldSettled ==
  ASSUME NEW d \in Deals, NEW n \in Int
  PROVE  Settled(EscrowHold(d, n).postings) /\ Settled(EscrowRelease(d, n).postings)
<1> DEFINE x == Money(n)
<1>1. x \in Int
  BY MoneyIsWhole, WholeArithmetic
<1>2. Platform # d.provider
  BY DealsAssumption
<1>3. ASSUME NEW p, NEW a \in AccountNames, NEW b \in AccountNames,
             \A A : NetOf(p, A) = 0 + Leg(A, Account(d.provider, a), x)
                                    + Leg(A, Account(d.provider, b), -x)
      PROVE  Settled(p)
  <2> HIDE DEF x
  <2>1. ASSUME NEW party PROVE NetOf(p, OfParty(party)) = 0
    <3>1. NetOf(p, OfParty(party)) = 0 + (IF d.provider = party THEN x ELSE 0)
                                       + (IF d.provider = party THEN -x ELSE 0)
      BY <1>3, LegOfParty
    <3> QED
      BY <1>1, <3>1
  <2>2. \A name : NetOf(p, {Account(Platform, name)}) = 0
    BY <1>2, <1>3, LegOfAccount
  <2> QED
    BY <2>1, <2>2 DEF Settled
<1> HIDE DEF x
<1>4. \A A : NetOf(EscrowHold(d, n).postings, A)
          = 0 + Leg(A, Account(d.provider, "encumbered_capital"), x)
              + Leg(A, Account(d.provider, "cash"), -x)
  BY HoldNets DEF Nets, x
<1>5. \A A : NetOf(EscrowRelease(d, n).postings, A)
          = 0 + Leg(A, Account(d.provider, "cash"), x)
              + Leg(A, Account(d.provider, "encumbered_capital"), -x)
  BY HoldNets DEF Nets, x
<1> QED
  BY <1>3, <1>4, <1>5, NamesOfAccounts

\* Every entry that is stored is that of a flow that postEntry let pass.
LEMMA StoredFlows ==
  ASSUME NEW entry, WellBooked(entry)
  PROVE  \E f \in Flows :
            /\ Valid(f)
            /\ entry.reference = f.reference
            /\ \A A : NetOf(entry.postings, A) = NetOf(f.postings, A)
            /\ \A A : NetOf(entry.postings, A) \in Int
<1> PICK s \in Scripts : \E i \in DOMAIN s : Valid(s[i]) /\ entry = Booked(s[i])
  BY DEF WellBooked
<1> PICK i \in DOMAIN s : Valid(s[i]) /\ entry = Booked(s[i])
  OBVIOUS
<1>1. s[i] \in Flows
  BY FlowsAssumption DEF Valid, Balanced
<1>2. PICK d \in Deals : s[i].postings \in Seq(Legs(AccountsOfDeal(d)))
  BY <1>1, FlowLegs
<1>3. \A A : NetOf(entry.postings, A) = NetOf(s[i].postings, A)
  BY <1>2, BookedNets
<1>4. \A A : NetOf(entry.postings, A) \in Int
  BY <1>2, <1>3, NetOfIsInt
<1>5. entry.reference = s[i].reference
  BY BookedKeepsReference
<1> QED
  BY <1>1, <1>3, <1>4, <1>5

LEMMA FlowSettled ==
  ASSUME NEW f \in Flows, Valid(f)
  PROVE  Settled(f.postings)
<1>1. ASSUME NEW d \in Deals, f = Disbursement(d) PROVE Settled(f.postings)
  BY <1>1, DisbursementSettled
<1>2. ASSUME NEW d \in Deals, NEW n \in Amounts,
             f \in {BuyerPayment(d, n), ReserveRelease(d, n, Economics(d).advance),
                    EscrowHold(d, n), EscrowRelease(d, n)}
      PROVE  Settled(f.postings)
  <2>1. n \in Int
    BY DealsAssumption
  <2> QED
    BY <1>2, <2>1, BuyerPaymentSettled, ReserveReleaseSettled, HoldSettled
<1> QED
  BY <1>1, <1>2 DEF Flows

LEMMA RowSettled ==
  ASSUME NEW entry, WellBooked(entry)
  PROVE  Settled(entry.postings) /\ \A A : NetOf(entry.postings, A) \in Int
<1> PICK f \in Flows :
            /\ Valid(f)
            /\ \A A : NetOf(entry.postings, A) = NetOf(f.postings, A)
            /\ \A A : NetOf(entry.postings, A) \in Int
  BY StoredFlows
<1>1. Settled(f.postings)
  BY FlowSettled
<1> QED
  BY <1>1 DEF Settled

----------------------------------------------------------------------------
(* The journal adds the rows up.                                           *)

\* There are finitely many rows.
FiniteRows == IsFiniteSet(journal) /\ \A c \in Calls : IsFiniteSet(pending[c])

LEMMA NextFiniteRows == IInv /\ FiniteRows /\ [Next]_vars => FiniteRows'
<1> SUFFICES ASSUME IInv, FiniteRows, [Next]_vars PROVE FiniteRows'
  OBVIOUS
<1>1. pending \in [Calls -> SUBSET PendingRows]
  BY DEF IInv, LedgerTypeOK
<1>2. ASSUME NEW c \in Calls, UNCHANGED journal, pending' = [pending EXCEPT ![c] = {}]
      PROVE  FiniteRows'
  BY <1>1, <1>2, FS_EmptySet DEF FiniteRows
<1>3. ASSUME UNCHANGED <<journal, pending>> PROVE FiniteRows'
  BY <1>3 DEF FiniteRows
<1>4. ASSUME NEW c \in Calls, Create(c) PROVE FiniteRows'
  <2> DEFINE row == [entry |-> Booked(Current(c)), by |-> <<c, at[c]>>]
  <2>1. IsFiniteSet(pending[c] \union {row})
    BY FS_AddElement DEF FiniteRows
  <2> QED
    BY <1>1, <1>4, <2>1 DEF Create, FiniteRows
<1>5. ASSUME NEW c \in Calls, Commit(c) PROVE FiniteRows'
  <2>1. IsFiniteSet(journal \union pending[c])
    BY FS_Union DEF FiniteRows
  <2> QED
    BY <1>1, <1>5, <2>1, FS_EmptySet DEF Commit, FiniteRows
<1>6. ASSUME NEW c \in Calls, Throw(c) PROVE FiniteRows'
  BY <1>2, <1>6 DEF Throw
<1>7. \/ \E c \in Calls : Create(c) \/ Commit(c) \/ Throw(c)
      \/ UNCHANGED <<journal, pending>>
  BY DEF Next, Step, Fault, RejectEntry, FindExisting, FindNothing, RejectAccounts,
         CreateDuplicate, Acknowledge, Begin, EnsureAccount, Abort, LoseAnswer, vars
<1> QED
  BY <1>3, <1>4, <1>5, <1>6, <1>7

\* The rows of the journal are those of flows, and there are finitely many.
Settling == Screened /\ FiniteRows

LEMMA SettlingInvariance == Spec => []Settling
<1>1. Init => FiniteRows
  BY FS_EmptySet DEF Init, FiniteRows
<1>2. Spec => []FiniteRows
  BY <1>1, NextFiniteRows, JournalInvariance, PTL DEF Spec
<1> QED
  BY <1>2, OnlyScreenedEntries, PTL DEF Settling

\* The net of some accounts over the journal is the sum over its rows.
LEMMA JournalNets ==
  ASSUME Settling, NEW A
  PROVE  LET f == [row \in journal |-> NetOf(row.entry.postings, A)]
         IN  Summable(f, journal) /\ Net(A) = SumFunctionOnSet(f, journal)
<1> DEFINE f == [row \in journal |-> NetOf(row.entry.postings, A)]
<1>1. Summable(f, journal)
  BY RowSettled DEF Settling, Screened, FiniteRows, Summable
<1>2. Net(A) = SumFunctionOnSet(f, journal)
  <2>1. Net(A) = SumFunction(f) /\ DOMAIN f = journal
    BY DEF Net
  <2> HIDE DEF f
  <2> QED
    BY <2>1 DEF SumFunction
<1> QED
  BY <1>1, <1>2

\* Two accounts that every entry moves against each other cancel out.
LEMMA AgainstEachOther ==
  ASSUME Settling, NEW A, NEW B,
         \A row \in journal :
            NetOf(row.entry.postings, A) + NetOf(row.entry.postings, B) = 0
  PROVE  Net(A) \in Int /\ Net(B) \in Int /\ Net(A) + Net(B) = 0
<1> DEFINE f == [row \in journal |-> NetOf(row.entry.postings, A)]
           g == [row \in journal |-> NetOf(row.entry.postings, B)]
           h == [row \in journal |-> 0]
<1>1. /\ Summable(f, journal) /\ Net(A) = SumFunctionOnSet(f, journal)
      /\ Summable(g, journal) /\ Net(B) = SumFunctionOnSet(g, journal)
  BY JournalNets
<1>2. \A row \in journal : h[row] = f[row] + g[row] /\ h[row] = 0
  OBVIOUS
<1>3. IsFiniteSet(journal)
  BY DEF Settling, FiniteRows
<1> HIDE DEF f, g, h
<1>4. SumFunctionOnSet(h, journal) = 0
  BY <1>2, <1>3, SumOfZeros
<1>5. SumFunctionOnSet(h, journal)
        = SumFunctionOnSet(f, journal) + SumFunctionOnSet(g, journal)
  BY <1>1, <1>2, SumPlus
<1> QED
  BY <1>1, <1>4, <1>5, SumIsInt

\* "Each party's own sub-ledger balances" (flows.ts:44), whatever flows have
\* been posted, in whatever order.
THEOREM PartiesStayBalanced == Spec => []PartiesBalance
<1>1. Settling => PartiesBalance
  <2> SUFFICES ASSUME Settling, NEW party PROVE Net(OfParty(party)) = 0
    BY DEF PartiesBalance
  <2> DEFINE f == [row \in journal |-> NetOf(row.entry.postings, OfParty(party))]
  <2>1. \A row \in journal : f[row] = 0
    BY RowSettled DEF Settling, Screened, Settled
  <2>2. Net(OfParty(party)) = SumFunctionOnSet(f, journal)
    BY JournalNets
  <2>3. IsFiniteSet(journal)
    BY DEF Settling, FiniteRows
  <2> HIDE DEF f
  <2> QED
    BY <2>1, <2>2, <2>3, SumOfZeros
<1> QED
  BY <1>1, SettlingInvariance, PTL

\* "Escrow is recorded as cash held against a matching payable" (flows.ts:106)
\* and the platform's own cash is its fees.
THEOREM EscrowStaysMatched == Spec => []EscrowMatched
<1>1. Settling => EscrowMatched
  <2> SUFFICES ASSUME Settling PROVE EscrowMatched
    OBVIOUS
  <2> DEFINE net(name) == Net({Account(Platform, name)})
  <2>1. \A row \in journal : Settled(row.entry.postings)
    BY RowSettled DEF Settling, Screened
  <2>2. /\ net("escrow_cash") \in Int /\ net("escrow_payable") \in Int
        /\ net("escrow_cash") + net("escrow_payable") = 0
    BY <2>1, AgainstEachOther DEF Settled
  <2>3. /\ net("cash") \in Int /\ net("fee_income") \in Int
        /\ net("cash") + net("fee_income") = 0
    BY <2>1, AgainstEachOther DEF Settled
  <2>4. /\ Balance(Account(Platform, "escrow_cash")) = net("escrow_cash")
        /\ Balance(Account(Platform, "escrow_payable")) = -net("escrow_payable")
        /\ Balance(Account(Platform, "cash")) = net("cash")
        /\ Balance(Account(Platform, "fee_income")) = -net("fee_income")
    BY DEF Balance, Account, DebitNormal
  <2> HIDE DEF net
  <2> QED
    BY <2>2, <2>3, <2>4 DEF EscrowMatched
<1> QED
  BY <1>1, SettlingInvariance, PTL

\* What a disbursement advances.
LEMMA DisbursementAdvances ==
  ASSUME NEW f \in Flows, NEW o, f.reference = <<"disb", o>>
  PROVE  \E d \in Deals :
            d.id = o /\ NetOf(f.postings, FundedReceivables) = Economics(d).advance
<1> DEFINE A == FundedReceivables
<1>1. PICK d \in Deals : f = Disbursement(d)
  <2>1. ASSUME NEW d \in Deals, NEW n \in Amounts,
               f \in {BuyerPayment(d, n), ReserveRelease(d, n, Economics(d).advance),
                      EscrowHold(d, n), EscrowRelease(d, n)}
        PROVE  f.reference[1] # "disb"
    BY <2>1 DEF BuyerPayment, ReserveRelease, EscrowHold, EscrowRelease
  <2>2. f.reference[1] = "disb"
    OBVIOUS
  <2> QED
    BY <2>1, <2>2 DEF Flows
<1>2. d.id = o
  BY <1>1 DEF Disbursement
<1>3. NetOf(f.postings, A) = DisbursementNet(d, A)
  BY <1>1, DisbursementNets DEF Nets
<1>4. /\ Account(d.provider, "funded_receivable") \in A
      /\ \A q : \A name : name # "funded_receivable" => Account(q, name) \notin A
  BY DEF FundedReceivables, Account
<1>5. Economics(d).advance \in Nat
  BY EconomicsOfDeal
<1> HIDE DEF A
<1>6. DisbursementNet(d, A) = IfPositive(Economics(d).advance)
  <2> DEFINE y == IfPositive(Economics(d).advance)
  <2>1. y \in Int
    BY <1>5 DEF IfPositive
  <2> HIDE DEF y
  <2>2. DisbursementNet(d, A) = 0 + 0 + 0 + 0 + y + 0 + 0 + 0 + 0
    BY <1>4 DEF DisbursementNet, Leg, y
  <2> QED
    BY <2>1, <2>2 DEF y
<1> QED
  BY <1>2, <1>3, <1>5, <1>6 DEF A, IfPositive

\* What a release gives back to the provider, and to the supplier.
LEMMA ReleaseGives ==
  ASSUME NEW f \in Flows, NEW o, f.reference = <<"release", o>>
  PROVE  \E d \in Deals : \E n \in Int :
            /\ d.id = o
            /\ NetOf(f.postings, FundedReceivables) = -ToProvider(d, n)
            /\ NetOf(f.postings, InvoiceReceivables) = -IfPositive(ToSupplier(d, n))
<1>1. PICK d \in Deals, n \in Amounts : f = ReserveRelease(d, n, Economics(d).advance)
  BY DEF Flows, BuyerPayment, Disbursement, EscrowHold, EscrowRelease
<1>2. d.id = o /\ n \in Int
  BY <1>1, DealsAssumption DEF ReserveRelease
<1>3. \A A : NetOf(f.postings, A) = ReserveReleaseNet(d, n, A)
  BY <1>1, <1>2, ReserveReleaseNets DEF Nets
<1> DEFINE x == Money(n)
           y == ToProvider(d, n)
           z == IfPositive(ToSupplier(d, n))
<1>4. x \in Int /\ y \in Int /\ z \in Int
  BY <1>2, SharesOfRelease DEF IfPositive
<1> HIDE DEF x, y, z
<1>5. ReserveReleaseNet(d, n, FundedReceivables) = 0 + 0 + 0 + 0 + -y + 0 + 0
  <2>1. /\ Account(d.provider, "funded_receivable") \in FundedReceivables
        /\ \A q : \A name : name # "funded_receivable" =>
              Account(q, name) \notin FundedReceivables
    BY DEF FundedReceivables, Account
  <2> QED
    BY <2>1 DEF ReserveReleaseNet, Leg, y
<1>6. ReserveReleaseNet(d, n, InvoiceReceivables) = 0 + 0 + 0 + 0 + 0 + 0 + -z
  <2>1. /\ Account(d.supplier, "invoice_receivable") \in InvoiceReceivables
        /\ \A q : \A name : name # "invoice_receivable" =>
              Account(q, name) \notin InvoiceReceivables
    BY DEF InvoiceReceivables, Account
  <2> QED
    BY <2>1 DEF ReserveReleaseNet, Leg, z
<1>7. NetOf(f.postings, FundedReceivables) = -y /\ NetOf(f.postings, InvoiceReceivables) = -z
  BY <1>3, <1>4, <1>5, <1>6
<1> QED
  BY <1>2, <1>7 DEF y, z

\* "The provider is made whole first" (flows.ts:145), whatever was paid into
\* escrow and whatever else is posted.
THEOREM ProvidersComeFirst == Spec => []ProviderFirst
<1>1. Screened => ProviderFirst
  <2> SUFFICES ASSUME Screened, NEW o,
                      NEW q \in Posted(<<"disb", o>>), NEW r \in Posted(<<"release", o>>)
               PROVE  LET advanced == NetOf(q.entry.postings, FundedReceivables)
                          recovered == -NetOf(r.entry.postings, FundedReceivables)
                          reserve == -NetOf(r.entry.postings, InvoiceReceivables)
                      IN  recovered <= advanced /\ (reserve > 0 => recovered = advanced)
    BY DEF ProviderFirst
  <2>1. /\ WellBooked(q.entry) /\ q.entry.reference = <<"disb", o>>
        /\ WellBooked(r.entry) /\ r.entry.reference = <<"release", o>>
    BY DEF Screened, Posted
  <2>2. PICK d \in Deals : /\ d.id = o
                           /\ NetOf(q.entry.postings, FundedReceivables) = Economics(d).advance
    BY <2>1, StoredFlows, DisbursementAdvances
  <2>3. PICK e \in Deals : \E n \in Int :
            /\ e.id = o
            /\ NetOf(r.entry.postings, FundedReceivables) = -ToProvider(e, n)
            /\ NetOf(r.entry.postings, InvoiceReceivables) = -IfPositive(ToSupplier(e, n))
    BY <2>1, StoredFlows, ReleaseGives
  <2>4. PICK n \in Int :
            /\ NetOf(r.entry.postings, FundedReceivables) = -ToProvider(e, n)
            /\ NetOf(r.entry.postings, InvoiceReceivables) = -IfPositive(ToSupplier(e, n))
    BY <2>3
  <2>5. Economics(e).advance = Economics(d).advance
    BY <2>2, <2>3, DealsAssumption
  <2>6. Economics(e).advance \in Int /\ Money(n) \in Int /\ ToProvider(e, n) \in Int
    BY EconomicsOfDeal, SharesOfRelease
  <2>7. /\ ToProvider(e, n) <= Economics(e).advance
        /\ IfPositive(ToSupplier(e, n)) > 0 => ToProvider(e, n) = Economics(e).advance
    BY <2>6 DEF ToProvider, ToSupplier, IfPositive
  <2>8. IfPositive(ToSupplier(e, n)) \in Int
    BY <2>6 DEF ToSupplier, IfPositive
  <2> QED
    BY <2>2, <2>4, <2>5, <2>6, <2>7, <2>8
<1> QED
  BY <1>1, OnlyScreenedEntries, PTL

----------------------------------------------------------------------------
(* Refinement.                                                             *)

LEMMA RequestPosted ==
  ASSUME NEW s \in Scripts, Idempotent!Post(UnitOf(s))
  PROVE  Idempotent!Next
<1>1. UnitOf(s) \in {UnitOf(r) : r \in Scripts}
  OBVIOUS
<1> HIDE DEF UnitOf
<1> DEFINE U == UnitOf(s)
           All == {UnitOf(r) : r \in Scripts}
<1>2. U \in All /\ Idempotent!Post(U)
  BY <1>1
<1>3. Idempotent!Next <=> \E u \in All : Idempotent!Post(u)
  BY DEF Idempotent!Next
<1> HIDE DEF U, All
<1> QED
  BY <1>2, <1>3

\* COMMIT posts what is new of one whole request.
LEMMA CommitPosts ==
  ASSUME IInv, NEW c \in Calls, Commit(c), pending[c] # {}
  PROVE  Idempotent!Next
<1> PICK s \in Scripts : s = script[c]
  BY ScriptOfCall DEF Commit, IInv
<1> DEFINE asked == {Booked(s[i]) : i \in DOMAIN s}
           new == {row.entry : row \in pending[c]}
<1>1. /\ pc[c] = "commit"
      /\ journal' = journal \union pending[c]
  BY DEF Commit
<1>2. \A row \in pending[c] : row \in PendingRows /\ row.by[1] = c
  BY DEF PendingRows, IInv, OwnRows
<1>3. new \in SUBSET asked /\ new # {}
  BY <1>2 DEF IInv, LedgerTypeOK
<1>4. \A row \in pending[c], r \in journal : row.entry.reference # r.entry.reference
  BY DEF IInv, Indexed
<1>5. \A q, r \in pending[c] : q.entry.reference = r.entry.reference => q = r
  BY DEF IInv, Indexed
<1>6. {row.entry : row \in journal'} = {row.entry : row \in journal} \union new
  BY <1>1
<1>7. \A i \in DOMAIN s :
        \E row \in journal' : Booked(s[i]).reference = row.entry.reference
  BY <1>1, BookedKeepsReference DEF IInv, Covered, ReferencesIn
<1>8. Idempotent!ReferencesOf(new)
        \cap Idempotent!ReferencesOf({row.entry : row \in journal}) = {}
  BY <1>4 DEF Idempotent!ReferencesOf
<1>9. \A d, e \in new : d.reference = e.reference => d = e
  BY <1>5
<1>10. Idempotent!ReferencesOf(asked)
        \subseteq Idempotent!ReferencesOf({row.entry : row \in journal'})
  BY <1>7 DEF Idempotent!ReferencesOf
<1> HIDE DEF new
<1>11. Idempotent!Post(asked)
  BY <1>3, <1>6, <1>8, <1>9, <1>10 DEF Idempotent!Post
<1>12. Idempotent!Post(UnitOf(s))
  BY <1>11 DEF UnitOf
<1> QED
  BY <1>12, RequestPosted

\* Overlapping, retried and failing postEntry calls implement a journal that
\* only grows, by whole requests, and never by a reference it has.
THEOREM RequestsPostWhole == Spec => PostsWhole
<1>1. Init => Idempotent!Init
  BY DEF Init, Idempotent!Init
<1>2. IInv /\ [Next]_vars => [Idempotent!Next]_{row.entry : row \in journal}
  <2> SUFFICES ASSUME IInv, [Next]_vars
               PROVE  [Idempotent!Next]_{row.entry : row \in journal}
    OBVIOUS
  <2>1. ASSUME NEW c \in Calls, Commit(c)
        PROVE  [Idempotent!Next]_{row.entry : row \in journal}
    <3>1. CASE pending[c] = {}
      BY <2>1, <3>1 DEF Commit
    <3>2. CASE pending[c] # {}
      BY <2>1, <3>2, CommitPosts
    <3> QED
      BY <3>1, <3>2
  <2>2. (\E c \in Calls : Commit(c)) \/ UNCHANGED journal
    BY DEF Next, Step, Fault, RejectEntry, FindExisting, FindNothing, RejectAccounts,
           Create, CreateDuplicate, Acknowledge, Begin, EnsureAccount, Abort,
           LoseAnswer, Throw, Advance, vars
  <2> QED
    BY <2>1, <2>2
<1> QED
  BY <1>1, <1>2, JournalInvariance, PTL DEF Spec, PostsWhole, Idempotent!Spec
=============================================================================
