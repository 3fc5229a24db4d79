------------------------------- MODULE Ledger -------------------------------
(***************************************************************************)
(* postEntry of frontend/src/lib/ledger/post.ts.  A call posts a list of   *)
(* entries in one Postgres transaction: its own, for a list of one, or one *)
(* its caller opened and passed as `db'.  For each entry it looks the      *)
(* reference up, then the accounts, then inserts; the unique index on      *)
(* journal_entry.reference (prisma/schema.prisma:599) makes an insert wait *)
(* for the transaction that holds an uncommitted row of that reference.    *)
(*                                                                         *)
(* Amounts are integers: tenths of a paisa, so that what is stored, whole  *)
(* paise, differs from what may be asked for.                              *)
(***************************************************************************)
EXTENDS Integers, Sequences, FiniteSets, Functions

CONSTANTS
    Calls,          \* calls that post
    Scripts,        \* lists of entries a call may post
    Chart,          \* account codes ensureAccounts is asked for
    Chart0          \* those that exist at the start

ASSUME ChartAssumption == Chart0 \subseteq Chart

\* A caller posts at least one entry, and an entry is what postEntry takes.
ASSUME ScriptsAssumption ==
    \A s \in Scripts :
        /\ Len(s) \in Nat \ {0} /\ DOMAIN s = 1..Len(s)
        /\ \A i \in DOMAIN s :
            /\ DOMAIN s[i] = {"reference", "postings"}
            /\ DOMAIN s[i].postings = 1..Len(s[i].postings)
            /\ \A p \in Range(s[i].postings) :
                /\ DOMAIN p = {"amount", "account", "direction"}
                /\ p.amount \in Int
                /\ p.direction \in {"DEBIT", "CREDIT"}

VARIABLES
    journal,        \* committed rows: [entry, by]
    chart,          \* account codes that exist
    pc,             \* where each call is
    script,         \* the entries each call posts
    at,             \* the entry each call is at
    pending         \* uncommitted rows of each call

vars == <<journal, chart, pc, script, at, pending>>

Returned == {"posted", "threw"}
OpenTx == {"find", "create", "commit"}

Debit(account, amount) ==
    [amount |-> amount, account |-> account, direction |-> "DEBIT"]
Credit(account, amount) ==
    [amount |-> amount, account |-> account, direction |-> "CREDIT"]

\* num/den tenths of a paisa at two decimals of a rupee, half up.
MoneyOf(num, den) == 10 * ((num + 5 * den) \div (10 * den))

\* toDecimalPlaces(2, ROUND_HALF_UP).
Money(n) == MoneyOf(n, 1)

\* The total of one direction; each amount is rounded before it is added.
Total(postings, direction) ==
    SumFunction([i \in DOMAIN postings |->
        IF postings[i].direction = direction THEN Money(postings[i].amount) ELSE 0])

\* The sum of the amounts of one direction as they stand.
Stored(postings, direction) ==
    SumFunction([i \in DOMAIN postings |->
        IF postings[i].direction = direction THEN postings[i].amount ELSE 0])

\* Faulty variant: balanced before rounding, not after.
BalancedUnrounded(postings) == Stored(postings, "DEBIT") = Stored(postings, "CREDIT")

Balanced(postings) == Total(postings, "DEBIT") = Total(postings, "CREDIT")

\* trialBalance: every posting ever written, netted.
TrialBalance(entries) ==
    LET sum(direction) == SumFunction([e \in entries |-> Stored(e.postings, direction)])
    IN  [debits |-> sum("DEBIT"), credits |-> sum("CREDIT"),
         balanced |-> sum("DEBIT") = sum("CREDIT")]

\* The checks before the database is touched.
Valid(entry) ==
    /\ Len(entry.postings) >= 2
    /\ \A i \in DOMAIN entry.postings : Money(entry.postings[i].amount) > 0
    /\ Balanced(entry.postings)

\* What create writes.
Rounded(posting) == [posting EXCEPT !.amount = Money(@)]
Booked(entry) ==
    [entry EXCEPT !.postings = [i \in DOMAIN @ |-> Rounded(@[i])]]

AccountsOf(entry) == {entry.postings[i].account : i \in DOMAIN entry.postings}

Current(c) == script[c][at[c]]

ReferencesIn(rows) == {row.entry.reference : row \in rows}

\* Another open transaction has inserted the reference.
IndexHeldBy(c, d) ==
    /\ d # c
    /\ pc[d] \in OpenTx
    /\ Current(c).reference \in ReferencesIn(pending[d])

Init ==
    /\ journal = {}
    /\ chart = Chart0
    /\ pc = [c \in Calls |-> "idle"]
    /\ script = [c \in Calls |-> <<>>]
    /\ at = [c \in Calls |-> 1]
    /\ pending = [c \in Calls |-> {}]

\* The next entry of the list, or its end.
Advance(c) ==
    /\ at' = [at EXCEPT ![c] = @ + 1]
    /\ pc' = [pc EXCEPT ![c] = IF at[c] = Len(script[c]) THEN "commit" ELSE "find"]

\* The transaction is rolled back and the error leaves the call.
Throw(c) ==
    /\ pc' = [pc EXCEPT ![c] = "threw"]
    /\ pending' = [pending EXCEPT ![c] = {}]
    /\ UNCHANGED <<journal, chart, script, at>>

----------------------------------------------------------------------------

\* One upsert of ensureAccounts.
EnsureAccount(a) ==
    /\ a \notin chart
    /\ chart' = chart \union {a}
    /\ UNCHANGED <<journal, pc, script, at, pending>>

Begin(c, s) ==
    /\ pc[c] = "idle"
    /\ pc' = [pc EXCEPT ![c] = "find"]
    /\ script' = [script EXCEPT ![c] = s]
    /\ UNCHANGED <<journal, chart, at, pending>>

\* Fewer than two postings, an amount that is not positive, or unbalanced.
RejectEntry(c) ==
    /\ pc[c] = "find"
    /\ ~Valid(Current(c))
    /\ Throw(c)

\* findUnique found the reference: the existing entry is the result.
FindExisting(c) ==
    /\ pc[c] = "find"
    /\ Valid(Current(c))
    /\ Current(c).reference \in ReferencesIn(journal \union pending[c])
    /\ Advance(c)
    /\ UNCHANGED <<journal, chart, script, pending>>

\* findUnique found nothing; what follows acts on that answer.
FindNothing(c) ==
    /\ pc[c] = "find"
    /\ Valid(Current(c))
    /\ Current(c).reference \notin ReferencesIn(journal \union pending[c])
    /\ pc' = [pc EXCEPT ![c] = "create"]
    /\ UNCHANGED <<journal, chart, script, at, pending>>

\* account.findMany did not return every code.
RejectAccounts(c) ==
    /\ pc[c] = "create"
    /\ ~(AccountsOf(Current(c)) \subseteq chart)
    /\ Throw(c)

\* Faulty variants of the steps that follow.

\* The index is not unique: the earlier lookup is all that is checked.
CreateUnindexed(c) ==
    /\ pc[c] = "create"
    /\ AccountsOf(Current(c)) \subseteq chart
    /\ pending' = [pending EXCEPT ![c] =
            @ \union {[entry |-> Booked(Current(c)), by |-> <<c, at[c]>>]}]
    /\ Advance(c)
    /\ UNCHANGED <<journal, chart, script>>

\* The postings are written by `prisma', not by the transaction.
CreateOutside(c) ==
    /\ pc[c] = "create"
    /\ AccountsOf(Current(c)) \subseteq chart
    /\ Current(c).reference \notin ReferencesIn(journal)
    /\ journal' = journal \union
            {[entry |-> Booked(Current(c)), by |-> <<c, at[c]>>]}
    /\ Advance(c)
    /\ UNCHANGED <<chart, script, pending>>

\* The duplicate-key error is swallowed and the transaction is left open.
CreateDuplicateSwallowed(c) ==
    /\ pc[c] = "create"
    /\ Current(c).reference \in ReferencesIn(journal)
    /\ UNCHANGED vars

\* journalEntry.create with its postings.
Create(c) ==
    /\ pc[c] = "create"
    /\ AccountsOf(Current(c)) \subseteq chart
    /\ Current(c).reference \notin ReferencesIn(journal)
    /\ \A d \in Calls : ~IndexHeldBy(c, d)
    /\ pending' = [pending EXCEPT ![c] =
            @ \union {[entry |-> Booked(Current(c)), by |-> <<c, at[c]>>]}]
    /\ Advance(c)
    /\ UNCHANGED <<journal, chart, script>>

\* The reference was committed since the lookup: a duplicate-key error.
CreateDuplicate(c) ==
    /\ pc[c] = "create"
    /\ AccountsOf(Current(c)) \subseteq chart
    /\ Current(c).reference \in ReferencesIn(journal)
    /\ Throw(c)

\* COMMIT.
Commit(c) ==
    /\ pc[c] = "commit"
    /\ journal' = journal \union pending[c]
    /\ pending' = [pending EXCEPT ![c] = {}]
    /\ pc' = [pc EXCEPT ![c] = "ack"]
    /\ UNCHANGED <<chart, script, at>>

Acknowledge(c) ==
    /\ pc[c] = "ack"
    /\ pc' = [pc EXCEPT ![c] = "posted"]
    /\ UNCHANGED <<journal, chart, script, at, pending>>

\* The 30 s timeout, a lost connection or an error of the caller's own.
Abort(c) == pc[c] \in OpenTx /\ Throw(c)

\* COMMIT took effect and its answer is lost: the caller retries what stands.
LoseAnswer(c) == pc[c] = "ack" /\ Throw(c)

----------------------------------------------------------------------------

\* Postgres ends one transaction of a cycle of index waits.
Waits(c, d) ==
    /\ pc[c] = "create"
    /\ AccountsOf(Current(c)) \subseteq chart
    /\ IndexHeldBy(c, d)

DeadlockVictim(c) ==
    /\ \E D \in SUBSET Calls :
        /\ c \in D
        /\ \A d \in D : /\ \E e \in D : Waits(d, e)
                        /\ \E e \in D : Waits(e, d)
    /\ Abort(c)

Step(c) ==
    \/ RejectEntry(c)
    \/ FindExisting(c)
    \/ FindNothing(c)
    \/ RejectAccounts(c)
    \/ Create(c)
    \/ CreateDuplicate(c)
    \/ Commit(c)
    \/ Acknowledge(c)

Fault(c) == Abort(c) \/ LoseAnswer(c)

Next ==
    \/ \E c \in Calls : Step(c) \/ Fault(c) \/ \E s \in Scripts : Begin(c, s)
    \/ \E a \in Chart : EnsureAccount(a)

Spec == Init /\ [][Next]_vars

\* A statement that can run does, and the deadlock detector runs.
Fairness ==
    \A c \in Calls : WF_vars(Step(c)) /\ WF_vars(DeadlockVictim(c))

FairSpec == Spec /\ Fairness
----------------------------------------------------------------------------
(* Properties.                                                             *)

PendingRows == UNION {pending[c] : c \in Calls}

\* Every variable keeps its shape; a row carries the entry its call was asked
\* to post, in whole paise, and only an open transaction has pending rows.
LedgerTypeOK ==
    /\ chart \subseteq Chart
    /\ pc \in [Calls -> {"idle", "ack"} \union OpenTx \union Returned]
    /\ at \in [Calls -> Nat]
    /\ script \in [Calls -> Scripts \union {<<>>}]
    /\ pending \in [Calls -> SUBSET PendingRows]
    /\ \A c \in Calls :
        /\ pc[c] = "idle" <=> script[c] = <<>>
        /\ pc[c] \in {"find", "create"} => at[c] \in DOMAIN script[c]
        /\ pending[c] # {} => pc[c] \in OpenTx
    /\ \A row \in journal \union PendingRows :
        /\ row.by[1] \in Calls
        /\ row.by[2] \in DOMAIN script[row.by[1]]
        /\ row.entry = Booked(script[row.by[1]][row.by[2]])

\* "Every journal entry's postings sum to zero" (docs/09-database.md:441), in
\* the amounts that are stored, and so does the trial balance, whatever commits
\* it is read between.  The accounts of an entry exist, and no leg is zero or
\* negative.
EntriesBalanced ==
    /\ TrialBalance({row.entry : row \in journal}).balanced
    /\ \A row \in journal :
        LET postings == row.entry.postings IN
        /\ Stored(postings, "DEBIT") = Stored(postings, "CREDIT")
        /\ \A i \in DOMAIN postings : /\ postings[i].amount > 0
                                      /\ postings[i].account \in chart

\* "A retried disbursement must not post twice" (post.ts:75-78): whatever
\* calls overlap, retry or fail, a reference stands in the journal once.
PostedOnce ==
    \A q, r \in journal : q.entry.reference = r.entry.reference => q = r

\* A call that returned has every entry it was asked for in the journal, its
\* own or an earlier one's; and none of its rows is seen before its COMMIT.
PosterIsTold ==
    /\ \A c \in Calls : pc[c] = "posted" =>
            \A i \in DOMAIN script[c] :
                script[c][i].reference \in ReferencesIn(journal)
    /\ \A row \in journal : pc[row.by[1]] \notin OpenTx

\* The transactions together implement a journal of whole requests.
UnitOf(s) == {Booked(s[i]) : i \in DOMAIN s}

Idempotent == INSTANCE IdempotentJournal
    WITH journal <- {row.entry : row \in journal},
         Units <- {UnitOf(s) : s \in Scripts}

PostsWhole == Idempotent!Spec

\* A call that opened a transaction returns or throws, also when two callers'
\* transactions post the same references in opposite orders.
EveryPosterReturns ==
    \A c \in Calls : pc[c] = "find" ~> pc[c] \in Returned
=============================================================================
