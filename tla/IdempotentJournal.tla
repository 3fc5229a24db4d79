-------------------------- MODULE IdempotentJournal --------------------------
(***************************************************************************)
(* What the ledger promises (docs/09-database.md, section 7): a journal    *)
(* that only grows, by all the new entries of one request at a time, and   *)
(* never by a reference it already has.                                    *)
(***************************************************************************)
CONSTANTS
    Units           \* sets of entries a caller may post together

VARIABLE
    journal         \* the entries posted, each with a reference

ReferencesOf(entries) == {e.reference : e \in entries}

Init == journal = {}

\* Post the entries of a unit whose references are new, one per reference.
Post(unit) ==
    \E new \in SUBSET unit :
        /\ new # {}
        /\ ReferencesOf(new) \cap ReferencesOf(journal) = {}
        /\ \A d, e \in new : d.reference = e.reference => d = e
        /\ journal' = journal \union new
        /\ ReferencesOf(unit) \subseteq ReferencesOf(journal')

Next == \E unit \in Units : Post(unit)

Spec == Init /\ [][Next]_journal
=============================================================================
