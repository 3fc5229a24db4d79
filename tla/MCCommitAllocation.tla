------------------------- MODULE MCCommitAllocation -------------------------
(* A small instance of CommitAllocation: two providers, two opportunities  *)
(* and three concurrent calls.                                             *)
EXTENDS CommitAllocation, TLC

CONSTANTS rapid, coop

L(p, n) == [provider |-> p, funded |-> n]

\* Two syndicates in opposite orders (they can deadlock), two single deals
\* that leave too little for a syndicate, a leg that never fits beside any
\* other, and the empty list.
MCPlans == {
    <<L(rapid, 1), L(coop, 2)>>,
    <<L(coop, 2), L(rapid, 2)>>,
    <<L(rapid, 2)>>,
    <<L(coop, 3)>>,
    <<>> }

MCLiquidity0 == (rapid :> 3) @@ (coop :> 3)
=============================================================================
