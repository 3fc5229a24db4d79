-------------------------- MODULE AtomicAllocation --------------------------
(***************************************************************************)
(* What the market promises its providers and suppliers about capital: a   *)
(* deal draws its whole demand, from every provider of the deal, in one    *)
(* indivisible step that also marks the opportunity MATCHED, and only out  *)
(* of liquidity that is there.  The only other thing that moves a          *)
(* provider's liquidity is the provider restating it.                      *)
(*                                                                         *)
(* CommitAllocation and MarketClearing are shown to implement this.        *)
(***************************************************************************)
EXTENDS Integers

CONSTANTS
    Providers,      \* capital providers
    Opps,           \* financing opportunities
    Deals,          \* demands a deal may place: functions Providers -> Int
    Liquidity0,     \* free capital at the start
    Restatements    \* values a provider may restate its free capital to

VARIABLES
    liquidity,      \* free capital of each provider
    status          \* "MATCHED", or "OPEN" for every other status

vars == <<liquidity, status>>

Init ==
    /\ liquidity = Liquidity0
    /\ status = [o \in Opps |-> "OPEN"]

\* One deal, whole or not at all.
Deal(o, demand) ==
    /\ \A p \in Providers : demand[p] <= liquidity[p]
    /\ liquidity' = [p \in Providers |-> liquidity[p] - demand[p]]
    /\ status' = [status EXCEPT ![o] = "MATCHED"]

\* A provider declares what it has free.
Restate(p, value) ==
    /\ liquidity' = [liquidity EXCEPT ![p] = value]
    /\ UNCHANGED status

Next ==
    \/ \E o \in Opps, demand \in Deals : Deal(o, demand)
    \/ \E p \in Providers, value \in Restatements : Restate(p, value)

Spec == Init /\ [][Next]_vars
=============================================================================
