-------------------------- MODULE VerificationCall --------------------------
(***************************************************************************)
(* The buyer's verification call: the invoice page, its dialog             *)
(* (VoiceVerificationModal.tsx) that plays the script line by line and     *)
(* then commits the upgrade, and the route /api/verify/call with its read  *)
(* committed transaction.  A second tab may post the same confirmation.    *)
(*                                                                         *)
(* A loop of handleStartCall outlives the dialog that started it: nothing  *)
(* cancels it.  The dialog unmounts whenever the page shows that it loads, *)
(* and what it held is gone.  The facts panel of the dialog is display     *)
(* only and left out.                                                      *)
(***************************************************************************)
EXTENDS Speech, Naturals, FiniteSets

CONSTANTS
    Calls,          \* bound: how often the call is started, a set 1..n
    Lines,          \* lines of the script
    Other           \* the second tab

ASSUME CallAssumption ==
    /\ Lines \in Nat \ {0}
    /\ Calls \subseteq Nat \ {0} /\ IsFiniteSet(Calls) /\ Other \notin Calls
    /\ Clips = Calls \X (1..Lines) /\ NoClip \notin Clips

VARIABLES
    tier, date,     \* the invoice: its tier, and who dated the acceptance
    tx,             \* each POST: where it stands, and what it has read
    page,           \* the invoice page, and the tier it shows
    shownTier,
    loads,          \* its fetches; 0 is the first, k the one after call k
    mounts,         \* how many times the dialog has been mounted
    callOpen, callState, spoken, failure,
    calls           \* the loops: where each stands, its mount, and beside which
                    \* loops it began (that last for the properties only)

invoice == <<tier, date>>
screen == <<page, shownTier, loads, mounts, callOpen>>
dialog == <<callState, spoken, failure>>
vars == <<invoice, tx, screen, dialog, calls, hook>>

Undated == 0

Live(k) == page = "shown" /\ calls[k].mount = mounts

Running == {k \in Calls : calls[k].pc \in {"script", "line", "committing"}}

\* setState of an unmounted component does nothing.
Show(k, state, count, failed) ==
    IF Live(k)
    THEN callState' = state /\ spoken' = count /\ failure' = failed
    ELSE UNCHANGED dialog

-----------------------------------------------------------------------------
\* The route.  Any call may fail or its answer be lost.

Post(c) == tx' = [tx EXCEPT ![c].pc = "sent"]

OtherTabPosts ==
    /\ tx[Other].pc = "none"
    /\ Post(Other)
    /\ UNCHANGED <<invoice, screen, dialog, calls, hook>>

TxRead(c) ==
    /\ tx[c].pc = "sent"
    /\ tx' = [tx EXCEPT ![c] = [pc |-> "read", tier |-> tier, date |-> date]]
    /\ UNCHANGED <<invoice, screen, dialog, calls, hook>>

\* The tier that was read decides; a date that was read is kept.
TxWrite(c) ==
    /\ tx[c].pc = "read"
    /\ IF tx[c].tier = "BUYER_ACCEPTED" THEN UNCHANGED invoice
       ELSE /\ tier' = "BUYER_ACCEPTED"
            /\ date' = IF tx[c].date = Undated THEN c ELSE tx[c].date
    /\ \E answer \in {"ok", "failed"} : tx' = [tx EXCEPT ![c].pc = answer]
    /\ UNCHANGED <<screen, dialog, calls, hook>>

\* requireOwner: without a session, a row for its address or the owner's role
\* nothing is read; nor is it when the request cannot be used or a transaction
\* cannot start.
Refuse(c) ==
    /\ tx[c].pc = "sent"
    /\ tx' = [tx EXCEPT ![c].pc = "failed"]
    /\ UNCHANGED <<invoice, screen, dialog, calls, hook>>

TxFails(c) ==
    /\ tx[c].pc = "read"
    /\ tx' = [tx EXCEPT ![c].pc = "failed"]
    /\ UNCHANGED <<invoice, screen, dialog, calls, hook>>

-----------------------------------------------------------------------------
\* The invoice page.

LoadServed(l) ==
    /\ loads[l] = "sent"
    /\ loads' = [loads EXCEPT ![l] = tier] \/ loads' = [loads EXCEPT ![l] = "missing"]
    /\ UNCHANGED <<invoice, tx, page, shownTier, mounts, callOpen, dialog, calls, hook>>

\* What comes back is shown; the dialog is mounted when it was not, in its
\* first state and open if it was open.
LoadArrives(l) ==
    /\ loads[l] \notin {"none", "sent", "done"}
    /\ loads' = [loads EXCEPT ![l] = "done"]
    /\ IF loads[l] = "missing"
       THEN /\ page' = "missing"
            /\ UNCHANGED <<shownTier, mounts>>
            /\ callState' = "idle" /\ spoken' = 0 /\ failure' = FALSE
            /\ Unmount
       ELSE /\ page' = "shown"
            /\ shownTier' = loads[l]
            /\ mounts' = IF page = "shown" THEN mounts ELSE mounts + 1
            /\ UNCHANGED <<dialog, hook>>
    /\ UNCHANGED <<invoice, tx, callOpen, calls>>

\* The button is offered while the tier shown can still move.
OpenDialog ==
    /\ page = "shown" /\ ~callOpen /\ shownTier # "BUYER_ACCEPTED"
    /\ callOpen' = TRUE
    /\ UNCHANGED <<invoice, tx, page, shownTier, loads, mounts, dialog, calls, hook>>

\* The dialog can always be dismissed; its effect stops the sound and resets
\* what it shows.
CloseDialog ==
    /\ page = "shown" /\ callOpen
    /\ callOpen' = FALSE
    /\ callState' = "idle" /\ spoken' = 0 /\ failure' = FALSE
    /\ Stop
    /\ UNCHANGED <<invoice, tx, page, shownTier, loads, mounts, calls>>

-----------------------------------------------------------------------------
\* The call.

StartCall(k) ==
    /\ page = "shown" /\ callOpen /\ callState = "idle"
    /\ calls[k].pc = "none" /\ \A j \in Calls : j < k => calls[j].pc # "none"
    /\ calls' = [calls EXCEPT ![k] =
            [pc |-> "script", line |-> 0, mount |-> mounts, beside |-> Running]]
    /\ callState' = "calling" /\ spoken' = 0 /\ failure' = FALSE
    /\ UNCHANGED <<invoice, tx, screen, hook>>

SpeakLine(k, i) ==
    /\ calls' = [calls EXCEPT ![k].pc = "line", ![k].line = i]
    /\ Speak(<<k, i>>, Live(k))
    /\ Show(k, "connected", i, failure)

ScriptArrives(k) ==
    /\ calls[k].pc = "script"
    /\ SpeakLine(k, 1)
    /\ UNCHANGED <<invoice, tx, screen>>

ScriptFails(k) ==
    /\ calls[k].pc = "script"
    /\ calls' = [calls EXCEPT ![k].pc = "failed"]
    /\ Show(k, "idle", spoken, TRUE)
    /\ UNCHANGED <<invoice, tx, screen, hook>>

\* Faulty variant: the lines are not awaited.
NextLineAtOnce(k) ==
    /\ calls[k].pc = "line"
    /\ IF calls[k].line < Lines
       THEN SpeakLine(k, calls[k].line + 1) /\ UNCHANGED tx
       ELSE /\ calls' = [calls EXCEPT ![k].pc = "committing"]
            /\ Post(k)
            /\ UNCHANGED <<dialog, hook>>
    /\ UNCHANGED <<invoice, screen>>

\* A line is over, spoken or not: the next one, or the upgrade.
NextLine(k) ==
    /\ calls[k].pc = "line" /\ clip[<<k, calls[k].line>>] = "over"
    /\ IF calls[k].line < Lines
       THEN SpeakLine(k, calls[k].line + 1) /\ UNCHANGED tx
       ELSE /\ calls' = [calls EXCEPT ![k].pc = "committing"]
            /\ Post(k)
            /\ UNCHANGED <<dialog, hook>>
    /\ UNCHANGED <<invoice, screen>>

\* Faulty variant: the page is not told.
CommittedQuietly(k) ==
    /\ calls[k].pc = "committing" /\ tx[k].pc = "ok"
    /\ calls' = [calls EXCEPT ![k].pc = "done"]
    /\ Show(k, "verified", spoken, failure)
    /\ UNCHANGED <<invoice, tx, screen, hook>>

\* The upgrade is answered: onVerified makes the page load again, which in
\* the same render replaces the dialog, and its "verified" state with it.
Committed(k) ==
    /\ calls[k].pc = "committing" /\ tx[k].pc = "ok"
    /\ calls' = [calls EXCEPT ![k].pc = "done"]
    /\ loads' = [loads EXCEPT ![k] = "sent"]
    /\ page' = "loading"
    /\ callState' = "idle" /\ spoken' = 0 /\ failure' = FALSE
    /\ Unmount
    /\ UNCHANGED <<invoice, tx, shownTier, mounts, callOpen>>

CommitFails(k) ==
    /\ calls[k].pc = "committing" /\ tx[k].pc = "failed"
    /\ calls' = [calls EXCEPT ![k].pc = "failed"]
    /\ Show(k, "idle", spoken, TRUE)
    /\ UNCHANGED <<invoice, tx, screen, hook>>

ClipStep(c) ==
    /\ SpeechStep(c, Live(c[1]))
    /\ UNCHANGED <<invoice, tx, screen, dialog, calls>>

-----------------------------------------------------------------------------
Init ==
    /\ tier \in {"SUPPLIER_ASSERTED", "BUYER_ACCEPTED"}
    /\ date = IF tier = "BUYER_ACCEPTED" THEN Other ELSE Undated
    /\ tx = [c \in Calls \cup {Other} |->
                [pc |-> "none", tier |-> "SUPPLIER_ASSERTED", date |-> Undated]]
    /\ page = "loading" /\ shownTier = "SUPPLIER_ASSERTED"
    /\ loads = [l \in {0} \cup Calls |-> IF l = 0 THEN "sent" ELSE "none"]
    /\ mounts = 0 /\ callOpen = FALSE
    /\ callState = "idle" /\ spoken = 0 /\ failure = FALSE
    /\ calls = [k \in Calls |-> [pc |-> "none", line |-> 0, mount |-> 0, beside |-> {}]]
    /\ SpeechInit

TxStep(c) == TxRead(c) \/ Refuse(c) \/ TxWrite(c) \/ TxFails(c)

PageStep(l) == LoadServed(l) \/ LoadArrives(l)

LoopStep(k) ==
    ScriptArrives(k) \/ ScriptFails(k) \/ NextLine(k) \/ Committed(k) \/ CommitFails(k)

Next ==
    \/ OpenDialog \/ CloseDialog \/ OtherTabPosts
    \/ \E c \in Calls \cup {Other} : TxStep(c)
    \/ \E l \in {0} \cup Calls : PageStep(l)
    \/ \E k \in Calls : StartCall(k) \/ LoopStep(k)
    \/ \E c \in Clips : ClipStep(c)

\* Every request is answered or fails, and timers fire.  No fairness for the
\* end of a playback: the browser may never report it.
Spec ==
    /\ Init /\ [][Next]_vars
    /\ \A c \in Calls \cup {Other} : WF_vars(TxStep(c))
    /\ \A l \in {0} \cup Calls : WF_vars(PageStep(l))
    /\ \A k \in Calls : WF_vars(LoopStep(k))
    /\ \A c \in Clips :
        /\ WF_vars((SpeakFails(c, Live(c[1])) \/ StartPlaying(c, Live(c[1]))) /\ ClipStep(c))
        /\ WF_vars(Watchdog(c, Live(c[1])) /\ ClipStep(c))
        /\ WF_vars(LearnsItWasCut(c, Live(c[1])) /\ ClipStep(c))

-----------------------------------------------------------------------------
\* Properties.

\* The page shows another tier than the invoice has only while the answer to
\* the confirmation that moved it is under way, or when that answer was lost,
\* or another tab confirmed; and no longer once any call was told of success,
\* whichever loops and fetches are still running.
PageAgrees ==
    page = "shown" /\ shownTier # tier =>
        /\ date = Other \/ tx[date].pc = "failed" \/ calls[date].pc = "committing"
        /\ \A k \in Calls : calls[k].pc # "done"

\* An invoice is upgraded after every line of the call that confirms it was
\* over, spoken or given up; or by the other tab.
AcceptedAfterTheCall ==
    [][ tier' # tier /\ date' # Other =>
            \A i \in 1..Lines : clip[<<date', i>>] = "over" ]_vars

\* Two loops ran at the same time.
Accompanied(k) == calls[k].beside # {} \/ \E l \in Calls : k \in calls[l].beside

\* The sides of a call do not talk over each other, nor over an earlier call,
\* even when a line has stalled and the watchdog gave up on it, and wherever a
\* dialog was dismissed: of two clips that sound together, one is of a call that
\* was started over another, or had another started over it.
VoicesTakeTurns ==
    \A c, d \in sounding : c = d \/ Accompanied(c[1]) \/ Accompanied(d[1])

\* A call that was started ends, even if the browser never says that a clip
\* has: it is committed, or it fails.
EveryCallEnds ==
    \A k \in Calls : calls[k].pc = "script" ~> calls[k].pc \in {"done", "failed"}
=============================================================================
