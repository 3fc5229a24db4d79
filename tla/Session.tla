------------------------------ MODULE Session -------------------------------
(***************************************************************************)
(* How a browser tab gets past the sign-in: the proxy in front of every    *)
(* page, the login page, and the callback that decides whether the person  *)
(* Google vouches for has an account here.  The callback reads, admits and *)
(* binds in calls of their own, so another tab of the same browser, which  *)
(* shares the cookie jar, may sign the same person in between them.        *)
(* Google and Supabase Auth are external and configured; one person uses   *)
(* the tab.  Whether that person is an owner or a viewer matters to the    *)
(* routes that write (VerificationCall) and to no page.                    *)
(***************************************************************************)
CONSTANTS
    Nothing         \* null

VARIABLES
    page,           \* what the tab shows
    next,           \* the page asked for before the sign-in
    signed,         \* the cookie jar holds a session
    user,           \* the person's row of the table User; "nameless", Google tells no email
    platform        \* the organisation viewers join exists

session == <<page, next, signed, user, platform>>

\* The seed creates the platform organisation before it lists anybody; bound:
\* it is there for the nameless too, to whom it makes no difference.
SessionInit ==
    /\ page = "blank" /\ next = Nothing /\ signed = FALSE
    /\ user \in {"absent", "listed", "nameless"} /\ platform \in BOOLEAN
    /\ user # "absent" => platform

\* Those the callback sends back to the login page: no email to look them up
\* by, or no row and no organisation to join.
TurnedAway == user = "nameless" \/ (user = "absent" /\ ~platform)

\* Every navigation passes the proxy: without a session it ends at the login
\* page, which remembers what was asked for, the root page excepted.
Goto(p) ==
    IF signed THEN page' = p /\ UNCHANGED next
    ELSE page' = "login" /\ next' = IF p = "home" THEN Nothing ELSE p

\* The login page itself sends a person with a session home.
LeaveLogin ==
    /\ page = "login" /\ signed
    /\ page' = "home" /\ next' = Nothing
    /\ UNCHANGED <<signed, user, platform>>

\* The button; the callback's address carries what was asked for.  A failure
\* is told and leaves the tab where it is.
SignIn ==
    /\ page = "login" /\ ~signed
    /\ page' = "google"
    /\ UNCHANGED <<next, signed, user, platform>>

\* Back at the callback: a code that is exchanged for a session, which the
\* callback's answer will carry as a cookie, also the answer that sends a
\* person without an email back; or consent denied, no code, or a failed
\* exchange.  Who is sent back has what was asked for forgotten.
ExchangeCode ==
    /\ page = "google"
    /\ \/ user # "nameless" /\ page' = "looking" /\ UNCHANGED <<next, signed>>
       \/ user = "nameless" /\ page' = "login" /\ next' = Nothing /\ signed' = TRUE
       \/ page' = "login" /\ next' = Nothing /\ UNCHANGED signed
    /\ UNCHANGED <<user, platform>>

LookUpUser ==
    /\ page = "looking"
    /\ page' = IF user = "absent" THEN "admitting" ELSE "binding"
    /\ UNCHANGED <<next, signed, user, platform>>

\* Nobody was found: a viewer's row is created in the platform organisation.
\* Without one the person is signed out again, unless signOut fails: nobody
\* reads the error it returns, and the answer carries the cookie.  If the row
\* has come meanwhile its address is taken, and create throws.
Admit ==
    /\ page = "admitting"
    /\ IF ~platform
       THEN page' = "login" /\ next' = Nothing /\ signed' \in BOOLEAN /\ UNCHANGED user
       ELSE /\ page' = IF user = "absent" THEN "binding" ELSE "error"
            /\ user' = IF user = "absent" THEN "listed" ELSE user
            /\ UNCHANGED <<next, signed>>
    /\ UNCHANGED platform

\* The Supabase identity is bound to the row; the answer carries the cookie
\* and leads to what was asked for.
Bind ==
    /\ page = "binding"
    /\ user' = "bound" /\ signed' = TRUE
    /\ page' = IF next = Nothing THEN "home" ELSE next
    /\ next' = Nothing
    /\ UNCHANGED platform

\* Faulty variant: the exception is caught and answered with a redirect, which
\* carries the cookie.
CallbackCatches ==
    /\ page \in {"looking", "admitting", "binding"}
    /\ page' = "login" /\ next' = Nothing /\ signed' = TRUE
    /\ UNCHANGED <<user, platform>>

\* A database call throws: the answer is a 500, without cookies.
CallbackThrows ==
    /\ page \in {"looking", "admitting", "binding"}
    /\ page' = "error"
    /\ UNCHANGED <<next, signed, user, platform>>

\* Another tab of the browser completes the same person's sign-in, or is sent
\* back with the cookie.
OtherTabSignsIn ==
    /\ ~signed
    /\ signed' = TRUE
    /\ user' = IF TurnedAway THEN user ELSE "bound"
    /\ UNCHANGED <<page, next, platform>>

\* The session expires, or is signed out elsewhere.
SessionEnds ==
    /\ signed
    /\ signed' = FALSE
    /\ UNCHANGED <<page, next, user, platform>>

SessionStep ==
    \/ LeaveLogin \/ ExchangeCode \/ LookUpUser \/ Admit \/ Bind
    \/ CallbackThrows \/ OtherTabSignsIn \/ SessionEnds

\* What the code keeps of "a half-authenticated session cannot linger"
\* (auth/callback/route.ts:9).  Whoever the market would admit holds no session
\* without a row bound to it, whichever call of a callback failed and whatever
\* another tab did meanwhile.  Those it turns away may: their sign-out can fail,
\* and for lack of an email it is not tried.
OnlyTurnedAwayLinger == signed => user = "bound" \/ TurnedAway
=============================================================================
