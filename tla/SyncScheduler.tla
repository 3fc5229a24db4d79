--------------------------- MODULE SyncScheduler ---------------------------
(***************************************************************************)
(* The background task that syncs the configured organisations in turn,    *)
(* forever (backend/app/sync/scheduler.py), and the server whose lifespan  *)
(* owns it (backend/app/main.py), beside the syncs that requests ask for.  *)
(*                                                                         *)
(* The task is an asyncio coroutine: between two of its awaits nothing     *)
(* else of the event loop runs, so a step here goes from one await to the  *)
(* next.  It waits for each sync, which runs in a thread of its own.       *)
(* Bounds: Scheduled has a sync for each round there may be; the syncs of  *)
(* other organisations, of which the task only sees how they end, have     *)
(* none.                                                                   *)
(***************************************************************************)
EXTENDS PortfolioSync

CONSTANTS
    Scheduled,      \* the syncs the task starts; the rest are requests
    Round,          \* the entries of sync_org_ids: "own" is the organisation
                    \* of PortfolioSync, "other" any other
    Another         \* stands for a thread that syncs another organisation

ASSUME ScheduledAssumption ==
    /\ Scheduled \subseteq Syncs
    /\ Another \notin Syncs
    /\ Round \in Seq({"own", "other"}) /\ Round # <<>>

VARIABLES
    task,           \* "sleeping", "awaiting" a thread, or "ended"
    at,             \* the entry of Round it is at, 0 when it sleeps
    thread,         \* the sync it awaits, or last awaited
    server          \* "serving", "stopping", "stopped" or "killed"

taskVars == <<task, at, thread>>
vars == <<syncVars, taskVars, server>>

SchedulerInit ==
    /\ Init
    /\ task = "sleeping"
    /\ at = 0
    /\ thread = Another
    /\ server = "serving"

\* asyncio.to_thread(_sync_org, ...) for the n-th entry, or back to sleep.
Launch(n) ==
    \/ /\ n > Len(Round)
       /\ task' = "sleeping" /\ at' = 0
       /\ UNCHANGED <<thread, syncVars>>
    \/ /\ n =< Len(Round) /\ Round[n] = "own"
       /\ task' = "awaiting" /\ at' = n
       /\ \E s \in Scheduled : Start(s) /\ thread' = s
    \/ /\ n =< Len(Round) /\ Round[n] = "other"
       /\ task' = "awaiting" /\ at' = n
       /\ thread' = Another
       /\ UNCHANGED syncVars

\* The interval is over.  (If the connector is not configured, _sync_once
\* returns and nothing has changed.)
Wake ==
    /\ task = "sleeping"
    /\ "own" \in {Round[n] : n \in 1 .. Len(Round)} =>
            \E s \in Scheduled : pc[s] = "idle"
    /\ Launch(1)
    /\ UNCHANGED server

\* As if one failure ended the round.
ResumeOrGiveUp ==
    /\ task = "awaiting"
    /\ thread # Another => pc[thread] \in {"returned", "raised"}
    /\ \E n \in {at + 1, Len(Round) + 1} : Launch(n)
    /\ UNCHANGED server

\* The thread ended, with a result or an exception: both are logged, and the
\* loop goes on with the next organisation.
Resume ==
    /\ task = "awaiting"
    /\ thread # Another => pc[thread] \in {"returned", "raised"}
    /\ Launch(at + 1)
    /\ UNCHANGED server

\* POST /api/sync.
Request(s) ==
    /\ server = "serving"
    /\ s \notin Scheduled
    /\ Start(s)
    /\ UNCHANGED <<taskVars, server>>

\* The lifespan's finally: task.cancel(), once the requests are answered.  The
\* cancellation ends a task that sleeps; one that awaits a thread leaves the
\* thread running, suppresses CancelledError and goes back to its loop.
Shutdown ==
    /\ server = "serving"
    /\ \A s \in Syncs \ Scheduled : pc[s] \notin Running
    /\ server' = "stopping"
    /\ IF task = "sleeping" THEN task' = "ended" /\ at' = at
       ELSE task' = "sleeping" /\ at' = 0
    /\ UNCHANGED <<thread, syncVars>>

\* As if the task were not awaited.
StopUnawaited ==
    /\ server = "stopping"
    /\ server' = "stopped"
    /\ UNCHANGED <<syncVars, taskVars>>

\* `await task' returns.
Stop ==
    /\ server = "stopping"
    /\ task = "ended"
    /\ server' = "stopped"
    /\ UNCHANGED <<syncVars, taskVars>>

\* The process is killed, with its task and all its threads.
Kill ==
    /\ server \in {"serving", "stopping"}
    /\ server' = "killed"
    /\ task' = "ended"
    /\ Die(Syncs)
    /\ UNCHANGED <<at, thread>>

Elsewhere == UNCHANGED <<taskVars, server>>

SchedulerNext ==
    \/ Wake \/ Resume \/ Shutdown \/ Stop \/ Kill
    \/ \E s \in Syncs : Request(s)
    \/ \E s \in Syncs : (Proceed(s) \/ Fault(s)) /\ Elsewhere
    \/ \E l \in Loads : LoadStep(l) /\ Elsewhere
    \/ BookMoves /\ Elsewhere

SchedulerSpec == SchedulerInit /\ [][SchedulerNext]_vars

\* Threads run, the connector and the database answer or time out; the timer
\* of the task fires and the event loop resumes it.  Nobody owes a request, a
\* shutdown, a kill, a posting or a fault.
FairSchedulerSpec ==
    /\ SchedulerSpec
    /\ \A s \in Syncs : WF_vars(Proceed(s) /\ Elsewhere)
    /\ WF_vars(Wake) /\ WF_vars(Resume) /\ WF_vars(Stop)

----------------------------------------------------------------------------
(* Properties.                                                             *)

\* While the server serves, the task's own syncs come one after the other,
\* and it is there to start the next, however they end; and a server that
\* stopped has left none running (main.py:38, "Awaited so shutdown does not
\* race a sync mid-transaction").
ScheduledInTurn ==
    LET running == {s \in Scheduled : pc[s] \in Running} IN
    /\ server = "serving" =>
        task # "ended" /\ running \subseteq {thread}
    /\ server = "stopped" => running = {}

\* One organisation's failure does not stop the rest: a round that began gets
\* to its last organisation, unless the server is stopped meanwhile.
EveryOrgIsTried ==
    at = 1 /\ server = "serving" ~> at = Len(Round) \/ server # "serving"

\* main.py:33-40: the lifespan cancels the task and awaits it, so that the
\* server stops.  Violated: a cancellation that finds a sync running is
\* suppressed, the loop goes on, and the await never returns.
ShutdownCompletes ==
    server = "stopping" ~> server \in {"stopped", "killed"}
=============================================================================
