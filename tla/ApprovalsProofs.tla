--------------------------- MODULE ApprovalsProofs ---------------------------
(***************************************************************************)
(* Proofs about Approvals for any requests, readings of the portfolio,     *)
(* faults and restarts.  The argument: an approval that a request can read *)
(* stands, that is, no later rejection of a decision that met no other     *)
(* (SqlStands, MemoryStands); a decision that was overtaken between its    *)
(* read and its write met the one that overtook it (Overtaken); and what a *)
(* request carries from its read to its rewrite of the trail is a part of  *)
(* the history that lacks only such decisions (Carries).                   *)
(***************************************************************************)
EXTENDS Approvals, SequenceTheorems, TLAPS

Actions == {"FOLLOW_UP", "FINANCE", "ESCALATE"}
Rows == [state : {"APPROVED", "REJECTED"}, action : Actions, by : Requests]
Entries == [by : Requests, decision : Kinds, action : Actions]
Reads == [row : Rows \cup {NoDecision}, rows : Seq(Entries)]
Vias == {"sql", "memory"}

----------------------------------------------------------------------------
(* The inductive invariant.                                                *)

ApprovalsTypeOK ==
    /\ memory \in Seq(Reads) /\ store \in {Unset, Sql} \cup DOMAIN memory
    /\ decision \in Rows \cup {NoDecision} /\ trail \in Seq(Entries)
    /\ pc \in [Requests -> {"idle"} \cup Running \cup Ended]
    /\ kind \in [Requests -> Kinds]
    /\ rec \in [Requests -> [action : Actions,
                             state : {"PENDING_APPROVAL", "APPROVED", "REJECTED"}]]
    /\ using \in [Requests -> Int]
    /\ got \in [Requests -> Reads] /\ tx \in [Requests -> Reads]
    /\ artifact \in [Requests -> [action : Actions, via : Vias] \cup {Nothing}]
    /\ recorded \in Seq([entry : Entries, via : Vias])
    /\ began \in [Requests -> Nat]
    /\ \A r \in Requests : began[r] <= Len(recorded)
    /\ crowded \subseteq Requests

Approves(i, via) == recorded[i].entry.decision = "approve" /\ recorded[i].via = via

\* A rejection by a decision that met no other.
Revokes(j, via) ==
    /\ recorded[j].entry.decision = "reject" /\ recorded[j].via = via
    /\ recorded[j].entry.by \notin crowded

\* There is an approval that nothing has revoked ...
Stands(via) ==
    \E i \in DOMAIN recorded :
        Approves(i, via) /\ \A j \in DOMAIN recorded : j > i => ~Revokes(j, via)

\* ... or that nothing had when the request began.
Cleared(r, via) ==
    \E i \in DOMAIN recorded :
        Approves(i, via) /\ \A j \in (i + 1)..began[r] : ~Revokes(j, via)

Approved(row) == row # NoDecision /\ row.state = "APPROVED"

SqlStands == Approved(decision) => Stands("sql")

MemoryStands ==
    store \in DOMAIN memory /\ Approved(memory[store].row) => Stands("memory")

\* Two decisions in progress at once have met.
Crowds == \A q, r \in Busy : q # r => q \in crowded

Writing == {"delete", "deleting", "flush", "commit"}

Control(r) ==
    /\ pc[r] \in {"idle", "probe", "replay", "replayRows"} =>
            rec[r].state = "PENDING_APPROVAL"
    /\ pc[r] \in {"peek", "peekRows", "record", "recorded"} \cup Writing =>
            kind[r] \in Deciding
    /\ pc[r] \in {"replayRows", "peekRows"} \cup Writing => using[r] = Sql
    /\ pc[r] = "record" /\ using[r] # Sql => using[r] \in DOMAIN memory
    /\ pc[r] = "idle" => artifact[r] = Nothing
    /\ pc[r] \in {"idle", "probe", "replay", "replayRows", "peek", "peekRows"} =>
            got[r].rows = <<>>
    /\ pc[r] \notin Writing => tx[r].row = NoDecision

Gate(r) ==
    /\ pc[r] = "replayRows" /\ Approved(got[r].row) => Cleared(r, "sql")
    /\ pc[r] = "build" /\ rec[r].state = "APPROVED" => Cleared(r, ViaOf(r))
    /\ pc[r] = "recorded" /\ kind[r] = "approve" => Cleared(r, ViaOf(r))
    /\ artifact[r] # Nothing /\ artifact[r].action \in Sensitive =>
            Cleared(r, artifact[r].via)

Overtaken(r) ==
    /\ pc[r] \in Writing /\ tx[r].row # decision => r \in crowded
    /\ tx[r].row # NoDecision => decision # NoDecision
    /\ /\ pc[r] = "record" /\ using[r] # Sql /\ using[r] # store
       /\ store \in DOMAIN memory /\ memory[store].row # NoDecision
       => r \in crowded

\* A sequence of entries is a part of the history of the database, in order.
Part(s) ==
    \E at \in [DOMAIN s -> InDatabase] :
        /\ \A m, n \in DOMAIN s : m < n => at[m] < at[n]
        /\ \A n \in DOMAIN s : s[n] = recorded[at[n]].entry

\* It lacks only decisions that met another.
LacksNone(s) ==
    \A i \in InDatabase :
        recorded[i].entry.by \notin crowded =>
            \E n \in DOMAIN s : s[n] = recorded[i].entry

Carries(r) ==
    pc[r] \in {"record"} \cup Writing /\ using[r] = Sql =>
        Part(got[r].rows) /\ LacksNone(got[r].rows)

EndsWithLatest ==
    \A i \in InDatabase :
        (\A j \in InDatabase : j <= i) =>
            trail # <<>> /\ trail[Len(trail)] = recorded[i].entry

\* Without a row nothing has been recorded in the database.
RowOfHistory == decision = NoDecision => InDatabase = {}

Local(r) == Control(r) /\ Gate(r) /\ Overtaken(r) /\ Carries(r)

IInv ==
    /\ ApprovalsTypeOK
    /\ SqlStands /\ MemoryStands /\ Crowds /\ RowOfHistory
    /\ Part(trail) /\ LacksNone(trail) /\ EndsWithLatest
    /\ \A r \in Requests : Local(r)

----------------------------------------------------------------------------
(* The history.                                                            *)

\* What Append does to a sequence.
LEMMA Appended ==
  ASSUME NEW T, NEW s \in Seq(T), NEW e \in T
  PROVE  /\ Append(s, e) \in Seq(T)
         /\ Len(Append(s, e)) = Len(s) + 1
         /\ DOMAIN Append(s, e) = 1..(Len(s) + 1) /\ DOMAIN s = 1..Len(s)
         /\ \A n \in DOMAIN s : Append(s, e)[n] = s[n]
         /\ Append(s, e)[Len(s) + 1] = e
OBVIOUS

\* What a decision records is well formed.
LEMMA EntryType ==
  ASSUME ApprovalsTypeOK, NEW r \in Requests
  PROVE  Entry(r) \in Entries /\ RowOf(r) \in Rows /\ ViaOf(r) \in Vias
BY DEF ApprovalsTypeOK, Entry, RowOf, StateOf, ViaOf, Entries, Rows, Vias

\* What stands was cleared for whoever had begun by then.
LEMMA StandsClears ==
  ASSUME ApprovalsTypeOK, NEW r \in Requests, NEW via, Stands(via)
  PROVE  Cleared(r, via)
<1>1. PICK i \in DOMAIN recorded :
          Approves(i, via) /\ \A j \in DOMAIN recorded : j > i => ~Revokes(j, via)
  BY DEF Stands
<1>2. \A j \in (i + 1)..began[r] : j \in DOMAIN recorded /\ j > i
  BY <1>1 DEF ApprovalsTypeOK
<1> QED
  BY <1>1, <1>2 DEF Cleared

\* An entry is added to the history: what it held, it holds.
LEMMA Remembered ==
  ASSUME ApprovalsTypeOK, NEW r \in Requests, Remember(r)
  PROVE  /\ Len(recorded) \in Nat /\ recorded' \in Seq([entry : Entries, via : Vias])
         /\ Len(recorded') = Len(recorded) + 1
         /\ DOMAIN recorded = 1..Len(recorded) /\ DOMAIN recorded' = 1..(Len(recorded) + 1)
         /\ \A i \in DOMAIN recorded : recorded'[i] = recorded[i]
         /\ recorded'[Len(recorded) + 1] = [entry |-> Entry(r), via |-> ViaOf(r)]
  BY EntryType, Appended DEF Remember, ApprovalsTypeOK

\* An approval of an earlier decision still stands, unless this one revokes it;
\* and what was cleared for a request that began is so for good.
LEMMA StandsOn ==
  ASSUME ApprovalsTypeOK, NEW r \in Requests, Remember(r), UNCHANGED <<crowded, began>>
  PROVE  /\ \A via : Stands(via) /\ (ViaOf(r) # via \/ kind[r] # "reject" \/ r \in crowded)
                        => Stands(via)'
         /\ \A q \in Requests : \A via : Cleared(q, via) => Cleared(q, via)'
<1>h. /\ Len(recorded) \in Nat /\ recorded' \in Seq([entry : Entries, via : Vias])
      /\ Len(recorded') = Len(recorded) + 1
      /\ DOMAIN recorded = 1..Len(recorded) /\ DOMAIN recorded' = 1..(Len(recorded) + 1)
      /\ \A i \in DOMAIN recorded : recorded'[i] = recorded[i]
      /\ recorded'[Len(recorded) + 1] = [entry |-> Entry(r), via |-> ViaOf(r)]
  BY Remembered
<1>u. UNCHANGED crowded /\ UNCHANGED began
  OBVIOUS
<1>1. ASSUME NEW via, Stands(via),
             ViaOf(r) # via \/ kind[r] # "reject" \/ r \in crowded
      PROVE  Stands(via)'
  <2>1. PICK i \in DOMAIN recorded :
            Approves(i, via) /\ \A j \in DOMAIN recorded : j > i => ~Revokes(j, via)
    BY <1>1 DEF Stands
  <2>2. i \in DOMAIN recorded' /\ Approves(i, via)'
    BY <2>1, <1>h, <1>u DEF Approves
  <2>3. ASSUME NEW j \in DOMAIN recorded', j > i
        PROVE  ~Revokes(j, via)'
    <3>1. CASE j \in DOMAIN recorded
      BY <2>1, <2>3, <3>1, <1>h, <1>u DEF Revokes
    <3>2. CASE j = Len(recorded) + 1
      BY <1>1, <3>2, <1>h, <1>u DEF Revokes, Entry
    <3> QED
      BY <3>1, <3>2, <1>h, <1>u DEF ApprovalsTypeOK
  <2> QED
    BY <2>2, <2>3 DEF Stands
<1>2. ASSUME NEW q \in Requests, NEW via, Cleared(q, via)
      PROVE  Cleared(q, via)'
  <2>1. PICK i \in DOMAIN recorded :
            Approves(i, via) /\ \A j \in (i + 1)..began[q] : ~Revokes(j, via)
    BY <1>2 DEF Cleared
  <2>2. i \in DOMAIN recorded' /\ Approves(i, via)'
    BY <2>1, <1>h, <1>u DEF Approves
  <2>3. \A j \in (i + 1)..began[q] : j \in DOMAIN recorded
    BY <1>h, <1>u DEF ApprovalsTypeOK
  <2>4. \A j \in (i + 1)..began[q] : ~Revokes(j, via)'
    BY <2>1, <2>3, <1>h, <1>u DEF Revokes
  <2> QED
    BY <2>2, <2>4 DEF Cleared
<1> QED
  BY <1>1, <1>2

\* An approval stands, and clears its own request, when it is recorded.
LEMMA ApprovalStands ==
  ASSUME ApprovalsTypeOK, NEW r \in Requests, Remember(r), kind[r] = "approve",
         NEW via, via = ViaOf(r), UNCHANGED <<crowded, began>>
  PROVE  Stands(via)' /\ Cleared(r, via)'
<1>n. PICK new : new = Len(recorded) + 1
  OBVIOUS
<1>h. /\ Len(recorded) \in Nat /\ Len(recorded') = new /\ DOMAIN recorded' = 1..new
      /\ recorded'[new] = [entry |-> Entry(r), via |-> ViaOf(r)]
  BY Remembered, <1>n
<1>b. began'[r] = began[r] /\ began[r] \in Nat /\ began[r] <= Len(recorded)
  BY DEF ApprovalsTypeOK
<1>1. new \in DOMAIN recorded' /\ Approves(new, via)'
  BY <1>h, <1>n DEF Approves, Entry
<1>2. \A j \in DOMAIN recorded' : ~(j > new)
  BY <1>h
<1>3. \A j \in (new + 1)..began'[r] : FALSE
  BY <1>h, <1>b, <1>n
<1> QED
  BY <1>1, <1>2, <1>3 DEF Stands, Cleared

----------------------------------------------------------------------------
(* Steps that record nothing.                                              *)

OnlyOf(r) ==
    \A q \in Requests \ {r} :
        /\ pc'[q] = pc[q] /\ kind'[q] = kind[q] /\ rec'[q] = rec[q]
        /\ using'[q] = using[q] /\ got'[q] = got[q] /\ tx'[q] = tx[q]
        /\ artifact'[q] = artifact[q] /\ began'[q] = began[q]

\* The store is the same, or one without decisions.
SameStore ==
    /\ DOMAIN memory \subseteq DOMAIN memory'
    /\ \/ UNCHANGED <<store, memory>>
       \/ store' \notin DOMAIN memory'
       \/ memory'[store'].row = NoDecision

\* What is true of the history stays so when no decision is added to it.
LEMMA HistoryStands ==
  ASSUME UNCHANGED recorded, crowded \subseteq crowded'
  PROVE  /\ InDatabase' = InDatabase
         /\ \A via : Stands(via) => Stands(via)'
         /\ \A q, via : Cleared(q, via) /\ began'[q] = began[q] => Cleared(q, via)'
         /\ \A s : Part(s) => Part(s)'
         /\ \A s : LacksNone(s) => LacksNone(s)'
<1>1. InDatabase' = InDatabase
  BY DEF InDatabase
<1>2. ASSUME NEW via, Stands(via) PROVE Stands(via)'
  BY <1>2 DEF Stands, Approves, Revokes
<1>3. ASSUME NEW q, NEW via, Cleared(q, via), began'[q] = began[q]
      PROVE  Cleared(q, via)'
  BY <1>3 DEF Cleared, Approves, Revokes
<1>4. ASSUME NEW s, Part(s) PROVE Part(s)'
  BY <1>1, <1>4 DEF Part
<1>5. ASSUME NEW s, LacksNone(s) PROVE LacksNone(s)'
  BY <1>1, <1>5 DEF LacksNone
<1> QED
  BY <1>1, <1>2, <1>3, <1>4, <1>5

\* What is local to the others stays.
LEMMA OthersStay ==
  ASSUME NEW r \in Requests, NEW q \in Requests \ {r}, Local(q), OnlyOf(r),
         UNCHANGED <<decision, trail, recorded>>, crowded \subseteq crowded', SameStore
  PROVE  Local(q)'
<1>0. UNCHANGED recorded /\ UNCHANGED decision /\ UNCHANGED trail
  OBVIOUS
<1>s. /\ pc'[q] = pc[q] /\ kind'[q] = kind[q] /\ rec'[q] = rec[q]
      /\ using'[q] = using[q] /\ got'[q] = got[q] /\ tx'[q] = tx[q]
      /\ artifact'[q] = artifact[q] /\ began'[q] = began[q]
  BY DEF OnlyOf
<1>1. Control(q)'
  BY <1>s DEF Local, Control, SameStore
<1>2. Gate(q)'
  <2>1. \A via : Cleared(q, via) => Cleared(q, via)'
    BY <1>0, <1>s, HistoryStands
  <2>2. ViaOf(q)' = ViaOf(q)
    BY <1>s DEF ViaOf
  <2>3. ASSUME pc[q] = "replayRows", Approved(got[q].row) PROVE Cleared(q, "sql")'
    BY <2>1, <2>3 DEF Local, Gate
  <2>4. ASSUME NEW via, via = ViaOf(q),
               \/ pc[q] = "build" /\ rec[q].state = "APPROVED"
               \/ pc[q] = "recorded" /\ kind[q] = "approve"
        PROVE  Cleared(q, via)'
    BY <2>1, <2>4 DEF Local, Gate
  <2>5. ASSUME artifact[q] # Nothing, artifact[q].action \in Sensitive,
               NEW via, via = artifact[q].via
        PROVE  Cleared(q, via)'
    BY <2>1, <2>5 DEF Local, Gate
  <2> QED
    BY <1>s, <2>2, <2>3, <2>4, <2>5 DEF Gate, Approved, Cleared, Approves, Revokes
<1>3. Overtaken(q)'
  BY <1>0, <1>s DEF Local, Overtaken, SameStore
<1>4. Carries(q)'
  <2>1. ASSUME pc[q] \in {"record"} \cup Writing, using[q] = Sql, NEW s, s = got[q].rows
        PROVE  Part(s)' /\ LacksNone(s)'
    <3>1. Part(s) /\ LacksNone(s)
      BY <2>1 DEF Local, Carries
    <3> QED
      BY <1>0, <3>1, HistoryStands
  <2> QED
    BY <1>s, <2>1 DEF Carries, Part, LacksNone
<1> QED
  BY <1>1, <1>2, <1>3, <1>4 DEF Local

\* A step of one request that records nothing keeps the invariant if it keeps
\* its own part of it.
LEMMA CalmStep ==
  ASSUME IInv, NEW r \in Requests, ApprovalsTypeOK', Crowds', Local(r)', OnlyOf(r),
         UNCHANGED <<decision, trail, recorded>>, crowded \subseteq crowded', SameStore
  PROVE  IInv'
<1>0. UNCHANGED recorded /\ UNCHANGED decision /\ UNCHANGED trail
  OBVIOUS
<1>1. SqlStands'
  BY <1>0, HistoryStands DEF IInv, SqlStands
<1>2. MemoryStands'
  BY <1>0, HistoryStands DEF IInv, MemoryStands, SameStore, Approved
<1>3. RowOfHistory' /\ EndsWithLatest'
  BY <1>0, HistoryStands DEF IInv, RowOfHistory, EndsWithLatest
<1>4. Part(trail)' /\ LacksNone(trail)'
  <2>1. \A s : s = trail => Part(s)' /\ LacksNone(s)'
    BY <1>0, HistoryStands DEF IInv
  <2> QED
    BY <1>0, <2>1 DEF Part, LacksNone
<1>5. \A q \in Requests : Local(q)'
  BY OthersStay DEF IInv
<1> QED
  BY <1>1, <1>2, <1>3, <1>4, <1>5 DEF IInv

\* No further decision is in progress.
StillBusy(r) ==
    pc'[r] \in Running /\ kind'[r] \in Deciding =>
        pc[r] \in Running /\ kind[r] \in Deciding

\* Decisions that end, or go on, have met whom they had met.
LEMMA FewerBusy ==
  ASSUME NEW r \in Requests, Crowds, OnlyOf(r), UNCHANGED crowded, StillBusy(r)
  PROVE  Crowds'
BY DEF Crowds, Busy, OnlyOf, StillBusy

\* What such a step leaves alone.
Calm(r) ==
    /\ OnlyOf(r) /\ StillBusy(r) /\ SameStore
    /\ UNCHANGED <<decision, trail, recorded, crowded, began>>

\* The same for a step at which no decision begins.
LEMMA QuietStep ==
  ASSUME IInv, NEW r \in Requests, ApprovalsTypeOK', Calm(r),
         Control(r)', Gate(r)', Overtaken(r)', Carries(r)'
  PROVE  IInv'
<1>1. Crowds'
  BY FewerBusy DEF IInv, Calm
<1> QED
  BY <1>1, CalmStep DEF Calm, Local

\* What was approved in time for a request remains so at such a step.
LEMMA KeepsClear ==
  ASSUME NEW r \in Requests, Calm(r)
  PROVE  \A via : Cleared(r, via) => Cleared(r, via)'
<1>1. UNCHANGED recorded /\ UNCHANGED crowded /\ UNCHANGED began
  BY DEF Calm
<1> QED
  BY <1>1, HistoryStands

\* An artifact handed out before the step was approved in time.
LEMMA HandedOutStays ==
  ASSUME NEW r \in Requests, Gate(r), Calm(r), artifact'[r] = artifact[r]
  PROVE  artifact'[r] # Nothing /\ artifact'[r].action \in Sensitive
            => Cleared(r, artifact[r].via)'
<1>1. ASSUME artifact[r] # Nothing, artifact[r].action \in Sensitive,
             NEW via, via = artifact[r].via
      PROVE  Cleared(r, via)'
  BY <1>1, KeepsClear DEF Gate
<1> QED
  BY <1>1 DEF Cleared, Approves, Revokes

\* The request is over.
LEMMA EndsQuietly ==
  ASSUME IInv, NEW r \in Requests, pc'[r] \in Ended, Forget(r),
         pc' = [pc EXCEPT ![r] = pc'[r]],
         UNCHANGED <<shared, history>>,
         \/ UNCHANGED artifact
         \/ /\ artifact' = [artifact EXCEPT ![r] = artifact'[r]]
            /\ artifact'[r] \in [action : Actions, via : Vias]
            /\ \A via : via = artifact'[r].via /\ artifact'[r].action \in Sensitive
                    => Cleared(r, via)
  PROVE  IInv'
<1>t. ApprovalsTypeOK /\ Local(r)
  BY DEF IInv
<1>u. /\ UNCHANGED <<store, memory, decision, trail>>
      /\ UNCHANGED <<recorded, began, crowded>>
  BY DEF shared, history
<1>1. ApprovalsTypeOK'
  <2>1. Empty \in Reads
    BY DEF Empty, Reads
  <2>2. pc' \in [Requests -> {"idle"} \cup Running \cup Ended]
    BY <1>t DEF ApprovalsTypeOK
  <2>3. /\ kind' \in [Requests -> Kinds]
        /\ rec' \in [Requests -> [action : Actions,
                                  state : {"PENDING_APPROVAL", "APPROVED", "REJECTED"}]]
        /\ using' \in [Requests -> Int]
    BY <1>t DEF ApprovalsTypeOK, Forget, Proposed, Actions, Kinds, Unset
  <2>4. got' \in [Requests -> Reads] /\ tx' \in [Requests -> Reads]
    BY <1>t, <2>1 DEF ApprovalsTypeOK, Forget
  <2>5. artifact' \in [Requests -> [action : Actions, via : Vias] \cup {Nothing}]
    BY <1>t DEF ApprovalsTypeOK
  <2> QED
    BY <1>t, <1>u, <2>2, <2>3, <2>4, <2>5 DEF ApprovalsTypeOK
<1>2. Calm(r)
  BY <1>t, <1>u DEF Calm, OnlyOf, StillBusy, SameStore, ApprovalsTypeOK, Forget,
     Deciding, Running, InStore, Ended
<1>3. Control(r)' /\ Overtaken(r)' /\ Carries(r)'
  BY <1>t DEF Control, Overtaken, Carries, Writing, ApprovalsTypeOK, Forget, Empty, Ended
<1>4. artifact'[r] # Nothing /\ artifact'[r].action \in Sensitive
        => Cleared(r, artifact[r].via)' \/ Cleared(r, artifact'[r].via)
  BY <1>2, <1>t, HandedOutStays DEF Local
<1>5. Gate(r)'
  BY <1>2, <1>4, KeepsClear DEF Gate, Ended
<1> QED
  BY <1>1, <1>2, <1>3, <1>5, QuietStep

----------------------------------------------------------------------------
(* One lemma for each quiet action.                                        *)

States == {"PENDING_APPROVAL", "APPROVED", "REJECTED"}

\* A recommendation keeps its type when its state is set.
LEMMA StateSet ==
  ASSUME ApprovalsTypeOK, NEW r \in Requests, NEW x \in States
  PROVE  [rec EXCEPT ![r].state = x] \in [Requests -> [action : Actions, state : States]]
BY DEF ApprovalsTypeOK, States

\* A decision, or what was replayed, is a state of the recommendation.
LEMMA ReplayTyped ==
  ASSUME ApprovalsTypeOK, NEW r \in Requests, NEW row \in Rows \cup {NoDecision},
         Replay(r, row) \/ Decide(r)
  PROVE  rec' \in [Requests -> [action : Actions, state : States]]
<1>0. rec \in [Requests -> [action : Actions, state : States]]
  BY DEF ApprovalsTypeOK, States
<1>1. row # NoDecision => row.state \in States
  BY DEF Rows, States
<1>2. StateOf(kind[r]) \in States
  BY DEF StateOf, States
<1> QED
  BY <1>0, <1>1, <1>2, StateSet DEF Replay, Decide

\* The probe of get_approval_store.
LEMMA Probing ==
  ASSUME IInv, NEW r \in Requests, BeginProbe(r) \/ ProbeSucceeds(r) \/ ProbeFails(r)
  PROVE  IInv'
<1>t. ApprovalsTypeOK /\ Local(r)
  BY DEF IInv
<1>e. Empty \in Reads /\ Empty.row = NoDecision
  BY DEF Empty, Reads
<1>m. ProbeFails(r) => /\ memory' \in Seq(Reads)
                       /\ DOMAIN memory \subseteq DOMAIN memory'
                       /\ store' \in DOMAIN memory' /\ memory'[store'] = Empty
  BY <1>t, <1>e, Appended DEF ProbeFails, ApprovalsTypeOK
<1>1. ApprovalsTypeOK'
  BY <1>t, <1>m DEF BeginProbe, ProbeSucceeds, ProbeFails, ApprovalsTypeOK, Goto,
     Running, InStore, shared, own, history
<1>2. Calm(r)
  BY <1>t, <1>m, <1>e DEF BeginProbe, ProbeSucceeds, ProbeFails, Calm, OnlyOf, StillBusy,
     SameStore, ApprovalsTypeOK, Goto, Running, InStore, Sql, shared, own, history
<1>3. Control(r)' /\ Overtaken(r)' /\ Carries(r)'
  BY <1>t, <1>m DEF BeginProbe, ProbeSucceeds, ProbeFails, ApprovalsTypeOK, Goto,
     Control, Overtaken, Carries, Local, Writing, shared, own, history
<1>4. Gate(r)'
  <2>1. artifact'[r] = artifact[r]
    BY DEF BeginProbe, ProbeSucceeds, ProbeFails, own
  <2>2. pc'[r] \in {"probe", "replay"}
    BY <1>t DEF BeginProbe, ProbeSucceeds, ProbeFails, ApprovalsTypeOK, Goto
  <2> QED
    BY <1>t, <1>2, <2>1, <2>2, HandedOutStays DEF Gate, Local
<1> QED
  BY <1>1, <1>2, <1>3, <1>4, QuietStep

\* store.get of a dictionary.
LEMMA ReadingMemory ==
  ASSUME IInv, NEW r \in Requests, GetFromMemory(r)
  PROVE  IInv'
<1>t. ApprovalsTypeOK /\ Local(r) /\ MemoryStands
  BY DEF IInv
<1>m. /\ store \in DOMAIN memory /\ store \in Int /\ store # Sql
      /\ memory[store] \in Reads
  BY <1>t DEF GetFromMemory, ApprovalsTypeOK, Sql
<1>1. ApprovalsTypeOK'
  <2>1. UNCHANGED <<store, memory, decision, trail, kind, tx, artifact,
                    recorded, began, crowded>>
    BY DEF GetFromMemory, shared, history
  <2>2. pc' \in [Requests -> {"idle"} \cup Running \cup Ended]
    BY <1>t DEF GetFromMemory, Replay, Decide, ApprovalsTypeOK, Goto, Running, InStore
  <2>3. rec' \in [Requests -> [action : Actions,
                              state : {"PENDING_APPROVAL", "APPROVED", "REJECTED"}]]
    BY <1>t, <1>m, ReplayTyped DEF GetFromMemory, Reads, States
  <2>4. using' \in [Requests -> Int] /\ got' \in [Requests -> Reads]
    BY <1>t, <1>m DEF GetFromMemory, ApprovalsTypeOK
  <2> QED
    BY <1>t, <2>1, <2>2, <2>3, <2>4 DEF ApprovalsTypeOK
<1>2. Calm(r)
  BY <1>t DEF GetFromMemory, Replay, Decide, Calm, OnlyOf, StillBusy, SameStore,
     ApprovalsTypeOK, Goto, Running, InStore, shared, history
<1>u. /\ using'[r] = store /\ artifact'[r] = artifact[r] /\ tx'[r] = tx[r]
      /\ UNCHANGED <<store, memory, decision, kind>>
  BY <1>t DEF GetFromMemory, ApprovalsTypeOK, shared
<1>3. CASE pc[r] = "replay"
  <2>1. /\ pc'[r] = IF kind[r] = "artifact" THEN "build" ELSE "peek"
        /\ got'[r] = got[r]
        /\ rec'[r].state = IF memory[store].row = NoDecision THEN rec[r].state
                                   ELSE memory[store].row.state
    BY <1>t, <1>3 DEF GetFromMemory, Replay, ApprovalsTypeOK, Goto
  <2>2. Control(r)' /\ Overtaken(r)' /\ Carries(r)'
    BY <1>t, <1>m, <1>u, <1>3, <2>1
       DEF Control, Overtaken, Carries, Local, Writing, ApprovalsTypeOK, Kinds, Deciding
  <2>3. ASSUME rec'[r].state = "APPROVED", NEW via, via = ViaOf(r)'
        PROVE  Cleared(r, via)'
    <3>1. Approved(memory[store].row) /\ via = "memory"
      BY <1>t, <1>m, <1>u, <1>3, <2>1, <2>3 DEF Approved, ViaOf, Control, Local
    <3>2. Cleared(r, via)
      BY <1>t, <1>m, <3>1, StandsClears DEF MemoryStands
    <3> QED
      BY <1>2, <3>2, KeepsClear
  <2>4. Gate(r)'
    BY <1>t, <1>2, <1>u, <2>1, <2>3, HandedOutStays DEF Gate, Local
  <2> QED
    BY <1>1, <1>2, <2>2, <2>4, QuietStep
<1>4. CASE pc[r] = "peek"
  <2>1. pc'[r] = "record" /\ got'[r] = memory[store]
    BY <1>t, <1>4 DEF GetFromMemory, Decide, ApprovalsTypeOK, Goto
  <2>2. Control(r)' /\ Overtaken(r)' /\ Carries(r)'
    BY <1>t, <1>m, <1>u, <1>4, <2>1
       DEF Control, Overtaken, Carries, Local, Writing, Deciding
  <2>3. Gate(r)'
    BY <1>t, <1>2, <1>u, <2>1, HandedOutStays DEF Gate, Local
  <2> QED
    BY <1>1, <1>2, <2>2, <2>3, QuietStep
<1> QED
  BY <1>3, <1>4 DEF GetFromMemory

\* The SELECT of the decision.
LEMMA ReadingRow ==
  ASSUME IInv, NEW r \in Requests, GetRow(r)
  PROVE  IInv'
<1>t. ApprovalsTypeOK /\ Local(r) /\ SqlStands /\ RowOfHistory
  BY DEF IInv
<1>u. /\ using' = [using EXCEPT ![r] = Sql]
      /\ UNCHANGED <<store, memory, decision, trail>>
      /\ UNCHANGED <<kind, tx, artifact, recorded, began, crowded>>
  BY DEF GetRow, shared, history
<1>g. ASSUME decision # NoDecision
      PROVE  /\ got' = [got EXCEPT ![r].row = decision] /\ UNCHANGED rec
             /\ \/ pc[r] = "replay" /\ pc' = [pc EXCEPT ![r] = "replayRows"]
                \/ pc[r] = "peek" /\ pc' = [pc EXCEPT ![r] = "peekRows"]
  BY <1>g DEF GetRow, Goto
<1>n. ASSUME decision = NoDecision
      PROVE  /\ UNCHANGED got
             /\ \/ pc[r] = "replay" /\ Replay(r, NoDecision)
                \/ pc[r] = "peek" /\ Decide(r)
  BY <1>n DEF GetRow
<1>p. /\ pc[r] \in {"replay", "peek"}
      /\ pc' = [pc EXCEPT ![r] = pc'[r]]
      /\ pc'[r] \in {"replayRows", "peekRows", "build", "peek", "record"}
      /\ pc'[r] = "build" => pc[r] = "replay" /\ decision = NoDecision
      /\ pc'[r] \in {"peekRows", "record"} => pc[r] = "peek"
      /\ pc'[r] = "peek" => kind[r] # "artifact"
      /\ pc'[r] = "replayRows" => pc[r] = "replay" /\ got'[r].row = decision
      /\ pc'[r] = "record" => decision = NoDecision
  <2>1. /\ pc \in [Requests -> {"idle"} \cup Running \cup Ended]
        /\ got \in [Requests -> Reads]
    BY <1>t DEF ApprovalsTypeOK
  <2>2. CASE decision # NoDecision
    <3>1. got'[r].row = decision
      BY <1>g, <2>1, <2>2 DEF Reads
    <3> QED
      BY <1>g, <2>1, <2>2, <3>1
  <2>3. CASE decision = NoDecision
    BY <1>n, <2>1, <2>3 DEF Replay, Decide, Goto
  <2> QED
    BY <2>2, <2>3
<1>r. pc[r] = "replay" => rec' = rec
  BY <1>g, <1>n DEF Replay
<1>1. ApprovalsTypeOK'
  <2>1. pc' \in [Requests -> {"idle"} \cup Running \cup Ended]
    BY <1>t, <1>p DEF ApprovalsTypeOK, Running, InStore
  <2>2. rec' \in [Requests -> [action : Actions,
                              state : {"PENDING_APPROVAL", "APPROVED", "REJECTED"}]]
    BY <1>t, <1>g, <1>n, ReplayTyped DEF States, ApprovalsTypeOK
  <2>3. using' \in [Requests -> Int]
    BY <1>t, <1>u DEF ApprovalsTypeOK, Sql
  <2>4. got' \in [Requests -> Reads]
    <3>1. got \in [Requests -> Reads] /\ decision \in Rows \cup {NoDecision}
      BY <1>t DEF ApprovalsTypeOK
    <3>2. [got[r] EXCEPT !.row = decision] \in Reads
      BY <3>1 DEF Reads
    <3>3. CASE got' = [got EXCEPT ![r].row = decision]
      BY <3>1, <3>2, <3>3
    <3> QED
      BY <1>g, <1>n, <3>1, <3>3
  <2> QED
    BY <1>t, <1>u, <2>1, <2>2, <2>3, <2>4 DEF ApprovalsTypeOK
<1>2. Calm(r)
  <2>1. OnlyOf(r)
    BY <1>t, <1>u, <1>g, <1>n, <1>p DEF OnlyOf, ApprovalsTypeOK, Replay, Decide
  <2>2. StillBusy(r) /\ SameStore
    BY <1>u, <1>p DEF StillBusy, SameStore, Running, InStore
  <2> QED
    BY <1>u, <2>1, <2>2 DEF Calm
<1>3. Control(r)'
  <2>1. got'[r].rows = <<>> /\ using'[r] = Sql
    BY <1>t, <1>u, <1>g, <1>n, <1>p DEF Control, Local, ApprovalsTypeOK, Reads
  <2> QED
    BY <1>t, <1>u, <1>p, <1>r, <2>1
       DEF Control, Local, Writing, Kinds, Deciding, ApprovalsTypeOK
<1>4. Gate(r)'
  <2>1. Approved(decision) => Cleared(r, "sql")'
    BY <1>t, <1>2, StandsClears, KeepsClear DEF SqlStands
  <2>2. pc'[r] = "build" => rec'[r].state # "APPROVED"
    BY <1>t, <1>p, <1>r DEF Control, Local
  <2> QED
    BY <1>t, <1>2, <1>u, <1>p, <2>1, <2>2, HandedOutStays DEF Gate, Local, Approved
<1>5. Overtaken(r)'
  BY <1>t, <1>u, <1>p DEF Overtaken, Control, Local, Writing, ApprovalsTypeOK
<1>6. Carries(r)'
  <2>1. ASSUME decision = NoDecision PROVE Part(<<>>) /\ LacksNone(<<>>)
    <3>1. InDatabase = {}
      BY <1>t, <2>1 DEF RowOfHistory
    <3>2. DOMAIN <<>> = {}
      OBVIOUS
    <3>3. [n \in {} |-> 0] \in [DOMAIN <<>> -> InDatabase]
      BY <3>2
    <3> QED
      BY <3>1, <3>2, <3>3 DEF Part, LacksNone
  <2>2. pc'[r] = "record" => got'[r].rows = <<>>
    BY <1>t, <1>n, <1>p DEF Control, Local
  <2>3. \A s : s = <<>> /\ decision = NoDecision => Part(s)' /\ LacksNone(s)'
    BY <1>u, <2>1, HistoryStands
  <2> QED
    BY <1>p, <2>2, <2>3 DEF Carries, Writing, Part, LacksNone
<1> QED
  BY <1>1, <1>2, <1>3, <1>4, <1>5, <1>6, QuietStep

\* The SELECT of the entries: what a decision carries is the trail.
LEMMA ReadingRows ==
  ASSUME IInv, NEW r \in Requests, GetRows(r)
  PROVE  IInv'
<1>t. ApprovalsTypeOK /\ Local(r) /\ Part(trail) /\ LacksNone(trail)
  BY DEF IInv
<1>k. /\ pc \in [Requests -> {"idle"} \cup Running \cup Ended]
      /\ kind \in [Requests -> Kinds] /\ using[r] = Sql
      /\ got \in [Requests -> Reads] /\ trail \in Seq(Entries)
  BY <1>t DEF ApprovalsTypeOK, GetRows, Control, Local
<1>u. /\ UNCHANGED <<store, memory, decision, trail>>
      /\ UNCHANGED <<kind, using, tx, artifact, recorded, began, crowded>>
  BY DEF GetRows, shared, history
<1>p. /\ \/ /\ pc[r] = "replayRows" /\ Replay(r, got[r].row)
            /\ got' = [got EXCEPT ![r] = Empty]
            /\ pc'[r] = IF kind[r] = "artifact" THEN "build" ELSE "peek"
            /\ rec'[r].state = IF got[r].row = NoDecision THEN rec[r].state
                                      ELSE got[r].row.state
         \/ /\ pc[r] = "peekRows" /\ Decide(r) /\ pc'[r] = "record"
            /\ got' = [got EXCEPT ![r] = [row |-> NoDecision, rows |-> trail]]
      /\ pc' = [pc EXCEPT ![r] = pc'[r]]
  BY <1>t, <1>k DEF GetRows, Replay, Decide, Goto, ApprovalsTypeOK
<1>g. /\ Empty \in Reads /\ [row |-> NoDecision, rows |-> trail] \in Reads
      /\ got[r].row \in Rows \cup {NoDecision}
  BY <1>k DEF Empty, Reads
<1>1. ApprovalsTypeOK'
  <2>1. pc' \in [Requests -> {"idle"} \cup Running \cup Ended]
    BY <1>k, <1>p DEF Running, InStore
  <2>2. rec' \in [Requests -> [action : Actions,
                              state : {"PENDING_APPROVAL", "APPROVED", "REJECTED"}]]
    BY <1>t, <1>g, <1>p, ReplayTyped DEF States
  <2>3. got' \in [Requests -> Reads]
    BY <1>k, <1>g, <1>p
  <2> QED
    BY <1>t, <1>u, <2>1, <2>2, <2>3 DEF ApprovalsTypeOK
<1>2. Calm(r)
  <2>1. OnlyOf(r)
    BY <1>t, <1>k, <1>u, <1>p DEF OnlyOf, ApprovalsTypeOK, Replay, Decide
  <2>2. StillBusy(r) /\ SameStore
    BY <1>u, <1>p DEF StillBusy, SameStore, Running, InStore
  <2> QED
    BY <1>u, <2>1, <2>2 DEF Calm
<1>3. Control(r)' /\ Overtaken(r)'
  <2>1. pc[r] = "replayRows" => got'[r].rows = <<>>
    BY <1>k, <1>p DEF Empty
  <2> QED
    BY <1>t, <1>k, <1>u, <1>p, <2>1
       DEF Control, Overtaken, Local, Writing, Kinds, Deciding
<1>4. Gate(r)'
  <2>1. ASSUME pc'[r] = "build", rec'[r].state = "APPROVED", NEW via, via = ViaOf(r)'
        PROVE  Cleared(r, via)'
    <3>1. pc[r] = "replayRows" /\ Approved(got[r].row) /\ via = "sql"
      BY <1>t, <1>k, <1>u, <1>p, <2>1 DEF Approved, ViaOf, Control, Local
    <3>2. Cleared(r, "sql")
      BY <1>t, <3>1 DEF Gate, Local
    <3> QED
      BY <1>2, <3>1, <3>2, KeepsClear
  <2> QED
    BY <1>t, <1>2, <1>u, <1>p, <2>1, HandedOutStays DEF Gate, Local
<1>5. Carries(r)'
  <2>1. pc'[r] = "record" => got'[r].rows = trail
    BY <1>k, <1>p
  <2>2. \A s : s = trail => Part(s)' /\ LacksNone(s)'
    BY <1>t, <1>u, HistoryStands
  <2> QED
    BY <1>p, <2>1, <2>2 DEF Carries, Writing, Part, LacksNone
<1> QED
  BY <1>1, <1>2, <1>3, <1>4, <1>5, QuietStep

\* The statements of a transaction before it commits.
LEMMA Rewriting ==
  ASSUME IInv, NEW r \in Requests,
         SelectExisting(r) \/ StartDelete(r) \/ FinishDelete(r) \/ Flush(r)
  PROVE  IInv'
<1>t. ApprovalsTypeOK /\ Local(r)
  BY DEF IInv
<1>k. /\ pc \in [Requests -> {"idle"} \cup Running \cup Ended]
      /\ tx \in [Requests -> Reads] /\ trail \in Seq(Entries)
      /\ decision \in Rows \cup {NoDecision}
  BY <1>t DEF ApprovalsTypeOK
<1>u. /\ UNCHANGED <<store, memory, decision, trail>>
      /\ UNCHANGED <<kind, rec, using, got, artifact, recorded, began, crowded>>
  BY DEF SelectExisting, StartDelete, FinishDelete, Flush, shared, own, history
<1>p. /\ pc[r] \in {"record"} \cup Writing /\ using[r] = Sql /\ kind[r] \in Deciding
      /\ pc' = [pc EXCEPT ![r] = pc'[r]] /\ pc'[r] \in Writing
  BY <1>t, <1>k DEF SelectExisting, StartDelete, FinishDelete, Flush, Goto, Writing,
     Control, Local
<1>x. /\ tx'[r] \in Reads
      /\ tx' = [tx EXCEPT ![r] = tx'[r]]
      /\ tx'[r].row = IF pc[r] = "record" THEN decision ELSE tx[r].row
  <2>1. CASE SelectExisting(r)
    BY <1>k, <2>1 DEF SelectExisting, Reads
  <2>2. CASE StartDelete(r) \/ FinishDelete(r)
    <3>1. tx[r] \in Reads
      BY <1>k
    <3>2. PICK rows \in Seq(Entries) : tx' = [tx EXCEPT ![r].rows = rows]
      <4>1. tx[r].rows \in Seq(Entries) /\ <<>> \in Seq(Entries)
        BY <3>1 DEF Reads
      <4>2. CASE StartDelete(r)
        BY <1>k, <4>2 DEF StartDelete
      <4>3. CASE FinishDelete(r)
        <5>1. CASE tx[r].rows = trail
          BY <1>k, <4>1, <4>3, <5>1 DEF FinishDelete
        <5>2. CASE tx[r].rows # trail
          BY <1>k, <4>1, <4>3, <5>2 DEF FinishDelete
        <5> QED
          BY <5>1, <5>2
      <4> QED
        BY <2>2, <4>2, <4>3
    <3>3. [tx[r] EXCEPT !.rows = rows] \in Reads
      BY <3>1 DEF Reads
    <3>4. [tx[r] EXCEPT !.rows = rows].row = tx[r].row
      BY <3>1 DEF Reads
    <3> QED
      BY <1>k, <2>2, <3>2, <3>3, <3>4 DEF StartDelete, FinishDelete
  <2>3. CASE Flush(r)
    BY <1>k, <2>3 DEF Flush, own
  <2> QED
    BY <2>1, <2>2, <2>3
<1>1. ApprovalsTypeOK'
  <2>1. pc' \in [Requests -> {"idle"} \cup Running \cup Ended]
    BY <1>k, <1>p DEF Running, InStore, Writing
  <2>2. tx' \in [Requests -> Reads]
    BY <1>k, <1>x
  <2> QED
    BY <1>t, <1>u, <2>1, <2>2 DEF ApprovalsTypeOK
<1>2. Calm(r)
  <2>1. OnlyOf(r)
    BY <1>k, <1>u, <1>p, <1>x DEF OnlyOf
  <2>2. StillBusy(r) /\ SameStore
    BY <1>u, <1>p DEF StillBusy, SameStore, Running, InStore, Writing
  <2> QED
    BY <1>u, <2>1, <2>2 DEF Calm
<1>3. Control(r)'
  BY <1>u, <1>p DEF Control, Writing
<1>4. Gate(r)'
  BY <1>t, <1>2, <1>u, <1>p, HandedOutStays DEF Gate, Local, Writing
<1>5. Overtaken(r)'
  BY <1>t, <1>u, <1>p, <1>x DEF Overtaken, Local, Writing
<1>6. Carries(r)'
  <2>1. \A s : s = got[r].rows => Part(s)' /\ LacksNone(s)'
    BY <1>t, <1>u, <1>p, HistoryStands DEF Carries, Local
  <2> QED
    BY <1>u, <2>1 DEF Carries, Part, LacksNone
<1> QED
  BY <1>1, <1>2, <1>3, <1>4, <1>5, <1>6, QuietStep

\* Ways for a request to end with nothing handed out.
EndsPlainly(r) ==
    \/ FlushConflicts(r) \/ Fail(r) \/ BuildNothing(r) \/ BuildRefused(r)
    \/ \E s \in Situations : BuildIneligible(r, s)
    \/ Recorded(r) /\ kind[r] # "approve"

\* A request that hands out nothing.
LEMMA EndingPlainly ==
  ASSUME IInv, NEW r \in Requests, EndsPlainly(r)
  PROVE  IInv'
<1>1. ApprovalsTypeOK
  BY DEF IInv
<1>2. UNCHANGED <<shared, history>> /\ UNCHANGED artifact /\ Forget(r)
  BY DEF EndsPlainly, FlushConflicts, Fail, BuildNothing, BuildRefused, BuildIneligible,
     Recorded, FailWith, Answer
<1>3. pc' = [pc EXCEPT ![r] = pc'[r]] /\ pc'[r] \in Ended
  BY <1>1 DEF EndsPlainly, FlushConflicts, Fail, BuildNothing, BuildRefused,
     BuildIneligible, Recorded, FailWith, Answer, Goto, Ended, ApprovalsTypeOK
<1> QED
  BY <1>2, <1>3, EndsQuietly

\* The gate of build_artifact.
LEMMA Building ==
  ASSUME IInv, NEW r \in Requests, NEW s \in Situations, Build(r, s)
  PROVE  IInv'
<1>1. ApprovalsTypeOK /\ Local(r)
  BY DEF IInv
<1>2. UNCHANGED <<shared, history>> /\ Forget(r)
  BY DEF Build, HandOut, Answer
<1>3. pc' = [pc EXCEPT ![r] = pc'[r]] /\ pc'[r] \in Ended
  BY <1>1 DEF Build, HandOut, Answer, Goto, Ended, ApprovalsTypeOK
<1>4. /\ artifact' = [artifact EXCEPT ![r] = artifact'[r]]
      /\ artifact'[r] = [action |-> rec[r].action, via |-> ViaOf(r)]
  BY <1>1 DEF Build, HandOut, ApprovalsTypeOK
<1>5. artifact'[r] \in [action : Actions, via : Vias]
  BY <1>1, <1>4, EntryType DEF ApprovalsTypeOK
<1>6. ASSUME NEW via, via = artifact'[r].via, artifact'[r].action \in Sensitive
      PROVE  Cleared(r, via)
  BY <1>1, <1>4, <1>6 DEF Build, Executable, Gate, Local
<1> QED
  BY <1>2, <1>3, <1>4, <1>5, <1>6, EndsQuietly

\* An approval was recorded.
LEMMA GoingOn ==
  ASSUME IInv, NEW r \in Requests, Recorded(r), kind[r] = "approve"
  PROVE  IInv'
<1>t. ApprovalsTypeOK /\ Local(r)
  BY DEF IInv
<1>u. /\ UNCHANGED <<store, memory, decision, trail>>
      /\ UNCHANGED <<kind, rec, using, got, tx, artifact, recorded, began, crowded>>
      /\ pc[r] = "recorded" /\ pc' = [pc EXCEPT ![r] = "build"]
  BY DEF Recorded, Goto, shared, own, history
<1>1. ApprovalsTypeOK'
  <2>1. pc' \in [Requests -> {"idle"} \cup Running \cup Ended]
    BY <1>t, <1>u DEF ApprovalsTypeOK, Running
  <2> QED
    BY <1>t, <1>u, <2>1 DEF ApprovalsTypeOK
<1>2. Calm(r)
  BY <1>t, <1>u DEF Calm, OnlyOf, StillBusy, SameStore, Running, InStore, ApprovalsTypeOK
<1>3. Control(r)' /\ Overtaken(r)' /\ Carries(r)'
  BY <1>t, <1>u DEF Control, Overtaken, Carries, Local, Writing, ApprovalsTypeOK
<1>4. Gate(r)'
  <2>1. \A via : via = ViaOf(r) => Cleared(r, via)'
    BY <1>t, <1>2, <1>u, KeepsClear DEF Gate, Local
  <2>2. ViaOf(r)' = ViaOf(r) /\ pc'[r] = "build"
    BY <1>t, <1>u DEF ViaOf, ApprovalsTypeOK
  <2> QED
    BY <1>t, <1>2, <1>u, <2>1, <2>2, HandedOutStays DEF Gate, Local
<1> QED
  BY <1>1, <1>2, <1>3, <1>4, QuietStep

\* A request for an invoice that is not in the queue.
LEMMA ArrivingInVain ==
  ASSUME IInv, NEW r \in Requests, ArriveInVain(r)
  PROVE  IInv'
<1>t. ApprovalsTypeOK /\ Local(r)
  BY DEF IInv
<1>u. /\ UNCHANGED <<store, memory, decision, trail>>
      /\ UNCHANGED <<kind, rec, using, got, tx, artifact, recorded, began, crowded>>
      /\ pc[r] = "idle" /\ pc' = [pc EXCEPT ![r] = "failed"]
  BY DEF ArriveInVain, Goto, shared, own, history
<1>1. ApprovalsTypeOK'
  <2>1. pc' \in [Requests -> {"idle"} \cup Running \cup Ended]
    BY <1>t, <1>u DEF ApprovalsTypeOK, Ended
  <2> QED
    BY <1>t, <1>u, <2>1 DEF ApprovalsTypeOK
<1>2. Calm(r)
  BY <1>t, <1>u DEF Calm, OnlyOf, StillBusy, SameStore, Running, InStore, ApprovalsTypeOK
<1>3. Control(r)' /\ Overtaken(r)' /\ Carries(r)'
  BY <1>t, <1>u DEF Control, Overtaken, Carries, Local, Writing, ApprovalsTypeOK
<1>4. Gate(r)'
  BY <1>t, <1>u DEF Gate, Control, Local, ApprovalsTypeOK
<1> QED
  BY <1>1, <1>2, <1>3, <1>4, QuietStep

\* A decision meets those in progress when it arrives.
LEMMA Arriving ==
  ASSUME IInv, NEW r \in Requests, NEW a \in MayBe[r], Arrive(r, a.kind, a.situation)
  PROVE  IInv'
<1>t. ApprovalsTypeOK /\ Local(r) /\ Crowds
  BY DEF IInv
<1>u. /\ UNCHANGED <<store, memory, decision, trail>>
      /\ UNCHANGED <<using, got, tx, artifact, recorded>>
      /\ pc[r] = "idle" /\ pc' = [pc EXCEPT ![r] = "replay"]
      /\ kind' = [kind EXCEPT ![r] = a.kind] /\ a.kind \in Kinds
      /\ rec' = [rec EXCEPT ![r].action = DecideAction(a.situation)]
      /\ DecideAction(a.situation) \in Actions
      /\ began' = [began EXCEPT ![r] = Len(recorded)]
      /\ crowded' = IF a.kind \in Deciding /\ Busy # {}
                     THEN crowded \cup Busy \cup {r} ELSE crowded
  BY MayBeAssumption
     DEF Arrive, Goto, shared, Kinds, DecideAction, Actions
<1>k. /\ pc \in [Requests -> {"idle"} \cup Running \cup Ended]
      /\ kind \in [Requests -> Kinds] /\ began \in [Requests -> Nat]
      /\ Len(recorded) \in Nat
      /\ rec \in [Requests -> [action : Actions,
                              state : {"PENDING_APPROVAL", "APPROVED", "REJECTED"}]]
  BY <1>t DEF ApprovalsTypeOK
<1>1. ApprovalsTypeOK'
  <2>1. pc' \in [Requests -> {"idle"} \cup Running \cup Ended]
    BY <1>k, <1>u DEF Running, InStore
  <2>2. rec' \in [Requests -> [action : Actions,
                              state : {"PENDING_APPROVAL", "APPROVED", "REJECTED"}]]
    BY <1>k, <1>u
  <2>3. kind' \in [Requests -> Kinds] /\ began' \in [Requests -> Nat]
    BY <1>k, <1>u
  <2>4. \A q \in Requests : began'[q] <= Len(recorded')
    BY <1>t, <1>k, <1>u DEF ApprovalsTypeOK
  <2>5. crowded' \subseteq Requests
    BY <1>t, <1>u DEF ApprovalsTypeOK, Busy
  <2> QED
    BY <1>t, <1>u, <2>1, <2>2, <2>3, <2>4, <2>5 DEF ApprovalsTypeOK
<1>2. OnlyOf(r)
  BY <1>k, <1>u DEF OnlyOf
<1>3. SameStore
  BY <1>u DEF SameStore
<1>4. Crowds'
  <2>1. Busy' = IF a.kind \in Deciding THEN Busy \cup {r} ELSE Busy
    BY <1>k, <1>u DEF Busy, Running, InStore, Ended
  <2> QED
    BY <1>t, <1>u, <2>1 DEF Crowds
<1>5. Local(r)'
  <2>1. Control(r)'
    BY <1>t, <1>k, <1>u DEF Control, Local, Writing
  <2>2. Gate(r)'
    BY <1>t, <1>k, <1>u DEF Gate, Control, Local
  <2>3. Overtaken(r)' /\ Carries(r)'
    BY <1>t, <1>k, <1>u DEF Overtaken, Carries, Control, Local, Writing
  <2> QED
    BY <2>1, <2>2, <2>3 DEF Local
<1> QED
  BY <1>1, <1>2, <1>3, <1>4, <1>5, <1>u, CalmStep

\* A restart forgets everything but the database.
LEMMA Restarting ==
  ASSUME IInv, Restart
  PROVE  IInv'
<1>t. ApprovalsTypeOK
  BY DEF IInv
<1>u. /\ UNCHANGED decision /\ UNCHANGED trail /\ UNCHANGED artifact
      /\ UNCHANGED recorded /\ UNCHANGED began /\ UNCHANGED crowded
      /\ store' = Unset /\ memory' = <<>>
  BY DEF Restart, history
<1>k. /\ pc' = [r \in Requests |-> IF pc[r] \in Running THEN "failed" ELSE pc[r]]
      /\ kind' = [r \in Requests |-> "artifact"]
      /\ rec' = [r \in Requests |-> Proposed]
      /\ using' = [r \in Requests |-> Unset]
      /\ got' = [r \in Requests |-> Empty]
      /\ tx' = [r \in Requests |-> Empty]
  BY DEF Restart
<1>e. Empty \in Reads /\ Empty.row = NoDecision /\ Empty.rows = <<>>
  BY DEF Empty, Reads
<1>1. ApprovalsTypeOK'
  <2>1. pc' \in [Requests -> {"idle"} \cup Running \cup Ended]
    BY <1>t, <1>k DEF ApprovalsTypeOK, Ended
  <2>2. /\ kind' \in [Requests -> Kinds] /\ using' \in [Requests -> Int]
        /\ got' \in [Requests -> Reads] /\ tx' \in [Requests -> Reads]
    BY <1>k, <1>e DEF Kinds, Unset
  <2>3. rec' \in [Requests -> [action : Actions,
                              state : {"PENDING_APPROVAL", "APPROVED", "REJECTED"}]]
    BY <1>k DEF Proposed, Actions
  <2>4. memory' \in Seq(Reads)
    BY <1>u
  <2> QED
    BY <1>t, <1>u, <2>1, <2>2, <2>3, <2>4 DEF ApprovalsTypeOK
<1>2. Busy' = {}
  BY <1>k DEF Busy, Deciding
<1>3. SqlStands' /\ MemoryStands' /\ Crowds' /\ RowOfHistory'
  <2>1. store' \notin DOMAIN memory'
    BY <1>u DEF Unset
  <2> QED
    BY <1>u, <1>2, <2>1, HistoryStands
       DEF IInv, SqlStands, MemoryStands, Crowds, RowOfHistory
<1>4. Part(trail)' /\ LacksNone(trail)' /\ EndsWithLatest'
  <2>1. \A s : s = trail => Part(s)' /\ LacksNone(s)'
    BY <1>u, HistoryStands DEF IInv
  <2> QED
    BY <1>u, <2>1, HistoryStands DEF IInv, Part, LacksNone, EndsWithLatest
<1>5. ASSUME NEW r \in Requests
      PROVE  Local(r)'
  <2>1. Local(r) /\ pc'[r] \in {"idle"} \cup Ended /\ (pc'[r] = "idle" => pc[r] = "idle")
    BY <1>t, <1>k DEF IInv, ApprovalsTypeOK, Ended
  <2>2. Control(r)' /\ Overtaken(r)' /\ Carries(r)'
    BY <1>k, <1>u, <1>e, <2>1
       DEF Control, Overtaken, Carries, Local, Writing, Ended, Proposed
  <2>3. \A via : Cleared(r, via) => Cleared(r, via)'
    BY <1>u, HistoryStands
  <2>4. artifact[r] # Nothing /\ artifact[r].action \in Sensitive =>
          \A via : via = artifact[r].via => Cleared(r, via)'
    BY <2>1, <2>3 DEF Local, Gate
  <2>5. Gate(r)'
    BY <1>u, <2>1, <2>4 DEF Gate, Ended, Cleared, Approves, Revokes
  <2> QED
    BY <2>2, <2>5 DEF Local
<1> QED
  BY <1>1, <1>3, <1>4, <1>5 DEF IInv

----------------------------------------------------------------------------
(* The two steps that record a decision.                                   *)

\* Recording a decision adds it at the end of the history.
LEMMA HistoryGrows ==
  ASSUME ApprovalsTypeOK, NEW r \in Requests, Remember(r), UNCHANGED <<crowded, began>>
  PROVE  /\ InDatabase' = IF using[r] = Sql THEN InDatabase \cup {Len(recorded) + 1}
                                            ELSE InDatabase
         /\ InDatabase \subseteq DOMAIN recorded
         /\ \A i \in InDatabase : recorded'[i] = recorded[i]
         /\ \A s : Part(s) => Part(s)'
         /\ \A s : LacksNone(s) /\ (using[r] = Sql => r \in crowded) => LacksNone(s)'
<1>h. /\ Len(recorded) \in Nat
      /\ DOMAIN recorded = 1..Len(recorded) /\ DOMAIN recorded' = 1..(Len(recorded) + 1)
      /\ \A i \in DOMAIN recorded : recorded'[i] = recorded[i]
      /\ recorded'[Len(recorded) + 1] = [entry |-> Entry(r), via |-> ViaOf(r)]
  BY Remembered
<1>1. InDatabase' = IF using[r] = Sql THEN InDatabase \cup {Len(recorded) + 1}
                                      ELSE InDatabase
  BY <1>h DEF InDatabase, ViaOf
<1>2. InDatabase \subseteq DOMAIN recorded
  BY DEF InDatabase
<1>3. \A i \in InDatabase : recorded'[i] = recorded[i]
  BY <1>h, <1>2
<1>4. ASSUME NEW s, Part(s) PROVE Part(s)'
  <2>1. InDatabase \subseteq InDatabase'
    BY <1>1
  <2> QED
    BY <1>3, <1>4, <2>1 DEF Part
<1>5. ASSUME NEW s, LacksNone(s), using[r] = Sql => r \in crowded
      PROVE  LacksNone(s)'
  <2>1. ASSUME NEW i \in InDatabase', recorded'[i].entry.by \notin crowded
        PROVE  i \in InDatabase /\ recorded'[i] = recorded[i]
    BY <1>1, <1>3, <1>5, <1>h, <2>1 DEF Entry
  <2> QED
    BY <1>5, <2>1 DEF LacksNone
<1> QED
  BY <1>1, <1>2, <1>3, <1>4, <1>5

\* What was approved in time for a request remains so.
LEMMA GateStays ==
  ASSUME ApprovalsTypeOK, NEW r \in Requests, Remember(r), UNCHANGED <<crowded, began>>,
         NEW q \in Requests, Gate(q), UNCHANGED using, UNCHANGED artifact,
         \/ pc'[q] = pc[q] /\ kind'[q] = kind[q] /\ rec'[q] = rec[q] /\ got'[q] = got[q]
         \/ /\ pc'[q] = "recorded"
            /\ \A via : kind'[q] = "approve" /\ via = ViaOf(q) => Cleared(q, via)'
  PROVE  Gate(q)'
<1>1. \A via : Cleared(q, via) => Cleared(q, via)'
  BY StandsOn
<1>2. ViaOf(q)' = ViaOf(q)
  BY DEF ViaOf
<1>3. artifact[q] # Nothing /\ artifact[q].action \in Sensitive =>
          \A via : via = artifact[q].via => Cleared(q, via)'
  BY <1>1 DEF Gate
<1>4. CASE pc'[q] = "recorded"
         /\ \A via : kind'[q] = "approve" /\ via = ViaOf(q) => Cleared(q, via)'
  BY <1>2, <1>3, <1>4 DEF Gate, Cleared, Approves, Revokes
<1>5. CASE pc'[q] = pc[q] /\ kind'[q] = kind[q] /\ rec'[q] = rec[q] /\ got'[q] = got[q]
  <2>1. ASSUME \/ pc[q] = "build" /\ rec[q].state = "APPROVED"
               \/ pc[q] = "recorded" /\ kind[q] = "approve"
        PROVE  \A via : via = ViaOf(q) => Cleared(q, via)'
    BY <1>1, <2>1 DEF Gate
  <2>2. pc[q] = "replayRows" /\ Approved(got[q].row) => Cleared(q, "sql")'
    BY <1>1 DEF Gate
  <2> QED
    BY <1>2, <1>3, <1>5, <2>1, <2>2 DEF Gate, Approved, Cleared, Approves, Revokes
<1> QED
  BY <1>4, <1>5

\* A dictionary is rewritten by its request.
LEMMA RecordingInMemory ==
  ASSUME IInv, NEW r \in Requests, RecordInMemory(r)
  PROVE  IInv'
<1>t. ApprovalsTypeOK /\ Local(r)
  BY DEF IInv
<1>u. /\ UNCHANGED <<store, decision, trail>>
      /\ UNCHANGED <<kind, rec, using, artifact, began, crowded>>
      /\ pc[r] = "record" /\ using[r] # Sql /\ Remember(r)
      /\ pc' = [pc EXCEPT ![r] = "recorded"]
      /\ got' = [got EXCEPT ![r] = Empty] /\ tx' = [tx EXCEPT ![r] = Empty]
  BY DEF RecordInMemory, Close, Goto
<1>k. /\ pc \in [Requests -> {"idle"} \cup Running \cup Ended]
      /\ memory \in Seq(Reads) /\ using[r] \in DOMAIN memory /\ kind[r] \in Deciding
      /\ got \in [Requests -> Reads] /\ tx \in [Requests -> Reads]
      /\ ViaOf(r) = "memory"
  BY <1>t, <1>u DEF ApprovalsTypeOK, Control, Local, ViaOf
<1>m. /\ memory' = [memory EXCEPT ![using[r]] = memory'[using[r]]]
      /\ memory'[using[r]].row = RowOf(r) /\ memory'[using[r]] \in Reads
  <2>1. Append(got[r].rows, Entry(r)) \in Seq(Entries) /\ RowOf(r) \in Rows
    BY <1>t, <1>k, EntryType, Appended DEF Reads
  <2> QED
    BY <1>k, <2>1 DEF RecordInMemory, Reads
<1>d. /\ memory' \in Seq(Reads) /\ DOMAIN memory' = DOMAIN memory
      /\ \A d \in DOMAIN memory : d # using[r] => memory'[d] = memory[d]
  BY <1>k, <1>m
<1>e. Empty \in Reads /\ Empty.row = NoDecision /\ Empty.rows = <<>>
  BY DEF Empty, Reads
<1>h. InDatabase' = InDatabase /\ \A i \in InDatabase : recorded'[i] = recorded[i]
  BY <1>t, <1>u, HistoryGrows
<1>1. ApprovalsTypeOK'
  <2>1. pc' \in [Requests -> {"idle"} \cup Running \cup Ended]
    BY <1>k, <1>u DEF Running, InStore
  <2>2. got' \in [Requests -> Reads] /\ tx' \in [Requests -> Reads]
    BY <1>k, <1>u, <1>e
  <2>3. /\ recorded' \in Seq([entry : Entries, via : Vias])
        /\ Len(recorded') = Len(recorded) + 1 /\ Len(recorded) \in Nat
    BY <1>t, <1>u, Remembered
  <2>4. \A q \in Requests : began'[q] <= Len(recorded')
    BY <1>t, <1>u, <2>3 DEF ApprovalsTypeOK
  <2> QED
    BY <1>t, <1>u, <1>d, <2>1, <2>2, <2>3, <2>4 DEF ApprovalsTypeOK
<1>2. SqlStands'
  <2>1. Stands("sql") => Stands("sql")'
    BY <1>t, <1>u, <1>k, StandsOn
  <2> QED
    BY <1>u, <2>1 DEF IInv, SqlStands, Approved
<1>3. MemoryStands'
  <2>1. ASSUME store \in DOMAIN memory, Approved(memory'[store].row)
        PROVE  Stands("memory")'
    <3>1. CASE store = using[r]
      <4>1. kind[r] = "approve"
        BY <1>m, <1>k, <2>1, <3>1 DEF Approved, RowOf, StateOf
      <4> QED
        BY <1>t, <1>u, <1>k, <4>1, ApprovalStands
    <3>2. CASE store # using[r]
      <4>1. Approved(memory[store].row) /\ r \in crowded
        BY <1>t, <1>u, <1>d, <2>1, <3>2 DEF Overtaken, Local, Approved
      <4>2. Stands("memory")
        BY <2>1, <4>1 DEF IInv, MemoryStands
      <4> QED
        BY <1>t, <1>u, <4>1, <4>2, StandsOn
    <3> QED
      BY <3>1, <3>2
  <2> QED
    BY <1>u, <1>d, <2>1 DEF MemoryStands, Approved
<1>4. Crowds'
  <2>1. OnlyOf(r) /\ StillBusy(r)
    BY <1>k, <1>u DEF OnlyOf, StillBusy, Running, InStore
  <2> QED
    BY <1>u, <2>1, FewerBusy DEF IInv
<1>5. RowOfHistory' /\ EndsWithLatest' /\ Part(trail)' /\ LacksNone(trail)'
  BY <1>u, <1>h DEF IInv, RowOfHistory, EndsWithLatest, Part, LacksNone
<1>6. ASSUME NEW q \in Requests
      PROVE  Local(q)'
  <2>1. Local(q) /\ (q # r => /\ pc'[q] = pc[q] /\ got'[q] = got[q] /\ tx'[q] = tx[q])
    BY <1>k, <1>u DEF IInv
  <2>2. q = r => pc'[q] = "recorded" /\ got'[q] = Empty /\ tx'[q] = Empty
    BY <1>k, <1>u
  <2>3. Control(q)'
    BY <1>u, <1>k, <1>d, <1>e, <2>1, <2>2 DEF Control, Local, Writing
  <2>4. Gate(q)'
    <3>1. ASSUME NEW via, kind[r] = "approve", via = ViaOf(r) PROVE Cleared(r, via)'
      BY <1>t, <1>u, <3>1, ApprovalStands
    <3> QED
      BY <1>t, <1>u, <2>1, <2>2, <3>1, GateStays DEF Local
  <2>5. Overtaken(q)'
    <3>1. ASSUME q # r, pc[q] = "record", store = using[r]
          PROVE  q \in crowded
      BY <1>k, <1>u, <2>1, <3>1 DEF IInv, Crowds, Busy, Control, Local, Running, InStore
    <3>2. ASSUME store # using[r], store \in DOMAIN memory
          PROVE  memory'[store] = memory[store]
      BY <1>d, <3>2
    <3> QED
      BY <1>u, <1>d, <1>e, <2>1, <2>2, <3>1, <3>2 DEF Overtaken, Local, Writing
  <2>6. Carries(q)'
    <3>1. pc'[q] \in {"record"} \cup Writing => q # r
      BY <2>2 DEF Writing
    <3> QED
      BY <1>u, <1>h, <2>1, <3>1 DEF Carries, Local, Part, LacksNone
  <2> QED
    BY <2>3, <2>4, <2>5, <2>6 DEF Local
<1> QED
  BY <1>1, <1>2, <1>3, <1>4, <1>5, <1>6 DEF IInv

\* The columns an UPDATE sets, and those it leaves, are a row.
LEMMA RowMerged ==
  ASSUME NEW loaded \in Rows \cup {NoDecision}, NEW new \in Rows, NEW current,
         loaded # NoDecision => current \in Rows
  PROVE  /\ Merged(loaded, new, current) \in Rows
         /\ loaded = NoDecision => Merged(loaded, new, current).state = new.state
         /\ loaded # NoDecision =>
                Merged(loaded, new, current).state =
                    IF new.state # loaded.state THEN new.state ELSE current.state
<1>1. CASE loaded = NoDecision
  BY <1>1 DEF Merged
<1>2. CASE loaded # NoDecision
  <2> DEFINE merged == [f \in {"state", "action", "by"} |->
                          IF new[f] # loaded[f] THEN new[f] ELSE current[f]]
  <2>1. DOMAIN new = {"state", "action", "by"}
    BY DEF Rows
  <2>2. Merged(loaded, new, current) = merged
    BY <1>2, <2>1 DEF Merged
  <2>3. /\ merged.state \in {"APPROVED", "REJECTED"}
        /\ merged.action \in Actions /\ merged.by \in Requests
    BY <1>2 DEF Rows
  <2>4. merged = [state |-> merged.state, action |-> merged.action, by |-> merged.by]
    OBVIOUS
  <2>5. merged \in Rows
    BY <2>3, <2>4 DEF Rows
  <2> QED
    BY <1>2, <2>2, <2>5
<1> QED
  BY <1>1, <1>2

\* COMMIT rewrites the trail: what it carries is a part of the history that
\* lacks only decisions that met another, and its own entry is the latest.
LEMMA Committing ==
  ASSUME IInv, NEW r \in Requests, Commit(r)
  PROVE  IInv'
<1>t. ApprovalsTypeOK /\ Local(r)
  BY DEF IInv
<1>u. /\ UNCHANGED <<store, memory>>
      /\ UNCHANGED <<kind, rec, using, artifact, began, crowded>>
      /\ pc[r] = "commit" /\ Remember(r)
      /\ pc' = [pc EXCEPT ![r] = "recorded"]
      /\ got' = [got EXCEPT ![r] = Empty] /\ tx' = [tx EXCEPT ![r] = Empty]
      /\ decision' = Merged(tx[r].row, RowOf(r), decision)
      /\ trail' = Append(got[r].rows, Entry(r))
  BY DEF Commit, Close, Goto
<1>k. /\ pc \in [Requests -> {"idle"} \cup Running \cup Ended]
      /\ got \in [Requests -> Reads] /\ tx \in [Requests -> Reads]
      /\ decision \in Rows \cup {NoDecision}
      /\ kind[r] \in Deciding /\ using[r] = Sql /\ ViaOf(r) = "sql"
      /\ RowOf(r) \in Rows /\ Entry(r) \in Entries
      /\ Part(got[r].rows) /\ LacksNone(got[r].rows)
      /\ got[r].rows \in Seq(Entries)
  BY <1>t, <1>u, EntryType
     DEF ApprovalsTypeOK, Control, Carries, Local, ViaOf, Writing, Reads
<1>d. /\ decision' \in Rows
      /\ tx[r].row = NoDecision => decision'.state = RowOf(r).state
      /\ tx[r].row # NoDecision =>
            decision'.state = IF RowOf(r).state # tx[r].row.state
                              THEN RowOf(r).state ELSE decision.state
  <2>1. /\ tx[r].row \in Rows \cup {NoDecision}
        /\ tx[r].row # NoDecision => decision \in Rows
    BY <1>t, <1>k DEF Reads, Overtaken, Local
  <2>2. LET merged == Merged(tx[r].row, RowOf(r), decision)
        IN  /\ merged \in Rows
            /\ tx[r].row = NoDecision => merged.state = RowOf(r).state
            /\ tx[r].row # NoDecision =>
                  merged.state = IF RowOf(r).state # tx[r].row.state
                                 THEN RowOf(r).state ELSE decision.state
    <3>1. RowOf(r) \in Rows
      BY <1>k
    <3> HIDE DEF Rows
    <3> QED
      BY <2>1, <3>1, RowMerged
  <2>3. decision' = Merged(tx[r].row, RowOf(r), decision)
    BY <1>u
  <2> QED
    BY <2>2, <2>3
<1>n. decision' # NoDecision
  BY <1>d, DecisionAssumption DEF Rows, Actions
<1>e. Empty \in Reads /\ Empty.row = NoDecision /\ Empty.rows = <<>>
  BY DEF Empty, Reads
<1>h. /\ Len(recorded) \in Nat
      /\ recorded' \in Seq([entry : Entries, via : Vias])
      /\ Len(recorded') = Len(recorded) + 1
      /\ DOMAIN recorded = 1..Len(recorded)
      /\ recorded'[Len(recorded) + 1].entry = Entry(r)
  <2>1. /\ Len(recorded) \in Nat
        /\ recorded' \in Seq([entry : Entries, via : Vias])
        /\ Len(recorded') = Len(recorded) + 1
        /\ DOMAIN recorded = 1..Len(recorded)
        /\ recorded'[Len(recorded) + 1] = [entry |-> Entry(r), via |-> ViaOf(r)]
    BY <1>t, <1>u, Remembered
  <2> QED
    BY <2>1
<1>i. /\ InDatabase' = InDatabase \cup {Len(recorded) + 1}
      /\ InDatabase \subseteq 1..Len(recorded)
      /\ \A i \in InDatabase : recorded'[i] = recorded[i]
  BY <1>t, <1>u, <1>k, <1>h, HistoryGrows
<1>a. LET rows == got[r].rows
      IN  /\ trail' \in Seq(Entries) /\ Len(rows) \in Nat
          /\ DOMAIN rows = 1..Len(rows) /\ DOMAIN trail' = 1..(Len(rows) + 1)
          /\ Len(trail') = Len(rows) + 1 /\ trail' # <<>>
          /\ \A n \in DOMAIN rows : trail'[n] = rows[n]
          /\ trail'[Len(rows) + 1] = Entry(r)
  BY <1>u, <1>k, Appended
<1>1. ApprovalsTypeOK'
  <2>1. pc' \in [Requests -> {"idle"} \cup Running \cup Ended]
    BY <1>k, <1>u DEF Running, InStore
  <2>2. got' \in [Requests -> Reads] /\ tx' \in [Requests -> Reads]
    BY <1>k, <1>u, <1>e
  <2>3. \A q \in Requests : began'[q] <= Len(recorded')
    BY <1>t, <1>u, <1>h DEF ApprovalsTypeOK
  <2> QED
    BY <1>t, <1>u, <1>a, <1>d, <1>h, <2>1, <2>2, <2>3 DEF ApprovalsTypeOK
<1>2. SqlStands'
  <2>1. CASE kind[r] = "approve"
    <3>1. Stands("sql")'
      BY <1>t, <1>u, <1>k, <2>1, ApprovalStands
    <3> QED
      BY <3>1 DEF SqlStands
  <2>2. CASE kind[r] # "approve"
    <3>1. RowOf(r).state = "REJECTED"
      BY <2>2 DEF RowOf, StateOf
    <3>2. ASSUME Approved(decision') PROVE Stands("sql")'
      <4>1. tx[r].row # NoDecision /\ tx[r].row.state = "REJECTED" /\ decision.state = "APPROVED"
        BY <1>d, <3>1, <3>2 DEF Approved
      <4>2. r \in crowded /\ Approved(decision)
        BY <1>t, <1>u, <4>1 DEF Overtaken, Local, Writing, Approved
      <4>3. Stands("sql")
        BY <4>2 DEF IInv, SqlStands
      <4> QED
        BY <1>t, <1>u, <4>2, <4>3, StandsOn
    <3> QED
      BY <3>2 DEF SqlStands, Approved
  <2> QED
    BY <2>1, <2>2
<1>3. MemoryStands'
  <2>1. Stands("memory") => Stands("memory")'
    BY <1>t, <1>u, <1>k, StandsOn
  <2> QED
    BY <1>u, <2>1 DEF IInv, MemoryStands, Approved
<1>4. Crowds'
  <2>1. OnlyOf(r) /\ StillBusy(r)
    BY <1>k, <1>u DEF OnlyOf, StillBusy, Running, InStore
  <2> QED
    BY <1>u, <2>1, FewerBusy DEF IInv
<1>5. RowOfHistory' /\ EndsWithLatest'
  <2>1. Len(recorded) + 1 \in InDatabase'
        /\ \A i \in InDatabase' : i < Len(recorded) + 1 \/ i = Len(recorded) + 1
    BY <1>h, <1>i
  <2>2. ASSUME NEW i \in InDatabase', \A j \in InDatabase' : j <= i
        PROVE  i = Len(recorded) + 1
    BY <1>h, <1>i, <2>1, <2>2
  <2> QED
    BY <1>n, <1>a, <1>h, <2>2 DEF RowOfHistory, EndsWithLatest
<1>6. Part(trail)'
  <2> DEFINE last == Len(got[r].rows) + 1
  <2>1. PICK at \in [DOMAIN got[r].rows -> InDatabase] :
            /\ \A m, n \in DOMAIN got[r].rows : m < n => at[m] < at[n]
            /\ \A n \in DOMAIN got[r].rows : got[r].rows[n] = recorded[at[n]].entry
    BY <1>k DEF Part
  <2>2. PICK onto : onto = [n \in DOMAIN trail' |->
                             IF n \in DOMAIN got[r].rows THEN at[n] ELSE Len(recorded) + 1]
    OBVIOUS
  <2>3. onto \in [DOMAIN trail' -> InDatabase']
    BY <1>i, <2>1, <2>2
  <2>4. ASSUME NEW m \in DOMAIN trail', NEW n \in DOMAIN trail', m < n
        PROVE  onto[m] < onto[n]
    <3>1. m \in DOMAIN got[r].rows
      BY <1>a, <2>4
    <3>2. at[m] \in 1..Len(recorded)
      BY <1>i, <2>1, <3>1
    <3>3. CASE n \in DOMAIN got[r].rows
      BY <2>1, <2>2, <2>4, <3>1, <3>3
    <3>4. CASE n \notin DOMAIN got[r].rows
      BY <1>h, <2>2, <3>1, <3>2, <3>4
    <3> QED
      BY <3>3, <3>4
  <2>5. ASSUME NEW n \in DOMAIN trail'
        PROVE  trail'[n] = recorded'[onto[n]].entry
    <3>1. CASE n \in DOMAIN got[r].rows
      BY <1>a, <1>i, <2>1, <2>2, <3>1
    <3>2. CASE n \notin DOMAIN got[r].rows
      BY <1>a, <1>h, <2>2, <3>2
    <3> QED
      BY <3>1, <3>2
  <2> QED
    BY <2>3, <2>4, <2>5 DEF Part
<1>7. LacksNone(trail)'
  <2>1. ASSUME NEW i \in InDatabase', recorded'[i].entry.by \notin crowded
        PROVE  \E n \in DOMAIN trail' : trail'[n] = recorded'[i].entry
    <3>1. CASE i \in InDatabase
      BY <1>a, <1>i, <1>k, <2>1, <3>1 DEF LacksNone
    <3>2. CASE i = Len(recorded) + 1
      BY <1>a, <1>h, <3>2
    <3> QED
      BY <1>i, <3>1, <3>2
  <2> QED
    BY <1>u, <2>1 DEF LacksNone
<1>8. ASSUME NEW q \in Requests
      PROVE  Local(q)'
  <2>1. Local(q) /\ (q # r => /\ pc'[q] = pc[q] /\ got'[q] = got[q] /\ tx'[q] = tx[q])
    BY <1>k, <1>u DEF IInv
  <2>2. q = r => pc'[q] = "recorded" /\ got'[q] = Empty /\ tx'[q] = Empty
    BY <1>k, <1>u
  <2>3. Control(q)'
    BY <1>u, <1>k, <1>e, <2>1, <2>2 DEF Control, Local, Writing
  <2>4. Gate(q)'
    <3>1. ASSUME NEW via, kind[r] = "approve", via = ViaOf(r) PROVE Cleared(r, via)'
      BY <1>t, <1>u, <3>1, ApprovalStands
    <3> QED
      BY <1>t, <1>u, <2>1, <2>2, <3>1, GateStays DEF Local
  <2>5. ASSUME q # r, pc[q] \in {"record"} \cup Writing
        PROVE  q \in crowded /\ r \in crowded
    BY <1>k, <1>u, <2>1, <2>5
       DEF IInv, Crowds, Busy, Control, Local, Running, InStore, Writing
  <2>6. Overtaken(q)'
    BY <1>n, <1>u, <1>e, <2>1, <2>2, <2>5 DEF Overtaken, Local, Writing
  <2>7. Carries(q)'
    <3>1. ASSUME q # r, pc[q] \in {"record"} \cup Writing, using[q] = Sql,
                 NEW s, s = got[q].rows
          PROVE  Part(s)' /\ LacksNone(s)'
      <4>1. Part(s) /\ LacksNone(s)
        BY <2>1, <3>1 DEF Carries, Local
      <4> QED
        BY <1>t, <1>u, <2>5, <3>1, <4>1, HistoryGrows
    <3>2. pc'[q] \in {"record"} \cup Writing => q # r
      BY <2>2 DEF Writing
    <3> QED
      BY <1>u, <2>1, <3>1, <3>2 DEF Carries, Part, LacksNone
  <2> QED
    BY <2>3, <2>4, <2>6, <2>7 DEF Local
<1> QED
  BY <1>1, <1>2, <1>3, <1>4, <1>5, <1>6, <1>7, <1>8 DEF IInv

----------------------------------------------------------------------------
(* The invariant and the theorems.                                         *)

\* No decision has been taken.
LEMMA Initially == Init => IInv
<1> SUFFICES ASSUME Init PROVE IInv
  OBVIOUS
<1>e. Empty \in Reads /\ Empty.row = NoDecision /\ Empty.rows = <<>>
  BY DEF Empty, Reads
<1>1. ApprovalsTypeOK
  <2>1. rec \in [Requests -> [action : Actions,
                             state : {"PENDING_APPROVAL", "APPROVED", "REJECTED"}]]
    BY DEF Init, Proposed, Actions
  <2>2. got \in [Requests -> Reads] /\ tx \in [Requests -> Reads]
    BY <1>e DEF Init
  <2>3. recorded \in Seq([entry : Entries, via : Vias]) /\ Len(recorded) = 0
    BY DEF Init
  <2> QED
    BY <2>1, <2>2, <2>3 DEF Init, ApprovalsTypeOK, Kinds, Unset
<1>2. InDatabase = {} /\ Busy = {}
  BY DEF Init, InDatabase, Busy, Deciding
<1>3. SqlStands /\ MemoryStands /\ Crowds /\ RowOfHistory /\ EndsWithLatest
  BY <1>2 DEF Init, SqlStands, MemoryStands, Crowds, RowOfHistory, EndsWithLatest,
     Approved, Unset
<1>4. Part(trail) /\ LacksNone(trail)
  <2>1. DOMAIN trail = {}
    BY DEF Init
  <2>2. [n \in {} |-> 0] \in [DOMAIN trail -> InDatabase]
    BY <2>1
  <2> QED
    BY <1>2, <2>1, <2>2 DEF Part, LacksNone
<1>5. ASSUME NEW r \in Requests PROVE Local(r)
  BY <1>e DEF Init, Local, Control, Gate, Overtaken, Carries, Writing, Proposed
<1> QED
  BY <1>1, <1>3, <1>4, <1>5 DEF IInv

\* One case for each action.
LEMMA Inductive == IInv /\ [Next]_vars => IInv'
<1> SUFFICES ASSUME IInv, [Next]_vars PROVE IInv'
  OBVIOUS
<1>1. ASSUME NEW r \in Requests, Step(r)
      PROVE  IInv'
  <2>1. CASE BeginProbe(r) \/ ProbeSucceeds(r) \/ ProbeFails(r)
    BY <2>1, Probing
  <2>2. CASE GetFromMemory(r)
    BY <2>2, ReadingMemory
  <2>3. CASE GetRow(r)
    BY <2>3, ReadingRow
  <2>4. CASE GetRows(r)
    BY <2>4, ReadingRows
  <2>5. CASE RecordInMemory(r)
    BY <2>5, RecordingInMemory
  <2>6. CASE SelectExisting(r) \/ StartDelete(r) \/ FinishDelete(r) \/ Flush(r)
    BY <2>6, Rewriting
  <2>7. CASE Commit(r)
    BY <2>7, Committing
  <2>8. CASE EndsPlainly(r)
    BY <2>8, EndingPlainly
  <2>9. CASE Recorded(r) /\ kind[r] = "approve"
    BY <2>9, GoingOn
  <2>10. CASE \E s \in Situations : Build(r, s)
    BY <2>10, Building
  <2> QED
    BY <1>1, <2>1, <2>2, <2>3, <2>4, <2>5, <2>6, <2>7, <2>8, <2>9, <2>10
       DEF Step, EndsPlainly
<1>2. ASSUME NEW r \in Requests, Fail(r)
      PROVE  IInv'
  BY <1>2, EndingPlainly DEF EndsPlainly
<1>3. ASSUME NEW r \in Requests, ArriveInVain(r)
      PROVE  IInv'
  BY <1>3, ArrivingInVain
<1>4. ASSUME NEW r \in Requests, NEW a \in MayBe[r], Arrive(r, a.kind, a.situation)
      PROVE  IInv'
  BY <1>4, Arriving
<1>5. CASE Restart
  BY <1>5, Restarting
<1>6. CASE UNCHANGED vars
  <2>1. /\ UNCHANGED <<store, memory, decision, trail>>
        /\ UNCHANGED <<pc, kind, rec, using, got, tx, artifact, recorded, began, crowded>>
    BY <1>6 DEF vars, shared, own, history
  <2>2. ApprovalsTypeOK'
    BY <2>1 DEF IInv, ApprovalsTypeOK
  <2>3. SqlStands' /\ MemoryStands' /\ Crowds'
    BY <2>1, HistoryStands DEF IInv, SqlStands, MemoryStands, Approved, Crowds, Busy
  <2>4. Part(trail)' /\ LacksNone(trail)' /\ EndsWithLatest' /\ RowOfHistory'
    BY <2>1, HistoryStands DEF IInv, Part, LacksNone, EndsWithLatest, RowOfHistory
  <2>5. ASSUME NEW r \in Requests PROVE Local(r)'
    <3>1. Local(r)
      BY DEF IInv
    <3>2. Control(r)' /\ Overtaken(r)'
      BY <2>1, <3>1 DEF Local, Control, Overtaken
    <3>3. Gate(r)'
      BY <2>1, <3>1 DEF Local, Gate, Approved, Cleared, Approves, Revokes, ViaOf
    <3>4. Carries(r)'
      BY <2>1, <3>1, HistoryStands DEF Local, Carries, Part, LacksNone
    <3> QED
      BY <3>2, <3>3, <3>4 DEF Local
  <2> QED
    BY <2>2, <2>3, <2>4, <2>5 DEF IInv
<1> QED
  BY <1>1, <1>2, <1>3, <1>4, <1>5, <1>6 DEF Next

\* The invariant holds in every behaviour.
LEMMA Holds == Spec => []IInv
BY Initially, Inductive, PTL DEF Spec

\* Every variable keeps its type (store.py, service.py).
THEOREM ApprovalsAreTyped == Spec => []ApprovalsTypeOK
<1>1. IInv => ApprovalsTypeOK
  BY DEF IInv
<1> QED
  BY <1>1, Holds, PTL

\* Nothing sensitive is handed out (service.py, build_artifact) without an
\* approval in the store the request read that no undisturbed rejection had
\* revoked when the request began, whatever decisions race and whatever store
\* a restart or an unreachable database leaves the process with.
THEOREM GateIsHeld == Spec => []GateHolds
<1>1. IInv => GateHolds
  BY DEF IInv, Local, Gate, Cleared, Approves, Revokes, GateHolds, HandedOut
<1> QED
  BY <1>1, Holds, PTL

\* However the rewrites of the audit trail race (store.py, record), it is a
\* part of the decisions that took effect, in their order, and ends with the
\* latest.
THEOREM TrailIsPartOfHistory == Spec => []TrailIsHistory
<1>1. IInv => TrailIsHistory
  BY DEF IInv, Part, EndsWithLatest, TrailIsHistory
<1> QED
  BY <1>1, Holds, PTL

\* No later decision, failure or restart takes an entry off the audit trail
\* (store.py, record) unless another decision was in progress beside its own.
THEOREM DecisionsAreKept == Spec => []DecisionsKept
<1>1. IInv => DecisionsKept
  BY DEF IInv, LacksNone, DecisionsKept
<1> QED
  BY <1>1, Holds, PTL
=============================================================================
