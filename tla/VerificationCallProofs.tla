----------------------- MODULE VerificationCallProofs -----------------------
(***************************************************************************)
(* Proofs about VerificationCall for any number of calls, of lines, and    *)
(* any overlap of them.  The argument: a loop posts only once every clip   *)
(* of its call is over (Voices), an answer tells of a tier that has moved  *)
(* for good (Upgrades), the one load that may have seen the old tier is in *)
(* before any call can start (FirstLoad), and whoever dated the acceptance *)
(* is still to be answered or was (Dated).  A loop has one clip in the     *)
(* making, so a clip is heard over another only if two loops ran together  *)
(* (Turns).                                                                *)
(***************************************************************************)
EXTENDS VerificationCall, Integers, TLAPS

Tiers == {"SUPPLIER_ASSERTED", "BUYER_ACCEPTED"}
Posters == Calls \cup {Other}
Dates == {Undated} \cup Posters

----------------------------------------------------------------------------
(* The inductive invariant.                                                *)

InvoiceType ==
    /\ tier \in Tiers /\ date \in Dates
    /\ tx \in [Posters -> [pc : {"none", "sent", "read", "ok", "failed"},
                           tier : Tiers, date : Dates]]

PageType ==
    /\ page \in {"loading", "shown", "missing"} /\ shownTier \in Tiers
    /\ loads \in [{0} \cup Calls -> Tiers \cup {"none", "sent", "missing", "done"}]
    /\ mounts \in Nat

CallType ==
    /\ calls \in [Calls -> [pc : {"none", "script", "line", "committing", "done", "failed"},
                            line : 0..Lines, mount : Nat, beside : SUBSET Calls]]
    /\ \A k \in Calls : calls[k].pc = "line" => calls[k].line \in 1..Lines

HookType ==
    /\ clip \in [Clips -> {"none", "fetching", "playing", "cut", "over"}]
    /\ audio \in Clips \cup {NoClip}
    /\ sounding \subseteq Clips

\* The first load is in before the page shows anything, and so before a call.
FirstLoad ==
    /\ page # "loading" => loads[0] = "done"
    /\ \A k \in Calls : calls[k].pc # "none" \/ loads[k] # "none" => loads[0] = "done"

\* The tier moves once and stays: an answer, a finished call and every load
\* after one know the new tier.
Upgrades ==
    /\ \A c \in Posters : tx[c].pc = "ok" \/ tx[c].tier = "BUYER_ACCEPTED"
                            => tier = "BUYER_ACCEPTED"
    /\ \A k \in Calls : loads[k] # "none" =>
            tier = "BUYER_ACCEPTED" /\ loads[k] # "SUPPLIER_ASSERTED"

\* The clip of a line that the loop has not reached is not asked for, and that
\* of a line it has left is over.
VoiceOf(k, i) ==
    /\ calls[k].pc \in {"none", "script"} => clip[<<k, i>>] = "none"
    /\ calls[k].pc = "line" =>
        /\ i > calls[k].line => clip[<<k, i>>] = "none"
        /\ i < calls[k].line => clip[<<k, i>>] = "over"
    /\ calls[k].pc \in {"committing", "done"} => clip[<<k, i>>] = "over"
    /\ calls[k].pc = "failed" => clip[<<k, i>>] \in {"none", "over"}

Voices == \A k \in Calls, i \in 1..Lines : VoiceOf(k, i)

\* Only a loop that is through posts.
Posted == \A k \in Calls : tx[k].pc \in {"sent", "read"} => calls[k].pc = "committing"

\* Who dated the acceptance has written, and its loop is not told otherwise.
DatedBy(k) ==
    /\ tx[k].pc \in {"ok", "failed"}
    /\ calls[k].pc \in {"committing", "done", "failed"}
    /\ calls[k].pc = "failed" => tx[k].pc = "failed"

Dated ==
    /\ tier = "BUYER_ACCEPTED" => date \in Posters
    /\ date \in Calls => DatedBy(date)
    /\ tier = "SUPPLIER_ASSERTED" => date = Undated
    /\ \A c \in Posters : tx[c].tier = "SUPPLIER_ASSERTED" => tx[c].date = Undated

\* What is shown was so, and a call that is done has seen to it.
Shown ==
    /\ \A l \in {0} \cup Calls : loads[l] = "BUYER_ACCEPTED" => tier = "BUYER_ACCEPTED"
    /\ shownTier = "BUYER_ACCEPTED" => tier = "BUYER_ACCEPTED"
    /\ page = "shown" /\ shownTier = "SUPPLIER_ASSERTED"
            => \A k \in Calls : calls[k].pc # "done"

\* Of two loops that run, one began while the other ran.
Besides ==
    /\ \A k \in Calls : calls[k].pc = "none" => calls[k].beside = {}
    /\ \A k, l \in Running :
            k # l => k \in calls[l].beside \/ l \in calls[k].beside

\* What sounds and the hook does not know is of a loop that had company; and
\* what it knows too, if another clip is being fetched.
Turns ==
    /\ \A c \in sounding : c = audio \/ Accompanied(c[1])
    /\ audio \in sounding =>
            \A c \in Clips : clip[c] = "fetching" => Accompanied(audio[1])

IInv ==
    /\ InvoiceType /\ PageType /\ CallType /\ HookType
    /\ FirstLoad /\ Upgrades /\ Voices /\ Posted /\ Dated /\ Shown
    /\ Besides /\ Turns

----------------------------------------------------------------------------
(* The hook.                                                               *)

LEMMA ClipOfLine ==
  /\ \A k \in Calls, i \in 1..Lines : <<k, i>> \in Clips
  /\ \A c \in Clips : c[1] \in Calls /\ c[2] \in 1..Lines /\ c = <<c[1], c[2]>>
BY CallAssumption

\* cleanup() cuts the clip of the ref and touches no other; what it cuts was
\* playing.
LEMMA Silences ==
  ASSUME HookType
  PROVE  /\ Silenced \in [Clips -> {"none", "fetching", "playing", "cut", "over"}]
         /\ \A c \in Clips :
                \/ Silenced[c] = clip[c]
                \/ clip[c] = "playing" /\ Silenced[c] = "cut"
BY DEF HookType, Silenced

\* After it the hook knows of no clip, and what sounds on it did not know.
LEMMA CleanupHushes ==
  ASSUME HookType, Turns, Cleanup, UNCHANGED calls
  PROVE  /\ audio' \in Clips \cup {NoClip} /\ sounding' \subseteq Clips
         /\ Turns'
<1>1. audio' = NoClip /\ sounding' = sounding \ {audio} /\ NoClip \notin sounding'
  BY CallAssumption DEF HookType, Cleanup
<1> QED
  BY <1>1 DEF HookType, Turns, Accompanied

\* A loop that begins takes nobody's company away.
LEMMA CompanyStays ==
  ASSUME NEW m \in Calls, Accompanied(m),
         \A l \in Calls : calls[l].beside \subseteq calls'[l].beside
  PROVE  Accompanied(m)'
BY DEF Accompanied

LEMMA StillTurns ==
  ASSUME HookType, Turns, UNCHANGED hook,
         \A l \in Calls : calls[l].beside \subseteq calls'[l].beside
  PROVE  Turns'
<1>1. \A m \in Calls : Accompanied(m) => Accompanied(m)'
  BY CompanyStays
<1>2. \A c \in Clips : c[1] \in Calls
  BY CallAssumption
<1> QED
  BY <1>1, <1>2 DEF HookType, Turns, hook

\* Loops that go on or end have the company they had.
LEMMA StillBesides ==
  ASSUME Besides, \A k \in Calls :
            /\ calls'[k].beside = calls[k].beside
            /\ calls'[k].pc = "none" => calls[k].pc = "none"
            /\ k \in Running' => k \in Running
  PROVE  Besides'
<1>1. Running' \subseteq Calls
  BY DEF Running
<1> QED
  BY <1>1 DEF Besides

\* stop() and the unmounting, whatever the loops do.
LEMMA HookStops ==
  ASSUME IInv, Stop \/ Unmount, UNCHANGED calls
  PROVE  HookType' /\ Voices' /\ Besides' /\ Turns'
<1>1. Cleanup /\ clip' = Silenced
  BY DEF Stop, Unmount
<1>2. HookType'
  BY <1>1, Silences, CleanupHushes DEF IInv, HookType
<1>3. Voices'
  BY <1>1, Silences, ClipOfLine DEF IInv, Voices, VoiceOf
<1>4. Turns' /\ Besides'
  BY <1>1, CleanupHushes DEF IInv, Besides, Running
<1> QED
  BY <1>2, <1>3, <1>4

\* What is neither asked for nor over is the clip of the line its loop is at.
LEMMA AtItsLine ==
  ASSUME IInv, NEW k \in Calls, NEW i \in 1..Lines, clip[<<k, i>>] \notin {"none", "over"}
  PROVE  calls[k].pc = "line" /\ calls[k].line = i
<1>1. calls[k].pc = "line"
  BY DEF IInv, Voices, VoiceOf, CallType
<1>2. calls[k].line \in 1..Lines
  BY <1>1 DEF IInv, CallType
<1>3. ~(i > calls[k].line) /\ ~(i < calls[k].line)
  BY <1>1 DEF IInv, Voices, VoiceOf
<1>4. i \in Int /\ calls[k].line \in Int
  BY <1>2
<1> QED
  BY <1>1, <1>3, <1>4

\* So two clips in the making are of two loops, which keep company.
LEMMA TwoFetched ==
  ASSUME IInv, NEW b \in Clips, NEW c \in Clips, b # c,
         clip[b] \notin {"none", "over"}, clip[c] \notin {"none", "over"}
  PROVE  Accompanied(b[1])
<1>1. ASSUME NEW a \in Clips, clip[a] \notin {"none", "over"}
      PROVE  a[1] \in Running /\ a[2] = calls[a[1]].line
  BY <1>1, ClipOfLine, AtItsLine DEF Running
<1>2. b[1] # c[1]
  BY <1>1, ClipOfLine
<1> QED
  BY <1>1, <1>2, ClipOfLine DEF IInv, Besides, Accompanied

\* speak(), of a loop that goes on to its next line.
LEMMA LoopSpeaks ==
  ASSUME IInv, NEW k \in Calls, NEW i \in 1..Lines, SpeakLine(k, i),
         \/ calls[k].pc = "script" /\ i = 1
         \/ /\ calls[k].pc = "line" /\ i = calls[k].line + 1
            /\ clip[<<k, calls[k].line>>] = "over"
  PROVE  CallType' /\ HookType' /\ Voices' /\ Besides' /\ Turns'
<1>1. Speak(<<k, i>>, Live(k)) /\ <<k, i>> \in Clips /\ clip[<<k, i>>] = "none"
  BY ClipOfLine DEF SpeakLine, Speak
<1>2. calls' = [calls EXCEPT ![k].pc = "line", ![k].line = i]
  BY DEF SpeakLine
<1>3. CallType'
  <2>1. i \in 0..Lines
    BY CallAssumption
  <2>2. /\ calls'[k] = [pc |-> "line", line |-> i, mount |-> calls[k].mount,
                        beside |-> calls[k].beside]
        /\ \A j \in Calls : j # k => calls'[j] = calls[j]
        /\ calls' = [j \in Calls |-> calls'[j]]
    BY <1>2 DEF IInv, CallType
  <2>3. calls[k].mount \in Nat /\ calls[k].beside \in SUBSET Calls
    BY DEF IInv, CallType
  <2> QED
    BY <2>1, <2>2, <2>3 DEF IInv, CallType
<1>4. HookType'
  <2>1. CASE Live(k)
    BY <1>1, <2>1, Silences DEF IInv, HookType, Speak, Cleanup
  <2>2. CASE ~Live(k)
    BY <1>1, <2>2 DEF IInv, HookType, Speak
  <2> QED
    BY <2>1, <2>2
<1>5. \A c \in Clips : c # <<k, i>> =>
            \/ clip'[c] = clip[c]
            \/ clip[c] = "playing" /\ clip'[c] = "cut"
  BY <1>1, Silences DEF IInv, HookType, Speak
<1>6. Voices'
  <2> SUFFICES ASSUME NEW j \in Calls, NEW h \in 1..Lines
               PROVE  VoiceOf(j, h)'
    BY DEF Voices
  <2>1. <<j, h>> \in Clips
    BY ClipOfLine
  <2>2. CASE j # k
    <3>1. calls'[j] = calls[j] /\ <<j, h>> # <<k, i>>
      BY <1>2, <2>2 DEF IInv, CallType
    <3> QED
      BY <3>1, <2>1, <1>5 DEF IInv, Voices, VoiceOf
  <2>3. CASE j = k
    <3>1. calls'[j].pc = "line" /\ calls'[j].line = i
      BY <1>2, <2>3 DEF IInv, CallType
    <3>2. h # i => clip'[<<j, h>>] = clip[<<j, h>>] \/ clip[<<j, h>>] = "playing"
      BY <2>1, <2>3, <1>5
    <3>3. h > i => clip[<<j, h>>] = "none"
      BY <2>3, CallAssumption DEF IInv, Voices, VoiceOf, CallType
    <3>4. h < i => clip[<<j, h>>] = "over"
      BY <2>3, CallAssumption DEF IInv, Voices, VoiceOf, CallType
    <3> QED
      BY <3>1, <3>2, <3>3, <3>4 DEF VoiceOf
  <2> QED
    BY <2>2, <2>3
<1>7. \A j \in Calls : /\ calls'[j].beside = calls[j].beside
                       /\ calls'[j].pc \in {"line", calls[j].pc}
                       /\ j = k => calls[j].pc \in {"script", "line"}
                       /\ j # k => calls'[j] = calls[j]
  BY <1>2 DEF IInv, CallType
<1>8. Besides'
  BY <1>7, StillBesides DEF IInv, Running
<1>9. Turns'
  <2>1. \A m \in Calls : Accompanied(m)' <=> Accompanied(m)
    BY <1>7 DEF Accompanied
  <2>2. CASE Live(k)
    <3>1. audio' = NoClip /\ sounding' = sounding \ {audio} /\ NoClip \notin sounding'
      BY <1>1, <2>2, CallAssumption DEF Speak, Cleanup, IInv, HookType
    <3> QED
      BY <3>1, <2>1, ClipOfLine DEF IInv, HookType, Turns
  <2>3. CASE ~Live(k)
    <3>1. UNCHANGED <<audio, sounding>> /\ clip' = [clip EXCEPT ![<<k, i>>] = "over"]
      BY <1>1, <2>3 DEF Speak
    <3> QED
      BY <3>1, <2>1, ClipOfLine DEF IInv, Turns, HookType
  <2> QED
    BY <2>2, <2>3
<1> QED
  BY <1>3, <1>4, <1>6, <1>8, <1>9

\* The fate of a clip that has been asked for.
LEMMA ClipMoves ==
  ASSUME IInv, NEW c \in Clips, ClipStep(c)
  PROVE  HookType' /\ Voices' /\ Besides' /\ Turns'
<1>1. /\ clip[c] \in {"fetching", "playing", "cut"}
      /\ \E s \in {"playing", "over"} : clip' = [clip EXCEPT ![c] = s]
      /\ calls' = calls
  BY DEF ClipStep, SpeechStep, SpeakFails, StartPlaying, PlaybackEnds, Watchdog,
         LearnsItWasCut
<1>2. HookType'
  BY <1>1 DEF ClipStep, SpeechStep, SpeakFails, StartPlaying, PlaybackEnds, Watchdog,
         LearnsItWasCut, IInv, HookType
<1>3. Voices'
  <2> SUFFICES ASSUME NEW k \in Calls, NEW i \in 1..Lines, c = <<k, i>>
               PROVE  Voices'
    BY ClipOfLine
  <2>1. calls[k].pc = "line" /\ calls[k].line = i
    BY <1>1, AtItsLine
  <2>2. \A j \in Calls, h \in 1..Lines :
            <<j, h>> # <<k, i>> => clip'[<<j, h>>] = clip[<<j, h>>]
    BY <1>1, ClipOfLine DEF IInv, HookType
  <2>3. ASSUME NEW j \in Calls, NEW h \in 1..Lines PROVE VoiceOf(j, h)'
    <3>1. CASE <<j, h>> # <<k, i>>
      BY <1>1, <2>2, <3>1 DEF IInv, Voices, VoiceOf
    <3>2. CASE j = k /\ h = i
      BY <1>1, <2>1, <3>2 DEF VoiceOf
    <3> QED
      BY <3>1, <3>2
  <2> QED
    BY <2>3 DEF Voices
<1>4. Besides'
  BY <1>1 DEF IInv, Besides, Running
<1>5. Turns'
  <2>1. \A m \in Calls : Accompanied(m)' <=> Accompanied(m)
    BY <1>1 DEF Accompanied
  <2>2. \A b \in Clips : clip'[b] = "fetching" => b # c /\ clip[b] = "fetching"
    BY <1>1 DEF IInv, HookType
  <2>3. CASE UNCHANGED audio /\ sounding' \subseteq sounding
    BY <2>1, <2>2, <2>3, ClipOfLine DEF IInv, HookType, Turns
  <2>4. CASE StartPlaying(c, Live(c[1])) /\ Live(c[1])
    <3>1. /\ audio' = c /\ sounding' = sounding \cup {c}
          /\ clip[c] = "fetching"
      BY <2>4 DEF StartPlaying
    <3>2. \A d \in sounding : d = audio' \/ Accompanied(d[1])
      BY <3>1 DEF IInv, Turns
    <3>3. \A b \in Clips : clip'[b] = "fetching" => Accompanied(c[1])
      BY <3>1, <2>2, TwoFetched
    <3> QED
      BY <2>1, <3>1, <3>2, <3>3, ClipOfLine DEF IInv, HookType, Turns
  <2> QED
    BY <2>3, <2>4 DEF ClipStep, SpeechStep, SpeakFails, StartPlaying, PlaybackEnds,
       Watchdog, LearnsItWasCut
<1> QED
  BY <1>2, <1>3, <1>4, <1>5

----------------------------------------------------------------------------
(* The invariant is inductive.                                             *)

LEMMA InitIInv == Init => IInv
<1> SUFFICES ASSUME Init PROVE IInv
  OBVIOUS
<1>1. InvoiceType /\ PageType /\ FirstLoad
  BY CallAssumption DEF Init, InvoiceType, PageType, FirstLoad, Tiers, Posters, Dates
<1>2. CallType /\ HookType
  BY CallAssumption DEF Init, SpeechInit, CallType, HookType
<1>3. Upgrades /\ Posted /\ Shown
  BY CallAssumption DEF Init, Upgrades, Posted, Shown, Posters
<1>5. Dated
  <2>1. date \notin Calls
    BY CallAssumption DEF Init, Undated
  <2> QED
    BY <2>1 DEF Init, Dated, Posters
<1>4. Voices /\ Besides /\ Turns
  BY ClipOfLine, CallAssumption DEF Init, SpeechInit, Voices, VoiceOf, Besides, Running, Turns
<1> QED
  BY <1>1, <1>2, <1>3, <1>4, <1>5 DEF IInv

\* The hook and the loops stay as they are.
LEMMA QuietHook ==
  ASSUME IInv, UNCHANGED <<calls, hook>>
  PROVE  CallType' /\ HookType' /\ Voices' /\ Besides' /\ Turns'
BY DEF IInv, hook, CallType, HookType, Voices, VoiceOf, Besides, Running, Turns, Accompanied

\* The route: a transaction writes only the new tier.
LEMMA RouteStep ==
  ASSUME IInv, NEW c \in Posters,
         TxStep(c) \/ (c = Other /\ OtherTabPosts)
  PROVE  IInv'
<1>1. UNCHANGED <<screen, dialog, calls, hook>>
  BY DEF TxStep, TxRead, Refuse, TxWrite, TxFails, OtherTabPosts
<1>2. InvoiceType'
  <2>1. CASE TxRead(c)
    BY <2>1 DEF TxRead, invoice, IInv, InvoiceType
  <2>2. CASE Refuse(c) \/ TxFails(c) \/ (c = Other /\ OtherTabPosts)
    BY <2>2 DEF Refuse, TxFails, OtherTabPosts, Post, invoice, IInv, InvoiceType
  <2>3. CASE TxWrite(c)
    BY <2>3 DEF TxWrite, invoice, IInv, InvoiceType, Dates, Tiers
  <2> QED
    BY <2>1, <2>2, <2>3 DEF TxStep
<1>3. \/ tier' = tier
      \/ tier' = "BUYER_ACCEPTED"
  BY DEF TxStep, TxRead, Refuse, TxWrite, TxFails, OtherTabPosts, invoice
<1>4. /\ \A b \in Posters : tx'[b].pc = "ok" => tx[b].pc = "ok" \/ tier' = "BUYER_ACCEPTED"
      /\ \A b \in Posters : tx'[b].tier = tx[b].tier \/ tx'[b].tier = tier
  BY DEF TxStep, TxRead, Refuse, TxWrite, TxFails, OtherTabPosts, Post, invoice,
     IInv, InvoiceType, Upgrades
<1>5. Upgrades'
  BY <1>1, <1>3, <1>4 DEF screen, IInv, Upgrades
<1>6. Posted'
  BY <1>1, CallAssumption DEF TxStep, TxRead, Refuse, TxWrite, TxFails, OtherTabPosts, Post,
     IInv, InvoiceType, Posted, Posters
<1>7. PageType' /\ FirstLoad' /\ Shown'
  BY <1>1, <1>3 DEF screen, IInv, PageType, FirstLoad, Shown
<1>8. Dated'
  <2>1. calls' = calls /\ Other \notin Calls
    BY <1>1, CallAssumption
  <2>2. CASE TxRead(c)
    BY <2>1, <2>2 DEF TxRead, invoice, IInv, InvoiceType, Dated, DatedBy, Posters
  <2>3. CASE Refuse(c) \/ TxFails(c) \/ (c = Other /\ OtherTabPosts)
    BY <2>1, <2>3 DEF Refuse, TxFails, OtherTabPosts, Post, invoice, IInv, InvoiceType, Dated,
       DatedBy, Posters
  <2>4. CASE TxWrite(c)
    <3>1. c \in Calls => calls[c].pc = "committing"
      BY <2>4 DEF TxWrite, IInv, Posted
    <3>2. tx'[c].pc \in {"ok", "failed"} /\ tx'[c].tier = tx[c].tier /\ tx'[c].date = tx[c].date
      BY <2>4 DEF TxWrite, IInv, InvoiceType
    <3>3. \A b \in Posters : b # c => tx'[b] = tx[b]
      BY <2>4 DEF TxWrite, IInv, InvoiceType
    <3>4. (tier' = tier /\ date' = date) \/ (tier' = "BUYER_ACCEPTED" /\ date' = c)
      BY <2>4 DEF TxWrite, invoice, IInv, InvoiceType, Dated, Tiers
    <3>5. (date \in Calls => DatedBy(date))'
      BY <2>1, <3>1, <3>2, <3>3, <3>4 DEF IInv, Dated, DatedBy, Posters
    <3> QED
      BY <3>2, <3>3, <3>4, <3>5 DEF IInv, Dated
  <2> QED
    BY <2>2, <2>3, <2>4 DEF TxStep
<1> QED
  BY <1>1, <1>2, <1>5, <1>6, <1>7, <1>8, QuietHook DEF IInv

\* The page: the load that was started before any call may bring the old tier,
\* and it comes before any call; every later one brings the new.
LEMMA PageStepKeeps ==
  ASSUME IInv, NEW l \in {0} \cup Calls, PageStep(l)
  PROVE  IInv'
<1>1. UNCHANGED <<invoice, tx, calls>>
  BY DEF PageStep, LoadServed, LoadArrives
<1>2. InvoiceType' /\ CallType' /\ Posted'
  BY <1>1 DEF invoice, IInv, InvoiceType, CallType, Posted
<1>3. PageType'
  <2>1. CASE LoadServed(l)
    BY <2>1 DEF LoadServed, IInv, PageType, InvoiceType
  <2>2. CASE LoadArrives(l)
    <3>1. loads' = [loads EXCEPT ![l] = "done"] /\ mounts' \in Nat
      BY <2>2 DEF LoadArrives, IInv, PageType
    <3>2. page' \in {"shown", "missing"} /\ shownTier' \in Tiers
      BY <2>2 DEF LoadArrives, IInv, PageType
    <3> QED
      BY <3>1, <3>2 DEF IInv, PageType
  <2> QED
    BY <2>1, <2>2 DEF PageStep
<1>4. FirstLoad'
  <2>1. CASE LoadServed(l)
    BY <1>1, <2>1 DEF LoadServed, IInv, PageType, FirstLoad
  <2>2. CASE LoadArrives(l)
    BY <1>1, <2>2 DEF LoadArrives, IInv, PageType, FirstLoad
  <2> QED
    BY <2>1, <2>2 DEF PageStep
<1>5. Upgrades'
  BY <1>1, CallAssumption DEF PageStep, LoadServed, LoadArrives, invoice, IInv, PageType, Upgrades
<1>6. Dated' /\ Shown'
  <2>1. Dated'
    BY <1>1 DEF invoice, IInv, Dated, DatedBy
  <2>2. CASE LoadServed(l)
    BY <1>1, <2>1, <2>2 DEF LoadServed, invoice, IInv, PageType, Shown
  <2>3. CASE LoadArrives(l) /\ l = 0
    BY <1>1, <2>1, <2>3 DEF LoadArrives, invoice, IInv, PageType, FirstLoad, Shown
  <2>4. CASE LoadArrives(l) /\ l \in Calls
    BY <1>1, <2>1, <2>4 DEF LoadArrives, invoice, IInv, PageType, Upgrades, Shown
  <2> QED
    BY <2>2, <2>3, <2>4 DEF PageStep
<1>7. HookType' /\ Voices' /\ Besides' /\ Turns'
  <2>1. UNCHANGED hook \/ Unmount
    BY DEF PageStep, LoadServed, LoadArrives
  <2> QED
    BY <1>1, <2>1, QuietHook, HookStops
<1> QED
  BY <1>2, <1>3, <1>4, <1>5, <1>6, <1>7 DEF IInv

LEMMA DialogStep ==
  ASSUME IInv, OpenDialog \/ CloseDialog
  PROVE  IInv'
<1>1. UNCHANGED <<invoice, tx, page, shownTier, loads, mounts, calls>>
  BY DEF OpenDialog, CloseDialog
<1>2. UNCHANGED hook \/ Stop
  BY DEF OpenDialog, CloseDialog
<1>3. HookType' /\ Voices' /\ Besides' /\ Turns'
  BY <1>1, <1>2, QuietHook, HookStops
<1> QED
  BY <1>1, <1>3 DEF invoice, IInv, InvoiceType, PageType, CallType, FirstLoad, Upgrades,
     Posted, Dated, DatedBy, Shown

\* A loop that starts, or fails with nothing asked for or with every line over.
LEMMA LoopQuiet ==
  ASSUME IInv, NEW k \in Calls, StartCall(k) \/ ScriptFails(k) \/ CommitFails(k)
  PROVE  IInv'
<1>1. UNCHANGED <<invoice, tx, screen, hook>>
  BY DEF StartCall, ScriptFails, CommitFails
<1>2. InvoiceType' /\ PageType' /\ HookType'
  BY <1>1 DEF invoice, screen, hook, IInv, InvoiceType, PageType, HookType
<1>3. CallType'
  <2>1. CASE StartCall(k)
    <3>1. 0 \in 0..Lines /\ mounts \in Nat /\ Running \in SUBSET Calls
      BY CallAssumption DEF IInv, PageType, Running
    <3>2. /\ calls'[k] = [pc |-> "script", line |-> 0, mount |-> mounts, beside |-> Running]
          /\ \A j \in Calls : j # k => calls'[j] = calls[j]
          /\ calls' = [j \in Calls |-> calls'[j]]
      BY <2>1 DEF StartCall, IInv, CallType
    <3> QED
      BY <3>1, <3>2 DEF IInv, CallType
  <2>2. CASE ScriptFails(k) \/ CommitFails(k)
    <3>1. /\ calls'[k] = [pc |-> "failed", line |-> calls[k].line, mount |-> calls[k].mount,
                          beside |-> calls[k].beside]
          /\ \A j \in Calls : j # k => calls'[j] = calls[j]
          /\ calls' = [j \in Calls |-> calls'[j]]
      BY <2>2 DEF ScriptFails, CommitFails, IInv, CallType
    <3>2. /\ calls[k].line \in 0..Lines /\ calls[k].mount \in Nat
          /\ calls[k].beside \in SUBSET Calls
      BY DEF IInv, CallType
    <3> QED
      BY <3>1, <3>2 DEF IInv, CallType
  <2> QED
    BY <2>1, <2>2
<1>4. /\ \/ /\ calls[k].pc = "none" /\ calls'[k].pc = "script" /\ page = "shown"
         \/ calls[k].pc = "script" /\ calls'[k].pc = "failed"
         \/ calls[k].pc = "committing" /\ calls'[k].pc = "failed" /\ tx[k].pc = "failed"
      /\ \A j \in Calls : j # k => calls'[j] = calls[j]
  <2>1. CASE StartCall(k)
    BY <2>1 DEF StartCall, IInv, CallType
  <2>2. CASE ScriptFails(k)
    BY <2>2 DEF ScriptFails, IInv, CallType
  <2>3. CASE CommitFails(k)
    BY <2>3 DEF CommitFails, IInv, CallType
  <2> QED
    BY <2>1, <2>2, <2>3
<1>5. FirstLoad'
  BY <1>1, <1>4 DEF screen, IInv, FirstLoad
<1>6. Upgrades'
  BY <1>1 DEF invoice, screen, IInv, Upgrades
<1>7. Voices'
  BY <1>1, <1>4 DEF hook, IInv, Voices, VoiceOf
<1>8. Posted'
  BY <1>1, <1>4 DEF IInv, Posted
<1>9. /\ \A j \in Calls : j # k => calls'[j].beside = calls[j].beside
      /\ \/ StartCall(k) /\ calls[k].pc = "none" /\ calls'[k].beside = Running
         \/ calls'[k].beside = calls[k].beside /\ calls'[k].pc = "failed"
  <2>1. CASE StartCall(k)
    BY <2>1 DEF StartCall, IInv, CallType
  <2>2. CASE ScriptFails(k) \/ CommitFails(k)
    BY <2>2 DEF ScriptFails, CommitFails, IInv, CallType
  <2> QED
    BY <2>1, <2>2
<1>10. Besides'
  <2>1. CASE calls'[k].pc = "failed" /\ calls'[k].beside = calls[k].beside
    BY <1>4, <1>9, <2>1, StillBesides DEF IInv, Running
  <2>2. CASE calls'[k].beside = Running /\ calls[k].pc = "none"
    <3>1. \A j \in Running' : j = k \/ j \in Running
      BY <1>4 DEF Running
    <3> QED
      BY <1>4, <1>9, <2>2, <3>1 DEF IInv, Besides, Running
  <2> QED
    BY <1>9, <2>1, <2>2
<1>11. Turns'
  <2>1. \A j \in Calls : calls[j].beside \subseteq calls'[j].beside
    BY <1>9 DEF IInv, Besides
  <2> QED
    BY <1>1, <2>1, StillTurns DEF IInv
<1>12. Dated' /\ Shown'
  BY <1>1, <1>4 DEF invoice, screen, IInv, Dated, DatedBy, Shown
<1> QED
  BY <1>2, <1>3, <1>5, <1>6, <1>7, <1>8, <1>10, <1>11, <1>12 DEF IInv

\* A loop goes on to its next line, or, after the last, posts.
LEMMA LoopGoesOn ==
  ASSUME IInv, NEW k \in Calls, ScriptArrives(k) \/ NextLine(k)
  PROVE  IInv'
<1>1. UNCHANGED <<invoice, screen>>
  BY DEF ScriptArrives, NextLine
<1>2. PageType'
  BY <1>1 DEF screen, IInv, PageType
<1>3. CASE /\ UNCHANGED tx
           /\ \E i \in 1..Lines :
                /\ SpeakLine(k, i)
                /\ \/ calls[k].pc = "script" /\ i = 1
                   \/ /\ calls[k].pc = "line" /\ i = calls[k].line + 1
                      /\ clip[<<k, calls[k].line>>] = "over"
  <2>1. CallType' /\ HookType' /\ Voices' /\ Besides' /\ Turns'
    BY <1>3, LoopSpeaks
  <2>2. /\ calls[k].pc \in {"script", "line"} /\ calls'[k].pc = "line"
        /\ \A j \in Calls : j # k => calls'[j] = calls[j]
    BY <1>3 DEF SpeakLine, IInv, CallType
  <2>3. InvoiceType' /\ FirstLoad' /\ Upgrades' /\ Posted' /\ Dated' /\ Shown'
    BY <1>1, <1>3, <2>2 DEF invoice, screen, IInv, InvoiceType, FirstLoad, Upgrades, Posted,
       Dated, DatedBy, Shown
  <2> QED
    BY <1>2, <2>1, <2>3 DEF IInv
<1>4. CASE /\ NextLine(k) /\ ~(calls[k].line < Lines)
  <2>1. /\ calls[k].pc = "line" /\ calls[k].line = Lines
        /\ clip[<<k, Lines>>] = "over"
    BY <1>4, CallAssumption DEF NextLine, IInv, CallType
  <2>2. /\ calls' = [calls EXCEPT ![k].pc = "committing"]
        /\ tx' = [tx EXCEPT ![k].pc = "sent"]
        /\ UNCHANGED hook
    BY <1>4 DEF NextLine, Post
  <2>3. InvoiceType' /\ CallType'
    BY <1>1, <2>2 DEF invoice, IInv, InvoiceType, CallType, Posters
  <2>4. HookType' /\ Besides' /\ Turns'
    <3>1. \A j \in Calls : /\ calls'[j].beside = calls[j].beside
                           /\ calls'[j].pc = "none" => calls[j].pc = "none"
                           /\ j \in Running' => j \in Running
      BY <2>1, <2>2 DEF IInv, CallType, Running
    <3> QED
      BY <2>2, <3>1, StillBesides, StillTurns DEF hook, IInv, HookType
  <2>5. FirstLoad' /\ Upgrades' /\ Posted' /\ Dated' /\ Shown'
    <3>1. ~(date \in Calls /\ date = k)
      BY <2>1 DEF IInv, Dated, DatedBy
    <3> QED
      BY <1>1, <2>1, <2>2, <3>1 DEF invoice, screen, IInv, InvoiceType, CallType, FirstLoad,
         Upgrades, Posted, Dated, DatedBy, Shown, Posters
  <2>6. Voices'
    <3>1. \A i \in 1..Lines : i = Lines \/ i < calls[k].line
      BY <2>1, CallAssumption
    <3> QED
      BY <2>1, <2>2, <3>1 DEF hook, IInv, CallType, Voices, VoiceOf
  <2> QED
    BY <1>2, <2>3, <2>4, <2>5, <2>6 DEF IInv
<1> QED
  <2>1. CASE ScriptArrives(k)
    <3>1. 1 \in 1..Lines
      BY CallAssumption
    <3> QED
      BY <1>3, <2>1, <3>1 DEF ScriptArrives
  <2>2. CASE NextLine(k) /\ calls[k].line < Lines
    <3>1. calls[k].line + 1 \in 1..Lines
      BY <2>2, CallAssumption DEF NextLine, IInv, CallType
    <3> QED
      BY <1>3, <2>2, <3>1 DEF NextLine
  <2> QED
    BY <1>4, <2>1, <2>2

LEMMA LoopCommitted ==
  ASSUME IInv, NEW k \in Calls, Committed(k)
  PROVE  IInv'
<1>1. /\ UNCHANGED <<invoice, tx, shownTier, mounts>>
      /\ calls[k].pc = "committing" /\ tx[k].pc = "ok"
      /\ calls' = [calls EXCEPT ![k].pc = "done"]
      /\ loads' = [loads EXCEPT ![k] = "sent"]
      /\ page' = "loading"
  BY DEF Committed
<1>2. InvoiceType' /\ PageType' /\ CallType'
  BY <1>1 DEF invoice, IInv, InvoiceType, PageType, CallType
<1>3. FirstLoad' /\ Upgrades' /\ Posted' /\ Dated' /\ Shown'
  BY <1>1, CallAssumption DEF invoice, IInv, PageType, CallType, FirstLoad, Upgrades, Posted,
     Dated, DatedBy, Shown, Posters
<1>4. Cleanup /\ clip' = Silenced
  BY DEF Committed, Unmount
<1>5. HookType'
  BY <1>4, Silences DEF IInv, HookType, Cleanup
<1>6. Voices'
  <2> SUFFICES ASSUME NEW j \in Calls, NEW i \in 1..Lines
               PROVE  VoiceOf(j, i)'
    BY DEF Voices
  <2>1. /\ VoiceOf(j, i)
        /\ clip'[<<j, i>>] = clip[<<j, i>>] \/ clip[<<j, i>>] = "playing"
    BY <1>4, Silences, ClipOfLine DEF IInv, Voices
  <2>2. CASE j = k
    BY <1>1, <2>1, <2>2 DEF IInv, CallType, VoiceOf
  <2>3. CASE j # k
    <3>1. calls'[j] = calls[j]
      BY <1>1, <2>3 DEF IInv, CallType
    <3>2. \/ clip'[<<j, i>>] = clip[<<j, i>>]
          \/ calls[j].pc = "line" /\ calls[j].line = i
      BY <2>1, AtItsLine
    <3> QED
      BY <2>1, <3>1, <3>2, <1>4, Silences, ClipOfLine DEF VoiceOf
  <2> QED
    BY <2>2, <2>3
<1>7. Besides' /\ Turns'
  <2>1. \A j \in Calls : /\ calls'[j].beside = calls[j].beside
                         /\ calls'[j].pc = "none" => calls[j].pc = "none"
                         /\ j \in Running' => j \in Running
    BY <1>1 DEF IInv, CallType, Running
  <2>2. \A m \in Calls : Accompanied(m)' <=> Accompanied(m)
    BY <2>1 DEF Accompanied
  <2>3. audio' = NoClip /\ sounding' = sounding \ {audio} /\ NoClip \notin sounding'
    BY <1>4, CallAssumption DEF Cleanup, IInv, HookType
  <2> QED
    BY <2>1, <2>2, <2>3, StillBesides, ClipOfLine DEF IInv, HookType, Turns
<1> QED
  BY <1>2, <1>3, <1>5, <1>6, <1>7 DEF IInv

LEMMA ClipStepKeeps ==
  ASSUME IInv, NEW c \in Clips, ClipStep(c)
  PROVE  IInv'
<1>1. UNCHANGED <<invoice, tx, screen, dialog, calls>>
  BY DEF ClipStep
<1>2. HookType' /\ Voices' /\ Besides' /\ Turns'
  BY ClipMoves
<1> QED
  BY <1>1, <1>2 DEF invoice, screen, IInv, InvoiceType, PageType, CallType, FirstLoad,
     Upgrades, Posted, Dated, DatedBy, Shown

LEMMA NextIInv == IInv /\ [Next]_vars => IInv'
<1> SUFFICES ASSUME IInv, [Next]_vars PROVE IInv'
  OBVIOUS
<1>1. CASE OpenDialog \/ CloseDialog
  BY <1>1, DialogStep
<1>2. CASE OtherTabPosts \/ \E c \in Posters : TxStep(c)
  BY <1>2, RouteStep DEF Posters
<1>3. CASE \E l \in {0} \cup Calls : PageStep(l)
  BY <1>3, PageStepKeeps
<1>4. CASE \E k \in Calls : StartCall(k) \/ LoopStep(k)
  BY <1>4, LoopQuiet, LoopGoesOn, LoopCommitted DEF LoopStep
<1>5. CASE \E c \in Clips : ClipStep(c)
  BY <1>5, ClipStepKeeps
<1>6. CASE UNCHANGED vars
  <2>1. UNCHANGED <<invoice, tx, screen, calls, hook>>
    BY <1>6 DEF vars
  <2>2. CallType' /\ HookType' /\ Voices' /\ Besides' /\ Turns'
    BY <2>1, QuietHook
  <2> QED
    BY <2>1, <2>2 DEF invoice, screen, IInv, InvoiceType, PageType, FirstLoad,
       Upgrades, Posted, Dated, DatedBy, Shown
<1> QED
  BY <1>1, <1>2, <1>3, <1>4, <1>5, <1>6 DEF Next, Posters

LEMMA Invariance == Spec => []IInv
  BY InitIInv, NextIInv, PTL DEF Spec

----------------------------------------------------------------------------
(* Theorems.                                                               *)

\* Whatever loops, loads and other tabs do, a page that shows another tier than
\* the invoice has was not told of success: the answer is under way or was lost,
\* or another tab confirmed.
THEOREM PageIsTold == Spec => []PageAgrees
<1>1. IInv => PageAgrees
  <2> SUFFICES ASSUME IInv, page = "shown", shownTier # tier
               PROVE  /\ \/ date = Other \/ tx[date].pc = "failed"
                         \/ calls[date].pc = "committing"
                      /\ \A k \in Calls : calls[k].pc # "done"
    BY DEF PageAgrees
  <2>1. shownTier = "SUPPLIER_ASSERTED" /\ tier = "BUYER_ACCEPTED"
    BY DEF IInv, InvoiceType, PageType, Tiers, Shown
  <2>2. \A k \in Calls : calls[k].pc # "done"
    BY <2>1 DEF IInv, Shown
  <2>3. date = Other \/ (date \in Calls /\ DatedBy(date))
    BY <2>1 DEF IInv, Dated, Posters
  <2> QED
    BY <2>2, <2>3 DEF DatedBy
<1> QED
  BY <1>1, Invariance, PTL

\* The upgrade a call commits comes after every line of that call.
THEOREM UpgradeComesLast == Spec => AcceptedAfterTheCall
<1> DEFINE A == tier' # tier /\ date' # Other =>
        \A i \in 1..Lines : clip[<<date', i>>] = "over"
<1>1. IInv /\ [Next]_vars => [A]_vars
  <2> SUFFICES ASSUME IInv, [Next]_vars, tier' # tier, date' # Other
               PROVE  \A i \in 1..Lines : clip[<<date', i>>] = "over"
    OBVIOUS
  <2>1. PICK c \in Posters : TxWrite(c)
    BY DEF Next, OpenDialog, CloseDialog, OtherTabPosts, TxStep, TxRead, Refuse, TxFails,
       PageStep, LoadServed, LoadArrives, StartCall, LoopStep, ScriptArrives, ScriptFails,
       NextLine, Committed, CommitFails, ClipStep, invoice, vars, Posters
  <2>2. date' = c
    BY <2>1 DEF TxWrite, invoice, IInv, InvoiceType, Tiers, Dated
  <2>3. c \in Calls /\ calls[c].pc = "committing"
    BY <2>1, <2>2 DEF TxWrite, IInv, Posted, Posters
  <2> QED
    BY <2>2, <2>3 DEF IInv, Voices, VoiceOf
<1> QED
  BY <1>1, Invariance, PTL DEF Spec, AcceptedAfterTheCall

\* However stalled lines, dismissals and new calls follow each other: of two
\* clips that sound together one is of a call that ran beside another.
THEOREM VoicesDoTakeTurns == Spec => []VoicesTakeTurns
<1>1. IInv => VoicesTakeTurns
  BY DEF IInv, Turns, VoicesTakeTurns
<1> QED
  BY <1>1, Invariance, PTL
=============================================================================
