---------------------------- MODULE VoiceCockpit ----------------------------
(***************************************************************************)
(* The voice assistant of the auction page: VoiceAgentWidget opens the     *)
(* cockpit (ElevenLabsVoiceCockpit.tsx), which takes a question by         *)
(* keyboard or microphone (useMicrophone.ts), asks /api/voice/answer for   *)
(* the words and has the speech hook say them.  The words are not told     *)
(* apart here; what they claim is AuctionDesk's AnswerTo.                  *)
(*                                                                         *)
(* A state update is taken to be rendered before the next event.           *)
(***************************************************************************)
EXTENDS Speech, Naturals, FiniteSets, Sequences

CONSTANTS
    MaxRecognitions     \* bound: how often the microphone is opened

\* Clips are the answers in the order they are spoken, 1..n.

VARIABLES
    open,           \* the panel is shown
    transcript,     \* who said each line of it
    thinking,       \* a question is out
    reply,          \* the answer of the route, as far as it has come
    listening,      \* what the microphone button shows
    heard           \* the recognitions: each has an end of its own

panel == <<open, transcript, thinking, reply>>
mic == <<listening, heard>>
vars == <<panel, mic, hook>>

Lines(sender) == SelectSeq(transcript, LAMBDA s : s = sender)

\* The greeting is the assistant's first line, and is not spoken.
Answered == Len(Lines("cfo")) - 1

-----------------------------------------------------------------------------
\* stop() is told to the latest recognition, which may still deliver.
Stopped ==
    [i \in DOMAIN heard |->
        IF i = Len(heard) /\ heard[i] = "on" THEN "stopping" ELSE heard[i]]

Open ==
    /\ ~open
    /\ open' = TRUE
    /\ UNCHANGED <<transcript, thinking, reply, mic, hook>>

\* Closing stops the audio and the microphone.
Close ==
    /\ open
    /\ open' = FALSE
    /\ Stop
    /\ listening' = FALSE
    /\ heard' = Stopped
    /\ UNCHANGED <<transcript, thinking, reply>>

\* ask(): a question that comes while another is out is dropped.
Ask ==
    IF thinking \/ Answered >= Cardinality(Clips)
    THEN UNCHANGED <<transcript, thinking, reply>>
    ELSE /\ transcript' = Append(transcript, "user")
         /\ thinking' = TRUE
         /\ reply' = "waiting"

Send ==
    /\ open
    /\ Ask
    /\ UNCHANGED <<open, mic, hook>>

\* The route answers 200 with words, or 4xx and 5xx with none, and then a
\* stand-in is said; or the call fails altogether.
RouteAnswers ==
    /\ reply = "waiting"
    /\ reply' \in {"words", "failed"}
    /\ UNCHANGED <<open, transcript, thinking, mic, hook>>

\* The answer is shown and spoken; a failed call is told, not spoken.
Reply ==
    /\ reply \in {"words", "failed"}
    /\ reply' = "none"
    /\ transcript' = Append(transcript, "cfo")
    /\ thinking' = FALSE
    /\ IF reply = "words" THEN Speak(Answered + 1, TRUE) ELSE UNCHANGED hook
    /\ UNCHANGED <<open, mic>>

-----------------------------------------------------------------------------
\* The microphone.

StartListening ==
    /\ open /\ ~listening
    /\ Len(heard) < MaxRecognitions
    /\ heard' = Append(heard, "on")
    /\ listening' = TRUE
    /\ UNCHANGED <<panel, hook>>

StopListening ==
    /\ open /\ listening
    /\ listening' = FALSE
    /\ heard' = Stopped
    /\ UNCHANGED <<panel, hook>>

\* A recognition delivers the one question it heard, ...
Recognised(i) ==
    /\ heard[i] \in {"on", "stopping"}
    /\ heard' = [heard EXCEPT ![i] = "delivered"]
    /\ Ask
    /\ UNCHANGED <<open, listening, hook>>

\* ... and ends, with or without an error, whichever is listening by then.
RecognitionEnds(i) ==
    /\ heard[i] # "over"
    /\ heard' = [heard EXCEPT ![i] = "over"]
    /\ listening' = FALSE
    /\ UNCHANGED <<panel, hook>>

-----------------------------------------------------------------------------
Init ==
    /\ open = FALSE
    /\ transcript = <<"cfo">>
    /\ thinking = FALSE /\ reply = "none"
    /\ listening = FALSE /\ heard = <<>>
    /\ SpeechInit

Next ==
    \/ Open \/ Close \/ Send \/ RouteAnswers \/ Reply
    \/ StartListening \/ StopListening
    \/ \E i \in DOMAIN heard : Recognised(i) \/ RecognitionEnds(i)
    \/ \E c \in Clips : SpeechStep(c, TRUE) /\ UNCHANGED <<panel, mic>>

Spec == Init /\ [][Next]_vars

-----------------------------------------------------------------------------
\* Starting a new clip stops the previous one: one never hears two.
OneVoice == \A c, d \in sounding : c = d
=============================================================================
