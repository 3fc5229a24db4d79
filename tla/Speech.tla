------------------------------- MODULE Speech -------------------------------
(***************************************************************************)
(* The speech hook, frontend/src/lib/voice/useSpeech.ts, with the route    *)
(* /api/voice/speak it calls.  A clip is one call of speak().  The hook    *)
(* remembers one audio element; a clip that was still fetched when another *)
(* call cleaned up comes to sound all the same.                            *)
(*                                                                         *)
(* The operators are the steps of the hook; the modules that use it        *)
(* conjoin them with their own.  `live' says that the component the clip   *)
(* belongs to is still mounted (aliveRef).                                 *)
(***************************************************************************)
CONSTANTS
    Clips,          \* the calls of speak() there may be
    NoClip          \* the audio ref holds nothing

VARIABLES
    speech,         \* what the component shows of the hook
    clip,           \* where each call of speak() stands
    audio,          \* the audio ref
    sounding        \* the clips one hears

hook == <<speech, clip, audio, sounding>>

SpeechInit ==
    /\ speech = "idle"
    /\ clip = [c \in Clips |-> "none"]
    /\ audio = NoClip
    /\ sounding = {}

\* cleanup() silences the clip of the audio ref.  The call that waits for it
\* is not told: it learns of it from the error event, or from its watchdog.
Silenced ==
    IF audio # NoClip /\ clip[audio] = "playing"
    THEN [clip EXCEPT ![audio] = "cut"] ELSE clip

Cleanup ==
    /\ sounding' = sounding \ {audio}
    /\ audio' = NoClip

\* Faulty variant: a new clip leaves the one that sounds alone.
SpeakOver(c, live) ==
    /\ clip[c] = "none"
    /\ clip' = [clip EXCEPT ![c] = IF live THEN "fetching" ELSE "over"]
    /\ speech' = IF live THEN "loading" ELSE speech
    /\ UNCHANGED <<audio, sounding>>

\* speak(): what sounds is stopped, and the text goes out to the route.
Speak(c, live) ==
    /\ clip[c] = "none"
    /\ IF live
       THEN /\ Cleanup
            /\ clip' = [Silenced EXCEPT ![c] = "fetching"]
            /\ speech' = "loading"
       ELSE /\ clip' = [clip EXCEPT ![c] = "over"]
            /\ UNCHANGED <<speech, audio, sounding>>

\* The route has no key (503), refuses the text or fails (4xx, 502), or the
\* network does.
SpeakFails(c, live) ==
    /\ clip[c] = "fetching"
    /\ clip' = [clip EXCEPT ![c] = "over"]
    /\ speech' \in IF live THEN {"error", "unconfigured"} ELSE {speech}
    /\ UNCHANGED <<audio, sounding>>

\* The audio has come.  The ref now holds this clip, whatever it held.
StartPlaying(c, live) ==
    /\ clip[c] = "fetching"
    /\ IF live
       THEN /\ clip' = [clip EXCEPT ![c] = "playing"]
            /\ audio' = c
            /\ sounding' = sounding \cup {c}
            /\ speech' = "playing"
       ELSE /\ clip' = [clip EXCEPT ![c] = "over"]
            /\ UNCHANGED <<speech, audio, sounding>>

\* Playback ends: by its event or its position, or it is refused or breaks.
PlaybackEnds(c, live) ==
    /\ clip[c] = "playing"
    /\ clip' = [clip EXCEPT ![c] = "over"]
    /\ sounding' = sounding \ {c}
    /\ speech' \in IF live THEN {"idle", "error"} ELSE {speech}
    /\ UNCHANGED audio

\* Faulty variant: no watchdog.
WatchdogAsleep(c, live) == FALSE /\ c = c /\ live = live /\ UNCHANGED hook

\* The watchdog gives up on a clip that has stalled, three seconds after it
\* should have ended.  The clip may well sound on.
Watchdog(c, live) ==
    /\ clip[c] = "playing"
    /\ clip' = [clip EXCEPT ![c] = "over"]
    /\ speech' = IF live THEN "idle" ELSE speech
    /\ UNCHANGED <<audio, sounding>>

\* The call whose clip was silenced is over: the error event of the emptied
\* element, or the watchdog at last.
LearnsItWasCut(c, live) ==
    /\ clip[c] = "cut"
    /\ clip' = [clip EXCEPT ![c] = "over"]
    /\ speech' \in IF live THEN {"idle", "error"} ELSE {speech}
    /\ UNCHANGED <<audio, sounding>>

\* What becomes of a call that has been made, sooner or later.
SpeechStep(c, live) ==
    \/ SpeakFails(c, live)
    \/ StartPlaying(c, live)
    \/ PlaybackEnds(c, live)
    \/ Watchdog(c, live)
    \/ LearnsItWasCut(c, live)

\* stop().  A clip that is being fetched is not known to it.
Stop ==
    /\ Cleanup
    /\ clip' = Silenced
    /\ speech' = "idle"

\* The component unmounts: its cleanup runs, and nothing is shown any more.
\* Mounted again, it has a fresh hook.
Unmount ==
    /\ Cleanup
    /\ clip' = Silenced
    /\ speech' = "idle"
=============================================================================
