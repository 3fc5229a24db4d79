--------------------------- MODULE MCVoiceCockpit ---------------------------
(***************************************************************************)
(* Two questions, typed or spoken.                                         *)
(***************************************************************************)
EXTENDS VoiceCockpit

MCClips == 1..2
=============================================================================
