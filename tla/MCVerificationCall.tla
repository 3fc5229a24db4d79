------------------------ MODULE MCVerificationCall --------------------------
(***************************************************************************)
(* Two calls of two lines: the second may be started while the first still *)
(* runs behind a dialog that was closed and opened again.                  *)
(***************************************************************************)
EXTENDS VerificationCall

MCCalls == {1, 2}
MCClips == MCCalls \X (1..2)
=============================================================================
