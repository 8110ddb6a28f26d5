------------------------------ MODULE VoiceCallMC ------------------------------
(***************************************************************************)
(* VoiceCall: two calls, a secret that vanishes and returns, no rotation.   *)
(* VoiceKey: one call and two rotations, without presence.                  *)
(***************************************************************************)
EXTENDS VoiceCall

\* A key that is being derived is set, or not, before anything else happens.  VoiceCall
\* asks nothing about keys, and no other step looks at one.
KeyAtOnce == deriving # {} => deriving' # deriving

=============================================================================
