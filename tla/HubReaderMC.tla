------------------------------ MODULE HubReaderMC ------------------------------
(***************************************************************************)
(* One or two handlers of the subscription in flight.                      *)
(***************************************************************************)
EXTENDS HubReader

CONSTANTS h1, h2

=============================================================================
