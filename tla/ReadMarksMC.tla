----------------------------- MODULE ReadMarksMC -----------------------------
(***************************************************************************)
(* Small instances of ReadMarks.                                           *)
(***************************************************************************)
EXTENDS ReadMarks, TLC

AllDomains == {"hub", "dm", "pc", "join"}
=============================================================================
