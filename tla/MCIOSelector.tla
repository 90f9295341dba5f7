---------------------------- MODULE MCIOSelector ----------------------------
(***************************************************************************)
(* An instance of IOSelector for TLC: one socket with an operation of each *)
(* kind, another that only receives.                                       *)
(***************************************************************************)
EXTENDS IOSelector

MCJobs == {<<1, "IN">>, <<1, "OUT">>, <<2, "IN">>}
=============================================================================
