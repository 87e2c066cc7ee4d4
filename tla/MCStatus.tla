------------------------------ MODULE MCStatus -------------------------------
(* An instance of Status for TLC.                                          *)
EXTENDS Status
=============================================================================
