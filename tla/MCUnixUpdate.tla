---------------------------- MODULE MCUnixUpdate ----------------------------
(* An instance of UnixUpdate for TLC; its .cfg gives the durations.          *)
EXTENDS UnixUpdate
=============================================================================
