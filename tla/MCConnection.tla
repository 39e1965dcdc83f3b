---------------------------- MODULE MCConnection ----------------------------
(* Values for the constants of Connection. *)
EXTENDS Connection

CONSTANTS client, server
=============================================================================
