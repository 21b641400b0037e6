---------------------------- MODULE MCTcgSession ----------------------------
(* An empty, a short, a medium and a too long password; session numbers in   *)
(* the one-byte and the three-byte form.                                     *)
EXTENDS TcgSession
=============================================================================
