------------------------------ MODULE MCAcceptor ------------------------------
(***************************************************************************)
(* Instances of Acceptor for TLC.                                          *)
(***************************************************************************)
EXTENDS Acceptor, TLC
=============================================================================
