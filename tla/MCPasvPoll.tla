----------------------------- MODULE MCPasvPoll -----------------------------
(***************************************************************************)
(* Instances of PasvPoll for TLC.                                          *)
(***************************************************************************)
EXTENDS PasvPoll, TLC
=============================================================================
