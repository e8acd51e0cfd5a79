---------------------------- MODULE MCFtpClient ----------------------------
(***************************************************************************)
(* Instances of FtpClient for TLC.                                         *)
(***************************************************************************)
EXTENDS FtpClient, TLC
=============================================================================
