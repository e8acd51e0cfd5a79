----------------------------- MODULE MCTransfer -----------------------------
(***************************************************************************)
(* Instances of Transfer for TLC.  Slots, channels and ports are           *)
(* interchangeable, so safety runs use their permutations as symmetry.     *)
(***************************************************************************)
EXTENDS Transfer, TLC

NoHazard == {}
WithHurry    == {"hurry"}
AllHazards == Hazards

\* Every command, and those that a transfer needs.
AllCommands == Cmd
Transfers   == {"PASV", "RETR", "STOR", "QUIT"}
Downloads   == {"PASV", "RETR", "CTRL"}

Symmetry == Permutations(Session) \cup Permutations(Channel) \cup Permutations(Port)
=============================================================================
