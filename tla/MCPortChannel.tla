--------------------------- MODULE MCPortChannel ---------------------------
(***************************************************************************)
(* Instances of PortChannel for TLC.                                       *)
(***************************************************************************)
EXTENDS PortChannel, TLC

First == CHOOSE s \in Session : TRUE

\* One client fetches, the other stores.
FetchAndStore == [s \in Session |-> {"PORT", "QUIT"} \cup IF s = First THEN {"RETR"} ELSE {"STOR"}]
=============================================================================
