----------------------------- MODULE MCSession -----------------------------
(***************************************************************************)
(* Instances of FtpSession for TLC: roots as the command line gives them,  *)
(* and the arguments the clients use.                                      *)
(***************************************************************************)
EXTENDS FtpSession

\* "server -root /srv/ftp/" and "server -root /ftp"
SlashRoot == <<"srv", "ftp", "">>
PlainRoot == <<"ftp">>

A    == Argument(FALSE, <<"a", "">>)
B    == Argument(TRUE, <<"a", "b">>)
Dots == Argument(FALSE, <<"a", "..">>)
UpTwo == Argument(FALSE, <<"..", "..">>)
F    == Argument(FALSE, <<"f">>)
FG   == Argument(FALSE, <<"f", "g">>)

DirArguments  == {RootArg, UpArg, A, B, Dots, UpTwo}
FileArguments == {F}
Nested        == {F, FG}    \* f is a file for one, a directory for another
OneDirectory  == {F}

Everyone(cmds) == [s \in Session |-> cmds]

TreeCommands == Everyone({"USER", "PASS", "CWD", "CDUP", "MKD", "RMD"})

First == CHOOSE s \in Session : TRUE

\* One client downloads what another one stores and removes.
DownAndUp == [s \in Session |-> IF s = First THEN {"USER", "PASS", "PASV", "REST", "RETR"}
                                ELSE {"USER", "PASS", "PASV", "STOR", "RMD"}]

\* One client uses every command, while another one stores and removes.
AllAndStores == [s \in Session |-> IF s = First THEN Commands
                                   ELSE {"USER", "PASS", "PASV", "STOR", "RMD"}]

InodeSymmetry == Permutations(Inode)
Symmetry == Permutations(Session) \cup Permutations(Inode)
=============================================================================
