---------------------------- MODULE FtpDialogue ----------------------------
(***************************************************************************)
(* What the server promises one control connection, whatever it does       *)
(* inside: a greeting, one answer per command, and for a command that      *)
(* moves data an interim reply and then the completion.  The kinds of the  *)
(* replies are those the handlers of ftp.c compose; the threads, locks and *)
(* pipes that carry them are in Transfer, which implements this module.    *)
(***************************************************************************)
CONSTANTS
  Session,     \* the control connections the server has room for
  Command,     \* the commands a client may send
  DataCommand, \* those of them that move data: RETR and LIST, STOR
  Quit         \* the one that ends the connection

VARIABLE dialogue  \* per session: the stage, the command in progress, the last reply

Dialogue ==
  [stage: {"away", "wait", "xfer", "idle"}, asked: Command \cup {"NONE"},
   heard: {"none", "interim", "completion", "bye", "answer"}]

Nobody == [stage |-> "away", asked |-> "NONE", heard |-> "none"]

Init == dialogue = [s \in Session |-> Nobody]

Becomes(s, stage, asked, heard) ==
  dialogue' = [dialogue EXCEPT ![s] = [stage |-> stage, asked |-> asked, heard |-> heard]]

Greet(s) == dialogue[s].stage = "away" /\ Becomes(s, "wait", "NONE", "none")

Ask(s, cmd) == dialogue[s].stage = "idle" /\ Becomes(s, "wait", cmd, dialogue[s].heard)

\* The only reply of a command, or the refusal of one that moves data.
Answer(s) ==
  /\ dialogue[s].stage = "wait"
  /\ dialogue[s].asked # Quit
  /\ Becomes(s, "idle", "NONE", "answer")

Interim(s) ==
  /\ dialogue[s].stage = "wait"
  /\ dialogue[s].asked \in DataCommand
  /\ Becomes(s, "xfer", dialogue[s].asked, "interim")

Complete(s) ==
  /\ dialogue[s].stage = "xfer"
  /\ Becomes(s, "idle", "NONE", "completion")

Bye(s) ==
  /\ dialogue[s].stage = "wait"
  /\ dialogue[s].asked = Quit
  /\ Becomes(s, "away", "NONE", "bye")

\* The server has closed its end, or the client has.
Leave(s) == Becomes(s, "away", "NONE", "none")

Served(s) == Answer(s) \/ Interim(s) \/ Complete(s) \/ Bye(s)

Next ==
  \E s \in Session :
    Greet(s) \/ (\E cmd \in Command : Ask(s, cmd)) \/ Served(s) \/ Leave(s)

vars == <<dialogue>>

Spec == Init /\ [][Next]_vars /\ \A s \in Session : WF_vars(Served(s))
=============================================================================
