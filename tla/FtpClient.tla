----------------------------- MODULE FtpClient -----------------------------
(***************************************************************************)
(* The headless client, ftpClientHeadless.cpp, and what it talks to: the   *)
(* control connection, the handlers of the server that decide about data   *)
(* connections, and these connections.  The client is one thread that      *)
(* blocks in recv, accept and connect; it keeps its own idea of the mode   *)
(* (transMode) next to the server's conn_type, and counts on one reply per *)
(* command and a completion after 150.                                     *)
(*                                                                         *)
(* A handler of the server is one step here (Transfer has its threads and  *)
(* locks).  A transfer ends with 226, or fails without a word.  The user   *)
(* has logged in; socket, bind and listen succeed, and the server reaches  *)
(* a port the client listens at.                                           *)
(***************************************************************************)
EXTENDS Naturals, Sequences, FiniteSets

CONSTANTS
  Chan,       \* data channels of the server: ports of PASV, sockets of PORT
  Lsock,      \* ports the client listens at for PORT
  None,       \* no channel, -1 for no socket
  MaxBehind,  \* bound: replies it may leave unread and still send commands
  Drop        \* may the server close the control connection?

ASSUME ClientAssumption ==
  /\ None \notin Chan \cup Lsock /\ Cardinality(Lsock) > 1
  /\ MaxBehind \in Nat /\ Drop \in BOOLEAN

VARIABLES
  client,    \* the FTPClient object and where its thread is
  requests,  \* commands on the way to the server
  replies,   \* replies on the way to the client
  server,    \* the server's side of the control connection
  channel,   \* the data channels of the server and what is connected to them
  skipped    \* ghost: a transfer has been left without its completion

vars == <<client, requests, replies, server, channel, skipped>>

\* CTRL: USER, PASS, SYST, TYPE, CWD, PWD, MKD, RMD; RETR: also LIST.
DataCmd == {"RETR", "STOR"}
Cmd     == DataCmd \cup {"CTRL", "PASV", "PORT", "QUIT"}
Code    == {"greeting", "done", "227", "200", "refused", "150", "226", "221"}

\* reply: in rxCtrlResponse; open: in dataChannelInit; move: in the loop of
\* recv or send; final: in rxCtrlResponse for the completion.
ClientState ==
  [at : {"start", "prompt", "reply", "open", "move", "final", "ended"},
   cmd : Cmd \cup {"NONE"}, transMode : {"PASV", "PORT"}, sockDataPort : Lsock \cup {None},
   pasvDataPort : Chan \cup {None}, data : Chan \cup {None}, turn : BOOLEAN]

\* turn tells the replies to a command from those to the one before it.
Request == [cmd : Cmd \cup {"NONE"}, addr : Lsock \cup {None}, turn : BOOLEAN]
Reply   == [code : Code, port : Chan \cup {None}, turn : BOOLEAN]

\* owes: 150 has been sent and 226 has not; heard is for the refinement.
ServerState ==
  [conn_type : {"NOT_SPECIFIED", "PASV", "PORT"}, chan : Chan \cup {None}, closed : BOOLEAN,
   owes : BOOLEAN, heard : {"none", "interim", "completion", "bye", "answer"}, turn : BOOLEAN]

\* open: the server has the channel; conn: no connection yet, one that waits
\* for the client's accept, one in use, one the client has closed or reset.
Channel ==
  [kind : {"NONE", "PASV", "PORT"}, open : BOOLEAN, job : {"NONE"} \cup DataCmd,
   to : Lsock \cup {None}, conn : {"none", "queued", "up", "over"}]
NoChannel == [kind |-> "NONE", open |-> FALSE, job |-> "NONE", to |-> None, conn |-> "none"]

\* The end of the server and that of the client are closed each on its own.
Freed(ch)  == IF ~ch.open /\ ch.conn \in {"none", "over"} THEN NoChannel ELSE ch
Left(ch)   == Freed([ch EXCEPT !.conn = "over"])
\* Mutant: the job is reset to no socket.
Closed_Untyped(ch) == Freed([ch EXCEPT !.open = FALSE, !.job = None])

Closed(ch) == Freed([ch EXCEPT !.open = FALSE, !.job = "NONE"])

Init ==
  /\ client = [at |-> "start", cmd |-> "NONE", transMode |-> "PORT", sockDataPort |-> None,
               pasvDataPort |-> None, data |-> None, turn |-> FALSE]
  /\ requests = <<>> /\ replies = <<>>
  /\ server = [conn_type |-> "NOT_SPECIFIED", chan |-> None, closed |-> FALSE,
               owes |-> FALSE, heard |-> "none", turn |-> FALSE]
  /\ channel = [c \in Chan |-> NoChannel]
  /\ skipped = FALSE

----------------------------------------------------------------------------
(* The client. *)

\* txCtrlCommand, and then the wait for a reply.
Ask(cmd, addr, state) ==
  /\ client' = [state EXCEPT !.at = "reply", !.cmd = cmd, !.turn = ~@]
  /\ requests' = Append(requests, [cmd |-> cmd, addr |-> addr, turn |-> ~state.turn])

Prompted == client.at = "prompt" /\ Len(replies) + Len(requests) <= MaxBehind

\* connectToServer; run sets transMode once it has the greeting.
ConnectToServer ==
  /\ client.at = "start"
  /\ Ask("NONE", None, client)
  /\ UNCHANGED <<replies, server, channel, skipped>>

\* A command that has no more to it than a reply, PASV and the first half of a
\* transfer included.
RouteCommand(cmd) ==
  /\ Prompted /\ cmd # "PORT"
  /\ Ask(cmd, None, client)
  /\ UNCHANGED <<replies, server, channel, skipped>>

\* close(sockDataPort) resets the connections that nobody has accepted.
Unlisten(l) == [c \in Chan |-> IF channel[c].conn = "queued" /\ channel[c].to = l
                               THEN Left(channel[c]) ELSE channel[c]]

\* enterPortMode up to the command: the old socket goes first.
EnterPortMode ==
  /\ Prompted
  /\ \E l \in Lsock \ {client.sockDataPort} :
       Ask("PORT", l, [client EXCEPT !.sockDataPort = l])
  /\ channel' = Unlisten(client.sockDataPort)
  /\ UNCHANGED <<replies, server, skipped>>

\* End of input, with the connections closed by the destructor.
EndOfInput ==
  /\ client.at = "prompt"
  /\ client' = [client EXCEPT !.at = "ended", !.sockDataPort = None]
  /\ channel' = Unlisten(client.sockDataPort)
  /\ UNCHANGED <<requests, replies, server, skipped>>

AtPrompt(state) == [state EXCEPT !.at = "prompt", !.cmd = "NONE", !.data = None]

\* Mutant: a successful PASV does not change transMode.
Heard_KeepsMode(r) ==
  CASE client.cmd = "NONE" -> [AtPrompt(client) EXCEPT !.transMode = "PASV"]
    [] client.cmd = "CTRL" -> AtPrompt(client)
    [] client.cmd = "QUIT" -> [client EXCEPT !.at = "ended", !.sockDataPort = None]
    [] client.cmd = "PASV" ->
         IF r.code = "227" THEN [AtPrompt(client) EXCEPT !.pasvDataPort = r.port]
         ELSE AtPrompt(client)
    [] client.cmd = "PORT" ->
         IF r.code = "200" THEN [AtPrompt(client) EXCEPT !.transMode = "PORT"]
         ELSE [AtPrompt(client) EXCEPT !.sockDataPort = None]
    [] client.cmd \in DataCmd ->
         IF r.code = "150" THEN [client EXCEPT !.at = "open"] ELSE AtPrompt(client)

\* Mutant: 150 is taken for a refusal.
Heard_Refuses(r) ==
  CASE client.cmd = "NONE" -> [AtPrompt(client) EXCEPT !.transMode = "PASV"]
    [] client.cmd = "QUIT" -> [client EXCEPT !.at = "ended", !.sockDataPort = None]
    [] client.cmd = "PASV" /\ r.code = "227" ->
         [AtPrompt(client) EXCEPT !.transMode = "PASV", !.pasvDataPort = r.port]
    [] client.cmd = "PORT" ->
         IF r.code = "200" THEN [AtPrompt(client) EXCEPT !.transMode = "PORT"]
         ELSE [AtPrompt(client) EXCEPT !.sockDataPort = None]
    [] OTHER -> AtPrompt(client)

\* What each command does with its reply.  enterPasvMode looks for the
\* parentheses of 227, the others at the code.
Heard(r) ==
  CASE client.cmd = "NONE" -> [AtPrompt(client) EXCEPT !.transMode = "PASV"]
    [] client.cmd = "CTRL" -> AtPrompt(client)
    [] client.cmd = "QUIT" -> [client EXCEPT !.at = "ended", !.sockDataPort = None]
    [] client.cmd = "PASV" ->
         IF r.code = "227"
         THEN [AtPrompt(client) EXCEPT !.transMode = "PASV", !.pasvDataPort = r.port]
         ELSE AtPrompt(client)
    [] client.cmd = "PORT" ->
         IF r.code = "200" THEN [AtPrompt(client) EXCEPT !.transMode = "PORT"]
         ELSE [AtPrompt(client) EXCEPT !.sockDataPort = None]
    [] client.cmd \in DataCmd ->
         IF r.code = "150" THEN [client EXCEPT !.at = "open"] ELSE AtPrompt(client)

\* rxCtrlResponse.
RxReply ==
  /\ client.at = "reply" /\ replies # <<>>
  /\ client' = Heard(Head(replies))
  /\ replies' = Tail(replies)
  /\ channel' = IF client'.sockDataPort = client.sockDataPort THEN channel
                ELSE Unlisten(client.sockDataPort)
  /\ UNCHANGED <<requests, server, skipped>>

RxFinal ==
  /\ client.at = "final" /\ replies # <<>>
  /\ client' = AtPrompt(client)
  /\ replies' = Tail(replies)
  /\ UNCHANGED <<requests, server, channel, skipped>>

\* rxCtrlResponse at the end of the stream.
RxNothing ==
  /\ client.at \in {"reply", "final"} /\ replies = <<>> /\ server.closed
  /\ client' = IF client.cmd \in {"NONE", "QUIT"} THEN [client EXCEPT !.at = "ended"]
               ELSE IF client.cmd = "PORT" THEN [AtPrompt(client) EXCEPT !.sockDataPort = None]
               ELSE AtPrompt(client)
  /\ channel' = IF client.cmd = "PORT" THEN Unlisten(client.sockDataPort) ELSE channel
  /\ UNCHANGED <<requests, replies, server, skipped>>

\* dataChannelInit: the channel it reaches, if there is one.
Reachable ==
  {c \in Chan : CASE client.transMode = "PASV" ->
                       c = client.pasvDataPort /\ channel[c].open /\ channel[c].kind = "PASV"
                  [] client.transMode = "PORT" ->
                       channel[c].to = client.sockDataPort /\ channel[c].conn = "queued"}

DataChannelInit ==
  /\ client.at = "open"
  /\ \E c \in Reachable :
       /\ client' = [client EXCEPT !.at = "move", !.data = c]
       /\ channel' = [channel EXCEPT ![c].conn = "up"]
  /\ UNCHANGED <<requests, replies, server, skipped>>

\* connect is refused, or accept has no socket.  With one it waits.
DataChannelInitFails ==
  /\ client.at = "open"
  /\ IF client.transMode = "PASV" THEN Reachable = {} ELSE client.sockDataPort = None
  /\ client' = AtPrompt(client)
  /\ skipped' = TRUE
  /\ UNCHANGED <<requests, replies, server, channel>>

Hangup == [channel EXCEPT ![client.data] = Left(@)]

\* Mutant: the completion is not read.
Moved_NoFinal ==
  /\ client.at = "move"
  /\ client.cmd = "RETR" => ~channel[client.data].open
  /\ client' = AtPrompt(client)
  /\ channel' = Hangup
  /\ UNCHANGED <<requests, replies, server, skipped>>

\* recv has returned 0, or all of the file has been sent.
Moved ==
  /\ client.at = "move"
  /\ client.cmd = "RETR" => ~channel[client.data].open
  /\ client' = [client EXCEPT !.at = "final", !.data = None]
  /\ channel' = Hangup
  /\ UNCHANGED <<requests, replies, server, skipped>>

\* The local file does not open, or recv or send fails: the function returns
\* and does not wait for the completion.
GiveUp ==
  /\ client.at = "move"
  /\ client' = AtPrompt(client)
  /\ channel' = Hangup
  /\ skipped' = TRUE
  /\ UNCHANGED <<requests, replies, server>>

----------------------------------------------------------------------------
(* The server. *)

Say(code, port) ==
  replies' = Append(replies, [code |-> code, port |-> port, turn |-> Head(requests).turn])

\* The next command, answered like this; a transfer in progress has its reply
\* still to come.
Handle(cmd) ==
  /\ requests # <<>> /\ Head(requests).cmd = cmd /\ ~server.closed
  /\ requests' = Tail(requests)
  /\ UNCHANGED <<client, skipped>>

Free == {c \in Chan : channel[c] = NoChannel}

Answered(conn_type, chan) ==
  server' = [server EXCEPT !.conn_type = conn_type, !.chan = chan, !.heard = "answer"]

Greet ==
  /\ Handle("NONE") /\ Say("greeting", None)
  /\ Answered("NOT_SPECIFIED", None) /\ UNCHANGED channel

FTP_CTRL ==
  /\ Handle("CTRL") /\ Say("done", None)
  /\ Answered(server.conn_type, server.chan) /\ UNCHANGED channel

\* pasv_client_new.  The channel of the last PASV stays as it is.
FTP_PASV ==
  /\ Handle("PASV")
  /\ \E c \in Free :
       /\ channel' = [channel EXCEPT ![c] = [NoChannel EXCEPT !.kind = "PASV", !.open = TRUE]]
       /\ Say("227", c) /\ Answered("PASV", c)

\* port_client_new: the connection waits for accept, or is refused where the
\* client listens no more.
FTP_PORT ==
  /\ Handle("PORT")
  /\ \E c \in Free :
       /\ channel' = [channel EXCEPT ![c] =
            [NoChannel EXCEPT !.kind = "PORT", !.open = TRUE, !.to = Head(requests).addr,
               !.conn = IF client.sockDataPort = Head(requests).addr THEN "queued" ELSE "over"]]
       /\ Say("200", None) /\ Answered("PORT", c)

\* 434.
NoChannelLeft ==
  /\ Handle("PASV") \/ Handle("PORT")
  /\ Say("refused", None)
  /\ Answered("NOT_SPECIFIED", server.chan) /\ UNCHANGED channel

\* 550 or 504; always without PASV or PORT before it.
Refuse ==
  /\ \E cmd \in DataCmd : Handle(cmd)
  /\ Say("refused", None)
  /\ Answered(server.conn_type, server.chan) /\ UNCHANGED channel

\* FTP_RETR, FTP_LIST, FTP_STOR: the job goes to the channel, if it is still
\* there, and 150 to the client.  The file of STOR is opened at once: when it
\* cannot be, there is no job, and the handler does not look.
FTP_DATA(cmd) ==
  /\ Handle(cmd) /\ server.conn_type # "NOT_SPECIFIED"
  /\ Say("150", None)
  /\ server' = [server EXCEPT !.owes = TRUE, !.heard = "interim", !.turn = Head(requests).turn]
  /\ \/ channel[server.chan].open /\ channel' = [channel EXCEPT ![server.chan].job = cmd]
     \/ ~channel[server.chan].open /\ UNCHANGED channel
     \/ cmd = "STOR" /\ UNCHANGED channel

\* A passive channel that nobody has connected to stays (PasvPoll).
Undialled == server.conn_type = "PASV" /\ channel[server.chan].conn = "none"

FTP_QUIT ==
  /\ Handle("QUIT") /\ Say("221", None)
  /\ server' = [server EXCEPT !.closed = TRUE, !.heard = "bye"]
  /\ channel' = IF server.conn_type = "NOT_SPECIFIED" \/ Undialled THEN channel
                ELSE [channel EXCEPT ![server.chan] = Closed(@)]

\* Mutant: the completion is composed and the connection is not polled for it.
Complete_Unsent(c) ==
  /\ channel[c].open
  /\ \/ channel[c].job = "RETR" /\ channel[c].conn # "none"
     \/ channel[c].job = "STOR" /\ channel[c].conn = "over"
  /\ channel' = [channel EXCEPT ![c] = Closed(@)]
  /\ server' = [server EXCEPT !.conn_type = "NOT_SPECIFIED", !.owes = FALSE, !.heard = "completion"]
  /\ UNCHANGED <<client, requests, replies, skipped>>

\* A download is complete when the last byte is in the socket, whether or not
\* the client has accepted or has closed; an upload at the end of the stream.
Complete(c) ==
  /\ channel[c].open
  /\ \/ channel[c].job = "RETR" /\ channel[c].conn # "none"
     \/ channel[c].job = "STOR" /\ channel[c].conn = "over"
  /\ channel' = [channel EXCEPT ![c] = Closed(@)]
  /\ IF server.closed THEN UNCHANGED <<server, replies>>
     ELSE /\ server' = [server EXCEPT !.conn_type = "NOT_SPECIFIED", !.owes = FALSE,
                                      !.heard = "completion"]
          /\ replies' = Append(replies, [code |-> "226", port |-> None, turn |-> server.turn])
  /\ UNCHANGED <<client, requests, skipped>>

\* The channel is closed and nobody is told: the client has gone away, or the
\* transfer fails in open, sendfile or splice while its connection stands.
Abandon(c) ==
  /\ channel[c].open
  /\ \/ channel[c].job # "NONE" /\ channel[c].conn # "none"
     \/ channel[c].kind = "PORT" /\ channel[c].job = "NONE" /\ channel[c].conn = "over"
  /\ channel' = [channel EXCEPT ![c] = Closed(@)]
  /\ UNCHANGED <<client, requests, replies, server, skipped>>

\* The control connection is lost.
Close ==
  /\ Drop /\ client.at # "start" /\ ~server.closed
  /\ server' = [server EXCEPT !.closed = TRUE, !.heard = "none"]
  /\ UNCHANGED <<client, requests, replies, channel, skipped>>

ClientStep ==
  \/ RxReply \/ RxFinal \/ RxNothing
  \/ DataChannelInit \/ DataChannelInitFails \/ Moved \/ GiveUp

UserStep ==
  \/ ConnectToServer \/ (\E cmd \in Cmd : RouteCommand(cmd)) \/ EnterPortMode \/ EndOfInput

Handler ==
  \/ Greet \/ FTP_CTRL \/ FTP_PASV \/ FTP_PORT \/ NoChannelLeft \/ Refuse
  \/ (\E cmd \in DataCmd : FTP_DATA(cmd)) \/ FTP_QUIT

Next ==
  \/ ClientStep \/ UserStep \/ Handler
  \/ (\E c \in Chan : Complete(c) \/ Abandon(c)) \/ Close

Spec == Init /\ [][Next]_vars

\* The client runs, the server handles what it receives and finishes the
\* transfers whose connection the client uses.
FairSpec ==
  /\ Spec
  /\ WF_vars(RxReply \/ RxFinal \/ RxNothing) /\ WF_vars(DataChannelInit \/ Moved)
  /\ WF_vars(DataChannelInitFails) /\ WF_vars(Handler)
  /\ \A c \in Chan : WF_vars(channel[c].conn # "queued" /\ Complete(c))

----------------------------------------------------------------------------
(* Properties. *)

\* Every variable has its type.
TypeOK ==
  /\ client \in ClientState /\ server \in ServerState
  /\ requests \in Seq(Request) /\ replies \in Seq(Reply)
  /\ channel \in [Chan -> Channel] /\ skipped \in BOOLEAN

\* The reply the client is about to take for the reply to its command was
\* composed for that command, and the final reply is a completion, as long as
\* the client has not left a transfer without its completion.
ReplyBelongs ==
  ~skipped /\ client.at \in {"reply", "final"} /\ replies # <<>> =>
    /\ Head(replies).turn = client.turn
    /\ (client.at = "final") <=> (Head(replies).code = "226")

\* When 150 has arrived the client goes to the place where the server expects
\* it: the port of the last successful PASV, or the socket that the server has
\* connected to.  transMode and conn_type are changed by different commands
\* and in different cases of failure.
SamePlace ==
  ~skipped /\ client.at = "open" =>
    /\ client.transMode = channel[server.chan].kind
    /\ client.transMode = "PASV" => client.pasvDataPort = server.chan
    /\ server.chan \in Reachable

\* The server has promised a completion with 150 and has no transfer any more
\* that could end with it: one has failed without a word.
Forgotten == ~server.closed /\ server.owes /\ \A c \in Chan : channel[c].job = "NONE"

\* Every command ends, unless its transfer fails without a word: the client
\* waits neither for a reply nor for a data connection that will not come,
\* whatever was refused before, and even when the control connection is lost.
\* (After a silent failure it waits in rxCtrlResponse for ever.)
CommandEnds ==
  (client.at \in {"reply", "open", "move", "final"})
    ~> (client.at \in {"prompt", "ended"} \/ skipped \/ Forgotten)

\* The headless client is one of the clients FtpDialogue is written for: it
\* sends a command only when it has had all replies to the last one.
Dialogue ==
  IF skipped \/ server.closed \/ client.at = "start"
  THEN [stage |-> "away", asked |-> "NONE", heard |-> server.heard]
  ELSE [stage |-> IF requests # <<>> THEN "wait" ELSE IF server.owes THEN "xfer" ELSE "idle",
        asked |-> IF requests # <<>> \/ server.owes THEN client.cmd ELSE "NONE",
        heard |-> server.heard]

D == INSTANCE FtpDialogue WITH
       Session <- {"me"}, Command <- Cmd, DataCommand <- DataCmd, Quit <- "QUIT",
       dialogue <- [s \in {"me"} |-> Dialogue]

KeepsDialogue == D!Init /\ [][D!Next \/ skipped']_(D!vars)
=============================================================================
