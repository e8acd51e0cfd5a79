------------------------------ MODULE Transfer ------------------------------
(***************************************************************************)
(* One FTP transfer as the server runs it: the main thread (the poll loop  *)
(* of listener.c, the command handlers of ftp.c, the reply helpers of      *)
(* protocol.c) and the passive data thread (pasv_channel.c).  The threads  *)
(* share the control slots clients[] and the data slots pasv_clients[],    *)
(* a mutex in each, and three pipes of pointers.                           *)
(*                                                                         *)
(* The mutex net_lock of a control slot is used as a hand-over token: it   *)
(* is locked by whoever composes a reply in cmd_send, in either thread,    *)
(* and unlocked by the main thread once that reply is on the socket.       *)
(*                                                                         *)
(* A critical section in which nothing blocks is one action.  A blocking   *)
(* pthread_mutex_lock that ends a step is a program counter ("reply",      *)
(* "hand", "callback", "blocked"), so that a thread that waits for a lock  *)
(* does nothing else.  poll() reports one ready descriptor at a time.      *)
(***************************************************************************)
EXTENDS Integers, Sequences, FiniteSets

CONSTANTS
  Session,    \* the slots of clients[] (protocol.c)
  Channel,    \* the slots of pasv_clients[]
  Port,       \* the TCP ports pasv_client_new may bind
  None,       \* no port, no session, no channel
  Used,       \* the commands the clients send, among Cmd
  MaxInbox,   \* bound: commands a control socket holds unread
  MaxChunks,  \* bound: chunks of MAX_SEND_CHUNK in one download
  MaxPipe,    \* bound: the clients pause while the pipes hold this many pointers
  Hazard      \* what the peers may do beyond the polite dialogue, see Hazards

\* hurry     a command follows the last reply at once, without the pause of
\*           the GUI client after a 227 (mainwindow.cpp:217)
\* pipeline  a command may be sent while another is unanswered
\* eager     an upload may start before its 150 arrives
\* abort     the peer may close the data connection at any time
\* drop      the peer may close the control connection at any time
\* openfail  the open() of an upload may fail
Hazards == {"hurry", "pipeline", "eager", "abort", "drop", "openfail"}

\* CTRL stands for every command that only answers: USER, PASS, PWD, CWD, ...;
\* RETR stands for RETR and LIST.
Cmd == {"CTRL", "PASV", "REST", "RETR", "STOR", "QUIT"}

ASSUME ConstantsAssumption ==
  /\ None \notin Session \cup Channel \cup Port
  /\ Used \subseteq Cmd
  /\ MaxInbox \in Nat \ {0}
  /\ MaxChunks \in Nat \ {0}
  /\ MaxPipe \in Nat \ {0}
  /\ Hazard \subseteq Hazards

VARIABLES
  clients,    \* clients[]: the control slots
  channels,   \* pasv_clients[]: the data slots
  ctrlPipe,   \* ctrl_send_data_pipe_fd: channels, main to data thread
  dataPipe,   \* data_send_ctrl_pipe_fd: sessions, data thread to main
  exitPipe,   \* exit_fd: sessions, main to itself
  main,       \* where the main thread is, and the command it handles
  data,       \* where the passive data thread is, and the channel it serves
  user,       \* the remote control client of each session
  peer        \* the remote end of each channel's data connection

vars == <<clients, channels, ctrlPipe, dataPipe, exitPipe, main, data, user, peer>>
-----------------------------------------------------------------------------
NetState == {"IDLE", "NEW_CLIENT", "NEED_SEND", "NEED_RECV", "NEED_QUIT"}
Code     == {0, 150, 200, 220, 221, 226, 227, 350, 434, 550}
\* What a reply is to the client: 150, 226, 221 or one that ends a command.
\* "again" is a reply that was sent before.
ReplyKind == {"none", "interim", "completion", "bye", "answer", "again"}
Thread   == {"main", "data"}
Free     == "free"
PollIn   == "IN"
PollOut  == "OUT"

\* struct client_data; open stands for sock_fd # 0; cmdSend is the reply in
\* cmd_send that is not on the socket yet, 0 when it has been sent.
ClientData ==
  [open: BOOLEAN, netState: NetState, netLock: Thread \cup {Free}, cmdSend: Code,
   connType: {"NOT_SPECIFIED", "PASV"}, pasvPort: Port \cup {None},
   events: SUBSET {PollIn, PollOut}]

FreeClient ==
  [open |-> FALSE, netState |-> "IDLE", netLock |-> Free, cmdSend |-> 0,
   connType |-> "NOT_SPECIFIED", pasvPort |-> None, events |-> {}]

\* struct pasv_client_data; polled: the listening socket is in fds; accepted:
\* pasv_client_fd # 0; events: those of its entry in fds; wpipe: write_pipe_fd
\* is open; orphan is a ghost: the connection that asked has been closed.
PasvData ==
  [port: Port \cup {None}, state: NetState, lock: Thread \cup {Free},
   left: 0..MaxChunks, wpipe: BOOLEAN, ctrl: Session \cup {None}, orphan: BOOLEAN,
   polled: BOOLEAN, accepted: BOOLEAN, events: SUBSET {PollIn, PollOut}]

FreeChannel ==
  [port |-> None, state |-> "IDLE", lock |-> Free, left |-> 0, wpipe |-> FALSE,
   ctrl |-> None, orphan |-> FALSE, polled |-> FALSE, accepted |-> FALSE, events |-> {}]

\* reply: about to lock net_lock; hand: about to lock the channel; quit: about
\* to call protocol_client_quit; sent: the reply is on the socket, net_lock free
MainState ==
  [at: {"poll", "reply", "hand", "quit", "sent"}, s: Session \cup {None},
   cmd: Cmd \cup {"NONE"}, code: Code, c: Channel \cup {None}]
\* new: has pushed a listening socket, about to store IDLE; callback: about to
\* lock net_lock; close: about to close_connection; blocked: in lock for ever
DataState == [at: {"poll", "new", "callback", "close", "blocked"}, c: Channel \cup {None}]

MainIdle == [at |-> "poll", s |-> None, cmd |-> "NONE", code |-> 0, c |-> None]
DataIdle == [at |-> "poll", c |-> None]

\* inbox: commands on the control socket; stage: away (not connected), wait (a
\* reply is due), xfer (150 received, the completion is due), idle; asked: the
\* last command; heard: what the last reply was to it; knows: the port of an unused 227; gone:
\* the client has closed the control connection.
UserState ==
  [inbox: Seq(Cmd), stage: {"away", "wait", "xfer", "idle"}, asked: Cmd \cup {"NONE"},
   heard: ReplyKind, knows: Port \cup {None}, gone: BOOLEAN]
NoUser == [inbox |-> <<>>, stage |-> "away", asked |-> "NONE", heard |-> "none",
           knows |-> None, gone |-> FALSE]

\* conn: connected to the channel's port; who: the session of that client; rx:
\* bytes wait in the socket; fin: the client has closed its end.
PeerState == [conn: BOOLEAN, who: Session \cup {None}, rx: BOOLEAN, fin: BOOLEAN]
NoPeer == [conn |-> FALSE, who |-> None, rx |-> FALSE, fin |-> FALSE]

Init ==
  /\ clients  = [s \in Session |-> FreeClient]
  /\ channels = [c \in Channel |-> FreeChannel]
  /\ ctrlPipe = <<>>
  /\ dataPipe = <<>>
  /\ exitPipe = <<>>
  /\ main = MainIdle
  /\ data = DataIdle
  /\ user = [s \in Session |-> NoUser]
  /\ peer = [c \in Channel |-> NoPeer]
-----------------------------------------------------------------------------
(* Operations of the code, as functions of the slots they change.          *)

UsedPorts == {channels[c].port : c \in Channel} \ {None}

\* The lookup by port at the head of every pasv_* operation.
ChannelOf(s) ==
  IF clients[s].connType = "PASV" /\ \E c \in Channel : channels[c].port = clients[s].pasvPort
  THEN CHOOSE c \in Channel : channels[c].port = clients[s].pasvPort
  ELSE None

\* protocol_client_resp_by_state_machine, by the thread that holds net_lock
Respond(s, code) ==
  [clients[s] EXCEPT !.netLock = "main", !.netState = "NEED_SEND", !.cmdSend = code]

\* The end of the poll loop's body (listener.c:207) for the client r.
AfterHandler(r) ==
  IF r.open /\ r.netState = "NEED_SEND" THEN [r EXCEPT !.events = {PollOut}] ELSE r

\* The same for a slot the data thread reported, and for one that quits.
WantWrite(r) == [r EXCEPT !.events = @ \cup {PollOut}]

\* close_client_connection: the slot is zeroed, what pointed to it is not.
CloseClient(s) ==
  /\ clients' = [clients EXCEPT ![s] = FreeClient]
  /\ channels' = [c \in Channel |->
       IF channels[c].ctrl = s THEN [channels[c] EXCEPT !.orphan = TRUE] ELSE channels[c]]
  /\ user' = [user EXCEPT ![s] = NoUser]
  /\ main' = MainIdle

\* close_connection of pasv_channel.c
CloseChannel(c) ==
  /\ channels' = [channels EXCEPT ![c] = FreeChannel]
  /\ peer' = [peer EXCEPT ![c] = NoPeer]
  /\ data' = DataIdle

Kind(code) ==
  CASE code = 150 -> "interim"
    [] code = 226 -> "completion"
    [] code = 221 -> "bye"
    [] code = 0   -> "again"
    [] OTHER      -> "answer"

\* What the remote client makes of one reply.
NextStage(u, code) ==
  CASE code = 221 -> "away"
    [] code = 150 /\ u.stage = "wait" -> "xfer"
    [] OTHER -> "idle"

Hear(u, code, port) ==
  [u EXCEPT
     !.stage = NextStage(u, code),
     !.asked = IF NextStage(u, code) = "xfer" THEN @ ELSE "NONE",
     !.heard = Kind(code),
     !.gone  = IF code = 221 THEN TRUE ELSE @,
     !.knows = IF code = 227 THEN port ELSE IF code \in {226, 434} THEN None ELSE @]
-----------------------------------------------------------------------------
(* The main thread: accept, and one handler per command.                   *)

AtPoll == main.at = "poll"

\* listener.c:125-153: the greeting is composed, and due for POLLOUT.
Accept(s) ==
  /\ AtPoll
  /\ ~clients[s].open
  /\ user[s].stage = "away"
  /\ clients' = [clients EXCEPT ![s] = AfterHandler(
        [FreeClient EXCEPT !.open = TRUE, !.netState = "NEED_SEND", !.netLock = "main",
                           !.cmdSend = 220])]
  /\ user' = [user EXCEPT ![s] = [NoUser EXCEPT !.stage = "wait"]]
  /\ UNCHANGED <<channels, ctrlPipe, dataPipe, exitPipe, main, data, peer>>

\* recv and protocol_on_recv: the next command of s reaches its handler
Recv(s, cmd) ==
  /\ AtPoll
  /\ clients[s].open
  /\ PollIn \in clients[s].events
  /\ user[s].inbox # <<>>
  /\ Head(user[s].inbox) = cmd
  /\ user' = [user EXCEPT ![s].inbox = Tail(@)]
  /\ UNCHANGED <<dataPipe, exitPipe, data, peer>>

ThenReply(s, cmd, code) ==
  main' = [at |-> "reply", s |-> s, cmd |-> cmd, code |-> code, c |-> None]

\* A handler that hands a job to the channel first; without one it only replies.
ThenHand(s, cmd, code) ==
  main' = [at |-> IF ChannelOf(s) = None THEN "reply" ELSE "hand",
           s |-> s, cmd |-> cmd, code |-> code, c |-> ChannelOf(s)]

FTP_CTRL(s) ==
  /\ Recv(s, "CTRL")
  /\ ThenReply(s, "CTRL", 200)
  /\ UNCHANGED <<clients, channels, ctrlPipe>>

\* pasv_client_new: a free slot, a bound port, and a message to the data thread
FTP_PASV(s) ==
  /\ Recv(s, "PASV")
  /\ \E c \in Channel, p \in Port \ UsedPorts :
       /\ channels[c].port = None
       /\ channels' = [channels EXCEPT ![c] = [@ EXCEPT !.port = p, !.state = "NEW_CLIENT",
                                                          !.left = 0, !.wpipe = FALSE, !.lock = Free]]
       /\ ctrlPipe' = Append(ctrlPipe, c)
       /\ clients' = [clients EXCEPT ![s] = [@ EXCEPT !.connType = "PASV", !.pasvPort = p]]
  /\ ThenReply(s, "PASV", 227)

\* Mutant of FTP_PASV_Fails: the result of pasv_client_new is ignored.
FTP_PASV_Unchecked(s) ==
  /\ Recv(s, "PASV")
  /\ \E p \in UsedPorts : clients' = [clients EXCEPT ![s] = [@ EXCEPT !.connType = "PASV", !.pasvPort = p]]
  /\ ThenReply(s, "PASV", 434)
  /\ UNCHANGED <<channels, ctrlPipe>>

\* No slot: the port of the session is left alone.  Every port tried is bound:
\* the last one tried is stored in the session.
FTP_PASV_Fails(s) ==
  /\ Recv(s, "PASV")
  /\ \E p \in UsedPorts \cup {clients[s].pasvPort} :
       /\ (\A c \in Channel : channels[c].port # None) => p = clients[s].pasvPort
       /\ (\E c \in Channel : channels[c].port = None) => p \in UsedPorts
       /\ clients' = [clients EXCEPT ![s] = [@ EXCEPT !.connType = "NOT_SPECIFIED", !.pasvPort = p]]
  /\ ThenReply(s, "PASV", 434)
  /\ UNCHANGED <<channels, ctrlPipe>>

FTP_REST(s) ==
  /\ Recv(s, "REST")
  /\ IF clients[s].connType = "PASV" THEN ThenHand(s, "REST", 350) ELSE ThenReply(s, "REST", 434)
  /\ UNCHANGED <<clients, channels, ctrlPipe>>

\* FTP_RETR and FTP_LIST: 150 is composed before the job is handed over.
FTP_RETR(s) ==
  /\ Recv(s, "RETR")
  /\ \E code \in IF clients[s].connType = "PASV" THEN {150, 550} ELSE {550} :
       ThenReply(s, "RETR", code)
  /\ UNCHANGED <<clients, channels, ctrlPipe>>

\* FTP_STOR hands the job over and composes 150 afterwards.
FTP_STOR(s) ==
  /\ Recv(s, "STOR")
  /\ \/ clients[s].connType = "PASV" /\ ThenHand(s, "STOR", 150)
     \/ ThenReply(s, "STOR", 550)
  /\ UNCHANGED <<clients, channels, ctrlPipe>>

FTP_QUIT(s) ==
  /\ Recv(s, "QUIT")
  /\ ThenReply(s, "QUIT", 221)
  /\ UNCHANGED <<clients, channels, ctrlPipe>>
-----------------------------------------------------------------------------
(* The main thread, between the blocking points of one handler.            *)

\* Back in the poll loop, at the lines after the handler.
Return(r) ==
  /\ clients' = [clients EXCEPT ![main.s] = AfterHandler(r)]
  /\ main' = MainIdle

\* protocol_client_resp_by_state_machine, once net_lock is free.  FTP_RETR and
\* FTP_QUIT go on to their channel, if it is still there.
Reply ==
  LET s == main.s
      c == IF main.cmd = "QUIT" \/ (main.cmd = "RETR" /\ main.code = 150) THEN ChannelOf(s) ELSE None
  IN
  /\ main.at = "reply"
  /\ clients[s].netLock = Free
  /\ \/ /\ c # None \/ main.cmd = "QUIT"
        /\ clients' = [clients EXCEPT ![s] = Respond(s, main.code)]
        /\ main' = [main EXCEPT !.at = IF c # None THEN "hand" ELSE "quit", !.c = c]
     \/ /\ c = None /\ main.cmd # "QUIT"
        /\ Return(Respond(s, main.code))
  /\ UNCHANGED <<channels, ctrlPipe, dataPipe, exitPipe, data, user, peer>>

\* A job for main.c, whose lock is free.  The channel may have been closed
\* while the main thread waited: then it is not found, or it is a freed slot.
Hand(job) ==
  /\ main.at = "hand"
  /\ channels[main.c].lock = Free
  /\ \/ /\ channels' = [channels EXCEPT ![main.c] = job]
        /\ ctrlPipe' = Append(ctrlPipe, main.c)
     \/ /\ channels[main.c].port = None
        /\ UNCHANGED <<channels, ctrlPipe>>
  /\ UNCHANGED <<dataPipe, exitPipe, data, user, peer>>

Job(state, left, wpipe) ==
  [channels[main.c] EXCEPT !.state = state, !.left = left, !.wpipe = wpipe,
                           !.ctrl = main.s, !.orphan = FALSE]

\* Mutant of HandSend: the handler goes on to protocol_client_quit.
HandSend_Quits ==
  /\ main.cmd = "RETR"
  /\ \E n \in 1..MaxChunks : Hand(Job("NEED_SEND", n, channels[main.c].wpipe))
  /\ main' = [main EXCEPT !.at = "quit"]
  /\ UNCHANGED clients

\* pasv_sendfile, pasv_send_data
HandSend ==
  /\ main.cmd = "RETR"
  /\ \E n \in 1..MaxChunks : Hand(Job("NEED_SEND", n, channels[main.c].wpipe))
  /\ Return(clients[main.s])

\* pasv_recvfile
HandRecv ==
  /\ main.cmd = "STOR"
  /\ Hand(Job("NEED_RECV", 0, TRUE))
  /\ main' = [main EXCEPT !.at = "reply"]
  /\ UNCHANGED clients

\* pasv_recvfile, returning at line 261, 265 or 270: the lock is kept.
HandRecvFails ==
  /\ "openfail" \in Hazard
  /\ main.cmd = "STOR"
  /\ main.at = "hand"
  /\ channels[main.c].lock = Free
  /\ channels' = [channels EXCEPT ![main.c].lock = "main"]
  /\ main' = [main EXCEPT !.at = "reply"]
  /\ UNCHANGED <<clients, ctrlPipe, dataPipe, exitPipe, data, user, peer>>

\* pasv_send_set_rest: only the offset of the file changes.
HandRest ==
  /\ main.at = "hand"
  /\ main.cmd = "REST"
  /\ channels[main.c].lock = Free
  /\ main' = [main EXCEPT !.at = "reply"]
  /\ UNCHANGED <<clients, channels, ctrlPipe, dataPipe, exitPipe, data, user, peer>>

\* pasv_close_connection
HandQuit ==
  /\ main.cmd = "QUIT"
  /\ Hand([channels[main.c] EXCEPT !.state = "NEED_QUIT"])
  /\ main' = [main EXCEPT !.at = "quit"]
  /\ UNCHANGED clients

\* protocol_client_quit
QuitStep ==
  /\ main.at = "quit"
  /\ exitPipe' = Append(exitPipe, main.s)
  /\ Return([clients[main.s] EXCEPT !.netState = "NEED_QUIT"])
  /\ UNCHANGED <<channels, ctrlPipe, dataPipe, data, user, peer>>
-----------------------------------------------------------------------------
(* The main thread: the pipes, POLLOUT and the end of a connection.        *)

\* Mutant of ReadDataPipe: POLLOUT depends on net_state alone.
ReadDataPipe_ByState ==
  /\ AtPoll
  /\ dataPipe # <<>>
  /\ dataPipe' = Tail(dataPipe)
  /\ clients' = [clients EXCEPT ![Head(dataPipe)] = AfterHandler(@)]
  /\ UNCHANGED <<channels, ctrlPipe, exitPipe, main, data, user, peer>>

\* listener.c:154-161, 207-211
ReadDataPipe ==
  /\ AtPoll
  /\ dataPipe # <<>>
  /\ dataPipe' = Tail(dataPipe)
  /\ LET s == Head(dataPipe) IN
       clients' = IF clients[s].open
                  THEN [clients EXCEPT ![s] = AfterHandler(WantWrite(clients[s]))] ELSE clients
  /\ UNCHANGED <<channels, ctrlPipe, exitPipe, main, data, user, peer>>

\* listener.c:162-170, 207-211
ReadExitPipe ==
  /\ AtPoll
  /\ exitPipe # <<>>
  /\ exitPipe' = Tail(exitPipe)
  /\ LET s == Head(exitPipe) IN
       clients' = [clients EXCEPT ![s] =
         IF @.netState = "NEED_QUIT" THEN WantWrite(@) ELSE AfterHandler(@)]
  /\ UNCHANGED <<channels, ctrlPipe, dataPipe, main, data, user, peer>>

\* What recv would return for s: a command, or the end of the stream.
Readable(s) == PollIn \in clients[s].events /\ (user[s].inbox # <<>> \/ user[s].gone)

\* Mutant of Write: net_lock is released only when send succeeds.
Write_KeepsLock(s) ==
  /\ AtPoll
  /\ clients[s].open
  /\ PollOut \in clients[s].events
  /\ ~Readable(s)
  /\ user' = IF user[s].gone THEN user
             ELSE [user EXCEPT ![s] = Hear(@, clients[s].cmdSend, clients[s].pasvPort)]
  /\ clients' = [clients EXCEPT
       ![s] = [@ EXCEPT !.netLock = IF user[s].gone THEN @ ELSE Free, !.cmdSend = 0]]
  /\ main' = [MainIdle EXCEPT !.at = "sent", !.s = s]
  /\ UNCHANGED <<channels, ctrlPipe, dataPipe, exitPipe, data, peer>>

\* listener.c:212-225: POLLIN goes first; send, then unlock whoever locked
Write(s) ==
  /\ AtPoll
  /\ clients[s].open
  /\ PollOut \in clients[s].events
  /\ ~Readable(s)
  /\ user' = IF user[s].gone THEN user
             ELSE [user EXCEPT ![s] = Hear(@, clients[s].cmdSend, clients[s].pasvPort)]
  /\ clients' = [clients EXCEPT ![s] = [@ EXCEPT !.netLock = Free, !.cmdSend = 0]]
  /\ main' = [MainIdle EXCEPT !.at = "sent", !.s = s]
  /\ UNCHANGED <<channels, ctrlPipe, dataPipe, exitPipe, data, peer>>

\* Mutant of Sent: POLLOUT stays requested after the reply.
Sent_KeepsPollOut ==
  /\ main.at = "sent"
  /\ IF clients[main.s].netState = "NEED_QUIT"
     THEN CloseClient(main.s)
     ELSE /\ clients' = [clients EXCEPT
                        ![main.s] = [@ EXCEPT !.events = @ \cup {PollIn}, !.netState = "IDLE"]]
          /\ main' = MainIdle
          /\ UNCHANGED <<channels, user>>
  /\ UNCHANGED <<ctrlPipe, dataPipe, exitPipe, data, peer>>

\* listener.c:230-236, without net_lock
Sent ==
  /\ main.at = "sent"
  /\ IF clients[main.s].netState = "NEED_QUIT"
     THEN CloseClient(main.s)
     ELSE /\ clients' = [clients EXCEPT ![main.s] = [@ EXCEPT !.events = {PollIn}, !.netState = "IDLE"]]
          /\ main' = MainIdle
          /\ UNCHANGED <<channels, user>>
  /\ UNCHANGED <<ctrlPipe, dataPipe, exitPipe, data, peer>>

\* listener.c:200-204
RecvEof(s) ==
  /\ AtPoll
  /\ clients[s].open
  /\ PollIn \in clients[s].events
  /\ user[s].inbox = <<>>
  /\ user[s].gone
  /\ CloseClient(s)
  /\ UNCHANGED <<ctrlPipe, dataPipe, exitPipe, data, peer>>
-----------------------------------------------------------------------------
(* The passive data thread.                                                *)

DataAtPoll == data.at = "poll"

Serve(c, where) == data' = [at |-> where, c |-> c]

\* A message carries the channel only; its state is read here, without lock.
\* pasv_channel.c:372-396
ReadCtrlPipe ==
  /\ DataAtPoll
  /\ ctrlPipe # <<>>
  /\ ctrlPipe' = Tail(ctrlPipe)
  /\ LET c == Head(ctrlPipe)  r == channels[c] IN
       CASE r.state = "NEW_CLIENT" ->
              /\ channels' = [channels EXCEPT ![c].polled = TRUE]
              /\ Serve(c, "new")
              /\ UNCHANGED peer
         [] r.accepted /\ r.state = "NEED_SEND" ->
              /\ channels' = [channels EXCEPT ![c].events = @ \cup {PollOut}]
              /\ UNCHANGED <<data, peer>>
         [] r.accepted /\ r.state = "NEED_RECV" ->
              /\ channels' = [channels EXCEPT ![c].events = {PollIn}]
              /\ UNCHANGED <<data, peer>>
         [] r.accepted /\ r.state = "NEED_QUIT" -> CloseChannel(c)
         [] OTHER -> UNCHANGED <<channels, data, peer>>
  /\ UNCHANGED <<clients, dataPipe, exitPipe, main, user>>

\* pasv_channel.c:385, also without lock
StoreIdle ==
  /\ data.at = "new"
  /\ channels' = [channels EXCEPT ![data.c].state = "IDLE"]
  /\ data' = DataIdle
  /\ UNCHANGED <<clients, ctrlPipe, dataPipe, exitPipe, main, user, peer>>

\* What poll reports for the sockets of c.
AcceptReady(c) == channels[c].polled /\ ~channels[c].accepted /\ peer[c].conn
InReady(c)     == channels[c].accepted /\ PollIn \in channels[c].events /\ (peer[c].rx \/ peer[c].fin)
OutReady(c)    == channels[c].accepted /\ PollOut \in channels[c].events /\ ~InReady(c)

\* pasv_channel.c:418-462
AcceptData(c) ==
  /\ DataAtPoll
  /\ AcceptReady(c)
  /\ channels[c].lock = Free
  /\ channels' = [channels EXCEPT ![c] =
        [@ EXCEPT !.accepted = TRUE,
                  !.events = IF channels[c].state = "NEED_SEND" THEN {PollIn, PollOut} ELSE {PollIn}]]
  /\ UNCHANGED <<clients, ctrlPipe, dataPipe, exitPipe, main, data, user, peer>>

\* The transfer is over: the lock of c is kept while net_lock is waited for.
ToCallback(c) ==
  /\ channels' = [channels EXCEPT ![c] = [@ EXCEPT !.lock = "data", !.left = 0]]
  /\ Serve(c, "callback")
  /\ UNCHANGED peer

\* Mutant of ReadData: the end of an upload closes the channel and tells nobody.
ReadData_Silent(c) ==
  /\ DataAtPoll
  /\ InReady(c)
  /\ channels[c].lock = Free
  /\ IF channels[c].wpipe /\ peer[c].rx /\ channels[c].state = "NEED_RECV"
     THEN peer' = [peer EXCEPT ![c].rx = FALSE] /\ UNCHANGED <<channels, data>>
     ELSE CloseChannel(c)
  /\ UNCHANGED <<clients, ctrlPipe, dataPipe, exitPipe, main, user>>

\* pasv_channel.c:464-516; without a write pipe splice fails
ReadData(c) ==
  /\ DataAtPoll
  /\ InReady(c)
  /\ channels[c].lock = Free
  /\ CASE channels[c].wpipe /\ peer[c].rx /\ channels[c].state = "NEED_RECV" ->
            /\ peer' = [peer EXCEPT ![c].rx = FALSE]
            /\ UNCHANGED <<channels, data>>
       [] channels[c].wpipe /\ ~peer[c].rx -> ToCallback(c)
       [] OTHER -> CloseChannel(c)
  /\ UNCHANGED <<clients, ctrlPipe, dataPipe, exitPipe, main, user>>

\* Mutant of SendData: the offset is not compared with the length.
SendData_PastEnd(c) ==
  /\ DataAtPoll
  /\ OutReady(c)
  /\ channels[c].lock = Free
  /\ channels[c].state = "NEED_SEND"
  /\ channels' = [channels EXCEPT ![c] = [@ EXCEPT !.left = channels[c].left - 1, !.events = {PollOut}]]
  /\ UNCHANGED <<clients, ctrlPipe, dataPipe, exitPipe, main, data, user, peer>>

\* pasv_channel.c:529-601; send fails only when the peer has closed its end
SendData(c) ==
  /\ DataAtPoll
  /\ OutReady(c)
  /\ channels[c].lock = Free
  /\ channels[c].state = "NEED_SEND"
  /\ \/ /\ channels[c].left > 1
        /\ channels' = [channels EXCEPT ![c] = [@ EXCEPT !.left = channels[c].left - 1, !.events = {PollOut}]]
        /\ UNCHANGED <<data, peer>>
     \/ channels[c].left = 1 /\ ToCallback(c)
     \/ peer[c].fin /\ CloseChannel(c)
  /\ UNCHANGED <<clients, ctrlPipe, dataPipe, exitPipe, main, user>>

\* The reply of the data thread in the slot of s, and the message about it
Complete(s) ==
  /\ clients' = [clients EXCEPT
       ![s] = [@ EXCEPT !.netLock = "data", !.connType = "NOT_SPECIFIED", !.cmdSend = 226,
                        !.netState = "NEED_SEND"]]
  /\ dataPipe' = Append(dataPipe, s)

\* Mutant of Callback: cmd_send is written without net_lock.
Callback_Unlocked ==
  /\ data.at = "callback"
  /\ channels[data.c].ctrl # None
  /\ Complete(channels[data.c].ctrl)
  /\ Serve(data.c, "close")
  /\ UNCHANGED <<channels, ctrlPipe, exitPipe, main, user, peer>>

\* Mutant of Callback: the channel is kept for the next transfer.
Callback_KeepsChannel ==
  /\ data.at = "callback"
  /\ channels[data.c].ctrl # None
  /\ clients[channels[data.c].ctrl].netLock = Free
  /\ Complete(channels[data.c].ctrl)
  /\ channels' = [channels EXCEPT ![data.c].lock = Free]
  /\ data' = DataIdle
  /\ UNCHANGED <<ctrlPipe, exitPipe, main, user, peer>>

\* pasv_channel.c:474-486, 581-592: the completion, in the slot ctrl points to
Callback ==
  LET s == channels[data.c].ctrl IN
  /\ data.at = "callback"
  /\ \/ s = None /\ UNCHANGED <<clients, dataPipe>>
     \/ s # None /\ clients[s].netLock = Free /\ Complete(s)
  /\ Serve(data.c, "close")
  /\ UNCHANGED <<channels, ctrlPipe, exitPipe, main, user, peer>>

\* pasv_channel.c:487, 594
CloseStep ==
  /\ data.at = "close"
  /\ CloseChannel(data.c)
  /\ UNCHANGED <<clients, ctrlPipe, dataPipe, exitPipe, main, user>>

\* pthread_mutex_lock at line 418 or 529, on a lock the main thread kept
Block(c) ==
  /\ DataAtPoll
  /\ AcceptReady(c) \/ InReady(c) \/ OutReady(c)
  /\ channels[c].lock = "main"
  /\ Serve(c, "blocked")
  /\ UNCHANGED <<clients, channels, ctrlPipe, dataPipe, exitPipe, main, user, peer>>
-----------------------------------------------------------------------------
(* The remote clients.                                                     *)

\* A polite client sends the next command after the reply to the last one, and
\* late enough for the data thread to have read its message.
MaySend(s) ==
  \/ user[s].stage = "idle" /\ ("hurry" \in Hazard \/ (ctrlPipe = <<>> /\ data.at # "new"))
  \/ user[s].stage # "away" /\ "pipeline" \in Hazard

SendCmd(s, cmd) ==
  /\ clients[s].open /\ ~user[s].gone
  /\ MaySend(s)
  /\ Len(user[s].inbox) < MaxInbox
  /\ Len(ctrlPipe) + Len(dataPipe) + Len(exitPipe) < MaxPipe
  /\ LET u == [user[s] EXCEPT !.inbox = Append(user[s].inbox, cmd)] IN
       user' = [user EXCEPT ![s] = IF u.stage = "idle"
                                   THEN [u EXCEPT !.asked = cmd, !.stage = "wait"] ELSE u]
  /\ UNCHANGED <<clients, channels, ctrlPipe, dataPipe, exitPipe, main, data, peer>>

\* The data connection, to the port of the last 227.
Connect(s) ==
  /\ user[s].knows # None
  /\ \E c \in Channel :
       /\ channels[c].port = user[s].knows
       /\ ~peer[c].conn
       /\ peer' = [peer EXCEPT ![c] = [@ EXCEPT !.conn = TRUE, !.who = s]]
  /\ user' = [user EXCEPT ![s].knows = None]
  /\ UNCHANGED <<clients, channels, ctrlPipe, dataPipe, exitPipe, main, data>>

MayUpload(s) ==
  /\ user[s].asked = "STOR"
  /\ user[s].stage = "xfer" \/ (user[s].stage = "wait" /\ "eager" \in Hazard)

Upload(c) ==
  /\ peer[c].conn /\ ~peer[c].fin /\ ~peer[c].rx
  /\ MayUpload(peer[c].who)
  /\ peer' = [peer EXCEPT ![c].rx = TRUE]
  /\ UNCHANGED <<clients, channels, ctrlPipe, dataPipe, exitPipe, main, data, user>>

\* The client closes its end of the data connection: after an upload, or
\* whenever it likes.
CloseData(c) ==
  /\ peer[c].conn /\ ~peer[c].fin
  /\ peer' = [peer EXCEPT ![c].fin = TRUE]
  /\ UNCHANGED <<clients, channels, ctrlPipe, dataPipe, exitPipe, main, data, user>>

Finish(c) == peer[c].conn /\ MayUpload(peer[c].who) /\ CloseData(c)
Abort(c)  == "abort" \in Hazard /\ CloseData(c)

Drop(s) ==
  /\ "drop" \in Hazard
  /\ clients[s].open /\ ~user[s].gone
  /\ user' = [user EXCEPT ![s].gone = TRUE]
  /\ UNCHANGED <<clients, channels, ctrlPipe, dataPipe, exitPipe, main, data, peer>>
-----------------------------------------------------------------------------
Handle(s) ==
  \/ FTP_CTRL(s)
  \/ FTP_PASV(s)
  \/ FTP_PASV_Fails(s)
  \/ FTP_REST(s)
  \/ FTP_RETR(s)
  \/ FTP_STOR(s)
  \/ FTP_QUIT(s)

\* The main thread inside a handler, or between send and the next poll.
Continue ==
  \/ Reply
  \/ HandSend
  \/ HandRecv
  \/ HandRecvFails
  \/ HandRest
  \/ HandQuit
  \/ QuitStep
  \/ Sent

MainStep ==
  \/ \E s \in Session : Accept(s) \/ Handle(s) \/ Write(s) \/ RecvEof(s)
  \/ ReadDataPipe
  \/ ReadExitPipe
  \/ Continue

DataStep ==
  \/ ReadCtrlPipe
  \/ StoreIdle
  \/ \E c \in Channel : AcceptData(c) \/ ReadData(c) \/ SendData(c) \/ Block(c)
  \/ Callback
  \/ CloseStep

PeerStep ==
  \/ \E s \in Session, cmd \in Used : SendCmd(s, cmd)
  \/ \E s \in Session : Connect(s) \/ Drop(s)
  \/ \E c \in Channel : Upload(c) \/ Finish(c) \/ Abort(c)

Next == MainStep \/ DataStep \/ PeerStep

Spec == Init /\ [][Next]_vars

\* Each pass over fds serves every descriptor poll reported, so no pipe, no
\* control socket and no data socket is left out for ever; a thread inside a
\* handler runs on; and a client that is in a transfer opens its data
\* connection and ends its upload.
Fairness ==
  /\ WF_vars(Continue)
  /\ SF_vars(ReadDataPipe)
  /\ SF_vars(ReadExitPipe)
  /\ \A s \in Session : SF_vars(Handle(s) \/ Write(s) \/ RecvEof(s))
  /\ WF_vars(StoreIdle \/ Callback \/ CloseStep)
  /\ SF_vars(ReadCtrlPipe)
  /\ \A c \in Channel : SF_vars(AcceptData(c) \/ ReadData(c) \/ SendData(c))
  /\ \A s \in Session : WF_vars(Connect(s))
  /\ \A c \in Channel : WF_vars(Finish(c))

FairSpec == Spec /\ Fairness
-----------------------------------------------------------------------------
(* Properties.                                                             *)

\* Every structure field of clients[] and pasv_clients[], every pipe entry and
\* both program counters hold a value the code can store there.
TypeOK ==
  /\ clients \in [Session -> ClientData]
  /\ channels \in [Channel -> PasvData]
  /\ ctrlPipe \in Seq(Channel)
  /\ dataPipe \in Seq(Session)
  /\ exitPipe \in Seq(Session)
  /\ main \in MainState
  /\ data \in DataState
  /\ user \in [Session -> UserState]
  /\ peer \in [Channel -> PeerState]

In(x, pipe) == \E i \in DOMAIN pipe : pipe[i] = x

\* net_lock is a token: while a connection is open, the lock is held exactly
\* while cmd_send holds a reply that is not on the socket yet, whichever of
\* the two threads composed it and whatever the peers do.
LockIsToken ==
  \A s \in Session : clients[s].open => (clients[s].cmdSend # 0 <=> clients[s].netLock # Free)

\* A composed reply is never stranded in cmd_send: POLLOUT is requested for
\* its socket, or a pipe entry will request it, or the main thread is still
\* inside the handler that composed it.  (The store of IDLE at listener.c:236
\* after net_lock is released can hit a reply of the data thread.)
NoLostWakeup ==
  \A s \in Session : clients[s].open /\ clients[s].cmdSend # 0 =>
    \/ PollOut \in clients[s].events
    \/ In(s, dataPipe)
    \/ In(s, exitPipe) /\ clients[s].netState = "NEED_QUIT"
    \/ main.s = s /\ (main.at = "quit" \/ (main.at = "hand" /\ main.cmd \in {"RETR", "QUIT"}))

\* A reply that waits in cmd_send is not overwritten by another one: the only
\* thing that ends its wait is the socket, or the end of the connection.
ReplyNotOverwritten ==
  [][\A s \in Session :
       clients[s].open /\ clients[s].cmdSend # 0 /\ clients'[s].cmdSend # 0
         => clients'[s].cmdSend = clients[s].cmdSend]_vars

\* No two sessions hand their jobs to the same channel, although a session
\* keeps the port of its last 227 for ever and the ports are used again
\* (polite clients; a session that is quitting asks for nothing more).
NoSharedChannel ==
  \A s, t \in Session :
    /\ s # t
    /\ ChannelOf(s) # None
    /\ "NEED_QUIT" \notin {clients[s].netState, clients[t].netState}
    => ChannelOf(s) # ChannelOf(t)

\* POLLOUT is requested only for a reply that has not been sent: no reply goes
\* out twice (polite clients).
NoRepeatedReply ==
  \A s \in Session :
    clients[s].open /\ PollOut \in clients[s].events /\ ~(main.at = "sent" /\ main.s = s)
      => clients[s].cmdSend # 0

\* What will produce the first reply to the command of s ...
FirstReply(s) ==
  {<<"inbox", i>> : i \in DOMAIN user[s].inbox}
    \cup {x \in {<<"handler">>} : main.s = s /\ (main.at = "reply" \/
                                  (main.at = "hand" /\ main.cmd \in {"STOR", "REST"}))}
    \cup {x \in {<<"cmd_send">>} : clients[s].cmdSend \notin {0, 226}}

\* ... and what will produce the completion after its 150.
FinalReply(s) ==
  {<<"handler">> : x \in {y \in {main} : y.s = s /\ y.at = "hand" /\ y.cmd = "RETR"}}
    \cup {<<"job", c>> : c \in {d \in Channel : /\ channels[d].ctrl = s
                                               /\ channels[d].state \in {"NEED_SEND", "NEED_RECV"}
                                               /\ ~(data.at = "close" /\ data.c = d)}}
    \cup {x \in {<<"cmd_send">>} : clients[s].cmdSend = 226}

\* No command is answered twice and none is forgotten: a client that waits has
\* exactly one reply on its way, one in a transfer exactly one completion, and
\* one that waits for nothing gets nothing (polite clients).
OneReplyEach ==
  \A s \in Session : clients[s].open /\ ~user[s].gone =>
    /\ user[s].stage = "wait" => Cardinality(FirstReply(s)) = 1
    /\ user[s].stage = "xfer" => FirstReply(s) = {} /\ Cardinality(FinalReply(s)) = 1
    /\ user[s].stage = "idle" => FirstReply(s) = {} /\ FinalReply(s) = {}

\* The completion of a transfer is composed only after its 150 is on the
\* socket (polite clients; FTP_STOR starts its job before it composes 150).
CompletionAfter150 ==
  \A s \in Session : clients[s].open /\ clients[s].cmdSend = 226
    => user[s].stage = "xfer"

\* The data thread completes a transfer only for the connection that asked.
NoMisdelivery ==
  data.at = "callback" /\ channels[data.c].ctrl # None
    => clients[channels[data.c].ctrl].open /\ ~channels[data.c].orphan

\* The poll loop is never inside a pthread_mutex_lock that only the poll loop
\* could release: the other connections would wait for ever.
ServerNotBlocked == ~(main.at = "reply" /\ clients[main.s].netLock # Free)

\* Every command of a client that does what it has to do is answered, and
\* every transfer it starts is completed.
EveryCommandAnswered ==
  \A s \in Session : (user[s].stage \in {"wait", "xfer"}) ~> (user[s].stage \in {"idle", "away"})

Dialogue == INSTANCE FtpDialogue WITH
  Command <- Cmd, DataCommand <- {"RETR", "STOR"}, Quit <- "QUIT",
  dialogue <- [s \in Session |-> [stage |-> user[s].stage, asked |-> user[s].asked,
                                  heard |-> user[s].heard]]

\* The threads together are the sequential server of FtpDialogue, and serve
\* whoever waits (polite clients).
ImplementsDialogue == Dialogue!Spec
=============================================================================
