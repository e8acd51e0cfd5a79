------------------------------ MODULE PasvPoll ------------------------------
(***************************************************************************)
(* The table of the passive data thread, pasv_channel.c: every channel has *)
(* a listening socket in fds and, once a client has connected, a second    *)
(* entry for the connection.  Module Transfer has the locks of the two     *)
(* threads and serves one ready descriptor at a time; here a handler is    *)
(* one action, and so is what the thread does with the lock of a channel   *)
(* held, and the subject is the pass over the revents of the last poll,    *)
(* which starts again (i = -1) after a channel has been closed.            *)
(*                                                                         *)
(* setsockopt, open and pipe succeed.  POLLERR and POLLHUP come with       *)
(* POLLIN or POLLOUT on a TCP socket, which the thread looks at first.     *)
(***************************************************************************)
EXTENDS Integers, Sequences, FiniteSets, FiniteSetsExt

CONSTANTS
  Session,     \* control connections
  Port,        \* TCP ports of PASV; a port also names its listening socket
  Sock,        \* numbers the system gives to accepted connections
  None,        \* no port, no socket, no session
  Pipe,        \* ctrl_send_data_pipe_fd[0]
  MaxClients,  \* MAX_CLIENTS, the size of pasv_clients and of fds
  MaxChunks,   \* bound: length of a transfer
  MaxPipe      \* bound: messages in the pipe before clients pause

ASSUME PasvAssumption ==
  /\ MaxClients \in Nat /\ MaxClients > 1
  /\ MaxChunks \in Nat \ {0} /\ MaxPipe \in Nat \ {0}
  /\ None \notin Session \cup Port \cup Sock /\ Port \cap Sock = {}
  /\ Pipe \notin Port \cup Sock \cup {None}

VARIABLES
  pasv_clients,  \* the slots
  fds, fd_most_tail,
  pipe,          \* slots in ctrl_send_data_pipe_fd
  at,            \* i, the entry the pass is at; MaxClients while in poll
  served,        \* ghost: entries this pass has served
  alive,         \* the thread has not returned
  ctl,           \* what clients[] keeps of a session for PASV
  dialled,       \* listening sockets with a connection that waits for accept
  peer           \* the remote ends of the accepted connections

table == <<fds, fd_most_tail>>
pass  == <<at, served, alive>>
world == <<ctl, dialled, peer>>
vars  == <<pasv_clients, table, pipe, pass, world>>

Index  == 0 .. MaxClients - 1
AtPoll == MaxClients

\* nfds and server_nfds are -1 when push_new_fd had no entry; left is
\* send_len - send_offset in chunks.
PasvData == [port : Port \cup {None}, sock : Sock \cup {None},
             server_nfds : Index \cup {-1}, client_nfds : Index \cup {-1},
             state : {"IDLE", "NEW_CLIENT", "NEED_SEND", "NEED_RECV", "NEED_QUIT"},
             ctrl : Session \cup {None}, left : 0 .. MaxChunks]
FreePasv == [port |-> None, sock |-> None, server_nfds |-> 0, client_nfds |-> 0,
             state |-> "IDLE", ctrl |-> None, left |-> 0]

Entry == [fd : Port \cup Sock \cup {None, Pipe},
          events : SUBSET {"in", "out"}, revents : SUBSET {"in", "out"}]
Empty == [fd |-> None, events |-> {}, revents |-> {}]

\* pasv_port while conn_type is PASV, whether 150 has promised a completion,
\* and whether the client has connected to the port.
Control == [port : Port \cup {None}, xfer : BOOLEAN, conn : BOOLEAN]
NoPasv  == [port |-> None, xfer |-> FALSE, conn |-> FALSE]

\* Whether the other end is there, bytes to read, and room to write.
Remote  == [gone : BOOLEAN, in : BOOLEAN, room : BOOLEAN]
NewPeer == [gone |-> FALSE, in |-> FALSE, room |-> TRUE]

Init ==
  /\ pasv_clients = [k \in Index |-> FreePasv]
  /\ fds = [i \in Index |-> IF i = 0 THEN [fd |-> Pipe, events |-> {"in"}, revents |-> {}]
                            ELSE Empty]
  /\ fd_most_tail = 1
  /\ pipe = <<>> /\ at = AtPoll /\ served = {} /\ alive = TRUE
  /\ ctl = [s \in Session |-> NoPasv]
  /\ dialled = {}
  /\ peer = [f \in Sock |-> NewPeer]

----------------------------------------------------------------------------
(* The handlers, in the main thread. *)

Used      == {k \in Index : pasv_clients[k].port # None}
OpenPorts == {pasv_clients[k].port : k \in Used}
Found(s)  == {k \in Used : pasv_clients[k].port = ctl[s].port}

\* The descriptors of connections the thread still has in its table or slots.
OpenSocks == ({fds[i].fd : i \in Index} \cup {pasv_clients[k].sock : k \in Index}) \cap Sock

\* A port that no channel has and no session would look for; such ports are
\* alike, and so are unused socket numbers: one of them is taken.
FreePort == Port \ (OpenPorts \cup {ctl[s].port : s \in Session})
FreeSock == Sock \ OpenSocks

\* One command at a time, and none before the thread has taken the channel of
\* the session's last PASV (Transfer shows what becomes of a faster one).
Ready(s) ==
  /\ ~ctl[s].xfer /\ Len(pipe) < MaxPipe
  /\ \A n \in 1 .. Len(pipe) :
       pasv_clients[pipe[n]].state = "NEW_CLIENT" => pasv_clients[pipe[n]].port # ctl[s].port

Tell(k) == pipe' = Append(pipe, k)

\* pasv_client_new.
FTP_PASV(s) ==
  LET k == Min(Index \ Used)
      p == CHOOSE x \in FreePort : TRUE
  IN /\ Ready(s) /\ FreePort # {} /\ Used # Index
     /\ pasv_clients' = [pasv_clients EXCEPT ![k] =
          [@ EXCEPT !.port = p, !.left = 0, !.state = "NEW_CLIENT"]]
     /\ Tell(k)
     /\ ctl' = [ctl EXCEPT ![s] = [NoPasv EXCEPT !.port = p]]
     /\ UNCHANGED <<table, pass, dialled, peer>>

\* No slot, or no port in MAX_ATTEMPTS tries: 434.
FTP_PASV_Fails(s) ==
  /\ Ready(s) /\ ctl' = [ctl EXCEPT ![s] = NoPasv]
  /\ UNCHANGED <<pasv_clients, table, pipe, pass, dialled, peer>>

\* pasv_send_data, pasv_sendfile and pasv_recvfile.  150 is sent whether or
\* not a channel is found.
Job(s, state, left) ==
  /\ Ready(s) /\ ctl[s].port # None
  /\ ctl' = [ctl EXCEPT ![s].xfer = TRUE]
  /\ IF Found(s) = {} THEN UNCHANGED <<pasv_clients, pipe>>
     ELSE LET k == Min(Found(s)) IN
          /\ Tell(k)
          /\ pasv_clients' = [pasv_clients EXCEPT ![k] =
               [@ EXCEPT !.state = state, !.ctrl = s, !.left = left]]
  /\ UNCHANGED <<table, pass, dialled, peer>>

FTP_RETR(s) == \E n \in 0 .. MaxChunks : Job(s, "NEED_SEND", n)
FTP_STOR(s) == Job(s, "NEED_RECV", 0)

\* pasv_close_connection; the session is over.
FTP_QUIT(s) ==
  /\ Ready(s) /\ ctl[s].port # None
  /\ ctl' = [ctl EXCEPT ![s] = NoPasv]
  /\ IF Found(s) = {} THEN UNCHANGED <<pasv_clients, pipe>>
     ELSE /\ Tell(Min(Found(s)))
          /\ pasv_clients' = [pasv_clients EXCEPT ![Min(Found(s))].state = "NEED_QUIT"]
  /\ UNCHANGED <<table, pass, dialled, peer>>

----------------------------------------------------------------------------
(* The pass over the table. *)

Turn(t, i) == LET ready == {j \in Index : j > i /\ t[j].revents # {}}
              IN  IF ready = {} THEN AtPoll ELSE Min(ready)

\* The next poll writes revents anew: a finished pass leaves nothing behind.
Continue(t, i) ==
  /\ at' = Turn(t, i)
  /\ fds' = IF at' = AtPoll THEN [j \in Index |-> [t[j] EXCEPT !.revents = {}]] ELSE t
  /\ served' = IF at' = AtPoll THEN {} ELSE served \cup {at}
  /\ UNCHANGED alive
GoOn(t)    == Continue(t, at)
Restart(t) == Continue(t, -1)

\* return NULL.
Return == alive' = FALSE /\ UNCHANGED <<table, at, served>>

Readable == (IF pipe # <<>> THEN {Pipe} ELSE {})
            \cup dialled \cup {f \in OpenSocks : peer[f].gone \/ peer[f].in}
Writable == {f \in OpenSocks : peer[f].gone \/ peer[f].room}

Reported(e) == {x \in e.events : e.fd \in (IF x = "in" THEN Readable ELSE Writable)}

Poll ==
  /\ alive /\ at = AtPoll
  /\ fds' = [j \in Index |-> [fds[j] EXCEPT !.revents =
                                IF j < fd_most_tail THEN Reported(fds[j]) ELSE {}]]
  /\ at' = Turn(fds', -1) /\ at' # AtPoll
  /\ UNCHANGED <<pasv_clients, fd_most_tail, pipe, served, alive, world>>

Here == fds[at]
ServeIn(d) == alive /\ at # AtPoll /\ "in" \in Here.revents /\ Here.fd \in d
ServeOut   == alive /\ at # AtPoll /\ "in" \notin Here.revents /\ Here.fd \in Sock

\* push_new_fd: the first entry without a descriptor, or -1.
Vacant     == {i \in Index : fds[i].fd = None}
Place      == IF Vacant = {} THEN -1 ELSE Min(Vacant)
Push(e)    == IF Vacant = {} THEN fds ELSE [fds EXCEPT ![Place] = [e EXCEPT !.revents = {}]]
\* Mutant: fd_most_tail grows whichever entry is used.
PushedTail_Always == fd_most_tail' = fd_most_tail + 1

PushedTail == fd_most_tail' = IF Place >= fd_most_tail THEN fd_most_tail + 1 ELSE fd_most_tail

\* Mutant: the entry of the listening socket is forgotten.
CloseConnection_OneEntry(k) ==
  /\ Restart([i \in Index |-> IF i = pasv_clients[k].client_nfds THEN Empty ELSE fds[i]])
  /\ pasv_clients' = [pasv_clients EXCEPT ![k] = FreePasv]
  /\ dialled' = dialled \ {pasv_clients[k].port}
  /\ peer' = [f \in Sock |-> IF f = pasv_clients[k].sock THEN NewPeer ELSE peer[f]]

\* close_connection: both sockets and both entries; their revents stay and
\* count for nothing.
CloseConnection(k) ==
  /\ Restart([i \in Index |->
       IF i \in {pasv_clients[k].client_nfds, pasv_clients[k].server_nfds}
       THEN Empty ELSE fds[i]])
  /\ pasv_clients' = [pasv_clients EXCEPT ![k] = FreePasv]
  /\ dialled' = dialled \ {pasv_clients[k].port}
  /\ peer' = [f \in Sock |-> IF f = pasv_clients[k].sock THEN NewPeer ELSE peer[f]]

Message     == Head(pipe)
TakeMessage == ServeIn({Pipe}) /\ pipe # <<>> /\ pipe' = Tail(pipe)

\* The pass has started again and the pipe is empty.
ReadEmpty ==
  /\ ServeIn({Pipe}) /\ pipe = <<>> /\ GoOn(fds)
  /\ UNCHANGED <<pasv_clients, fd_most_tail, pipe, world>>

\* Without an entry the slot stays NEW_CLIENT, and nobody polls its socket.
ReadNew ==
  /\ TakeMessage /\ pasv_clients[Message].state = "NEW_CLIENT"
  /\ pasv_clients' = [pasv_clients EXCEPT
       ![Message].server_nfds = Place,
       ![Message].state = IF Place = -1 THEN @ ELSE "IDLE"]
  /\ PushedTail
  /\ GoOn(Push([Empty EXCEPT !.fd = pasv_clients[Message].port, !.events = {"in"}]))
  /\ UNCHANGED world

Wanted(e, state) == CASE state = "NEED_SEND" -> e \cup {"out"}
                      [] state = "NEED_RECV" -> {"in"}
                      [] OTHER -> e

\* A job; before the client has connected, and with -1 for its entry, the
\* message has no effect.
ReadJob ==
  LET k == Message
      i == pasv_clients[k].client_nfds
  IN /\ TakeMessage /\ pasv_clients[k].state \notin {"NEW_CLIENT", "NEED_QUIT"}
     /\ GoOn(IF pasv_clients[k].sock # None /\ i \in Index
             THEN [fds EXCEPT ![i].events = Wanted(@, pasv_clients[k].state)] ELSE fds)
     /\ UNCHANGED <<pasv_clients, fd_most_tail, world>>

\* The same test stands before NEED_QUIT: a channel without a connection stays.
ReadQuit ==
  /\ TakeMessage /\ pasv_clients[Message].state = "NEED_QUIT"
  /\ IF pasv_clients[Message].sock # None
     THEN CloseConnection(Message)
     ELSE GoOn(fds) /\ UNCHANGED <<pasv_clients, dialled, peer>>
  /\ UNCHANGED <<fd_most_tail, ctl>>

\* Mutant: a job that came before the connection is not looked at.
AcceptData_NoJob ==
  LET k == CHOOSE j \in Used : pasv_clients[j].port = Here.fd
      f == CHOOSE x \in FreeSock : TRUE
  IN /\ ServeIn(dialled) /\ FreeSock # {}
     /\ pasv_clients' = [pasv_clients EXCEPT ![k].sock = f, ![k].client_nfds = Place]
     /\ PushedTail
     /\ GoOn(Push([Empty EXCEPT !.fd = f, !.events = {"in"}]))
     /\ dialled' = dialled \ {Here.fd}
     /\ UNCHANGED <<pipe, ctl, peer>>

\* accept; a job that is there already gets its events at once.
AcceptData ==
  LET k == CHOOSE j \in Used : pasv_clients[j].port = Here.fd
      f == CHOOSE x \in FreeSock : TRUE
  IN /\ ServeIn(dialled) /\ FreeSock # {}
     /\ pasv_clients' = [pasv_clients EXCEPT ![k].sock = f, ![k].client_nfds = Place]
     /\ PushedTail
     /\ GoOn(Push([Empty EXCEPT !.fd = f, !.events = Wanted({"in"}, pasv_clients[k].state)]))
     /\ dialled' = dialled \ {Here.fd}
     /\ UNCHANGED <<pipe, ctl, peer>>

\* On revents served before nobody waits any more: accept returns -1 and the
\* thread returns, with the channel locked.
AcceptNobody ==
  /\ ServeIn(Port \ dialled)
  /\ Return
  /\ UNCHANGED <<pasv_clients, pipe, world>>

Owner == CHOOSE k \in Index : pasv_clients[k].sock = Here.fd
There == peer[Here.fd]
Rest  == IF pasv_clients[Owner].left = 0 THEN 0 ELSE pasv_clients[Owner].left - 1

\* Mutant: the callback is forgotten.
Finish_Silent == CloseConnection(Owner) /\ UNCHANGED ctl

\* The callback: conn_type is reset and 226 composed, then close_connection.
Finish ==
  /\ ctl' = [ctl EXCEPT ![pasv_clients[Owner].ctrl] = NoPasv]
  /\ CloseConnection(Owner)

\* A failed call: the channel is closed and nobody is told.
GiveUp == CloseConnection(Owner) /\ UNCHANGED ctl

Receiving == ServeIn(Sock) /\ pasv_clients[Owner].state = "NEED_RECV"

Receive ==
  /\ Receiving /\ There.in
  /\ peer' = [peer EXCEPT ![Here.fd].in = FALSE]
  /\ GoOn(fds)
  /\ UNCHANGED <<pasv_clients, fd_most_tail, pipe, ctl, dialled>>

\* splice returns 0 at the end of the stream, or -1 when it was reset.
ReceiveEnd ==
  /\ Receiving /\ ~There.in /\ There.gone
  /\ Finish \/ GiveUp
  /\ UNCHANGED <<fd_most_tail, pipe>>

\* Mutant: the thread returns where it should close the channel.
ReceiveFails_Returns ==
  /\ ServeIn(Sock) /\ ~(Receiving /\ (There.in \/ There.gone))
  /\ Return
  /\ UNCHANGED <<pasv_clients, fd_most_tail, pipe, world>>

\* splice returns -1: nothing to read on stale revents, or no pipe to write
\* to (write_pipe_fd is -1) in a channel that is not receiving.
ReceiveFails ==
  /\ ServeIn(Sock) /\ ~(Receiving /\ (There.in \/ There.gone))
  /\ GiveUp
  /\ UNCHANGED <<fd_most_tail, pipe>>

CanSend == ~There.gone /\ (There.room \/ pasv_clients[Owner].left = 0)

\* POLLOUT is asked for with NEED_SEND alone, and that state stays until the
\* channel is closed.
Send ==
  /\ ServeOut /\ CanSend /\ Rest > 0
  /\ pasv_clients' = [pasv_clients EXCEPT ![Owner].left = Rest]
  /\ \E r \in BOOLEAN : peer' = [peer EXCEPT ![Here.fd].room = r]
  /\ GoOn([fds EXCEPT ![at].events = {"out"}])
  /\ UNCHANGED <<fd_most_tail, pipe, ctl, dialled>>

SendLast ==
  /\ ServeOut /\ CanSend /\ Rest = 0
  /\ Finish
  /\ UNCHANGED <<fd_most_tail, pipe>>

\* -1: the peer is gone, or on stale revents the socket is full (EAGAIN).
SendFails ==
  /\ ServeOut /\ ~CanSend
  /\ GiveUp
  /\ UNCHANGED <<fd_most_tail, pipe>>

Serve ==
  \/ ReadEmpty \/ ReadNew \/ ReadJob \/ ReadQuit
  \/ AcceptData \/ AcceptNobody
  \/ Receive \/ ReceiveEnd \/ ReceiveFails
  \/ Send \/ SendLast \/ SendFails

----------------------------------------------------------------------------
(* The remote ends. *)

\* A client connects once to the port it was told.
Connect(s) ==
  /\ ctl[s].port \in OpenPorts /\ ~ctl[s].conn
  /\ dialled' = dialled \cup {ctl[s].port}
  /\ ctl' = [ctl EXCEPT ![s].conn = TRUE]
  /\ UNCHANGED <<pasv_clients, table, pipe, pass, peer>>

Drain(f) ==
  /\ f \in OpenSocks /\ ~peer[f].gone /\ ~peer[f].room
  /\ peer' = [peer EXCEPT ![f].room = TRUE]
  /\ UNCHANGED <<pasv_clients, table, pipe, pass, ctl, dialled>>

Uploads(f) == \E k \in Index : pasv_clients[k].sock = f /\ pasv_clients[k].state = "NEED_RECV"

Upload(f) ==
  /\ Uploads(f) /\ ~peer[f].gone /\ ~peer[f].in
  /\ peer' = [peer EXCEPT ![f].in = TRUE]
  /\ UNCHANGED <<pasv_clients, table, pipe, pass, ctl, dialled>>

\* The end of an upload, or of the client's patience.
Depart(f) ==
  /\ f \in OpenSocks /\ ~peer[f].gone
  /\ peer' = [peer EXCEPT ![f].gone = TRUE]
  /\ UNCHANGED <<pasv_clients, table, pipe, pass, ctl, dialled>>

UploadDone(f) == Uploads(f) /\ Depart(f)

\* A client that was promised a completion and lost its data connection ends
\* the control connection, too.
Abandon(s) ==
  /\ ctl[s].xfer /\ ~ \E k \in Index : pasv_clients[k].ctrl = s
  /\ ctl' = [ctl EXCEPT ![s] = NoPasv]
  /\ UNCHANGED <<pasv_clients, table, pipe, pass, dialled, peer>>

Command(s) ==
  \/ FTP_PASV(s) \/ FTP_PASV_Fails(s)
  \/ FTP_RETR(s) \/ FTP_STOR(s) \/ FTP_QUIT(s)

Next ==
  \/ Poll \/ Serve
  \/ \E s \in Session : Command(s) \/ Connect(s) \/ Abandon(s)
  \/ \E f \in Sock : Drain(f) \/ Upload(f) \/ Depart(f)

Spec == Init /\ [][Next]_vars

\* The thread runs; a client that was promised a transfer connects and reads
\* what it downloads, and an upload has an end.
FairSpec ==
  /\ Spec
  /\ WF_vars(Poll \/ Serve)
  /\ \A s \in Session : WF_vars(ctl[s].xfer /\ Connect(s))
  /\ \A f \in Sock : WF_vars(Drain(f)) /\ WF_vars(UploadDone(f))

----------------------------------------------------------------------------
(* Properties. *)

\* Every variable has its type; the messages in the pipe stay within bounds.
TypeOK ==
  /\ pasv_clients \in [Index -> PasvData]
  /\ fds \in [Index -> Entry] /\ fd_most_tail \in 1 .. MaxClients
  /\ pipe \in Seq(Index) /\ Len(pipe) <= MaxPipe
  /\ at \in 0 .. AtPoll /\ served \subseteq Index /\ alive \in BOOLEAN
  /\ ctl \in [Session -> Control] /\ dialled \subseteq Port /\ peer \in [Sock -> Remote]

\* The table and the slots agree: the pipe stays in the first entry, so that
\* the thread hears of new work; each socket in the table has the one slot
\* that names its entry, for otherwise the thread returns or serves a stranger;
\* and poll looks at all of them.
TablesAgree ==
  /\ fds[0].fd = Pipe /\ "in" \in fds[0].events
  /\ \A i \in Index \ {0} : fds[i].fd # None =>
       /\ i < fd_most_tail
       /\ Cardinality({k \in Index :
            \/ (pasv_clients[k].port = fds[i].fd /\ pasv_clients[k].server_nfds = i)
            \/ (pasv_clients[k].sock = fds[i].fd /\ pasv_clients[k].client_nfds = i)}) = 1

\* The thread that serves all passive clients does not return, unless its pass
\* has started again and meets a listening socket it has already served.
ThreadStays == alive \/ at \in served

\* The transfer of slot k ends in this step without a completion.
CutOff(k) == LET s == pasv_clients[k].ctrl IN
             s # None /\ pasv_clients'[k].ctrl = None /\ ctl'[s].xfer

\* A transfer whose data connection stands is not broken off, unless the pass
\* has started again and serves its entry for the second time.
TransferNotCut ==
  [][\A k \in Index : CutOff(k) => peer[pasv_clients[k].sock].gone \/ at \in served]_vars

\* A transfer with its entries in the table ends, one way or the other, while
\* other channels are opened, used and closed, as long as the thread runs.
Transferring(s) ==
  \E k \in Index : /\ pasv_clients[k].ctrl = s
                   /\ pasv_clients[k].server_nfds # -1 /\ pasv_clients[k].client_nfds # -1

EveryTransferEnds == \A s \in Session : Transferring(s) ~> (~Transferring(s) \/ ~alive)

\* readme.md:17 promises simultaneous downloads: the thread that serves them
\* is never gone.
ThreadSurvives == alive
=============================================================================
