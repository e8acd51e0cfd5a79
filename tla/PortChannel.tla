---------------------------- MODULE PortChannel ----------------------------
(***************************************************************************)
(* The active data channel, port_channel.c: slots port_clients that the    *)
(* handlers of the main thread fill and find again by the address of PORT, *)
(* the pipe of pointers to them, and the data thread with its table fds    *)
(* and its pass over the revents of the last poll, which starts again      *)
(* (i = -1) whenever a channel has been closed.                            *)
(*                                                                         *)
(* A handler is one action, and so is what the thread does with the lock   *)
(* of a channel held; how the two threads wait for locks and how replies   *)
(* get back is the subject of Transfer.  open and pipe succeed.  POLLERR   *)
(* and POLLHUP come with POLLIN or POLLOUT on a TCP socket, which the      *)
(* thread looks at first.                                                  *)
(***************************************************************************)
EXTENDS Integers, Sequences, FiniteSets, FiniteSetsExt

CONSTANTS
  Session,     \* control connections
  Sends,       \* the commands that the client of each session sends
  Addr,        \* addresses that clients listen at, port_target_addr
  Sock,        \* numbers the system gives to data sockets
  None,        \* no address, no socket, no session
  Pipe,        \* ctrl_send_data_pipe_fd[0]
  MaxClients,  \* MAX_CLIENTS, the size of port_clients and of fds
  MaxChunks,   \* bound: length of a transfer
  MaxShared,   \* bound: channels of several sessions at a time
  MaxPipe,     \* bound: messages in the pipe before clients pause
  Hurry        \* may a command overtake the NEW_CLIENT of its channel?

ASSUME PortAssumption ==
  /\ Sends \in [Session -> SUBSET {"PORT", "RETR", "STOR", "QUIT"}]
  /\ MaxClients \in Nat /\ MaxClients > 1
  /\ MaxChunks \in Nat \ {0} /\ MaxPipe \in Nat \ {0} /\ MaxShared \in Nat /\ Hurry \in BOOLEAN
  /\ None \notin Session \cup Addr \cup Sock /\ Pipe \notin Sock \cup {None}

VARIABLES
  port_clients,  \* the slots
  fds, fd_most_tail,
  pipe,          \* slots in ctrl_send_data_pipe_fd
  at,            \* i, the entry the pass is at; MaxClients while in poll
  served,        \* ghost: entries this pass has served
  ctl,           \* what clients[] keeps of a session for PORT
  peer,          \* the remote ends of the data sockets
  replaced       \* ghost: addresses in a slot that a further PORT has overwritten

table == <<fds, fd_most_tail>>
pass  == <<at, served>>
vars  == <<port_clients, table, pipe, pass, ctl, peer, replaced>>

Index  == 0 .. MaxClients - 1
AtPoll == MaxClients

\* left is send_len - send_offset in chunks (FtpSession has the offsets).
\* nfds is -1 when push_new_fd had no entry.
PortData == [addr : Addr \cup {None}, sock : Sock \cup {None}, nfds : Index \cup {-1},
             state : {"IDLE", "NEW_CLIENT", "NEED_SEND", "NEED_RECV", "NEED_QUIT"},
             ctrl : Session \cup {None}, left : 0 .. MaxChunks]
FreePort == [addr |-> None, sock |-> None, nfds |-> 0, state |-> "IDLE",
             ctrl |-> None, left |-> 0]

Entry == [fd : Sock \cup {None, Pipe},
          events : SUBSET {"in", "out"}, revents : SUBSET {"in", "out"}]
Empty == [fd |-> None, events |-> {}, revents |-> {}]

\* port_target_addr, None unless conn_type is PORT (nothing else reads it),
\* and whether 150 has promised a completion.
Control == [addr : Addr \cup {None}, xfer : BOOLEAN]
NoPort  == [addr |-> None, xfer |-> FALSE]

\* connecting, connected or gone (refused, closed, reset); whether there are
\* uploaded bytes to read, and room in the socket for a download.
Remote  == [net : {"syn", "up", "gone"}, in : BOOLEAN, room : BOOLEAN]
NewPeer == [net |-> "syn", in |-> FALSE, room |-> TRUE]

Init ==
  /\ port_clients = [k \in Index |-> FreePort]
  /\ fds = [i \in Index |-> IF i = 0 THEN [fd |-> Pipe, events |-> {"in"}, revents |-> {}]
                            ELSE Empty]
  /\ fd_most_tail = 1
  /\ pipe = <<>> /\ at = AtPoll /\ served = {}
  /\ ctl = [s \in Session |-> NoPort]
  /\ peer = [f \in Sock |-> NewPeer]
  /\ replaced = {}

----------------------------------------------------------------------------
(* The handlers, in the main thread. *)

Used       == {k \in Index : port_clients[k].addr # None}
OpenSocks  == {port_clients[k].sock : k \in Index} \ {None}
Found(s)   == {k \in Used : port_clients[k].addr = ctl[s].addr}

\* A client announces an address that nobody has announced before it and is
\* still kept: in a slot, or by a session that would look for it.  Such
\* addresses are alike, and so are unused socket numbers: one of them is taken.
FreeAddr == Addr \ ({port_clients[k].addr : k \in Used}
                    \cup {ctl[s].addr : s \in Session})
FreeSock == Sock \ OpenSocks

\* One command at a time, and without Hurry none before the thread has taken
\* the channel of the session's last PORT.
Ready(s) ==
  /\ ~ctl[s].xfer /\ Len(pipe) < MaxPipe
  /\ Hurry \/ \A n \in 1 .. Len(pipe) :
       port_clients[pipe[n]].state = "NEW_CLIENT" => port_clients[pipe[n]].addr # ctl[s].addr

\* The address that PORT overwrites, when it has a channel
Forget(s) == {port_clients[k].addr : k \in Found(s)}

Tell(k) == pipe' = Append(pipe, k)

\* port_client_new: a slot without an address, socket, connect.
FTP_PORT(s) ==
  LET k == Min(Index \ Used)
      a == CHOOSE x \in FreeAddr : TRUE
      f == CHOOSE x \in FreeSock : TRUE
  IN /\ Ready(s) /\ FreeAddr # {} /\ FreeSock # {} /\ Used # Index
     /\ Cardinality(Used) < MaxShared \/ \A u \in Session \ {s} : ctl[u] = NoPort
     /\ port_clients' = [port_clients EXCEPT ![k] =
          [@ EXCEPT !.addr = a, !.sock = f, !.left = 0, !.state = "NEW_CLIENT"]]
     /\ Tell(k)
     /\ ctl' = [ctl EXCEPT ![s] = [addr |-> a, xfer |-> FALSE]]
     /\ replaced' = replaced \cup Forget(s)
     /\ UNCHANGED <<table, pass, peer>>

\* No slot, or connect does not answer EINPROGRESS: 434.
FTP_PORT_Fails(s) ==
  /\ Ready(s)
  /\ ctl' = [ctl EXCEPT ![s] = NoPort]
  /\ replaced' = replaced \cup Forget(s)
  /\ UNCHANGED <<port_clients, table, pipe, pass, peer>>

\* port_send_data and port_sendfile.  150 is on its way whether or not a
\* channel is found.
FTP_RETR(s) ==
  /\ Ready(s) /\ ctl[s].addr # None
  /\ ctl' = [ctl EXCEPT ![s].xfer = TRUE]
  /\ IF Found(s) = {} THEN UNCHANGED <<port_clients, pipe>>
     ELSE LET k == Min(Found(s)) IN
          /\ Tell(k)
          /\ \E n \in 0 .. MaxChunks :
               port_clients' = [port_clients EXCEPT ![k] =
                 [@ EXCEPT !.state = "NEED_SEND", !.ctrl = s, !.left = n]]
  /\ UNCHANGED <<table, pass, peer, replaced>>

\* port_recvfile.
FTP_STOR(s) ==
  /\ Ready(s) /\ ctl[s].addr # None
  /\ ctl' = [ctl EXCEPT ![s].xfer = TRUE]
  /\ IF Found(s) = {} THEN UNCHANGED <<port_clients, pipe>>
     ELSE LET k == Min(Found(s)) IN
          /\ Tell(k)
          /\ port_clients' = [port_clients EXCEPT ![k] =
               [@ EXCEPT !.state = "NEED_RECV", !.ctrl = s, !.left = 0]]
  /\ UNCHANGED <<table, pass, peer, replaced>>

\* port_close_connection; the session is over and another may take its slot.
FTP_QUIT(s) ==
  /\ Ready(s) /\ ctl[s].addr # None
  /\ ctl' = [ctl EXCEPT ![s] = NoPort]
  /\ IF Found(s) = {} THEN UNCHANGED <<port_clients, pipe>>
     ELSE /\ Tell(Min(Found(s)))
          /\ port_clients' = [port_clients EXCEPT ![Min(Found(s))].state = "NEED_QUIT"]
  /\ UNCHANGED <<table, pass, peer, replaced>>

----------------------------------------------------------------------------
(* The pass over the table. *)

Turn(t, i) == LET ready == {j \in Index : j > i /\ t[j].revents # {}}
              IN  IF ready = {} THEN AtPoll ELSE Min(ready)

\* The next poll writes revents anew: a finished pass leaves nothing behind.
Continue(t, i) ==
  /\ at' = Turn(t, i)
  /\ fds' = IF at' = AtPoll THEN [j \in Index |-> [t[j] EXCEPT !.revents = {}]] ELSE t
  /\ served' = IF at' = AtPoll THEN {} ELSE served \cup {at}
GoOn(t)    == Continue(t, at)
Restart(t) == Continue(t, -1)

Readable == (IF pipe # <<>> THEN {Pipe} ELSE {})
            \cup {f \in OpenSocks : peer[f].net = "gone" \/ peer[f].in}
Writable == {f \in OpenSocks : peer[f].net = "gone" \/ (peer[f].net = "up" /\ peer[f].room)}

Reported(e) == {x \in e.events : e.fd \in (IF x = "in" THEN Readable ELSE Writable)}

Poll ==
  /\ at = AtPoll
  /\ fds' = [j \in Index |-> [fds[j] EXCEPT !.revents =
                                IF j < fd_most_tail THEN Reported(fds[j]) ELSE {}]]
  /\ at' = Turn(fds', -1) /\ at' # AtPoll
  /\ UNCHANGED <<port_clients, fd_most_tail, pipe, served, ctl, replaced, peer>>

\* Mutant: the entry keeps its descriptor.
Closed_KeepsEntry(t, k) == t

\* close_connection: the entry that sock_nfds names loses its descriptor and
\* its events, but not its revents, which count for nothing without one.
Closed(t, k) == IF port_clients[k].nfds \in Index
                THEN [t EXCEPT ![port_clients[k].nfds] = Empty] ELSE t
CloseConnection(k) ==
  /\ port_clients' = [port_clients EXCEPT ![k] = FreePort]
  /\ peer' = [peer EXCEPT ![port_clients[k].sock] = NewPeer]
  /\ replaced' = replaced \ {port_clients[k].addr}
  /\ Restart(Closed(fds, k))

ServePipe   == at # AtPoll /\ fds[at].fd = Pipe /\ "in" \in fds[at].revents
Message     == Head(pipe)
TakeMessage == ServePipe /\ pipe # <<>> /\ pipe' = Tail(pipe)

\* The pass has started again and the pipe is empty.
ReadEmpty ==
  /\ ServePipe /\ pipe = <<>> /\ GoOn(fds)
  /\ UNCHANGED <<port_clients, fd_most_tail, pipe, ctl, replaced, peer>>

Vacant == {i \in Index : fds[i].fd = None}

\* Mutant: fd_most_tail grows whichever entry is used.
ReadNew_GrowsTail ==
  /\ TakeMessage /\ port_clients[Message].state = "NEW_CLIENT" /\ Vacant # {}
  /\ LET i == Min(Vacant) IN
     /\ port_clients' = [port_clients EXCEPT ![Message].nfds = i, ![Message].state = "IDLE"]
     /\ fd_most_tail' = fd_most_tail + 1
     /\ GoOn([fds EXCEPT ![i] = [fd |-> port_clients[Message].sock, events |-> {"in"},
                                 revents |-> {}]])
  /\ UNCHANGED <<ctl, replaced, peer>>

ReadNew ==
  /\ TakeMessage /\ port_clients[Message].state = "NEW_CLIENT" /\ Vacant # {}
  /\ LET i == Min(Vacant) IN
     /\ port_clients' = [port_clients EXCEPT ![Message].nfds = i, ![Message].state = "IDLE"]
     /\ fd_most_tail' = IF i >= fd_most_tail THEN fd_most_tail + 1 ELSE fd_most_tail
     /\ GoOn([fds EXCEPT ![i] = [fd |-> port_clients[Message].sock, events |-> {"in"},
                                 revents |-> {}]])
  /\ UNCHANGED <<ctl, replaced, peer>>

\* push_new_fd returns -1: the slot stays as it is.
ReadNewFull ==
  /\ TakeMessage /\ port_clients[Message].state = "NEW_CLIENT" /\ Vacant = {}
  /\ port_clients' = [port_clients EXCEPT ![Message].nfds = -1]
  /\ GoOn(fds)
  /\ UNCHANGED <<fd_most_tail, ctl, replaced, peer>>

\* Mutant: a download does not ask for POLLOUT.
Wanted_NoSend(e, state) == IF state = "NEED_RECV" THEN {"in"} ELSE e

\* A job: the events of the entry that sock_nfds names.  With -1 the code
\* writes in front of the table, where no entry is.
Wanted(e, state) == CASE state = "NEED_SEND" -> e \cup {"out"}
                      [] state = "NEED_RECV" -> {"in"}
                      [] OTHER -> e
ReadJob ==
  LET k == Message
      i == port_clients[k].nfds
  IN /\ TakeMessage /\ port_clients[k].state \notin {"NEW_CLIENT", "NEED_QUIT"}
     /\ GoOn(IF port_clients[k].sock # None /\ i \in Index
             THEN [fds EXCEPT ![i].events = Wanted(@, port_clients[k].state)] ELSE fds)
     /\ UNCHANGED <<port_clients, fd_most_tail, ctl, replaced, peer>>

\* Mutant: a channel is closed only once it has been connected.
ReadQuit_Connected ==
  /\ TakeMessage /\ port_clients[Message].state = "NEED_QUIT"
  /\ IF peer[port_clients[Message].sock].net # "syn" THEN CloseConnection(Message)
     ELSE GoOn(fds) /\ UNCHANGED <<port_clients, peer, replaced>>
  /\ UNCHANGED <<fd_most_tail, ctl>>

ReadQuit ==
  /\ TakeMessage /\ port_clients[Message].state = "NEED_QUIT"
  /\ CloseConnection(Message)
  /\ UNCHANGED <<fd_most_tail, ctl>>

\* The slot that has the descriptor of the entry.
Here       == CHOOSE k \in Index : port_clients[k].sock = fds[at].fd
There      == peer[fds[at].fd]
ServeIn    == at # AtPoll /\ fds[at].fd \in Sock /\ "in" \in fds[at].revents
ServeOut   == at # AtPoll /\ fds[at].fd \in Sock /\ "in" \notin fds[at].revents
Receiving  == port_clients[Here].state = "NEED_RECV"

\* Mutant: the callback is forgotten.
Finish_Silent == CloseConnection(Here) /\ UNCHANGED ctl

\* The callback: conn_type is reset and 226 composed, then close_connection.
Finish ==
  /\ ctl' = [ctl EXCEPT ![port_clients[Here].ctrl] = NoPort]
  /\ CloseConnection(Here)

\* A failed call: the channel is closed and nobody is told.
GiveUp == CloseConnection(Here) /\ UNCHANGED ctl

\* splice to the file of an upload.
Receive ==
  /\ ServeIn /\ Receiving /\ There.in
  /\ peer' = [peer EXCEPT ![fds[at].fd].in = FALSE]
  /\ GoOn(fds)
  /\ UNCHANGED <<port_clients, fd_most_tail, pipe, ctl, replaced>>

\* splice returns 0 at the end of the stream, or -1 when it was reset.
ReceiveEnd ==
  /\ ServeIn /\ Receiving /\ ~There.in /\ There.net = "gone"
  /\ Finish \/ GiveUp
  /\ UNCHANGED <<fd_most_tail, pipe>>

\* splice returns -1: nothing to read on stale revents, or no pipe to write
\* to (write_pipe_fd is -1) in a channel that is not receiving.
ReceiveFails ==
  /\ ServeIn /\ ~(Receiving /\ (There.in \/ There.net = "gone"))
  /\ GiveUp
  /\ UNCHANGED <<fd_most_tail, pipe>>

\* send or sendfile of the next chunk; the socket may be full after it.  With
\* the last one the transfer is complete.
Rest   == IF port_clients[Here].left = 0 THEN 0 ELSE port_clients[Here].left - 1
CanSend == There.net = "up" /\ (There.room \/ port_clients[Here].left = 0)

\* POLLOUT is asked for with NEED_SEND alone, and that state stays until the
\* channel is closed.
Send ==
  /\ ServeOut /\ CanSend /\ Rest > 0
  /\ port_clients' = [port_clients EXCEPT ![Here].left = Rest]
  /\ \E r \in BOOLEAN : peer' = [peer EXCEPT ![fds[at].fd].room = r]
  /\ GoOn([fds EXCEPT ![at].events = {"out"}])
  /\ UNCHANGED <<fd_most_tail, pipe, ctl, replaced>>

SendLast ==
  /\ ServeOut /\ CanSend /\ Rest = 0
  /\ Finish
  /\ UNCHANGED <<fd_most_tail, pipe>>

\* -1: the peer is gone, or on stale revents the socket is full (EAGAIN).
SendFails ==
  /\ ServeOut /\ ~CanSend
  /\ GiveUp
  /\ UNCHANGED <<fd_most_tail, pipe>>

Serve ==
  \/ ReadEmpty \/ ReadNew \/ ReadNewFull \/ ReadJob \/ ReadQuit
  \/ Receive \/ ReceiveEnd \/ ReceiveFails
  \/ Send \/ SendLast \/ SendFails

----------------------------------------------------------------------------
(* The remote ends. *)

Settle(f) ==
  /\ f \in OpenSocks /\ peer[f].net = "syn"
  /\ \E n \in {"up", "gone"} : peer' = [peer EXCEPT ![f].net = n]
  /\ UNCHANGED <<port_clients, table, pipe, pass, ctl, replaced>>

Drain(f) ==
  /\ f \in OpenSocks /\ peer[f].net = "up" /\ ~peer[f].room
  /\ peer' = [peer EXCEPT ![f].room = TRUE]
  /\ UNCHANGED <<port_clients, table, pipe, pass, ctl, replaced>>

Uploads(f) == \E k \in Index : port_clients[k].sock = f /\ port_clients[k].state = "NEED_RECV"

Upload(f) ==
  /\ Uploads(f) /\ peer[f].net = "up" /\ ~peer[f].in
  /\ peer' = [peer EXCEPT ![f].in = TRUE]
  /\ UNCHANGED <<port_clients, table, pipe, pass, ctl, replaced>>

\* The end of an upload, or of the client's patience.
Depart(f) ==
  /\ f \in OpenSocks /\ peer[f].net = "up"
  /\ peer' = [peer EXCEPT ![f].net = "gone"]
  /\ UNCHANGED <<port_clients, table, pipe, pass, ctl, replaced>>

UploadDone(f) == Uploads(f) /\ Depart(f)

\* A client that was promised a completion and lost its data connection ends
\* the control connection, too.
Abandon(s) ==
  /\ ctl[s].xfer /\ ~ \E k \in Index : port_clients[k].ctrl = s
  /\ ctl' = [ctl EXCEPT ![s] = NoPort]
  /\ UNCHANGED <<port_clients, table, pipe, pass, peer, replaced>>

Command(s) ==
  \/ "PORT" \in Sends[s] /\ (FTP_PORT(s) \/ FTP_PORT_Fails(s))
  \/ "RETR" \in Sends[s] /\ FTP_RETR(s)
  \/ "STOR" \in Sends[s] /\ FTP_STOR(s)
  \/ "QUIT" \in Sends[s] /\ FTP_QUIT(s)

Peers == \E f \in Sock : Settle(f) \/ Drain(f) \/ Upload(f) \/ Depart(f)

Next == Poll \/ Serve \/ (\E s \in Session : Command(s) \/ Abandon(s)) \/ Peers

Spec == Init /\ [][Next]_vars

\* The thread runs; the network settles a connection; clients read what they
\* download, and an upload has an end.
FairSpec ==
  /\ Spec
  /\ WF_vars(Poll \/ Serve)
  /\ \A f \in Sock : WF_vars(Settle(f)) /\ WF_vars(Drain(f)) /\ WF_vars(UploadDone(f))

----------------------------------------------------------------------------
(* Properties. *)

\* Every variable has its type; the messages in the pipe stay within bounds.
TypeOK ==
  /\ port_clients \in [Index -> PortData]
  /\ fds \in [Index -> Entry] /\ fd_most_tail \in 1 .. MaxClients
  /\ pipe \in Seq(Index) /\ Len(pipe) <= MaxPipe
  /\ at \in 0 .. AtPoll /\ served \subseteq Index
  /\ ctl \in [Session -> Control] /\ peer \in [Sock -> Remote] /\ replaced \subseteq Addr

\* The thread's table and the slots agree: the pipe stays in the first entry,
\* so that the thread hears of new work; an entry with a socket has one slot,
\* whose nfds is that entry, for otherwise the thread returns; and poll looks
\* at all of them.
TablesAgree ==
  /\ fds[0].fd = Pipe /\ "in" \in fds[0].events
  /\ \A i \in Index \ {0} : fds[i].fd # None =>
       /\ i < fd_most_tail
       /\ \E k \in Index : port_clients[k].sock = fds[i].fd
       /\ \A k \in Index : port_clients[k].sock = fds[i].fd => port_clients[k].nfds = i

\* The transfer of slot k ends in this step without a completion.
CutOff(k) == LET s == port_clients[k].ctrl IN
             s # None /\ port_clients'[k].ctrl = None /\ ctl'[s].xfer

PeerGone(k) == peer[port_clients[k].sock].net = "gone"

\* A transfer whose data connection stands is not broken off, unless the pass
\* has started again and serves its entry for the second time.
TransferNotCut == [][\A k \in Index : CutOff(k) => PeerGone(k) \/ at \in served]_vars

\* A transfer that has its entry in the table ends, one way or the other,
\* while the other session opens, uses and closes channels of its own.
Transferring(s) == \E k \in Index : port_clients[k].ctrl = s /\ port_clients[k].nfds # -1

EveryTransferEnds ==
  \A s \in Session : Transferring(s) ~> ~Transferring(s)

\* The session that announced the address of slot k has no more use for it,
\* and has not announced another, in vain or not, since.
Deserted(k) ==
  /\ port_clients[k].addr \notin replaced \cup {None}
  /\ \A s \in Session : ctl[s].addr # port_clients[k].addr

\* After QUIT the channel of the session is given back, connected or not, used
\* or not.  That is the channel of its last PORT: QUIT finds it by the address,
\* and one whose address a further PORT has overwritten is found no more.
ChannelReclaimed ==
  \A k \in Index : Deserted(k) ~> (port_clients[k].addr = None)
=============================================================================
