------------------------------ MODULE Listener ------------------------------
(***************************************************************************)
(* The control listener, listener.c: the table fds of the main thread, the *)
(* client slots that point into it, and the pass over the table that       *)
(* follows each poll.  revents is a snapshot taken by poll; a pass starts  *)
(* again from the first entry (i = -1) whenever it has closed a connection *)
(* and then meets entries it has already served.  Module Transfer has the  *)
(* locks and the data thread in full and one ready descriptor at a time;   *)
(* here a transfer is a second reply that another thread composes.         *)
(*                                                                         *)
(* POLLERR and POLLHUP are left out: a TCP socket that has failed reports  *)
(* POLLIN and POLLOUT too, which the loop looks at first.                  *)
(***************************************************************************)
EXTENDS Integers, Sequences, FiniteSets

CONSTANTS
  Conn,         \* numbers the system gives to the sockets of clients
  None,         \* -1, no descriptor, or 0, no client
  Server, DataPipe, ExitPipe,   \* the three descriptors of start_listen
  MaxClients,   \* MAX_CLIENTS, the size of both tables
  MaxLine,      \* bound: pieces of lines a client has on the way
  MaxArrivals,  \* bound: connections that arrive in a behaviour
  Batch         \* may a client send a line before the last is answered?

Own == <<Server, DataPipe, ExitPipe>>

ASSUME ListenerAssumption ==
  /\ MaxClients \in Nat /\ MaxClients > 3
  /\ MaxLine \in Nat \ {0} /\ MaxArrivals \in Nat
  /\ Batch \in BOOLEAN
  /\ Server # DataPipe /\ Server # ExitPipe /\ DataPipe # ExitPipe
  /\ None \notin {Server, DataPipe, ExitPipe}
  /\ Conn \cap {Server, DataPipe, ExitPipe, None} = {}

VARIABLES
  fds,        \* fds[0 .. MAX_CLIENTS-1]
  fd_most_tail,
  clients,    \* clients[0 .. MAX_CLIENTS-1]
  at,         \* i, the entry the pass is at; MaxClients while in poll
  served,     \* ghost: entries this pass has served, to be served again on
              \* the same revents if it starts again
  twice,      \* ghost: that has happened to the entry of a client
  dataPipe, exitPipe,   \* pointers to client slots
  jobs,       \* slots for which a data thread is at work
  backlog,    \* connections that wait for accept
  arrivals,   \* how many more connections will come
  net         \* the remote end of each control connection

tables == <<fds, fd_most_tail, clients>>
pipes  == <<dataPipe, exitPipe, jobs>>
world  == <<backlog, arrivals>>
ghosts == <<served, twice>>
vars   == <<tables, at, ghosts, pipes, world, net>>

Index  == 0 .. MaxClients - 1
AtPoll == MaxClients

\* A line is two pieces, or one when it comes whole: "part" has no CRLF in
\* it, the others end with CRLF and stand for a command that is answered, one
\* that also starts a transfer, and QUIT.
Line  == {"CTRL", "XFER", "QUIT"}
Piece == Line \cup {"part"}

Entry == [fd : Conn \cup {None, Server, DataPipe, ExitPipe},
          events : SUBSET {"in", "out"}, revents : SUBSET {"in", "out"}]
Empty == [fd |-> None, events |-> {}, revents |-> {}]

ClientData == [sock_fd : Conn \cup {None}, nfds : Index,
               net_state : {"IDLE", "NEED_SEND", "NEED_QUIT"},
               net_lock : BOOLEAN, buffer : Seq(Piece)]
FreeClient == [sock_fd |-> None, nfds |-> 0, net_state |-> "IDLE",
               net_lock |-> FALSE, buffer |-> <<>>]

\* What a remote client has sent and not been read, whether it has closed,
\* and how many replies it waits for.
Remote == [in : Seq(Piece), eof : BOOLEAN, due : Nat]
Fresh  == [in |-> <<>>, eof |-> FALSE, due |-> 1]

Init ==
  /\ fds = [i \in Index |-> IF i < 3 THEN [fd |-> Own[i + 1], events |-> {"in"},
                                           revents |-> {}]
                            ELSE Empty]
  /\ fd_most_tail = 3
  /\ clients = [k \in Index |-> FreeClient]
  /\ at = AtPoll /\ served = {} /\ twice = FALSE
  /\ dataPipe = <<>> /\ exitPipe = <<>> /\ jobs = {}
  /\ backlog = 0 /\ arrivals = MaxArrivals
  /\ net = [c \in Conn |-> Fresh]

----------------------------------------------------------------------------
(* The tables. *)

\* Where a loop from 0 upwards stops.
First(S) == {i \in S : \A j \in S : i <= j}

\* The descriptors the process has open for clients.
OpenConns == {clients[k].sock_fd : k \in Index} \ {None}

\* Mutant: every slot is taken for free.
FreeSlots_All == Index

\* protocol_client_index_by_fd for a connected and for a new descriptor.
SlotOf(c) == CHOOSE k \in Index : clients[k].sock_fd = c
FreeSlots == {k \in Index : clients[k].sock_fd = None}

\* push_new_fd: the entries without a descriptor.
Vacant == {i \in Index : fds[i].fd = None}

\* Mutant: the entry keeps its descriptor.
Closed_KeepsEntry(t, k) == t

\* close_client_connection.
Closed(t, k)     == [t EXCEPT ![clients[k].nfds] = Empty]
CloseClient(k)   == clients' = [clients EXCEPT ![k] = FreeClient]

\* The next entry after i with something in revents, or the end of the pass.
Turn(t, i) == First({j \in Index : j > i /\ t[j].revents # {}} \cup {AtPoll})

\* poll writes revents anew, so what a finished pass leaves there is dropped.
Leave(t, i) ==
  /\ at' \in Turn(t, i)
  /\ fds' = IF at' = AtPoll THEN [j \in Index |-> [t[j] EXCEPT !.revents = {}]] ELSE t

Continue(t, i) ==
  /\ Leave(t, i)
  /\ served' = IF at' = AtPoll THEN {} ELSE served \cup {at}
  /\ twice' = (twice \/ (at \in served /\ fds[at].fd \in Conn))
GoOn(t)        == Continue(t, at)
Restart(t)     == Continue(t, -1)

----------------------------------------------------------------------------
(* The main thread. *)

Readable == (IF backlog > 0 THEN {Server} ELSE {})
            \cup (IF dataPipe # <<>> THEN {DataPipe} ELSE {})
            \cup (IF exitPipe # <<>> THEN {ExitPipe} ELSE {})
            \cup {c \in OpenConns : net[c].in # <<>> \/ net[c].eof}

Reported(e) == {x \in e.events : x = "in" => e.fd \in Readable}

\* poll looks at the entries below fd_most_tail only.
Poll ==
  /\ at = AtPoll
  /\ fds' = [j \in Index |-> [fds[j] EXCEPT !.revents =
                                IF j < fd_most_tail THEN Reported(fds[j]) ELSE {}]]
  /\ at' \in Turn(fds', -1) /\ at' # AtPoll
  /\ UNCHANGED <<fd_most_tail, clients, ghosts, pipes, world, net>>

\* The entry the pass is at.
Here      == fds[at]
ServeIn(d)  == at # AtPoll /\ "in" \in Here.revents /\ Here.fd = d
ServeOut    == at # AtPoll /\ "in" \notin Here.revents /\ Here.fd \in Conn

\* accept on a listening socket nobody waits at any more.
AcceptNobody ==
  /\ ServeIn(Server) /\ backlog = 0
  /\ GoOn(fds)
  /\ UNCHANGED <<fd_most_tail, clients, pipes, world, net>>

\* Mutant: fd_most_tail grows whichever entry is used.
Accept_GrowsTail ==
  /\ ServeIn(Server) /\ backlog > 0 /\ Vacant # {}
  /\ backlog' = backlog - 1
  /\ \E c \in Conn \ OpenConns, i \in First(Vacant), k \in First(FreeSlots) :
       /\ clients' = [clients EXCEPT ![k] =
                        [@ EXCEPT !.sock_fd = c, !.nfds = i,
                                  !.net_state = "NEED_SEND", !.net_lock = TRUE]]
       /\ fd_most_tail' = fd_most_tail + 1
       /\ net' = [net EXCEPT ![c] = Fresh]
       /\ GoOn([fds EXCEPT ![i] = [fd |-> c, events |-> {"out"}, revents |-> {}]])
  /\ UNCHANGED <<pipes, arrivals>>

\* accept, push_new_fd, protocol_client_init with the reply 220.
Accept ==
  /\ ServeIn(Server) /\ backlog > 0 /\ Vacant # {}
  /\ backlog' = backlog - 1
  /\ \E c \in Conn \ OpenConns, i \in First(Vacant), k \in First(FreeSlots) :
       /\ clients' = [clients EXCEPT ![k] =
                        [@ EXCEPT !.sock_fd = c, !.nfds = i,
                                  !.net_state = "NEED_SEND", !.net_lock = TRUE]]
       /\ fd_most_tail' = IF i >= fd_most_tail THEN fd_most_tail + 1 ELSE fd_most_tail
       /\ net' = [net EXCEPT ![c] = Fresh]
       /\ GoOn([fds EXCEPT ![i] = [fd |-> c, events |-> {"out"}, revents |-> {}]])
  /\ UNCHANGED <<pipes, arrivals>>

\* No entry is left: the new connection is closed and the pass starts again.
AcceptFull ==
  /\ ServeIn(Server) /\ backlog > 0 /\ Vacant = {}
  /\ backlog' = backlog - 1
  /\ Restart(fds)
  /\ UNCHANGED <<fd_most_tail, clients, pipes, arrivals, net>>

WantWrite(t, k) == [t EXCEPT ![clients[k].nfds].events = @ \cup {"out"}]

\* What follows each branch for POLLIN that leaves a client to look at.
AfterHandler(t, r) ==
  IF r.sock_fd # None /\ r.net_state = "NEED_SEND"
  THEN [t EXCEPT ![r.nfds].events = {"out"}] ELSE t

\* Mutant: the message is read and POLLOUT is not requested.
ReadDataPipe_NoWake ==
  /\ ServeIn(DataPipe)
  /\ dataPipe' = IF dataPipe = <<>> THEN <<>> ELSE Tail(dataPipe)
  /\ GoOn(fds)
  /\ UNCHANGED <<fd_most_tail, clients, exitPipe, jobs, world, net>>

\* A completion: the slot may have been freed.  With nothing to read the
\* entry is passed over; the same holds for the exit pipe.
ReadDataPipe ==
  /\ ServeIn(DataPipe)
  /\ IF dataPipe = <<>> THEN GoOn(fds) /\ UNCHANGED dataPipe
     ELSE /\ dataPipe' = Tail(dataPipe)
          /\ GoOn(IF clients[Head(dataPipe)].sock_fd # None
                  THEN AfterHandler(WantWrite(fds, Head(dataPipe)), clients[Head(dataPipe)])
                  ELSE fds)
  /\ UNCHANGED <<fd_most_tail, clients, exitPipe, jobs, world, net>>

ReadExitPipe ==
  /\ ServeIn(ExitPipe)
  /\ IF exitPipe = <<>> THEN GoOn(fds) /\ UNCHANGED exitPipe
     ELSE /\ exitPipe' = Tail(exitPipe)
          /\ GoOn(IF clients[Head(exitPipe)].net_state = "NEED_QUIT"
                  THEN WantWrite(fds, Head(exitPipe))
                  ELSE AfterHandler(fds, clients[Head(exitPipe)]))
  /\ UNCHANGED <<fd_most_tail, clients, dataPipe, jobs, world, net>>

\* What recv adds to the buffer, and the lines that are complete in it.
Buffered(k) == clients[k].buffer \o net[clients[k].sock_fd].in
Ends(b)     == {n \in 1 .. Len(b) : b[n] \in Line}

\* recv, with the first line of the buffer cut off and handled.  The handler
\* needs net_lock; QUIT leaves its request in the exit pipe.
RecvLine(c) ==
  LET k == SlotOf(c)
      b == Buffered(k)
  IN /\ ServeIn(c) /\ net[c].in # <<>>
     /\ ~clients[k].net_lock
     /\ \E line \in First(Ends(b)) :
          LET quit == b[line] = "QUIT" IN
          /\ clients' = [clients EXCEPT ![k] =
                           [@ EXCEPT !.net_lock = TRUE,
                                     !.net_state = IF quit THEN "NEED_QUIT" ELSE "NEED_SEND",
                                     !.buffer = SubSeq(b, line + 1, Len(b))]]
          /\ jobs' = IF b[line] = "XFER" THEN jobs \cup {k} ELSE jobs
          /\ exitPipe' = IF quit THEN Append(exitPipe, k) ELSE exitPipe
     /\ net' = [net EXCEPT ![c].in = <<>>]
     /\ GoOn(AfterHandler(fds, clients'[k]))
     /\ UNCHANGED <<fd_most_tail, dataPipe, world>>

\* recv of a piece that completes no line.
RecvPart(c) ==
  LET k == SlotOf(c) IN
  /\ ServeIn(c) /\ net[c].in # <<>> /\ Ends(Buffered(k)) = {}
  /\ clients' = [clients EXCEPT ![k].buffer = Buffered(k)]
  /\ net' = [net EXCEPT ![c].in = <<>>]
  /\ GoOn(AfterHandler(fds, clients[k]))
  /\ UNCHANGED <<fd_most_tail, pipes, world>>

\* recv returns 0 at the end of the stream and -1 when there is nothing to
\* read, which is what an entry served for the second time meets.
RecvNothing(c) ==
  LET k == SlotOf(c) IN
  /\ ServeIn(c) /\ net[c].in = <<>>
  /\ CloseClient(k)
  /\ Restart(Closed(fds, k))
  /\ UNCHANGED <<fd_most_tail, pipes, world, net>>

\* Mutant: net_lock is not released.
Write_KeepsLock ==
  LET c == Here.fd
      k == SlotOf(c)
  IN /\ ServeOut
     /\ net' = [net EXCEPT ![c].due = IF @ > 0 THEN @ - 1 ELSE 0]
     /\ IF clients[k].net_state = "NEED_QUIT"
        THEN CloseClient(k) /\ GoOn(Closed(fds, k))
        ELSE /\ clients' = [clients EXCEPT ![k].net_state = "IDLE"]
             /\ GoOn([fds EXCEPT ![at].events = {"in"}])
     /\ UNCHANGED <<fd_most_tail, pipes, world>>

\* Mutant: POLLIN is added to the events and does not replace them.
Write_KeepsPollOut ==
  LET c == Here.fd
      k == SlotOf(c)
  IN /\ ServeOut
     /\ net' = [net EXCEPT ![c].due = IF @ > 0 THEN @ - 1 ELSE 0]
     /\ IF clients[k].net_state = "NEED_QUIT"
        THEN CloseClient(k) /\ GoOn(Closed(fds, k))
        ELSE /\ clients' = [clients EXCEPT ![k].net_lock = FALSE, ![k].net_state = "IDLE"]
             /\ GoOn([fds EXCEPT ![at].events = @ \cup {"in"}])
     /\ UNCHANGED <<fd_most_tail, pipes, world>>

\* send, unlock, POLLIN again; after the reply to QUIT the connection is
\* closed, and here the pass goes on.
Write ==
  LET c == Here.fd
      k == SlotOf(c)
  IN /\ ServeOut
     /\ net' = [net EXCEPT ![c].due = IF @ > 0 THEN @ - 1 ELSE 0]
     /\ IF clients[k].net_state = "NEED_QUIT"
        THEN CloseClient(k) /\ GoOn(Closed(fds, k))
        ELSE /\ clients' = [clients EXCEPT ![k].net_lock = FALSE, ![k].net_state = "IDLE"]
             /\ GoOn([fds EXCEPT ![at].events = {"in"}])
     /\ UNCHANGED <<fd_most_tail, pipes, world>>

----------------------------------------------------------------------------
(* The other thread and the remote clients. *)

\* A data thread has finished: it composes the completion under net_lock.
Complete(k) ==
  /\ k \in jobs /\ ~clients[k].net_lock
  /\ jobs' = jobs \ {k}
  /\ clients' = [clients EXCEPT ![k].net_lock = TRUE, ![k].net_state = "NEED_SEND"]
  /\ dataPipe' = Append(dataPipe, k)
  /\ UNCHANGED <<fds, fd_most_tail, at, ghosts, exitPipe, world, net>>

Arrive ==
  /\ arrivals > 0 /\ backlog + Cardinality(OpenConns) < Cardinality(Conn)
  /\ arrivals' = arrivals - 1 /\ backlog' = backlog + 1
  /\ UNCHANGED <<tables, at, ghosts, pipes, net>>

\* Pieces of c that no handler has seen yet.
Unhandled(c) == Buffered(SlotOf(c))

\* A line comes in one piece or in two.  Without Batch the last line has been
\* answered completely, its transfer included.
SendPiece(c, p) ==
  /\ c \in OpenConns /\ ~net[c].eof
  /\ Len(Unhandled(c)) < MaxLine
  /\ Unhandled(c) # <<>> => Unhandled(c)[Len(Unhandled(c))] # "QUIT"
  /\ p = "part" => Len(Unhandled(c)) + 1 < MaxLine
  /\ Batch \/ net[c].due = 0
  /\ net' = [net EXCEPT ![c].in = Append(@, p),
                        ![c].due = @ + (CASE p = "part" -> 0 [] p = "XFER" -> 2
                                          [] OTHER -> 1)]
  /\ UNCHANGED <<tables, at, ghosts, pipes, world>>

\* A client leaves; what becomes of its transfer is the subject of Transfer.
Hangup(c) ==
  /\ c \in OpenConns /\ ~net[c].eof /\ SlotOf(c) \notin jobs
  /\ Unhandled(c) = <<>>
  /\ net' = [net EXCEPT ![c].eof = TRUE]
  /\ UNCHANGED <<tables, at, ghosts, pipes, world>>

Serve ==
  \/ AcceptNobody \/ Accept \/ AcceptFull
  \/ ReadDataPipe \/ ReadExitPipe
  \/ \E c \in Conn : RecvLine(c) \/ RecvPart(c) \/ RecvNothing(c)
  \/ Write

Peers == Arrive \/ \E c \in Conn : Hangup(c) \/ \E p \in Piece : SendPiece(c, p)

Next == Poll \/ Serve \/ (\E k \in Index : Complete(k)) \/ Peers

Spec == Init /\ [][Next]_vars

\* The main thread goes on with its loop, and a transfer ends.  Nothing is
\* assumed of the clients.
FairSpec ==
  /\ Spec
  /\ WF_vars(Poll \/ Serve)
  /\ \A k \in Index : WF_vars(Complete(k))

----------------------------------------------------------------------------
(* Properties. *)

\* Every variable has its type, and the bounds on lines and arrivals hold.
TypeOK ==
  /\ fds \in [Index -> Entry] /\ fd_most_tail \in 3 .. MaxClients
  /\ clients \in [Index -> ClientData]
  /\ at \in 0 .. AtPoll /\ served \subseteq Index /\ twice \in BOOLEAN
  /\ dataPipe \in Seq(Index) /\ exitPipe \in Seq(Index) /\ jobs \subseteq Index
  /\ backlog \in 0 .. Cardinality(Conn) /\ arrivals \in 0 .. MaxArrivals
  /\ net \in [Conn -> Remote]
  /\ \A c \in OpenConns : Len(Unhandled(c)) <= MaxLine

\* The two tables of the main thread agree: the first three entries are its
\* own, a client's nfds is the entry that has its socket, an entry with a
\* socket belongs to exactly one client, and poll is told of all of them.
\* Entries are filled by push_new_fd and emptied in three places, slots are
\* searched for by socket number, and fd_most_tail only ever grows by one.
TablesAgree ==
  /\ \A i \in 0 .. 2 : fds[i].fd = Own[i + 1] /\ "in" \in fds[i].events
  /\ \A k \in Index : clients[k].sock_fd # None =>
       /\ fds[clients[k].nfds].fd = clients[k].sock_fd
       /\ clients[k].nfds < fd_most_tail
  /\ \A i \in Index \ (0 .. 2) : fds[i].fd # None =>
       Cardinality({k \in Index : clients[k].sock_fd = fds[i].fd}) = 1

\* The main thread does not close the connection of a client that has neither
\* left nor said QUIT, unless its entry is served for the second time: when the
\* pass has started again recv finds nothing there and returns -1.
LiveConnectionKept ==
  [][\A c \in OpenConns : c \in OpenConns' \/ at \in served \/ net[c].eof
       \/ clients[SlotOf(c)].net_state = "NEED_QUIT"]_vars

\* A reply is sent once: what Write sends is a reply that holds net_lock,
\* unless an entry is or has been served for the second time.
SentOnce == [][Write => twice' \/ clients[SlotOf(Here.fd)].net_lock]_vars

\* The main thread is never about to compose a reply over one that it has not
\* sent itself: for clients that wait for their answers it does not block, as
\* long as none has been served twice.  (A reply sent twice makes a client send
\* its next line too early; a connection cut off leaves its completion to the
\* next owner of the slot.)
ServerNotBlocked ==
  twice \/ ~ \E c \in Conn : /\ ServeIn(c) /\ net[c].in # <<>> /\ Ends(Unhandled(c)) # {}
                    /\ clients[SlotOf(c)].net_lock

\* Whoever has sent a line gets the replies to it or is disconnected, however
\* the passes over the table go and whoever comes and leaves meanwhile, as long
\* as no client has been served twice.
EveryLineAnswered ==
  \A c \in Conn : (c \in OpenConns /\ net[c].due > 0)
                    ~> (c \notin OpenConns \/ net[c].due = 0 \/ twice)
=============================================================================
