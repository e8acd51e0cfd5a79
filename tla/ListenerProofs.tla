--------------------------- MODULE ListenerProofs ---------------------------
(***************************************************************************)
(* Proofs about Listener for tables of any size and any number of clients: *)
(* the table of descriptors and the client slots agree in every state,     *)
(* whatever is served twice in a pass, a live connection is kept, the      *)
(* types hold with the bounds on what clients send, and replies to clients *)
(* that wait for them are sent once and never block the main thread.       *)
(***************************************************************************)
EXTENDS Listener, FiniteSetTheorems, SequenceTheorems, TLAPS

\* What the entries, the slots and the pipes hold.
Typed ==
  /\ fds \in [Index -> Entry] /\ fd_most_tail \in 3 .. MaxClients
  /\ clients \in [Index -> ClientData] /\ at \in 0 .. AtPoll
  /\ dataPipe \in Seq(Index) /\ exitPipe \in Seq(Index)
  /\ net \in [Conn -> Remote]

\* The thread's own descriptors are in the first three entries and polled.
OwnEntries(t) == \A i \in 0 .. 2 : t[i].fd = Own[i + 1] /\ "in" \in t[i].events

\* A connected slot points to an entry with its socket, below the tail.
Pointed(t, cl, tail) ==
  \A k \in Index : cl[k].sock_fd # None =>
    /\ cl[k].nfds \in 3 .. MaxClients - 1
    /\ t[cl[k].nfds].fd = cl[k].sock_fd
    /\ cl[k].nfds < tail

\* No two slots have the same socket.
Apart(cl) ==
  \A j, k \in Index : cl[j].sock_fd # None /\ cl[j].sock_fd = cl[k].sock_fd => j = k

\* An entry with a socket has a slot, which points back to it.
Owned(t, cl) ==
  \A i \in 3 .. MaxClients - 1 : t[i].fd # None =>
    \E k \in Index : cl[k].sock_fd = t[i].fd /\ cl[k].nfds = i

\* Nothing is behind the tail, so that push_new_fd never leaves a gap there.
Behind(t, tail) == \A i \in Index : i >= tail => t[i].fd = None

\* Only a connected client can be about to quit.
Quitting(cl) == \A k \in Index : cl[k].net_state = "NEED_QUIT" => cl[k].sock_fd # None

Agree(t, cl, tail) ==
  /\ OwnEntries(t) /\ Pointed(t, cl, tail) /\ Apart(cl) /\ Owned(t, cl)
  /\ Behind(t, tail) /\ Quitting(cl)

TablesInv == Typed /\ Agree(fds, clients, fd_most_tail)
-----------------------------------------------------------------------------
(* Values.                                                                 *)

LEMMA Indices ==
  /\ Index \subseteq Nat /\ 0 .. 2 \subseteq Index /\ 3 .. MaxClients - 1 \subseteq Index
  /\ Index = 0 .. 2 \cup 3 .. MaxClients - 1
BY ListenerAssumption DEF Index

LEMMA OwnValues ==
  \A i \in 0 .. 2 : Own[i + 1] \in {Server, DataPipe, ExitPipe} /\ Own[i + 1] # None
                    /\ Own[i + 1] \notin Conn
<1>1. \A i \in 0 .. 2 : i = 0 \/ i = 1 \/ i = 2
  OBVIOUS
<1> QED
  BY <1>1, ListenerAssumption DEF Own

LEMMA FreeTypes ==
  /\ FreeClient \in ClientData /\ Empty \in Entry /\ Fresh \in Remote
<1>1. FreeClient \in ClientData
  BY ListenerAssumption, Indices DEF FreeClient, ClientData, Index
<1>2. Empty \in Entry
  BY DEF Empty, Entry
<1>3. Fresh \in Remote
  BY DEF Fresh, Remote
<1> QED
  BY <1>1, <1>2, <1>3
-----------------------------------------------------------------------------
(* What the helpers of the pass keep.                                      *)

\* Leaving an entry changes nothing but revents, and leads to an entry or
\* back to poll.
LEMMA LeaveKeeps ==
  ASSUME NEW t \in [Index -> Entry], NEW i \in Int, Leave(t, i)
  PROVE  /\ fds' \in [Index -> Entry] /\ at' \in 0 .. AtPoll
         /\ \A j \in Index : fds'[j].fd = t[j].fd /\ fds'[j].events = t[j].events
<1>1. at' \in 0 .. AtPoll
  BY ListenerAssumption DEF Leave, Turn, First, Index, AtPoll
<1>2. CASE at' = AtPoll
  <2>1. fds' = [j \in Index |-> [t[j] EXCEPT !.revents = {}]]
    BY <1>2 DEF Leave
  <2> QED
    BY <1>1, <2>1 DEF Entry
<1>3. CASE at' # AtPoll
  <2>1. fds' = t
    BY <1>3 DEF Leave
  <2> QED
    BY <1>1, <2>1
<1> QED
  BY <1>2, <1>3

\* Agreement is about descriptors and events only.
LEMMA SameDescriptors ==
  ASSUME NEW t, NEW u, NEW cl, NEW tail, Agree(t, cl, tail),
         \A j \in Index : u[j].fd = t[j].fd /\ u[j].events = t[j].events
  PROVE  Agree(u, cl, tail)
<1>1. OwnEntries(u)
  BY Indices DEF Agree, OwnEntries
<1>2. Pointed(u, cl, tail)
  BY Indices DEF Agree, Pointed
<1>3. Owned(u, cl)
  BY Indices DEF Agree, Owned
<1>4. Behind(u, tail)
  BY DEF Agree, Behind
<1> QED
  BY <1>1, <1>2, <1>3, <1>4 DEF Agree

\* Changing the events of a client's entry keeps agreement.
LEMMA NewEvents ==
  ASSUME NEW t \in [Index -> Entry], NEW cl, NEW tail, Agree(t, cl, tail),
         NEW i \in 3 .. MaxClients - 1, NEW e \in SUBSET {"in", "out"}
  PROVE  /\ [t EXCEPT ![i].events = e] \in [Index -> Entry]
         /\ Agree([t EXCEPT ![i].events = e], cl, tail)
<1> DEFINE u == [t EXCEPT ![i].events = e]
<1>1. u \in [Index -> Entry]
  BY Indices DEF Entry
<1>2. \A j \in Index : u[j].fd = t[j].fd /\ (j # i => u[j] = t[j])
  BY Indices DEF Entry
<1>3. OwnEntries(u)
  BY <1>2, Indices DEF Agree, OwnEntries
<1>4. Pointed(u, cl, tail)
  BY <1>2, Indices DEF Agree, Pointed
<1>5. Owned(u, cl)
  BY <1>2, Indices DEF Agree, Owned
<1>6. Behind(u, tail)
  BY <1>2 DEF Agree, Behind
<1> QED
  BY <1>1, <1>3, <1>4, <1>5, <1>6 DEF Agree

\* So does changing a slot's state and buffer, when a client that quits is
\* connected.
LEMMA NewState ==
  ASSUME NEW t, NEW cl, NEW dl, NEW tail, Agree(t, cl, tail),
         \A k \in Index : dl[k].sock_fd = cl[k].sock_fd /\ dl[k].nfds = cl[k].nfds,
         Quitting(dl)
  PROVE  Agree(t, dl, tail)
<1>1. Pointed(t, dl, tail)
  BY DEF Agree, Pointed
<1>2. Apart(dl)
  BY DEF Agree, Apart
<1>3. Owned(t, dl)
  BY DEF Agree, Owned
<1> QED
  BY <1>1, <1>2, <1>3 DEF Agree

\* The two requests for POLLOUT.
LEMMA WantWriteKeeps ==
  ASSUME TablesInv, NEW t \in [Index -> Entry], Agree(t, clients, fd_most_tail),
         NEW k \in Index, clients[k].sock_fd # None
  PROVE  /\ WantWrite(t, k) \in [Index -> Entry]
         /\ Agree(WantWrite(t, k), clients, fd_most_tail)
<1> DEFINE i == clients[k].nfds
<1>1. i \in 3 .. MaxClients - 1
  BY DEF TablesInv, Agree, Pointed
<1>2. t[i].events \cup {"out"} \in SUBSET {"in", "out"}
  BY <1>1, Indices DEF Entry
<1> HIDE DEF i
<1>3. /\ [t EXCEPT ![i].events = t[i].events \cup {"out"}] \in [Index -> Entry]
      /\ Agree([t EXCEPT ![i].events = t[i].events \cup {"out"}], clients, fd_most_tail)
  BY <1>1, <1>2, NewEvents
<1>4. WantWrite(t, k) = [t EXCEPT ![i].events = t[i].events \cup {"out"}]
  BY <1>1, Indices DEF WantWrite, i
<1> QED
  BY <1>3, <1>4

LEMMA AfterHandlerKeeps ==
  ASSUME NEW t \in [Index -> Entry], NEW cl, NEW tail, Agree(t, cl, tail), NEW k \in Index
  PROVE  /\ AfterHandler(t, cl[k]) \in [Index -> Entry]
         /\ Agree(AfterHandler(t, cl[k]), cl, tail)
<1>1. CASE cl[k].sock_fd # None /\ cl[k].net_state = "NEED_SEND"
  <2>1. cl[k].nfds \in 3 .. MaxClients - 1
    BY <1>1 DEF Agree, Pointed
  <2>2. AfterHandler(t, cl[k]) = [t EXCEPT ![cl[k].nfds].events = {"out"}]
    BY <1>1 DEF AfterHandler
  <2>3. {"out"} \in SUBSET {"in", "out"}
    OBVIOUS
  <2>4. /\ [t EXCEPT ![cl[k].nfds].events = {"out"}] \in [Index -> Entry]
        /\ Agree([t EXCEPT ![cl[k].nfds].events = {"out"}], cl, tail)
    BY <2>1, <2>3, NewEvents
  <2> QED
    BY <2>2, <2>4
<1>2. CASE ~(cl[k].sock_fd # None /\ cl[k].net_state = "NEED_SEND")
  BY <1>2 DEF AfterHandler
<1> QED
  BY <1>1, <1>2

\* close_client_connection clears the entry together with the slot.
LEMMA CloseKeeps ==
  ASSUME TablesInv, NEW k \in Index, clients[k].sock_fd # None
  PROVE  /\ Closed(fds, k) \in [Index -> Entry]
         /\ [clients EXCEPT ![k] = FreeClient] \in [Index -> ClientData]
         /\ Agree(Closed(fds, k), [clients EXCEPT ![k] = FreeClient], fd_most_tail)
<1> DEFINE i == clients[k].nfds
           t == Closed(fds, k)
           cl == [clients EXCEPT ![k] = FreeClient]
<1>1. i \in 3 .. MaxClients - 1 /\ fds[i].fd = clients[k].sock_fd
  BY DEF TablesInv, Agree, Pointed
<1>2. t \in [Index -> Entry] /\ \A j \in Index : t[j] = IF j = i THEN Empty ELSE fds[j]
  BY <1>1, FreeTypes, Indices DEF Closed, TablesInv, Typed
<1>3. cl \in [Index -> ClientData] /\ \A j \in Index : cl[j] = IF j = k THEN FreeClient ELSE clients[j]
  BY FreeTypes DEF TablesInv, Typed
<1> HIDE DEF i, t, cl
<1>4. OwnEntries(t)
  BY <1>1, <1>2, Indices DEF TablesInv, Agree, OwnEntries
<1>5. Apart(cl)
  BY <1>3 DEF TablesInv, Agree, Apart, FreeClient
<1>6. Quitting(cl)
  BY <1>3 DEF TablesInv, Agree, Quitting, FreeClient
<1>7. Behind(t, fd_most_tail)
  BY <1>2 DEF TablesInv, Agree, Behind, Empty
<1>8. Pointed(t, cl, fd_most_tail)
  <2> SUFFICES ASSUME NEW j \in Index, cl[j].sock_fd # None
               PROVE  /\ cl[j].nfds \in 3 .. MaxClients - 1
                      /\ t[cl[j].nfds].fd = cl[j].sock_fd /\ cl[j].nfds < fd_most_tail
    BY DEF Pointed
  <2>1. j # k /\ cl[j] = clients[j]
    BY <1>3 DEF FreeClient
  <2>2. /\ clients[j].nfds \in 3 .. MaxClients - 1 /\ clients[j].nfds < fd_most_tail
        /\ fds[clients[j].nfds].fd = clients[j].sock_fd
    BY <2>1 DEF TablesInv, Agree, Pointed
  <2>3. clients[j].nfds # i
    BY <1>1, <2>1, <2>2 DEF TablesInv, Agree, Apart
  <2> QED
    BY <1>2, <2>1, <2>2, <2>3, Indices
<1>9. Owned(t, cl)
  <2> SUFFICES ASSUME NEW j \in 3 .. MaxClients - 1, t[j].fd # None
               PROVE  \E n \in Index : cl[n].sock_fd = t[j].fd /\ cl[n].nfds = j
    BY DEF Owned
  <2>1. j # i /\ t[j] = fds[j]
    BY <1>2, Indices DEF Empty
  <2>2. PICK n \in Index : clients[n].sock_fd = fds[j].fd /\ clients[n].nfds = j
    BY <2>1 DEF TablesInv, Agree, Owned
  <2>3. n # k
    BY <2>1, <2>2 DEF i
  <2> QED
    BY <1>3, <2>1, <2>2, <2>3
<1> QED
  BY <1>2, <1>3, <1>4, <1>5, <1>6, <1>7, <1>8, <1>9 DEF Agree, t, cl
-----------------------------------------------------------------------------
(* The shape of a step.                                                    *)

LEMMA PrimedInv ==
  ASSUME fds' \in [Index -> Entry], fd_most_tail' \in 3 .. MaxClients,
         clients' \in [Index -> ClientData], at' \in 0 .. AtPoll,
         dataPipe' \in Seq(Index), exitPipe' \in Seq(Index), net' \in [Conn -> Remote],
         Agree(fds', clients', fd_most_tail')
  PROVE  TablesInv'
BY DEF TablesInv, Typed, Agree, OwnEntries, Pointed, Apart, Owned, Behind, Quitting

\* A branch of the pass: it makes t of the entries and goes to the next one
\* after i.
LEMMA BranchKeeps ==
  ASSUME NEW t \in [Index -> Entry], NEW i \in Int, Continue(t, i),
         fd_most_tail' \in 3 .. MaxClients, clients' \in [Index -> ClientData],
         dataPipe' \in Seq(Index), exitPipe' \in Seq(Index), net' \in [Conn -> Remote],
         Agree(t, clients', fd_most_tail')
  PROVE  TablesInv'
<1>1. Leave(t, i)
  BY DEF Continue
<1>2. /\ fds' \in [Index -> Entry] /\ at' \in 0 .. AtPoll
      /\ \A j \in Index : fds'[j].fd = t[j].fd /\ fds'[j].events = t[j].events
  BY <1>1, LeaveKeeps
<1>3. Agree(fds', clients', fd_most_tail')
  BY <1>2, SameDescriptors
<1> QED
  BY <1>2, <1>3, PrimedInv

\* The entry the pass is at, and the slot of the client it belongs to.
LEMMA AtEntry ==
  ASSUME TablesInv, at # AtPoll
  PROVE  at \in Index /\ at \in Int
BY ListenerAssumption DEF TablesInv, Typed, Index, AtPoll

LEMMA SlotHere ==
  ASSUME TablesInv, at # AtPoll, Here.fd \in Conn
  PROVE  /\ SlotOf(Here.fd) \in Index
         /\ clients[SlotOf(Here.fd)].sock_fd = Here.fd
         /\ clients[SlotOf(Here.fd)].sock_fd # None
<1>1. at \in Index
  BY AtEntry
<1>2. at \notin 0 .. 2
  BY OwnValues DEF TablesInv, Agree, OwnEntries, Here
<1>3. Here.fd # None /\ at \in 3 .. MaxClients - 1
  BY <1>1, <1>2, Indices, ListenerAssumption
<1>4. \E k \in Index : clients[k].sock_fd = Here.fd
  BY <1>3 DEF TablesInv, Agree, Owned, Here
<1> QED
  BY <1>3, <1>4 DEF SlotOf
-----------------------------------------------------------------------------
(* The main thread.                                                        *)

LEMMA PollKeeps == TablesInv /\ Poll => TablesInv'
<1> SUFFICES ASSUME TablesInv, Poll PROVE TablesInv'
  OBVIOUS
<1>1. /\ fds' \in [Index -> Entry]
      /\ \A j \in Index : fds'[j].fd = fds[j].fd /\ fds'[j].events = fds[j].events
  <2> DEFINE r(j) == IF j < fd_most_tail THEN Reported(fds[j]) ELSE {}
  <2>1. fds' = [j \in Index |-> [fds[j] EXCEPT !.revents = r(j)]]
    BY DEF Poll
  <2>2. \A j \in Index : r(j) \in SUBSET {"in", "out"}
    BY DEF Reported, TablesInv, Typed, Entry
  <2> HIDE DEF r
  <2> QED
    BY <2>1, <2>2 DEF TablesInv, Typed, Entry
<1>2. at' \in 0 .. AtPoll
  BY ListenerAssumption DEF Poll, Turn, First, Index, AtPoll
<1>3. Agree(fds', clients, fd_most_tail)
  BY <1>1, SameDescriptors DEF TablesInv
<1> QED
  BY <1>1, <1>2, <1>3, PrimedInv DEF Poll, pipes, TablesInv, Typed

LEMMA AcceptNobodyKeeps == TablesInv /\ AcceptNobody => TablesInv'
<1> SUFFICES ASSUME TablesInv, AcceptNobody PROVE TablesInv'
  OBVIOUS
<1>1. at \in Int /\ Continue(fds, at)
  BY AtEntry DEF AcceptNobody, ServeIn, GoOn
<1> QED
  BY <1>1, BranchKeeps DEF AcceptNobody, pipes, TablesInv, Typed

LEMMA AcceptFullKeeps == TablesInv /\ AcceptFull => TablesInv'
<1> SUFFICES ASSUME TablesInv, AcceptFull PROVE TablesInv'
  OBVIOUS
<1>1. -1 \in Int /\ Continue(fds, -1)
  BY DEF AcceptFull, Restart
<1> QED
  BY <1>1, BranchKeeps DEF AcceptFull, pipes, TablesInv, Typed

\* The new connection gets the first entry without a descriptor, which is at
\* the tail when it is not below it.
LEMMA AcceptKeeps == TablesInv /\ Accept => TablesInv'
<1> SUFFICES ASSUME TablesInv, Accept PROVE TablesInv'
  OBVIOUS
<1>1. PICK c \in Conn \ OpenConns, i \in First(Vacant), k \in First(FreeSlots) :
        /\ clients' = [clients EXCEPT ![k] =
                         [@ EXCEPT !.sock_fd = c, !.nfds = i,
                                   !.net_state = "NEED_SEND", !.net_lock = TRUE]]
        /\ fd_most_tail' = IF i >= fd_most_tail THEN fd_most_tail + 1 ELSE fd_most_tail
        /\ net' = [net EXCEPT ![c] = Fresh]
        /\ GoOn([fds EXCEPT ![i] = [fd |-> c, events |-> {"out"}, revents |-> {}]])
  BY DEF Accept
<1> DEFINE e == [fd |-> c, events |-> {"out"}, revents |-> {}]
           t == [fds EXCEPT ![i] = e]
<1>2. /\ i \in Index /\ fds[i].fd = None /\ \A j \in Index : fds[j].fd = None => i <= j
      /\ k \in Index /\ clients[k].sock_fd = None
  BY DEF First, Vacant, FreeSlots
<1>3. i \in 3 .. MaxClients - 1
  BY <1>2, OwnValues, Indices DEF TablesInv, Agree, OwnEntries
<1>4. c \in Conn /\ c # None /\ \A j \in Index : clients[j].sock_fd # c
  BY ListenerAssumption DEF OpenConns
<1>5. /\ fd_most_tail' \in 3 .. MaxClients /\ i < fd_most_tail'
      /\ \A j \in Index : j >= fd_most_tail' => j >= fd_most_tail
  <2>1. fd_most_tail \in 3 .. MaxClients
    BY DEF TablesInv, Typed
  <2>2. i >= fd_most_tail => i = fd_most_tail
    <3>1. ASSUME i >= fd_most_tail PROVE fd_most_tail \in Index
      BY <1>3, <2>1, <3>1, ListenerAssumption DEF Index
    <3>2. ASSUME i >= fd_most_tail PROVE fds[fd_most_tail].fd = None
      BY <2>1, <3>1, <3>2 DEF TablesInv, Agree, Behind
    <3> QED
      BY <1>2, <1>3, <2>1, <3>1, <3>2
  <2> QED
    BY <1>1, <1>3, <2>1, <2>2, ListenerAssumption DEF Index
<1>6. e \in Entry
  BY <1>4 DEF Entry
<1>7. t \in [Index -> Entry] /\ \A j \in Index : t[j] = IF j = i THEN e ELSE fds[j]
  BY <1>2, <1>6 DEF TablesInv, Typed
<1>8. /\ clients' \in [Index -> ClientData]
      /\ \A j \in Index : j # k => clients'[j] = clients[j]
      /\ clients'[k].sock_fd = c /\ clients'[k].nfds = i
      /\ clients'[k].net_state = "NEED_SEND"
  <2> DEFINE r == [clients[k] EXCEPT !.sock_fd = c, !.nfds = i,
                                     !.net_state = "NEED_SEND", !.net_lock = TRUE]
  <2>1. clients[k] \in ClientData
    BY <1>2 DEF TablesInv, Typed
  <2>2. r \in ClientData /\ r.sock_fd = c /\ r.nfds = i /\ r.net_state = "NEED_SEND"
    BY <1>2, <1>4, <2>1 DEF ClientData
  <2>3. clients' = [clients EXCEPT ![k] = r]
    BY <1>1
  <2> HIDE DEF r
  <2> QED
    BY <1>2, <2>2, <2>3 DEF TablesInv, Typed
<1> HIDE DEF t
<1>9. Agree(t, clients', fd_most_tail')
  <2>1. OwnEntries(t)
    BY <1>3, <1>7, Indices DEF TablesInv, Agree, OwnEntries
  <2>2. Pointed(t, clients', fd_most_tail')
    <3> SUFFICES ASSUME NEW j \in Index, clients'[j].sock_fd # None
                 PROVE  /\ clients'[j].nfds \in 3 .. MaxClients - 1
                        /\ t[clients'[j].nfds].fd = clients'[j].sock_fd
                        /\ clients'[j].nfds < fd_most_tail'
      BY DEF Pointed
    <3>1. CASE j = k
      BY <1>2, <1>3, <1>5, <1>7, <1>8, <3>1
    <3>2. CASE j # k
      <4>1. /\ clients[j].nfds \in 3 .. MaxClients - 1 /\ clients[j].sock_fd # None
            /\ fds[clients[j].nfds].fd = clients[j].sock_fd
            /\ clients[j].nfds < fd_most_tail
        BY <1>8, <3>2 DEF TablesInv, Agree, Pointed
      <4>2. clients[j].nfds # i
        BY <1>2, <4>1
      <4>3. clients[j].nfds < fd_most_tail'
        BY <1>1, <1>3, <4>1 DEF TablesInv, Typed
      <4> QED
        BY <1>7, <1>8, <3>2, <4>1, <4>2, <4>3, Indices
    <3> QED
      BY <3>1, <3>2
  <2>3. Apart(clients')
    BY <1>4, <1>8 DEF TablesInv, Agree, Apart
  <2>4. Owned(t, clients')
    <3> SUFFICES ASSUME NEW j \in 3 .. MaxClients - 1, t[j].fd # None
                 PROVE  \E n \in Index : clients'[n].sock_fd = t[j].fd /\ clients'[n].nfds = j
      BY DEF Owned
    <3>1. CASE j = i
      BY <1>2, <1>7, <1>8, <3>1
    <3>2. CASE j # i
      <4>1. t[j] = fds[j]
        BY <1>7, <3>2, Indices
      <4>2. PICK n \in Index : clients[n].sock_fd = fds[j].fd /\ clients[n].nfds = j
        BY <4>1 DEF TablesInv, Agree, Owned
      <4>3. n # k
        BY <1>2, <4>1, <4>2
      <4> QED
        BY <1>8, <4>1, <4>2, <4>3
    <3> QED
      BY <3>1, <3>2
  <2>5. Behind(t, fd_most_tail')
    <3> SUFFICES ASSUME NEW j \in Index, j >= fd_most_tail' PROVE t[j].fd = None
      BY DEF Behind
    <3>1. j # i
      BY <1>3, <1>5
    <3> QED
      BY <1>5, <1>7, <3>1 DEF TablesInv, Agree, Behind
  <2>6. Quitting(clients')
    BY <1>8 DEF TablesInv, Agree, Quitting
  <2> QED
    BY <2>1, <2>2, <2>3, <2>4, <2>5, <2>6 DEF Agree
<1>10. net' \in [Conn -> Remote]
  BY <1>1, <1>4, FreeTypes DEF TablesInv, Typed
<1>11. at \in Int /\ Continue(t, at)
  BY <1>1, AtEntry DEF Accept, ServeIn, GoOn, t
<1> QED
  BY <1>5, <1>7, <1>8, <1>9, <1>10, <1>11, BranchKeeps DEF Accept, pipes, TablesInv, Typed

\* Reading a pipe: the head is an index, and what is left is a sequence of
\* indices.
LEMMA PipeHead ==
  ASSUME NEW q \in Seq(Index), q # <<>>
  PROVE  Head(q) \in Index /\ Tail(q) \in Seq(Index)
OBVIOUS

LEMMA ReadDataPipeKeeps == TablesInv /\ ReadDataPipe => TablesInv'
<1> SUFFICES ASSUME TablesInv, ReadDataPipe PROVE TablesInv'
  OBVIOUS
<1>1. at \in Int /\ dataPipe \in Seq(Index) /\ fds \in [Index -> Entry]
  BY AtEntry DEF ReadDataPipe, ServeIn, TablesInv, Typed
<1>2. CASE dataPipe = <<>>
  <2>1. Continue(fds, at) /\ dataPipe' = dataPipe
    BY <1>2 DEF ReadDataPipe, GoOn
  <2> QED
    BY <1>1, <2>1, BranchKeeps DEF ReadDataPipe, TablesInv, Typed
<1>3. CASE dataPipe # <<>>
  <2> DEFINE k == Head(dataPipe)
  <2>1. k \in Index /\ Tail(dataPipe) \in Seq(Index)
    BY <1>1, <1>3, PipeHead
  <2>2. dataPipe' = Tail(dataPipe)
    BY <1>3 DEF ReadDataPipe
  <2> HIDE DEF k
  <2>3. CASE clients[k].sock_fd # None
    <3> DEFINE t == AfterHandler(WantWrite(fds, k), clients[k])
    <3>1. /\ WantWrite(fds, k) \in [Index -> Entry]
          /\ Agree(WantWrite(fds, k), clients, fd_most_tail)
      BY <1>1, <2>1, <2>3, WantWriteKeeps DEF TablesInv
    <3>2. t \in [Index -> Entry] /\ Agree(t, clients, fd_most_tail)
      BY <2>1, <3>1, AfterHandlerKeeps
    <3>3. Continue(t, at)
      BY <1>3, <2>3 DEF ReadDataPipe, GoOn, k
    <3> HIDE DEF t
    <3> QED
      BY <1>1, <2>1, <2>2, <3>2, <3>3, BranchKeeps DEF ReadDataPipe, TablesInv, Typed
  <2>4. CASE clients[k].sock_fd = None
    <3>1. Continue(fds, at)
      BY <1>3, <2>4 DEF ReadDataPipe, GoOn, k
    <3> QED
      BY <1>1, <2>1, <2>2, <3>1, BranchKeeps DEF ReadDataPipe, TablesInv, Typed
  <2> QED
    BY <2>3, <2>4
<1> QED
  BY <1>2, <1>3

LEMMA ReadExitPipeKeeps == TablesInv /\ ReadExitPipe => TablesInv'
<1> SUFFICES ASSUME TablesInv, ReadExitPipe PROVE TablesInv'
  OBVIOUS
<1>1. at \in Int /\ exitPipe \in Seq(Index) /\ fds \in [Index -> Entry]
  BY AtEntry DEF ReadExitPipe, ServeIn, TablesInv, Typed
<1>2. CASE exitPipe = <<>>
  <2>1. Continue(fds, at) /\ exitPipe' = exitPipe
    BY <1>2 DEF ReadExitPipe, GoOn
  <2> QED
    BY <1>1, <2>1, BranchKeeps DEF ReadExitPipe, TablesInv, Typed
<1>3. CASE exitPipe # <<>>
  <2> DEFINE k == Head(exitPipe)
  <2>1. k \in Index /\ Tail(exitPipe) \in Seq(Index)
    BY <1>1, <1>3, PipeHead
  <2>2. exitPipe' = Tail(exitPipe)
    BY <1>3 DEF ReadExitPipe
  <2> HIDE DEF k
  <2>3. CASE clients[k].net_state = "NEED_QUIT"
    <3>1. clients[k].sock_fd # None
      BY <2>1, <2>3 DEF TablesInv, Agree, Quitting
    <3>2. /\ WantWrite(fds, k) \in [Index -> Entry]
          /\ Agree(WantWrite(fds, k), clients, fd_most_tail)
      BY <1>1, <2>1, <3>1, WantWriteKeeps DEF TablesInv
    <3>3. Continue(WantWrite(fds, k), at)
      BY <1>3, <2>3 DEF ReadExitPipe, GoOn, k
    <3> QED
      BY <1>1, <2>1, <2>2, <3>2, <3>3, BranchKeeps DEF ReadExitPipe, TablesInv, Typed
  <2>4. CASE clients[k].net_state # "NEED_QUIT"
    <3>1. /\ AfterHandler(fds, clients[k]) \in [Index -> Entry]
          /\ Agree(AfterHandler(fds, clients[k]), clients, fd_most_tail)
      BY <1>1, <2>1, AfterHandlerKeeps DEF TablesInv
    <3>2. Continue(AfterHandler(fds, clients[k]), at)
      BY <1>3, <2>4 DEF ReadExitPipe, GoOn, k
    <3> QED
      BY <1>1, <2>1, <2>2, <3>1, <3>2, BranchKeeps DEF ReadExitPipe, TablesInv, Typed
  <2> QED
    BY <2>3, <2>4
<1> QED
  BY <1>2, <1>3

\* What recv has put into the buffer of the client the pass is at.
LEMMA BufferHere ==
  ASSUME TablesInv, NEW c \in Conn, ServeIn(c)
  PROVE  /\ at \in Int /\ SlotOf(c) \in Index
         /\ clients[SlotOf(c)].sock_fd = c /\ c # None
         /\ Buffered(SlotOf(c)) \in Seq(Piece)
         /\ [net EXCEPT ![c].in = <<>>] \in [Conn -> Remote]
<1>1. at \in Int /\ SlotOf(c) \in Index /\ clients[SlotOf(c)].sock_fd = c /\ c # None
  BY AtEntry, SlotHere, ListenerAssumption DEF ServeIn
<1>2. Buffered(SlotOf(c)) \in Seq(Piece)
  <2>1. clients[SlotOf(c)].buffer \in Seq(Piece) /\ net[c].in \in Seq(Piece)
    BY <1>1 DEF TablesInv, Typed, ClientData, Remote
  <2> QED
    BY <1>1, <2>1 DEF Buffered
<1>3. [net EXCEPT ![c].in = <<>>] \in [Conn -> Remote]
  <2>1. net[c] \in Remote /\ <<>> \in Seq(Piece)
    BY DEF TablesInv, Typed
  <2>2. [net[c] EXCEPT !.in = <<>>] \in Remote
    BY <2>1 DEF Remote
  <2> QED
    BY <2>2 DEF TablesInv, Typed
<1> QED
  BY <1>1, <1>2, <1>3

\* A handler changes the slot of a connected client but not its socket and its
\* entry.
LEMMA HandlerKeeps ==
  ASSUME TablesInv, NEW k \in Index, clients[k].sock_fd # None,
         NEW r \in ClientData, r.sock_fd = clients[k].sock_fd, r.nfds = clients[k].nfds
  PROVE  /\ [clients EXCEPT ![k] = r] \in [Index -> ClientData]
         /\ Agree(fds, [clients EXCEPT ![k] = r], fd_most_tail)
<1> DEFINE dl == [clients EXCEPT ![k] = r]
<1>1. dl \in [Index -> ClientData] /\ \A j \in Index : dl[j] = IF j = k THEN r ELSE clients[j]
  BY DEF TablesInv, Typed
<1> HIDE DEF dl
<1>2. Quitting(dl)
  BY <1>1 DEF TablesInv, Agree, Quitting
<1>3. \A j \in Index : dl[j].sock_fd = clients[j].sock_fd /\ dl[j].nfds = clients[j].nfds
  BY <1>1
<1>4. Agree(fds, dl, fd_most_tail)
  BY <1>2, <1>3, NewState DEF TablesInv
<1> QED
  BY <1>1, <1>4 DEF dl

LEMMA RecvLineKeeps == ASSUME NEW c \in Conn PROVE TablesInv /\ RecvLine(c) => TablesInv'
<1> SUFFICES ASSUME TablesInv, RecvLine(c) PROVE TablesInv'
  OBVIOUS
<1> DEFINE k == SlotOf(c)
           b == Buffered(k)
<1>1. /\ at \in Int /\ k \in Index /\ clients[k].sock_fd = c /\ c # None
      /\ b \in Seq(Piece) /\ [net EXCEPT ![c].in = <<>>] \in [Conn -> Remote]
  BY BufferHere DEF RecvLine
<1>2. PICK line \in First(Ends(b)) :
        /\ clients' = [clients EXCEPT ![k] =
             [@ EXCEPT !.net_lock = TRUE,
                       !.net_state = IF b[line] = "QUIT" THEN "NEED_QUIT" ELSE "NEED_SEND",
                       !.buffer = SubSeq(b, line + 1, Len(b))]]
        /\ exitPipe' = IF b[line] = "QUIT" THEN Append(exitPipe, k) ELSE exitPipe
  BY DEF RecvLine
<1>3. Continue(AfterHandler(fds, clients'[k]), at) /\ net' = [net EXCEPT ![c].in = <<>>]
  BY DEF RecvLine, GoOn
<1> DEFINE s == IF b[line] = "QUIT" THEN "NEED_QUIT" ELSE "NEED_SEND"
           u == SubSeq(b, line + 1, Len(b))
           r == [clients[k] EXCEPT !.net_lock = TRUE, !.net_state = s, !.buffer = u]
<1>4. u \in Seq(Piece)
  BY <1>1, SubSeqProperties DEF First, Ends
<1>5. clients' = [clients EXCEPT ![k] = r]
  BY <1>2
<1>6. exitPipe' \in Seq(Index)
  BY <1>1, <1>2 DEF TablesInv, Typed
<1> HIDE DEF k, b, u
<1>7. r \in ClientData /\ r.sock_fd = clients[k].sock_fd /\ r.nfds = clients[k].nfds
  BY <1>1, <1>4 DEF TablesInv, Typed, ClientData
<1> HIDE DEF r
<1>8. clients' \in [Index -> ClientData] /\ Agree(fds, clients', fd_most_tail)
  BY <1>1, <1>5, <1>7, HandlerKeeps
<1>9. /\ AfterHandler(fds, clients'[k]) \in [Index -> Entry]
      /\ Agree(AfterHandler(fds, clients'[k]), clients', fd_most_tail)
  BY <1>1, <1>8, AfterHandlerKeeps DEF TablesInv, Typed
<1> QED
  BY <1>1, <1>3, <1>6, <1>8, <1>9, BranchKeeps DEF RecvLine, TablesInv, Typed

LEMMA RecvPartKeeps == ASSUME NEW c \in Conn PROVE TablesInv /\ RecvPart(c) => TablesInv'
<1> SUFFICES ASSUME TablesInv, RecvPart(c) PROVE TablesInv'
  OBVIOUS
<1> DEFINE k == SlotOf(c)
           r == [clients[k] EXCEPT !.buffer = Buffered(k)]
<1>1. /\ at \in Int /\ k \in Index /\ clients[k].sock_fd = c /\ c # None
      /\ Buffered(k) \in Seq(Piece) /\ [net EXCEPT ![c].in = <<>>] \in [Conn -> Remote]
  BY BufferHere DEF RecvPart
<1>2. /\ clients' = [clients EXCEPT ![k] = r] /\ net' = [net EXCEPT ![c].in = <<>>]
      /\ Continue(AfterHandler(fds, clients[k]), at)
  BY DEF RecvPart, GoOn
<1> HIDE DEF k
<1>3. r \in ClientData /\ r.sock_fd = clients[k].sock_fd /\ r.nfds = clients[k].nfds
  BY <1>1 DEF TablesInv, Typed, ClientData
<1>4. r.net_state = clients[k].net_state
  BY <1>1 DEF TablesInv, Typed, ClientData
<1> HIDE DEF r
<1>5. clients' \in [Index -> ClientData] /\ Agree(fds, clients', fd_most_tail)
  BY <1>1, <1>2, <1>3, HandlerKeeps
<1>6. clients'[k] = r
  BY <1>1, <1>2 DEF TablesInv, Typed
<1>7. AfterHandler(fds, clients[k]) = AfterHandler(fds, clients'[k])
  BY <1>3, <1>4, <1>6 DEF AfterHandler
<1>8. /\ AfterHandler(fds, clients[k]) \in [Index -> Entry]
      /\ Agree(AfterHandler(fds, clients[k]), clients', fd_most_tail)
  BY <1>1, <1>5, <1>7, AfterHandlerKeeps DEF TablesInv, Typed
<1> QED
  BY <1>1, <1>2, <1>5, <1>8, BranchKeeps DEF RecvPart, pipes, TablesInv, Typed

LEMMA RecvNothingKeeps == ASSUME NEW c \in Conn PROVE TablesInv /\ RecvNothing(c) => TablesInv'
<1> SUFFICES ASSUME TablesInv, RecvNothing(c) PROVE TablesInv'
  OBVIOUS
<1>1. SlotOf(c) \in Index /\ clients[SlotOf(c)].sock_fd # None
  BY BufferHere DEF RecvNothing
<1>2. -1 \in Int /\ Continue(Closed(fds, SlotOf(c)), -1)
  BY DEF RecvNothing, Restart
<1>3. clients' = [clients EXCEPT ![SlotOf(c)] = FreeClient]
  BY DEF RecvNothing, CloseClient
<1>4. /\ Closed(fds, SlotOf(c)) \in [Index -> Entry] /\ clients' \in [Index -> ClientData]
      /\ Agree(Closed(fds, SlotOf(c)), clients', fd_most_tail)
  BY <1>1, <1>3, CloseKeeps
<1> QED
  BY <1>2, <1>4, BranchKeeps DEF RecvNothing, pipes, TablesInv, Typed

\* After the reply to QUIT the connection is closed, after any other the entry
\* waits for the next line.
LEMMA WriteKeeps == TablesInv /\ Write => TablesInv'
<1> SUFFICES ASSUME TablesInv, Write PROVE TablesInv'
  OBVIOUS
<1> DEFINE c == Here.fd
           k == SlotOf(c)
<1>1. /\ at \in Index /\ at \in Int /\ c \in Conn /\ k \in Index
      /\ clients[k].sock_fd = c /\ c # None
  BY AtEntry, SlotHere DEF Write, ServeOut
<1>2. at \in 3 .. MaxClients - 1
  <2>1. at \notin 0 .. 2
    BY <1>1, OwnValues DEF TablesInv, Agree, OwnEntries, Here
  <2> QED
    BY <1>1, <2>1, Indices
<1>3. net' \in [Conn -> Remote]
  <2> DEFINE d == IF net[c].due > 0 THEN net[c].due - 1 ELSE 0
  <2>1. net[c] \in Remote
    BY <1>1 DEF TablesInv, Typed
  <2>2. d \in Nat
    BY <2>1 DEF Remote
  <2>3. net' = [net EXCEPT ![c] = [net[c] EXCEPT !.due = d]]
    BY DEF Write
  <2> HIDE DEF d
  <2>4. [net[c] EXCEPT !.due = d] \in Remote
    BY <2>1, <2>2 DEF Remote
  <2> QED
    BY <2>3, <2>4 DEF TablesInv, Typed
<1>4. CASE clients[k].net_state = "NEED_QUIT"
  <2>1. clients' = [clients EXCEPT ![k] = FreeClient] /\ Continue(Closed(fds, k), at)
    BY <1>4 DEF Write, CloseClient, GoOn
  <2> HIDE DEF c, k
  <2>2. /\ Closed(fds, k) \in [Index -> Entry] /\ clients' \in [Index -> ClientData]
        /\ Agree(Closed(fds, k), clients', fd_most_tail)
    BY <1>1, <2>1, CloseKeeps
  <2> QED
    BY <1>1, <1>3, <2>1, <2>2, BranchKeeps DEF Write, pipes, TablesInv, Typed
<1>5. CASE clients[k].net_state # "NEED_QUIT"
  <2> DEFINE r == [clients[k] EXCEPT !.net_lock = FALSE, !.net_state = "IDLE"]
             t == [fds EXCEPT ![at].events = {"in"}]
  <2>1. clients' = [clients EXCEPT ![k].net_lock = FALSE, ![k].net_state = "IDLE"]
        /\ Continue(t, at)
    BY <1>5 DEF Write, GoOn
  <2> HIDE DEF c, k
  <2>2. r \in ClientData /\ r.sock_fd = clients[k].sock_fd /\ r.nfds = clients[k].nfds
    BY <1>1 DEF TablesInv, Typed, ClientData
  <2>3. clients' = [clients EXCEPT ![k] = r]
    BY <1>1, <2>1 DEF TablesInv, Typed
  <2> HIDE DEF r
  <2>4. clients' \in [Index -> ClientData] /\ Agree(fds, clients', fd_most_tail)
    BY <1>1, <2>2, <2>3, HandlerKeeps
  <2>5. {"in"} \in SUBSET {"in", "out"}
    OBVIOUS
  <2>6. t \in [Index -> Entry] /\ Agree(t, clients', fd_most_tail)
    BY <1>2, <2>4, <2>5, NewEvents DEF TablesInv, Typed
  <2> HIDE DEF t
  <2> QED
    BY <1>1, <1>3, <2>1, <2>4, <2>6, BranchKeeps DEF Write, pipes, TablesInv, Typed
<1> QED
  BY <1>4, <1>5
-----------------------------------------------------------------------------
(* The other thread and the remote clients.                                *)

\* The slot may be free by now: then it is the data of no client that changes.
LEMMA CompleteKeeps ==
  ASSUME NEW k \in Index
  PROVE  TablesInv /\ Complete(k) => TablesInv'
<1> SUFFICES ASSUME TablesInv, Complete(k) PROVE TablesInv'
  OBVIOUS
<1> DEFINE r == [clients[k] EXCEPT !.net_lock = TRUE, !.net_state = "NEED_SEND"]
<1>1. /\ r \in ClientData /\ r.sock_fd = clients[k].sock_fd /\ r.nfds = clients[k].nfds
      /\ r.net_state = "NEED_SEND"
  <2>1. clients[k] \in ClientData
    BY DEF TablesInv, Typed
  <2>2. r \in ClientData
    BY <2>1 DEF ClientData
  <2>3. r.sock_fd = clients[k].sock_fd /\ r.nfds = clients[k].nfds
    BY <2>1 DEF ClientData
  <2>4. r.net_state = "NEED_SEND"
    BY <2>1 DEF ClientData
  <2> QED
    BY <2>2, <2>3, <2>4
<1>2. clients' = [clients EXCEPT ![k] = r]
  BY DEF Complete, TablesInv, Typed
<1> HIDE DEF r
<1>3. clients' \in [Index -> ClientData]
      /\ \A j \in Index : clients'[j] = IF j = k THEN r ELSE clients[j]
  BY <1>1, <1>2 DEF TablesInv, Typed
<1>4. Quitting(clients')
  BY <1>1, <1>3 DEF TablesInv, Agree, Quitting
<1>5. \A j \in Index : /\ clients'[j].sock_fd = clients[j].sock_fd
                       /\ clients'[j].nfds = clients[j].nfds
  BY <1>1, <1>3
<1>6. Agree(fds, clients', fd_most_tail)
  BY <1>4, <1>5, NewState DEF TablesInv
<1>7. dataPipe' \in Seq(Index)
  BY DEF Complete, TablesInv, Typed
<1> QED
  BY <1>3, <1>6, <1>7, PrimedInv DEF Complete, world, TablesInv, Typed

\* Nothing a remote client does reaches the tables.
LEMMA PeersKeep == TablesInv /\ Peers => TablesInv'
<1> SUFFICES ASSUME TablesInv, Peers PROVE TablesInv'
  OBVIOUS
<1>1. UNCHANGED <<tables, at, pipes>>
  BY DEF Peers, Arrive, Hangup, SendPiece
<1>2. net' \in [Conn -> Remote]
  <2>1. CASE Arrive
    BY <2>1 DEF Arrive, TablesInv, Typed
  <2>2. ASSUME NEW c \in Conn, Hangup(c) PROVE net' \in [Conn -> Remote]
    <3>1. [net[c] EXCEPT !.eof = TRUE] \in Remote
      BY DEF TablesInv, Typed, Remote
    <3> QED
      BY <2>2, <3>1 DEF Hangup, TablesInv, Typed
  <2>3. ASSUME NEW c \in Conn, NEW p \in Piece, SendPiece(c, p)
        PROVE  net' \in [Conn -> Remote]
    <3> DEFINE n == CASE p = "part" -> 0 [] p = "XFER" -> 2 [] OTHER -> 1
               r == [net[c] EXCEPT !.in = Append(@, p), !.due = @ + n]
    <3>1. n \in Nat
      OBVIOUS
    <3>2. net' = [net EXCEPT ![c] = r]
      BY <2>3 DEF SendPiece, TablesInv, Typed
    <3> HIDE DEF n
    <3>3. net[c] \in Remote /\ Append(net[c].in, p) \in Seq(Piece) /\ net[c].due + n \in Nat
      BY <3>1 DEF TablesInv, Typed, Remote
    <3>4. r \in Remote
      BY <3>3 DEF Remote
    <3> QED
      BY <3>2, <3>4 DEF TablesInv, Typed
  <2> QED
    BY <2>1, <2>2, <2>3 DEF Peers
<1> QED
  BY <1>1, <1>2, PrimedInv DEF tables, pipes, TablesInv, Typed
-----------------------------------------------------------------------------
(* The theorem.                                                            *)

LEMMA TablesInit == Init => TablesInv
<1> SUFFICES ASSUME Init PROVE TablesInv
  OBVIOUS
<1>1. /\ fds = [i \in Index |-> IF i < 3 THEN [fd |-> Own[i + 1], events |-> {"in"},
                                               revents |-> {}]
                                ELSE Empty]
      /\ fd_most_tail = 3 /\ clients = [k \in Index |-> FreeClient] /\ at = AtPoll
      /\ dataPipe = <<>> /\ exitPipe = <<>> /\ net = [c \in Conn |-> Fresh]
  BY DEF Init
<1>2. \A i \in Index : i < 3 => i \in 0 .. 2
  BY Indices
<1>3. fds \in [Index -> Entry]
  <2>1. \A i \in 0 .. 2 : [fd |-> Own[i + 1], events |-> {"in"}, revents |-> {}] \in Entry
    BY OwnValues DEF Entry
  <2> QED
    BY <1>1, <1>2, <2>1, FreeTypes
<1>4. Typed
  BY <1>1, <1>3, FreeTypes, ListenerAssumption DEF Typed, AtPoll
<1>5. OwnEntries(fds)
  BY <1>1, Indices DEF OwnEntries
<1>6. Owned(fds, clients) /\ Behind(fds, fd_most_tail)
  BY <1>1, Indices DEF Owned, Behind, Empty
<1>7. Pointed(fds, clients, fd_most_tail) /\ Apart(clients) /\ Quitting(clients)
  BY <1>1 DEF Pointed, Apart, Quitting, FreeClient
<1> QED
  BY <1>4, <1>5, <1>6, <1>7 DEF TablesInv, Agree

LEMMA TablesStep == TablesInv /\ [Next]_vars => TablesInv'
<1> SUFFICES ASSUME TablesInv, [Next]_vars PROVE TablesInv'
  OBVIOUS
<1>1. CASE Poll
  BY <1>1, PollKeeps
<1>2. CASE Serve
  <2>1. CASE AcceptNobody
    BY <2>1, AcceptNobodyKeeps
  <2>2. CASE Accept
    BY <2>2, AcceptKeeps
  <2>3. CASE AcceptFull
    BY <2>3, AcceptFullKeeps
  <2>4. CASE ReadDataPipe
    BY <2>4, ReadDataPipeKeeps
  <2>5. CASE ReadExitPipe
    BY <2>5, ReadExitPipeKeeps
  <2>6. ASSUME NEW c \in Conn, RecvLine(c) \/ RecvPart(c) \/ RecvNothing(c) PROVE TablesInv'
    BY <2>6, RecvLineKeeps, RecvPartKeeps, RecvNothingKeeps
  <2>7. CASE Write
    BY <2>7, WriteKeeps
  <2> QED
    BY <1>2, <2>1, <2>2, <2>3, <2>4, <2>5, <2>6, <2>7 DEF Serve
<1>3. ASSUME NEW k \in Index, Complete(k) PROVE TablesInv'
  BY <1>3, CompleteKeeps
<1>4. CASE Peers
  BY <1>4, PeersKeep
<1>5. CASE UNCHANGED vars
  BY <1>5, PrimedInv DEF vars, tables, pipes, TablesInv, Typed
<1> QED
  BY <1>1, <1>2, <1>3, <1>4, <1>5 DEF Next

\* An entry with a socket has its one slot.
LEMMA TablesSuffice == TablesInv => TablesAgree
<1> SUFFICES ASSUME TablesInv PROVE TablesAgree
  OBVIOUS
<1>1. \A i \in 0 .. 2 : fds[i].fd = Own[i + 1] /\ "in" \in fds[i].events
  BY DEF TablesInv, Agree, OwnEntries
<1>2. \A k \in Index : clients[k].sock_fd # None =>
        /\ fds[clients[k].nfds].fd = clients[k].sock_fd
        /\ clients[k].nfds < fd_most_tail
  BY DEF TablesInv, Agree, Pointed
<1>3. ASSUME NEW i \in Index \ (0 .. 2), fds[i].fd # None
      PROVE  Cardinality({k \in Index : clients[k].sock_fd = fds[i].fd}) = 1
  <2>1. PICK k \in Index : clients[k].sock_fd = fds[i].fd
    BY <1>3, Indices DEF TablesInv, Agree, Owned
  <2>2. {j \in Index : clients[j].sock_fd = fds[i].fd} = {k}
    BY <1>3, <2>1 DEF TablesInv, Agree, Apart
  <2> QED
    BY <2>2, FS_Singleton
<1> QED
  BY <1>1, <1>2, <1>3 DEF TablesAgree

\* The table of descriptors and the client slots agree in every state, for any
\* number of entries and any number of clients, however the passes over the
\* table go, whatever is served twice in them and whoever leaves meanwhile: the
\* slot protocol_client_index_by_fd finds is the right one, and the entry
\* close_client_connection clears is the client's own.
THEOREM TablesCorrect == Spec => []TablesAgree
<1>1. Init => TablesInv
  BY TablesInit
<1>2. TablesInv /\ [Next]_vars => TablesInv'
  BY TablesStep
<1>3. TablesInv => TablesAgree
  BY TablesSuffice
<1> QED
  BY <1>1, <1>2, <1>3, PTL DEF Spec
-----------------------------------------------------------------------------
(* No connection is cut off while its pass is at it for the first time.    *)

\* What poll has reported of a client is there until its entry is served.
Unread(t, sv, nt) ==
  \A i \in Index : "in" \in t[i].revents /\ t[i].fd \in Conn /\ i \notin sv =>
    nt[t[i].fd].in # <<>> \/ nt[t[i].fd].eof

ReportInv == TablesInv /\ (at # AtPoll => Unread(fds, served, net))

\* Going on from an entry: what is reported of the others is still there.
LEMMA ReportKept ==
  ASSUME NEW t \in [Index -> Entry], NEW i \in Int, Continue(t, i), at \in Index,
         Unread(t, served \cup {at}, net')
  PROVE  at' # AtPoll => Unread(fds', served', net')
<1> SUFFICES ASSUME at' # AtPoll PROVE Unread(fds', served', net')
  OBVIOUS
<1>1. fds' = t /\ served' = served \cup {at}
  BY DEF Continue, Leave
<1> QED
  BY <1>1

\* An entry that is emptied or filled reports nothing, and a descriptor of a
\* client stands in one entry only.
LEMMA OneEntry ==
  ASSUME TablesInv, NEW i \in Index, NEW j \in Index, fds[i].fd \in Conn, fds[i].fd = fds[j].fd
  PROVE  i = j
<1>1. i \in 3 .. MaxClients - 1 /\ j \in 3 .. MaxClients - 1 /\ fds[i].fd # None
  BY OwnValues, Indices, ListenerAssumption DEF TablesInv, Agree, OwnEntries
<1>2. PICK k \in Index : clients[k].sock_fd = fds[i].fd /\ clients[k].nfds = i
  BY <1>1 DEF TablesInv, Agree, Owned
<1>3. PICK n \in Index : clients[n].sock_fd = fds[j].fd /\ clients[n].nfds = j
  BY <1>1 DEF TablesInv, Agree, Owned
<1> QED
  BY <1>1, <1>2, <1>3 DEF TablesInv, Agree, Apart

\* Events may be changed.
LEMMA SameReports ==
  ASSUME NEW t, NEW u, NEW sv, NEW nt, Unread(t, sv, nt),
         \A j \in Index : u[j].fd = t[j].fd /\ u[j].revents = t[j].revents
  PROVE  Unread(u, sv, nt)
BY DEF Unread

LEMMA RequestsReport ==
  ASSUME TablesInv
  PROVE  /\ \A k \in Index : clients[k].sock_fd # None =>
              \A j \in Index : /\ WantWrite(fds, k)[j].fd = fds[j].fd
                               /\ WantWrite(fds, k)[j].revents = fds[j].revents
         /\ \A t \in [Index -> Entry], r \in ClientData :
              \A j \in Index : /\ AfterHandler(t, r)[j].fd = t[j].fd
                               /\ AfterHandler(t, r)[j].revents = t[j].revents
<1>1. ASSUME NEW t \in [Index -> Entry], NEW i \in Index, NEW e, NEW j \in Index
      PROVE  /\ [t EXCEPT ![i].events = e][j].fd = t[j].fd
             /\ [t EXCEPT ![i].events = e][j].revents = t[j].revents
  BY DEF Entry
<1>2. ASSUME NEW k \in Index, clients[k].sock_fd # None, NEW j \in Index
      PROVE  /\ WantWrite(fds, k)[j].fd = fds[j].fd
             /\ WantWrite(fds, k)[j].revents = fds[j].revents
  <2>1. fds \in [Index -> Entry] /\ clients[k].nfds \in Index
    BY DEF TablesInv, Typed, ClientData
  <2> QED
    BY <2>1 DEF WantWrite, Entry
<1>3. ASSUME NEW t \in [Index -> Entry], NEW r \in ClientData, NEW j \in Index
      PROVE  /\ AfterHandler(t, r)[j].fd = t[j].fd
             /\ AfterHandler(t, r)[j].revents = t[j].revents
  BY DEF AfterHandler, Entry, ClientData
<1> QED
  BY <1>2, <1>3

LEMMA ReportStep == ReportInv /\ [Next]_vars => ReportInv'
<1> SUFFICES ASSUME ReportInv, [Next]_vars PROVE ReportInv'
  OBVIOUS
<1>1. TablesInv /\ TablesInv' /\ fds \in [Index -> Entry] /\ net \in [Conn -> Remote]
  BY TablesStep DEF ReportInv, TablesInv, Typed
<1> SUFFICES ASSUME at' # AtPoll PROVE Unread(fds', served', net')
  BY <1>1 DEF ReportInv
<1>2. at # AtPoll => Unread(fds, served, net) /\ at \in Index
  BY <1>1, AtEntry DEF ReportInv
<1>3. at # AtPoll => Unread(fds, served \cup {at}, net)
  BY <1>2 DEF Unread
<1>4. CASE Poll
  <2>1. ASSUME NEW i \in Index, "in" \in fds'[i].revents, fds'[i].fd \in Conn
        PROVE  net[fds'[i].fd].in # <<>> \/ net[fds'[i].fd].eof
    <3>1. fds'[i] = [fds[i] EXCEPT !.revents = IF i < fd_most_tail THEN Reported(fds[i]) ELSE {}]
      BY <1>4 DEF Poll
    <3>2. "in" \in Reported(fds[i]) /\ fds'[i].fd = fds[i].fd
      BY <1>1, <2>1, <3>1 DEF Entry
    <3>3. fds[i].fd \in Readable /\ fds[i].fd \notin {Server, DataPipe, ExitPipe}
      BY <2>1, <3>2, ListenerAssumption DEF Reported
    <3>4. fds[i].fd \in {c \in OpenConns : net[c].in # <<>> \/ net[c].eof}
      BY <3>3 DEF Readable
    <3> QED
      BY <3>2, <3>4
  <2> QED
    BY <1>4, <2>1 DEF Poll, Unread
<1>5. CASE AcceptNobody \/ AcceptFull
  <2>1. at # AtPoll /\ net' = net /\ \E i \in Int : Continue(fds, i)
    BY <1>2, <1>5, AtEntry, <1>1 DEF AcceptNobody, AcceptFull, ServeIn, GoOn, Restart
  <2> QED
    BY <1>1, <1>2, <1>3, <2>1, ReportKept
<1>6. CASE Accept
  <2>1. PICK c \in Conn \ OpenConns, i \in First(Vacant) :
          /\ net' = [net EXCEPT ![c] = Fresh]
          /\ GoOn([fds EXCEPT ![i] = [fd |-> c, events |-> {"out"}, revents |-> {}]])
    BY <1>6 DEF Accept
  <2> DEFINE e == [fd |-> c, events |-> {"out"}, revents |-> {}]
             t == [fds EXCEPT ![i] = e]
  <2>2. at # AtPoll /\ at \in Int /\ i \in Index
    BY <1>1, <1>6, AtEntry DEF Accept, ServeIn, First, Vacant
  <2>3. e \in Entry /\ e.revents = {}
    BY DEF Entry
  <2> HIDE DEF e
  <2>4. t \in [Index -> Entry] /\ \A j \in Index : t[j] = IF j = i THEN e ELSE fds[j]
    BY <1>1, <2>2, <2>3
  <2>5. ASSUME NEW j \in Index, fds[j].fd \in Conn PROVE fds[j].fd # c
    <3>1. j \in 3 .. MaxClients - 1 /\ fds[j].fd # None
      BY <1>1, <2>5, OwnValues, Indices, ListenerAssumption DEF TablesInv, Agree, OwnEntries
    <3>2. \E k \in Index : clients[k].sock_fd = fds[j].fd
      BY <1>1, <3>1 DEF TablesInv, Agree, Owned
    <3> QED
      BY <3>1, <3>2 DEF OpenConns
  <2>6. Unread(t, served \cup {at}, net')
    BY <1>1, <1>3, <2>1, <2>2, <2>3, <2>4, <2>5 DEF Unread
  <2>7. Continue(t, at)
    BY <2>1 DEF GoOn, e
  <2> HIDE DEF t
  <2> QED
    BY <1>2, <2>2, <2>4, <2>6, <2>7, ReportKept
<1>7. CASE ReadDataPipe \/ ReadExitPipe
  <2>1. at # AtPoll /\ at \in Int /\ net' = net
    BY <1>1, <1>7, AtEntry DEF ReadDataPipe, ReadExitPipe, ServeIn
  <2>2. \E t \in [Index -> Entry] :
          /\ Continue(t, at)
          /\ \A j \in Index : t[j].fd = fds[j].fd /\ t[j].revents = fds[j].revents
    <3>1. CASE Continue(fds, at)
      BY <1>1, <3>1
    <3>2. ASSUME NEW k \in Index, clients[k].sock_fd # None
          PROVE  /\ WantWrite(fds, k) \in [Index -> Entry]
                 /\ \A j \in Index : /\ WantWrite(fds, k)[j].fd = fds[j].fd
                                     /\ WantWrite(fds, k)[j].revents = fds[j].revents
      BY <1>1, <3>2, WantWriteKeeps, RequestsReport DEF TablesInv
    <3>3. ASSUME NEW k \in Index, NEW t \in [Index -> Entry], Agree(t, clients, fd_most_tail)
          PROVE  /\ AfterHandler(t, clients[k]) \in [Index -> Entry]
                 /\ \A j \in Index : /\ AfterHandler(t, clients[k])[j].fd = t[j].fd
                                     /\ AfterHandler(t, clients[k])[j].revents = t[j].revents
      <4>1. clients[k] \in ClientData
        BY <1>1 DEF TablesInv, Typed
      <4> QED
        BY <1>1, <3>3, <4>1, AfterHandlerKeeps, RequestsReport
    <3>4. CASE ReadDataPipe /\ dataPipe # <<>>
      <4> DEFINE k == Head(dataPipe)
      <4>1. k \in Index
        BY <1>1, <3>4 DEF TablesInv, Typed
      <4>2. CASE clients[k].sock_fd # None
        <5>1. Continue(AfterHandler(WantWrite(fds, k), clients[k]), at)
          BY <3>4, <4>2 DEF ReadDataPipe, GoOn
        <5> HIDE DEF k
        <5>2. Agree(WantWrite(fds, k), clients, fd_most_tail)
          BY <1>1, <4>1, <4>2, WantWriteKeeps DEF TablesInv
        <5> QED
          BY <3>2, <3>3, <4>1, <4>2, <5>1, <5>2
      <4>3. CASE clients[k].sock_fd = None
        <5>1. Continue(fds, at)
          BY <3>4, <4>3 DEF ReadDataPipe, GoOn
        <5> QED
          BY <1>1, <5>1
      <4> QED
        BY <4>2, <4>3
    <3>5. CASE ReadExitPipe /\ exitPipe # <<>>
      <4> DEFINE k == Head(exitPipe)
      <4>1. k \in Index
        BY <1>1, <3>5 DEF TablesInv, Typed
      <4>2. CASE clients[k].net_state = "NEED_QUIT"
        <5>1. Continue(WantWrite(fds, k), at)
          BY <3>5, <4>2 DEF ReadExitPipe, GoOn
        <5>2. clients[k].sock_fd # None
          BY <1>1, <4>1, <4>2 DEF TablesInv, Agree, Quitting
        <5> HIDE DEF k
        <5> QED
          BY <3>2, <4>1, <5>1, <5>2
      <4>3. CASE clients[k].net_state # "NEED_QUIT"
        <5>1. Continue(AfterHandler(fds, clients[k]), at)
          BY <3>5, <4>3 DEF ReadExitPipe, GoOn
        <5> HIDE DEF k
        <5> QED
          BY <1>1, <3>3, <4>1, <5>1 DEF TablesInv
      <4> QED
        BY <4>2, <4>3
    <3> QED
      BY <1>7, <3>1, <3>4, <3>5 DEF ReadDataPipe, ReadExitPipe, GoOn
  <2>3. PICK t \in [Index -> Entry] :
          /\ Continue(t, at)
          /\ \A j \in Index : t[j].fd = fds[j].fd /\ t[j].revents = fds[j].revents
    BY <2>2
  <2>4. Unread(t, served \cup {at}, net')
    BY <1>3, <2>1, <2>3, SameReports
  <2> QED
    BY <1>2, <2>1, <2>3, <2>4, ReportKept
<1>8. ASSUME NEW c \in Conn, RecvLine(c) \/ RecvPart(c) PROVE Unread(fds', served', net')
  <2>1. PICK k \in Index : /\ Continue(AfterHandler(fds, clients'[k]), at) \/ Continue(AfterHandler(fds, clients[k]), at)
                           /\ net' = [net EXCEPT ![c].in = <<>>]
                           /\ at # AtPoll /\ at \in Int /\ fds[at].fd = c
    <3>1. SlotOf(c) \in Index /\ at \in Int
      BY <1>1, <1>8, BufferHere DEF RecvLine, RecvPart
    <3> QED
      BY <1>8, <3>1 DEF RecvLine, RecvPart, GoOn, ServeIn, Here
  <2>2. clients[k] \in ClientData /\ clients'[k] \in ClientData
    BY <1>1 DEF TablesInv, Typed
  <2>3. PICK r \in ClientData : Continue(AfterHandler(fds, r), at)
    BY <2>1, <2>2
  <2> DEFINE t == AfterHandler(fds, r)
  <2>4. \A j \in Index : t[j].fd = fds[j].fd /\ t[j].revents = fds[j].revents
    BY <1>1, RequestsReport
  <2>5. t \in [Index -> Entry]
    BY <1>1 DEF AfterHandler, ClientData, Entry
  <2> HIDE DEF t
  <2>6. \A d \in Conn : d # c => net'[d] = net[d]
    BY <1>1, <2>1
  <2>7. ASSUME NEW i \in Index, t[i].fd \in Conn, i \notin served \cup {at} PROVE t[i].fd # c
    BY <1>1, <1>2, <2>1, <2>4, <2>7, OneEntry
  <2>8. Unread(t, served \cup {at}, net')
    BY <1>3, <2>1, <2>4, <2>6, <2>7 DEF Unread
  <2> QED
    BY <1>2, <2>1, <2>3, <2>5, <2>8, ReportKept DEF t
<1>9. ASSUME NEW k \in Index, clients[k].sock_fd # None, NEW i \in Int,
             Continue(Closed(fds, k), i), at # AtPoll,
             \A c \in Conn : net'[c].in = net[c].in /\ net'[c].eof = net[c].eof
      PROVE  Unread(fds', served', net')
  <2> DEFINE t == Closed(fds, k)
  <2>1. t \in [Index -> Entry]
    BY <1>1, <1>9, CloseKeeps
  <2>2. \A j \in Index : t[j] = fds[j] \/ t[j] = Empty
    BY <1>1, <1>9 DEF Closed
  <2> HIDE DEF t
  <2>3. Unread(t, served \cup {at}, net')
    BY <1>3, <1>9, <2>2 DEF Unread, Empty
  <2> QED
    BY <1>2, <1>9, <2>1, <2>3, ReportKept DEF t
<1>10. ASSUME NEW c \in Conn, RecvNothing(c) PROVE Unread(fds', served', net')
  <2>1. SlotOf(c) \in Index /\ clients[SlotOf(c)].sock_fd # None
    BY <1>1, <1>10, BufferHere DEF RecvNothing
  <2>2. -1 \in Int /\ Continue(Closed(fds, SlotOf(c)), -1) /\ at # AtPoll /\ net' = net
    BY <1>10 DEF RecvNothing, Restart, ServeIn
  <2> QED
    BY <1>9, <2>1, <2>2
<1>11. CASE Write
  <2> DEFINE k == SlotOf(Here.fd)
             t == [fds EXCEPT ![at].events = {"in"}]
  <2>1. at # AtPoll /\ at \in Int /\ k \in Index /\ clients[k].sock_fd # None
    BY <1>1, <1>11, SlotHere, AtEntry DEF Write, ServeOut
  <2>2. \A c \in Conn : net'[c].in = net[c].in /\ net'[c].eof = net[c].eof
    BY <1>1, <1>11 DEF Write, Remote
  <2>3. Continue(Closed(fds, k), at) \/ Continue(t, at)
    BY <1>11 DEF Write, GoOn
  <2>4. t \in [Index -> Entry] /\ \A j \in Index : t[j].fd = fds[j].fd /\ t[j].revents = fds[j].revents
    BY <1>1, <1>2, <2>1 DEF Entry
  <2> HIDE DEF k, t
  <2>5. CASE Continue(Closed(fds, k), at)
    BY <1>9, <2>1, <2>2, <2>5
  <2>6. CASE Continue(t, at)
    <3>1. Unread(t, served \cup {at}, net)
      BY <1>3, <2>1, <2>4, SameReports
    <3>2. Unread(t, served \cup {at}, net')
      BY <2>2, <3>1 DEF Unread
    <3> QED
      BY <1>2, <2>1, <2>4, <2>6, <3>2, ReportKept
  <2> QED
    BY <2>3, <2>5, <2>6
<1>12. CASE \E k \in Index : Complete(k)
  BY <1>2, <1>12 DEF Complete, ghosts, Unread
<1>13. CASE Peers
  <2>1. \A c \in Conn : (net[c].in # <<>> => net'[c].in # <<>>) /\ (net[c].eof => net'[c].eof)
    <3>1. CASE Arrive
      BY <3>1 DEF Arrive
    <3>2. ASSUME NEW c \in Conn, Hangup(c), NEW d \in Conn
          PROVE  net'[d].in = net[d].in /\ (net[d].eof => net'[d].eof)
      BY <1>1, <3>2 DEF Hangup, Remote
    <3>3. ASSUME NEW c \in Conn, NEW p \in Piece, SendPiece(c, p), NEW d \in Conn
          PROVE  (net[d].in # <<>> => net'[d].in # <<>>) /\ net'[d].eof = net[d].eof
      <4> DEFINE n == net[c].due + (CASE p = "part" -> 0 [] p = "XFER" -> 2 [] OTHER -> 1)
      <4>1. net' = [net EXCEPT ![c] = [net[c] EXCEPT !.in = Append(@, p), !.due = n]]
        BY <1>1, <3>3 DEF SendPiece
      <4> HIDE DEF n
      <4>2. net[c] \in Remote /\ Append(net[c].in, p) # <<>>
        BY <1>1 DEF Remote
      <4> QED
        BY <1>1, <4>1, <4>2 DEF Remote
    <3> QED
      BY <1>13, <3>1, <3>2, <3>3 DEF Peers
  <2>2. UNCHANGED <<fds, at, served>>
    BY <1>13 DEF Peers, Arrive, Hangup, SendPiece, tables, ghosts
  <2> QED
    BY <1>2, <2>1, <2>2 DEF Unread
<1>14. CASE UNCHANGED vars
  BY <1>2, <1>14 DEF vars, tables, ghosts, Unread
<1> QED
  BY <1>4, <1>5, <1>6, <1>7, <1>8, <1>10, <1>11, <1>12, <1>13, <1>14 DEF Next, Serve

\* Who disappears has left, has said QUIT, or is served for the second time.
LEMMA CutStep ==
  ASSUME ReportInv, [Next]_vars, NEW c \in OpenConns, c \notin OpenConns'
  PROVE  at \in served \/ net[c].eof \/ clients[SlotOf(c)].net_state = "NEED_QUIT"
<1>1. TablesInv /\ clients \in [Index -> ClientData]
  BY DEF ReportInv, TablesInv, Typed
<1>2. PICK k \in Index : clients[k].sock_fd = c /\ c # None /\ c \in Conn
  BY <1>1 DEF OpenConns, ClientData
<1>3. clients'[k].sock_fd # c
  BY <1>2 DEF OpenConns
<1>4. CASE \E d \in Conn : RecvNothing(d)
  <2>1. PICK d \in Conn : RecvNothing(d)
    BY <1>4
  <2>2. /\ SlotOf(d) \in Index /\ clients[SlotOf(d)].sock_fd = d
        /\ clients' = [clients EXCEPT ![SlotOf(d)] = FreeClient]
    BY <1>1, <2>1, BufferHere DEF RecvNothing, CloseClient
  <2>3. d = c
    BY <1>1, <1>2, <1>3, <2>2
  <2>4. at # AtPoll /\ "in" \in fds[at].revents /\ fds[at].fd = c /\ net[c].in = <<>> /\ at \in Index
    BY <1>1, <2>1, <2>3, AtEntry DEF RecvNothing, ServeIn, Here
  <2> QED
    BY <1>2, <2>4 DEF ReportInv, Unread
<1>5. CASE Write
  <2> DEFINE n == SlotOf(Here.fd)
  <2>1. n \in Index /\ clients[n].sock_fd = Here.fd /\ Here.fd \in Conn
    BY <1>1, <1>5, SlotHere DEF Write, ServeOut
  <2>2. CASE clients[n].net_state = "NEED_QUIT"
    <3>1. clients' = [clients EXCEPT ![n] = FreeClient]
      BY <1>5, <2>2 DEF Write, CloseClient
    <3>2. n = k
      BY <1>1, <1>2, <1>3, <2>1, <3>1
    <3> QED
      BY <1>2, <2>1, <2>2, <3>2
  <2>3. CASE clients[n].net_state # "NEED_QUIT"
    <3>1. clients' = [clients EXCEPT ![n].net_lock = FALSE, ![n].net_state = "IDLE"]
      BY <1>5, <2>3 DEF Write
    <3> QED
      BY <1>1, <1>2, <1>3, <2>1, <3>1 DEF ClientData
  <2> QED
    BY <2>2, <2>3
<1>6. CASE Accept
  <2>1. PICK d \in Conn \ OpenConns, i \in First(Vacant), n \in First(FreeSlots) :
          clients' = [clients EXCEPT ![n] = [@ EXCEPT !.sock_fd = d, !.nfds = i,
                                               !.net_state = "NEED_SEND", !.net_lock = TRUE]]
    BY <1>6 DEF Accept
  <2>2. n # k
    BY <1>2 DEF First, FreeSlots
  <2> QED
    BY <1>1, <1>2, <1>3, <2>1, <2>2
<1>7. ASSUME NEW d \in Conn, RecvLine(d) \/ RecvPart(d) PROVE FALSE
  <2>1. SlotOf(d) \in Index
    BY <1>1, <1>7, BufferHere DEF RecvLine, RecvPart
  <2>2. CASE RecvLine(d)
    <3> DEFINE n == SlotOf(d)
               b == Buffered(n)
    <3>1. PICK line \in First(Ends(b)) :
            clients' = [clients EXCEPT ![n] =
              [@ EXCEPT !.net_lock = TRUE,
                        !.net_state = IF b[line] = "QUIT" THEN "NEED_QUIT" ELSE "NEED_SEND",
                        !.buffer = SubSeq(b, line + 1, Len(b))]]
      BY <2>2 DEF RecvLine
    <3> DEFINE s == IF b[line] = "QUIT" THEN "NEED_QUIT" ELSE "NEED_SEND"
               u == SubSeq(b, line + 1, Len(b))
    <3>2. clients' = [clients EXCEPT ![n] = [clients[n] EXCEPT !.net_lock = TRUE, !.net_state = s, !.buffer = u]]
      BY <3>1
    <3> HIDE DEF n, s, u
    <3>3. clients'[k].sock_fd = clients[k].sock_fd
      BY <1>1, <3>2 DEF ClientData
    <3> QED
      BY <1>2, <1>3, <3>3
  <2>3. CASE RecvPart(d)
    <3>1. clients'[k].sock_fd = clients[k].sock_fd
      BY <1>1, <2>1, <2>3 DEF RecvPart, ClientData
    <3> QED
      BY <1>2, <1>3, <3>1
  <2> QED
    BY <1>7, <2>2, <2>3
<1>8. ASSUME NEW n \in Index, Complete(n) PROVE FALSE
  <2>1. clients'[k].sock_fd = clients[k].sock_fd
    BY <1>1, <1>8 DEF Complete, ClientData
  <2> QED
    BY <1>2, <1>3, <2>1
<1>9. ASSUME UNCHANGED clients PROVE FALSE
  BY <1>2, <1>3, <1>9
<1>10. CASE Poll \/ AcceptNobody \/ AcceptFull \/ ReadDataPipe \/ ReadExitPipe \/ Peers \/ UNCHANGED vars
  BY <1>9, <1>10 DEF Poll, AcceptNobody, AcceptFull, ReadDataPipe, ReadExitPipe, Peers, Arrive,
       Hangup, SendPiece, vars, tables
<1> QED
  BY <1>4, <1>5, <1>6, <1>7, <1>8, <1>10 DEF Next, Serve

\* The main thread does not close the connection of a client that has neither
\* left nor said QUIT, unless the pass has started again and serves its entry
\* for the second time: the divergence of listener.c is the only one there is.
THEOREM ConnectionsKept == Spec => LiveConnectionKept
<1>1. Init => ReportInv
  <2>1. Init => TablesInv /\ at = AtPoll
    BY TablesInit DEF Init
  <2> QED
    BY <2>1 DEF ReportInv
<1>2. ReportInv /\ [Next]_vars => ReportInv'
  BY ReportStep
<1>3. ReportInv /\ [Next]_vars =>
        [\A c \in OpenConns : c \in OpenConns' \/ at \in served \/ net[c].eof
           \/ clients[SlotOf(c)].net_state = "NEED_QUIT"]_vars
  BY CutStep
<1> QED
  BY <1>1, <1>2, <1>3, PTL DEF Spec, LiveConnectionKept

-----------------------------------------------------------------------------
(* The types, and the bounds on lines and connections.                     *)

\* A slot nobody has is empty, and what the client of a slot has sent and no
\* handler has seen is within the bound.
Room(r, nt)   == IF r.sock_fd = None THEN r.buffer = <<>>
                 ELSE Len(r.buffer) + Len(nt[r.sock_fd].in) <= MaxLine
Lines(cl, nt) == \A k \in Index : Room(cl[k], nt)

Bounds ==
  /\ served \subseteq Index /\ twice \in BOOLEAN /\ jobs \subseteq Index
  /\ backlog \in 0 .. Cardinality(Conn) /\ arrivals \in 0 .. MaxArrivals

LinesInv == TablesInv /\ Bounds /\ Lines(clients, net)

LEMMA ContinueBounds ==
  ASSUME Bounds, TablesInv, at # AtPoll, NEW t, NEW i, Continue(t, i)
  PROVE  served' \subseteq Index /\ twice' \in BOOLEAN
<1>1. at \in Index
  BY AtEntry
<1> QED
  BY <1>1 DEF Continue, Bounds

\* The slot of a connection is the only one that has it.
LEMMA TheSlot ==
  ASSUME TablesInv, NEW k \in Index, clients[k].sock_fd # None
  PROVE  SlotOf(clients[k].sock_fd) = k /\ clients[k].sock_fd \in Conn
<1>1. \A j \in Index : clients[j].sock_fd = clients[k].sock_fd => j = k
  BY DEF TablesInv, Agree, Apart
<1>2. clients[k].sock_fd \in Conn
  BY DEF TablesInv, Typed, ClientData
<1> QED
  BY <1>1, <1>2 DEF SlotOf

\* The connection of another slot is another connection.
LEMMA OtherSlots ==
  ASSUME TablesInv, NEW k \in Index, NEW c \in Conn, clients[k].sock_fd = c, NEW j \in Index, j # k
  PROVE  clients[j].sock_fd # c
<1>1. c # None
  BY ListenerAssumption
<1> QED
  BY <1>1, TheSlot

LEMMA SameLines ==
  ASSUME TablesInv, Lines(clients, net), NEW cl, NEW nt,
         \A k \in Index : cl[k].sock_fd = clients[k].sock_fd /\ cl[k].buffer = clients[k].buffer,
         \A c \in Conn : nt[c].in = net[c].in
  PROVE  Lines(cl, nt)
BY TheSlot DEF Lines, Room

\* One slot changes, with what is on the way to it; the others do not have its
\* connection.
OthersSame(cl, nt, k, c) ==
  /\ \A j \in Index : j # k => cl[j] = clients[j] /\ clients[j].sock_fd # c
  /\ \A d \in Conn : d # c => nt[d].in = net[d].in

LEMMA OneLine ==
  ASSUME TablesInv, Lines(clients, net), NEW cl, NEW nt, NEW k \in Index, NEW c \in Conn,
         OthersSame(cl, nt, k, c), Room(cl[k], nt)
  PROVE  Lines(cl, nt)
<1>1. ASSUME NEW j \in Index, j # k
      PROVE  Room(cl[j], nt)
  <2>1. cl[j] = clients[j] /\ clients[j].sock_fd # c
    BY <1>1 DEF OthersSame
  <2>2. CASE clients[j].sock_fd = None
    BY <2>1, <2>2 DEF Lines, Room
  <2>3. CASE clients[j].sock_fd # None
    <3>1. clients[j].sock_fd \in Conn /\ clients[j].sock_fd # c
      BY <2>1, <2>3, TheSlot
    <3>2. nt[clients[j].sock_fd].in = net[clients[j].sock_fd].in
      BY <3>1 DEF OthersSame
    <3> QED
      BY <2>1, <2>3, <3>2 DEF Lines, Room
  <2> QED
    BY <2>2, <2>3
<1> QED
  BY <1>1 DEF Lines

\* Closing a connection empties its slot.
LEMMA CloseLines ==
  ASSUME TablesInv, Lines(clients, net), NEW k \in Index, NEW cl, NEW nt,
         cl = [clients EXCEPT ![k] = FreeClient], \A c \in Conn : nt[c].in = net[c].in
  PROVE  Lines(cl, nt)
<1>1. \A j \in Index : cl[j] = IF j = k THEN FreeClient ELSE clients[j]
  BY DEF TablesInv, Typed
<1>2. FreeClient.sock_fd = None /\ FreeClient.buffer = <<>>
  BY DEF FreeClient
<1>3. \A j \in Index : clients[j].sock_fd # None => clients[j].sock_fd \in Conn
  BY TheSlot
<1>4. ASSUME NEW j \in Index PROVE Room(cl[j], nt)
  <2>1. Room(clients[j], net)
    BY DEF Lines
  <2>2. CASE j = k
    BY <1>1, <1>2, <2>2 DEF Room
  <2>3. CASE j # k
    <3>1. cl[j] = clients[j]
      BY <1>1, <2>3
    <3> QED
      BY <1>3, <2>1, <3>1 DEF Room
  <2> QED
    BY <2>2, <2>3
<1> QED
  BY <1>4 DEF Lines

\* What is buffered for a client, with the lengths of its two parts.
LEMMA Lengths ==
  ASSUME TablesInv, Lines(clients, net), NEW k \in Index, NEW c \in Conn, clients[k].sock_fd = c
  PROVE  /\ Buffered(k) = clients[k].buffer \o net[c].in
         /\ clients[k].buffer \in Seq(Piece) /\ net[c].in \in Seq(Piece)
         /\ Len(clients[k].buffer) \in Nat /\ Len(net[c].in) \in Nat
         /\ Len(Buffered(k)) = Len(clients[k].buffer) + Len(net[c].in)
         /\ Len(Buffered(k)) \in Nat /\ Len(Buffered(k)) <= MaxLine
<1>1. clients[k] \in ClientData /\ net[c] \in Remote
  BY DEF TablesInv, Typed
<1>2. clients[k].buffer \in Seq(Piece) /\ net[c].in \in Seq(Piece)
  BY <1>1 DEF ClientData, Remote
<1>3. Buffered(k) = clients[k].buffer \o net[c].in
  BY DEF Buffered
<1>4. /\ Len(clients[k].buffer) \in Nat /\ Len(net[c].in) \in Nat
      /\ Len(Buffered(k)) = Len(clients[k].buffer) + Len(net[c].in)
  BY <1>2, <1>3
<1>5. Len(clients[k].buffer) + Len(net[c].in) <= MaxLine
  BY ListenerAssumption DEF Lines, Room
<1>6. Buffered(k) \in Seq(Piece)
  BY <1>2, <1>3
<1>7. Len(Buffered(k)) \in Nat
  BY <1>6
<1> QED
  BY <1>2, <1>3, <1>4, <1>5, <1>7

\* recv takes all there is, and what is left of it stays in the buffer.
LEMMA RecvLines ==
  ASSUME TablesInv, Lines(clients, net), NEW k \in Index, NEW c \in Conn, clients[k].sock_fd = c,
         NEW cl, \A j \in Index : j # k => cl[j] = clients[j],
         cl[k].sock_fd = c, Len(cl[k].buffer) <= Len(Buffered(k)), Len(cl[k].buffer) \in Nat,
         NEW nt, nt[c].in = <<>>, \A d \in Conn : d # c => nt[d].in = net[d].in
  PROVE  Lines(cl, nt)
<1>1. \A j \in Index : j # k => clients[j].sock_fd # c
  BY OtherSlots
<1>2. Len(Buffered(k)) \in Nat /\ Len(Buffered(k)) <= MaxLine
  BY Lengths
<1>3. Len(cl[k].buffer) + Len(nt[c].in) <= MaxLine
  <2>1. Len(nt[c].in) = 0
    OBVIOUS
  <2> QED
    BY <1>2, <2>1, ListenerAssumption
<1>4. Room(cl[k], nt)
  BY <1>3, ListenerAssumption DEF Room
<1>5. OthersSame(cl, nt, k, c)
  BY <1>1 DEF OthersSame
<1> QED
  BY <1>4, <1>5, OneLine

\* Every step keeps the bound on lines.
LEMMA LinesStep ==
  ASSUME TablesInv, Bounds, Lines(clients, net), Next
  PROVE  Lines(clients', net')
<1>0. clients \in [Index -> ClientData] /\ net \in [Conn -> Remote]
  BY DEF TablesInv, Typed
<1>1. CASE UNCHANGED <<clients, net>>
  BY <1>1, SameLines
<1>2. CASE Accept
  <2>1. PICK c \in Conn \ OpenConns, i \in First(Vacant), k \in First(FreeSlots) :
          /\ clients' = [clients EXCEPT ![k] =
                           [@ EXCEPT !.sock_fd = c, !.nfds = i,
                                     !.net_state = "NEED_SEND", !.net_lock = TRUE]]
          /\ net' = [net EXCEPT ![c] = Fresh]
    BY <1>2 DEF Accept
  <2>2. k \in Index /\ clients[k].sock_fd = None
    BY DEF First, FreeSlots
  <2>3. c \in Conn /\ c # None /\ \A j \in Index : clients[j].sock_fd # c
    BY ListenerAssumption DEF OpenConns
  <2>4. clients[k].buffer = <<>>
    BY <2>2 DEF Lines, Room
  <2>5. clients'[k].sock_fd = c /\ clients'[k].buffer = <<>>
    <3> DEFINE r == [clients[k] EXCEPT !.sock_fd = c, !.nfds = i,
                                       !.net_state = "NEED_SEND", !.net_lock = TRUE]
    <3>1. clients[k] \in ClientData
      BY <1>0, <2>2
    <3>2. r.sock_fd = c /\ r.buffer = <<>>
      BY <2>4, <3>1 DEF ClientData
    <3>3. clients' = [clients EXCEPT ![k] = r]
      BY <2>1
    <3> HIDE DEF r
    <3> QED
      BY <1>0, <2>2, <3>2, <3>3
  <2>6. \A j \in Index : j # k => clients'[j] = clients[j] /\ clients[j].sock_fd # c
    BY <1>0, <2>1, <2>3
  <2>7. net'[c].in = <<>> /\ \A d \in Conn : d # c => net'[d].in = net[d].in
    BY <1>0, <2>1, <2>3 DEF Fresh
  <2>8. Room(clients'[k], net')
    <3>1. Len(clients'[k].buffer) + Len(net'[c].in) = 0
      BY <2>5, <2>7
    <3> QED
      BY <2>3, <2>5, <3>1, ListenerAssumption DEF Room
  <2>9. OthersSame(clients', net', k, c)
    BY <2>6, <2>7 DEF OthersSame
  <2> QED
    BY <2>2, <2>3, <2>8, <2>9, OneLine
<1>3. ASSUME NEW c \in Conn, RecvLine(c) \/ RecvPart(c) PROVE Lines(clients', net')
  <2> DEFINE k == SlotOf(c)
  <2>1. k \in Index /\ clients[k].sock_fd = c /\ c # None /\ Buffered(k) \in Seq(Piece)
    BY <1>3, BufferHere DEF RecvLine, RecvPart
  <2>2. net' = [net EXCEPT ![c].in = <<>>]
    BY <1>3 DEF RecvLine, RecvPart
  <2>3. net'[c].in = <<>> /\ \A d \in Conn : d # c => net'[d].in = net[d].in
    <3>1. net[c] \in Remote
      BY <1>0
    <3> QED
      BY <1>0, <2>2, <3>1 DEF Remote
  <2>4. /\ \A j \in Index : j # k => clients'[j] = clients[j]
        /\ clients'[k].sock_fd = c
        /\ Len(clients'[k].buffer) <= Len(Buffered(k)) /\ Len(clients'[k].buffer) \in Nat
    <3>1. CASE RecvPart(c)
      <4> DEFINE r == [clients[k] EXCEPT !.buffer = Buffered(k)]
      <4>1. clients' = [clients EXCEPT ![k] = r]
        BY <3>1 DEF RecvPart
      <4>2. clients[k] \in ClientData
        BY <1>0, <2>1
      <4>3. r.sock_fd = c /\ r.buffer = Buffered(k)
        BY <2>1, <4>2 DEF ClientData
      <4>4. Len(Buffered(k)) \in Nat
        BY <2>1
      <4> HIDE DEF r, k
      <4> QED
        BY <1>0, <2>1, <4>1, <4>3, <4>4
    <3>2. CASE RecvLine(c)
      <4> DEFINE b == Buffered(k)
      <4>1. PICK line \in First(Ends(b)) :
              clients' = [clients EXCEPT ![k] =
                [@ EXCEPT !.net_lock = TRUE,
                          !.net_state = IF b[line] = "QUIT" THEN "NEED_QUIT" ELSE "NEED_SEND",
                          !.buffer = SubSeq(b, line + 1, Len(b))]]
        BY <3>2 DEF RecvLine
      <4> DEFINE s == IF b[line] = "QUIT" THEN "NEED_QUIT" ELSE "NEED_SEND"
                 u == SubSeq(b, line + 1, Len(b))
                 r == [clients[k] EXCEPT !.net_lock = TRUE, !.net_state = s, !.buffer = u]
      <4>2. clients' = [clients EXCEPT ![k] = r]
        BY <4>1
      <4>3. clients[k] \in ClientData
        BY <1>0, <2>1
      <4>4. line \in 1 .. Len(b) /\ Len(b) \in Nat
        BY <2>1 DEF First, Ends
      <4>5. Len(u) <= Len(b) /\ Len(u) \in Nat
        BY <2>1, <4>4, SubSeqProperties
      <4> HIDE DEF k, b, u
      <4>6. r.sock_fd = c /\ r.buffer = u
        BY <2>1, <4>3 DEF ClientData
      <4> HIDE DEF r
      <4>7. /\ \A j \in Index : j # k => clients'[j] = clients[j]
            /\ clients'[k] = r
        BY <1>0, <2>1, <4>2
      <4> QED
        BY <4>5, <4>6, <4>7 DEF b
    <3> QED
      BY <1>3, <3>1, <3>2
  <2> HIDE DEF k, Index
  <2> QED
    BY <2>1, <2>3, <2>4, RecvLines
<1>4. ASSUME NEW c \in Conn, RecvNothing(c) PROVE Lines(clients', net')
  <2>1. SlotOf(c) \in Index
    BY <1>4, BufferHere DEF RecvNothing
  <2> QED
    BY <1>4, <2>1, CloseLines DEF RecvNothing, CloseClient
<1>5. CASE Write
  <2> DEFINE c == Here.fd
             k == SlotOf(c)
             d == IF net[c].due > 0 THEN net[c].due - 1 ELSE 0
  <2>1. c \in Conn /\ k \in Index /\ clients[k].sock_fd = c
    BY <1>5, SlotHere DEF Write, ServeOut
  <2>2. net' = [net EXCEPT ![c].due = d]
    BY <1>5 DEF Write
  <2>3. net[c] \in Remote /\ clients[k] \in ClientData
    BY <1>0, <2>1
  <2> HIDE DEF c, k, d
  <2>4. \A e \in Conn : net'[e].in = net[e].in
    BY <1>0, <2>1, <2>2, <2>3 DEF Remote
  <2>5. CASE clients[k].net_state = "NEED_QUIT"
    <3>1. clients' = [clients EXCEPT ![k] = FreeClient]
      BY <1>5, <2>5 DEF Write, CloseClient, c, k
    <3> QED
      BY <2>1, <2>4, <3>1, CloseLines
  <2>6. CASE clients[k].net_state # "NEED_QUIT"
    <3>1. clients' = [clients EXCEPT ![k].net_lock = FALSE, ![k].net_state = "IDLE"]
      BY <1>5, <2>6 DEF Write, c, k
    <3>2. \A j \in Index : clients'[j].sock_fd = clients[j].sock_fd
                           /\ clients'[j].buffer = clients[j].buffer
      BY <1>0, <2>3, <3>1 DEF ClientData
    <3> QED
      BY <2>4, <3>2, SameLines
  <2> QED
    BY <2>5, <2>6
<1>6. ASSUME NEW k \in Index, Complete(k) PROVE Lines(clients', net')
  <2>1. clients' = [clients EXCEPT ![k].net_lock = TRUE, ![k].net_state = "NEED_SEND"]
        /\ net' = net
    BY <1>6 DEF Complete
  <2>2. clients[k] \in ClientData
    BY <1>0
  <2>3. \A j \in Index : clients'[j].sock_fd = clients[j].sock_fd
                         /\ clients'[j].buffer = clients[j].buffer
    BY <1>0, <2>1, <2>2 DEF ClientData
  <2> QED
    BY <2>1, <2>3, SameLines
<1>7. ASSUME NEW c \in Conn, Hangup(c) PROVE Lines(clients', net')
  <2>1. net' = [net EXCEPT ![c].eof = TRUE] /\ clients' = clients
    BY <1>7 DEF Hangup, tables
  <2>2. net[c] \in Remote
    BY <1>0
  <2>3. \A d \in Conn : net'[d].in = net[d].in
    BY <1>0, <2>1, <2>2 DEF Remote
  <2> QED
    BY <2>1, <2>3, SameLines
<1>8. ASSUME NEW c \in Conn, NEW p \in Piece, SendPiece(c, p) PROVE Lines(clients', net')
  <2> DEFINE more == CASE p = "part" -> 0 [] p = "XFER" -> 2 [] OTHER -> 1
             r == [net[c] EXCEPT !.in = Append(@, p), !.due = @ + more]
  <2>1. net' = [net EXCEPT ![c] = r] /\ clients' = clients
    BY <1>8 DEF SendPiece, tables
  <2>2. PICK k \in Index : clients[k].sock_fd = c /\ c # None
    BY <1>8 DEF SendPiece, OpenConns
  <2>3. SlotOf(c) = k
    BY <2>2, TheSlot
  <2>4. Len(Buffered(k)) < MaxLine
    BY <1>8, <2>3 DEF SendPiece, Unhandled
  <2>5. /\ net[c].in \in Seq(Piece)
        /\ Len(clients[k].buffer) \in Nat /\ Len(net[c].in) \in Nat
        /\ Len(Buffered(k)) = Len(clients[k].buffer) + Len(net[c].in)
    BY <2>2, Lengths
  <2>6. net[c] \in Remote
    BY <1>0
  <2> HIDE DEF more
  <2>7. r.in = Append(net[c].in, p)
    BY <2>6 DEF Remote
  <2> HIDE DEF r
  <2>8. net'[c].in = Append(net[c].in, p) /\ \A d \in Conn : d # c => net'[d].in = net[d].in
    BY <1>0, <2>1, <2>7
  <2>9. Len(net'[c].in) = Len(net[c].in) + 1
    BY <2>5, <2>8
  <2>10. Len(clients'[k].buffer) + Len(net'[c].in) <= MaxLine
    <3> DEFINE x == Len(clients[k].buffer)
               y == Len(net[c].in)
               z == Len(Buffered(k))
    <3>1. x \in Nat /\ y \in Nat /\ z = x + y /\ z < MaxLine
      BY <2>4, <2>5
    <3>2. Len(clients'[k].buffer) = x /\ Len(net'[c].in) = y + 1
      BY <2>1, <2>9
    <3> HIDE DEF x, y, z
    <3>3. x + (y + 1) <= MaxLine
      BY <3>1, ListenerAssumption
    <3> QED
      BY <3>2, <3>3
  <2>11. Room(clients'[k], net')
    BY <2>1, <2>2, <2>10 DEF Room
  <2>12. \A j \in Index : j # k => clients'[j] = clients[j] /\ clients[j].sock_fd # c
    BY <2>1, <2>2, OtherSlots
  <2>13. OthersSame(clients', net', k, c)
    BY <2>8, <2>12 DEF OthersSame
  <2> QED
    BY <2>2, <2>11, <2>13, OneLine
<1>9. Poll \/ AcceptNobody \/ AcceptFull \/ ReadDataPipe \/ ReadExitPipe \/ Arrive
        => UNCHANGED <<clients, net>>
  BY DEF Poll, AcceptNobody, AcceptFull, ReadDataPipe, ReadExitPipe, Arrive, tables
<1>10. CASE Serve
  BY <1>1, <1>2, <1>3, <1>4, <1>5, <1>9, <1>10 DEF Serve
<1>11. CASE Peers
  BY <1>1, <1>7, <1>8, <1>9, <1>11 DEF Peers
<1> QED
  BY <1>1, <1>6, <1>9, <1>10, <1>11 DEF Next

\* The passes serve entries of the table, a data thread works for a slot, and
\* no more connections wait than the system has descriptors for.
LEMMA BoundsStep ==
  ASSUME IsFiniteSet(Conn), TablesInv, Bounds, [Next]_vars
  PROVE  Bounds'
<1>0. backlog \in Nat /\ arrivals \in Nat /\ Cardinality(Conn) \in Nat
  BY FS_CardinalityType DEF Bounds
<1>1. served' \subseteq Index /\ twice' \in BOOLEAN
  <2>1. CASE UNCHANGED ghosts
    BY <2>1 DEF ghosts, Bounds
  <2>2. ASSUME NEW t, NEW i, at # AtPoll, Continue(t, i) PROVE served' \subseteq Index /\ twice' \in BOOLEAN
    BY <2>2, ContinueBounds
  <2>3. Poll \/ (\E k \in Index : Complete(k)) \/ Peers => UNCHANGED ghosts
    BY DEF Poll, Complete, Peers, Arrive, Hangup, SendPiece
  <2>4. Serve => \E t, i : at # AtPoll /\ Continue(t, i)
    BY DEF Serve, AcceptNobody, Accept, AcceptFull, ReadDataPipe, ReadExitPipe, RecvLine,
           RecvPart, RecvNothing, Write, GoOn, Restart, ServeIn, ServeOut
  <2>5. UNCHANGED vars => UNCHANGED ghosts
    BY DEF vars
  <2> QED
    BY <2>1, <2>2, <2>3, <2>4, <2>5 DEF Next
<1>2. jobs' \subseteq Index
  <2>1. CASE UNCHANGED jobs
    BY <2>1 DEF Bounds
  <2>2. ASSUME NEW c \in Conn, RecvLine(c) PROVE jobs' \subseteq Index
    BY <2>2, BufferHere DEF RecvLine, Bounds
  <2>3. ASSUME NEW k \in Index, Complete(k) PROVE jobs' \subseteq Index
    BY <2>3 DEF Complete, Bounds
  <2>4. CASE UNCHANGED vars
    BY <2>1, <2>4 DEF vars, pipes
  <2>5. Poll \/ AcceptNobody \/ Accept \/ AcceptFull \/ ReadDataPipe \/ ReadExitPipe
          \/ Write \/ Peers \/ (\E c \in Conn : RecvPart(c) \/ RecvNothing(c)) => UNCHANGED jobs
    BY DEF Poll, AcceptNobody, Accept, AcceptFull, ReadDataPipe, ReadExitPipe, Write, Peers,
           Arrive, Hangup, SendPiece, RecvPart, RecvNothing, pipes
  <2> QED
    BY <2>1, <2>2, <2>3, <2>4, <2>5 DEF Next, Serve
<1>3. backlog' \in 0 .. Cardinality(Conn) /\ arrivals' \in 0 .. MaxArrivals
  <2>1. CASE UNCHANGED world
    BY <2>1 DEF world, Bounds
  <2>2. CASE Accept \/ AcceptFull
    <3>1. backlog > 0 /\ backlog' = backlog - 1 /\ arrivals' = arrivals
      BY <2>2 DEF Accept, AcceptFull
    <3> QED
      BY <1>0, <3>1 DEF Bounds
  <2>3. CASE Arrive
    <3>1. Cardinality(OpenConns) \in Nat
      <4>1. OpenConns \subseteq Conn
        BY DEF OpenConns, TablesInv, Typed, ClientData
      <4> QED
        BY <4>1, FS_Subset, FS_CardinalityType
    <3>2. /\ arrivals > 0 /\ backlog + Cardinality(OpenConns) < Cardinality(Conn)
          /\ arrivals' = arrivals - 1 /\ backlog' = backlog + 1
      BY <2>3 DEF Arrive
    <3> QED
      BY <1>0, <3>1, <3>2, ListenerAssumption DEF Bounds
  <2>4. CASE UNCHANGED vars
    BY <2>1, <2>4 DEF vars
  <2>5. Poll \/ AcceptNobody \/ ReadDataPipe \/ ReadExitPipe \/ Write
          \/ (\E k \in Index : Complete(k))
          \/ (\E c \in Conn : RecvLine(c) \/ RecvPart(c) \/ RecvNothing(c) \/ Hangup(c)
                              \/ \E p \in Piece : SendPiece(c, p)) => UNCHANGED world
    BY DEF Poll, AcceptNobody, ReadDataPipe, ReadExitPipe, Write, Complete, RecvLine, RecvPart,
           RecvNothing, Hangup, SendPiece
  <2> QED
    BY <2>1, <2>2, <2>3, <2>4, <2>5 DEF Next, Serve, Peers
<1> QED
  BY <1>1, <1>2, <1>3 DEF Bounds

\* Every variable has its type, and what a client has sent and no handler has
\* seen, the connections that wait and those still to come are within their
\* bounds, for any finite set of descriptors and tables of any size.
THEOREM ListenerTypes ==
  ASSUME IsFiniteSet(Conn)
  PROVE  Spec => []TypeOK
<1>1. Init => LinesInv
  <2> SUFFICES ASSUME Init PROVE Bounds /\ Lines(clients, net)
    BY TablesInit DEF LinesInv
  <2>1. Bounds
    <3>1. Cardinality(Conn) \in Nat
      BY FS_CardinalityType
    <3>2. served = {} /\ twice = FALSE /\ jobs = {} /\ backlog = 0 /\ arrivals = MaxArrivals
      BY DEF Init
    <3>3. 0 \in 0 .. Cardinality(Conn)
      BY <3>1
    <3>4. MaxArrivals \in 0 .. MaxArrivals
      BY ListenerAssumption
    <3> QED
      BY <3>2, <3>3, <3>4 DEF Bounds
  <2>2. Lines(clients, net)
    BY DEF Init, Lines, Room, FreeClient
  <2> QED
    BY <2>1, <2>2
<1>2. LinesInv /\ [Next]_vars => LinesInv'
  <2> SUFFICES ASSUME LinesInv, [Next]_vars PROVE LinesInv'
    OBVIOUS
  <2>1. TablesInv' /\ Bounds'
    BY TablesStep, BoundsStep DEF LinesInv
  <2>2. CASE Next
    <3>1. Lines(clients', net')
      BY <2>2, LinesStep DEF LinesInv
    <3> QED
      BY <2>1, <3>1 DEF LinesInv, Lines, Room
  <2>3. CASE UNCHANGED vars
    BY <2>1, <2>3 DEF vars, tables, LinesInv, Lines, Room
  <2> QED
    BY <2>2, <2>3
<1>3. LinesInv => TypeOK
  <2> SUFFICES ASSUME LinesInv PROVE TypeOK
    OBVIOUS
  <2>1. ASSUME NEW c \in OpenConns PROVE Len(Unhandled(c)) <= MaxLine
    <3>1. PICK k \in Index : clients[k].sock_fd = c /\ c # None
      BY DEF OpenConns
    <3>2. SlotOf(c) = k /\ c \in Conn
      BY <3>1, TheSlot DEF LinesInv
    <3> QED
      BY <3>1, <3>2, Lengths DEF LinesInv, Unhandled
  <2> QED
    BY <2>1 DEF LinesInv, TablesInv, Typed, Bounds, TypeOK
<1> QED
  BY <1>1, <1>2, <1>3, PTL DEF Spec
-----------------------------------------------------------------------------
(* Replies are sent once and never collide, for clients that wait for their *)
(* answers, as long as no entry of a client is served twice and no slot     *)
(* gets a new owner while a message of the last one is in a pipe.           *)

Queued(k, p) == \E i \in 1 .. Len(p) : p[i] = k
Once(p)      == \A i, j \in 1 .. Len(p) : p[i] = p[j] => i = j

\* What a client may still hear: the reply in cmd_send and the completion of
\* the transfer at work.
One(b)  == IF b THEN 1 ELSE 0
Cost(p) == IF p = "XFER" THEN 2 ELSE 1

Debt(b, due, lock, job) ==
  \/ Ends(b) = {} /\ due = One(lock) + One(job) /\ (b # <<>> => due = 0)
  \/ Ends(b) = {Len(b)} /\ due = Cost(b[Len(b)]) /\ ~lock /\ ~job

\* A connected slot with the events of its entry, its connection, and where
\* messages about it are.
InTurn(r, ev, nr, inData, inExit, job) ==
  /\ r.net_lock <=> r.net_state # "IDLE"
  /\ "out" \in ev => r.net_lock /\ ~inData /\ ~inExit
  /\ inData => r.net_state = "NEED_SEND"
  /\ inExit => r.net_state = "NEED_QUIT"
  /\ r.net_state = "NEED_QUIT" => ~job
  /\ nr.eof => r.buffer \o nr.in = <<>> /\ ~job
  /\ Debt(r.buffer \o nr.in, nr.due, r.net_lock, job)

SlotOK(k, r, t, nt, dp, xp, jb) ==
  IF r.sock_fd = None THEN r = FreeClient /\ k \notin jb
  ELSE InTurn(r, t[r.nfds].events, nt[r.sock_fd], Queued(k, dp), Queued(k, xp), k \in jb)

Slots(cl, t, nt, dp, xp, jb) == \A k \in Index : SlotOK(k, cl[k], t, nt, dp, xp, jb)

\* What poll has reported of an entry not served yet is still asked for, and
\* the pass is only at entries with a report.
Wanted(t, sv) ==
  \A i \in Index \ sv : t[i].fd \in Conn /\ "out" \in t[i].revents => "out" \in t[i].events

Replies ==
  /\ Slots(clients, fds, net, dataPipe, exitPipe, jobs)
  /\ Once(dataPipe) /\ Once(exitPipe)
  /\ at # AtPoll => Wanted(fds, served) /\ fds[at].revents # {}

\* No slot gets a new owner while a message of the last one waits.
NewOwner(k)  == clients[k].sock_fd = None /\ clients'[k].sock_fd # None
FreshOwners  == \A k \in Index : NewOwner(k) => ~Queued(k, dataPipe) /\ ~Queued(k, exitPipe)
-----------------------------------------------------------------------------
(* Pipes and lines.                                                        *)

LEMMA HeadOnce ==
  ASSUME NEW p \in Seq(Index), p # <<>>, Once(p)
  PROVE  /\ Queued(Head(p), p) /\ ~Queued(Head(p), Tail(p)) /\ Once(Tail(p))
         /\ \A k : Queued(k, Tail(p)) => Queued(k, p)
<1>1. /\ Len(p) \in Nat /\ Len(p) >= 1 /\ Tail(p) \in Seq(Index) /\ Len(Tail(p)) = Len(p) - 1
      /\ \A i \in 1 .. Len(Tail(p)) : Tail(p)[i] = p[i + 1]
      /\ Head(p) = p[1]
  OBVIOUS
<1>2. Queued(Head(p), p)
  BY <1>1 DEF Queued
<1>3. ~Queued(Head(p), Tail(p))
  <2> SUFFICES ASSUME NEW i \in 1 .. Len(Tail(p)), Tail(p)[i] = Head(p) PROVE FALSE
    BY DEF Queued
  <2>1. i + 1 \in 1 .. Len(p) /\ 1 \in 1 .. Len(p) /\ i + 1 # 1 /\ p[i + 1] = p[1]
    BY <1>1
  <2> QED
    BY <2>1 DEF Once
<1>4. Once(Tail(p))
  <2> SUFFICES ASSUME NEW i \in 1 .. Len(Tail(p)), NEW j \in 1 .. Len(Tail(p)),
                      Tail(p)[i] = Tail(p)[j]
               PROVE  i = j
    BY DEF Once
  <2>1. i + 1 \in 1 .. Len(p) /\ j + 1 \in 1 .. Len(p) /\ p[i + 1] = p[j + 1]
    BY <1>1
  <2>2. i + 1 = j + 1
    BY <2>1 DEF Once
  <2> QED
    BY <1>1, <2>2
<1>5. ASSUME NEW k, Queued(k, Tail(p)) PROVE Queued(k, p)
  <2>1. PICK i \in 1 .. Len(Tail(p)) : Tail(p)[i] = k
    BY <1>5 DEF Queued
  <2>2. i + 1 \in 1 .. Len(p) /\ p[i + 1] = k
    BY <1>1, <2>1
  <2> QED
    BY <2>2 DEF Queued
<1> QED
  BY <1>2, <1>3, <1>4, <1>5

LEMMA AppendOnce ==
  ASSUME NEW p \in Seq(Index), NEW k \in Index
  PROVE  /\ Once(p) /\ ~Queued(k, p) => Once(Append(p, k))
         /\ Queued(k, Append(p, k))
         /\ \A j : j # k => (Queued(j, Append(p, k)) <=> Queued(j, p))
<1> DEFINE q == Append(p, k)
<1>1. /\ Len(p) \in Nat /\ Len(q) = Len(p) + 1 /\ q[Len(p) + 1] = k
      /\ \A i \in 1 .. Len(p) : q[i] = p[i]
  OBVIOUS
<1> HIDE DEF q
<1>2. ASSUME Once(p), ~Queued(k, p) PROVE Once(q)
  BY <1>1, <1>2 DEF Once, Queued
<1>3. Queued(k, q)
  BY <1>1 DEF Queued
<1>4. ASSUME NEW j, j # k PROVE Queued(j, q) <=> Queued(j, p)
  BY <1>1, <1>4 DEF Queued
<1> QED
  BY <1>2, <1>3, <1>4 DEF q

LEMMA EmptyLine ==
  /\ Ends(<<>>) = {}
  /\ \A due, lock, job : due = One(lock) + One(job) => Debt(<<>>, due, lock, job)
BY DEF Ends, Debt

LEMMA AppendLine ==
  ASSUME NEW b \in Seq(Piece), NEW p \in Piece, Ends(b) = {}
  PROVE  /\ p = "part" => Ends(Append(b, p)) = {}
         /\ p # "part" => /\ Ends(Append(b, p)) = {Len(Append(b, p))}
                          /\ Append(b, p)[Len(Append(b, p))] = p
<1> DEFINE q == Append(b, p)
<1>1. /\ Len(b) \in Nat /\ Len(q) = Len(b) + 1 /\ q[Len(q)] = p
      /\ \A i \in 1 .. Len(b) : q[i] = b[i]
  OBVIOUS
<1>2. \A i \in 1 .. Len(b) : b[i] \notin Line
  BY DEF Ends
<1>3. "part" \notin Line /\ (p # "part" => p \in Line)
  BY DEF Line, Piece
<1> HIDE DEF q
<1>4. \A i \in 1 .. Len(q) : q[i] \in Line => i = Len(q)
  BY <1>1, <1>2
<1>5. Len(q) \in 1 .. Len(q)
  BY <1>1
<1>6. CASE p = "part"
  BY <1>1, <1>3, <1>4, <1>6 DEF Ends, q
<1>7. CASE p # "part"
  <2>1. Ends(q) = {Len(q)}
    BY <1>1, <1>3, <1>4, <1>5, <1>7 DEF Ends
  <2> QED
    BY <1>1, <1>7, <2>1 DEF q
<1> QED
  BY <1>6, <1>7
-----------------------------------------------------------------------------
(* One slot at a time.                                                     *)

\* A slot that nothing happens to stays as it is.
LEMMA SlotFrame ==
  ASSUME NEW k, NEW r, NEW t, NEW nt, NEW dp, NEW xp, NEW jb, SlotOK(k, r, t, nt, dp, xp, jb),
         NEW u, NEW mt, NEW dq, NEW xq, NEW jc,
         r.sock_fd # None => u[r.nfds].events = t[r.nfds].events /\ mt[r.sock_fd] = nt[r.sock_fd],
         Queued(k, dq) => Queued(k, dp), Queued(k, xq) => Queued(k, xp), k \in jc <=> k \in jb
  PROVE  SlotOK(k, r, u, mt, dq, xq, jc)
<1>1. CASE r.sock_fd = None
  BY <1>1 DEF SlotOK
<1>2. CASE r.sock_fd # None
  <2> DEFINE ev == t[r.nfds].events
             nr == nt[r.sock_fd]
             job == k \in jb
  <2>1. InTurn(r, ev, nr, Queued(k, dp), Queued(k, xp), k \in jb)
    BY <1>2 DEF SlotOK
  <2>2. u[r.nfds].events = ev /\ mt[r.sock_fd] = nr
    BY <1>2
  <2> HIDE DEF ev, nr
  <2>3. Debt(r.buffer \o nr.in, nr.due, r.net_lock, k \in jc)
    BY <2>1 DEF InTurn, Debt, One
  <2>4. InTurn(r, ev, nr, Queued(k, dq), Queued(k, xq), k \in jc)
    BY <2>1, <2>3 DEF InTurn
  <2> QED
    BY <1>2, <2>2, <2>4 DEF SlotOK
<1> QED
  BY <1>1, <1>2

\* Two clients have two entries and two connections.
LEMMA TwoEntries ==
  ASSUME TablesInv, NEW j \in Index, NEW k \in Index, j # k,
         clients[j].sock_fd # None, clients[k].sock_fd # None
  PROVE  clients[j].nfds # clients[k].nfds /\ clients[j].sock_fd # clients[k].sock_fd
BY DEF TablesInv, Agree, Pointed, Apart

\* Slot k changes, with entry e and connection c, which no other slot has.
Aside(k, e, c, cl, u, mt, dq, xq, jc) ==
  /\ \A j \in Index : j # k => cl[j] = clients[j]
  /\ \A j \in Index : j # k /\ clients[j].sock_fd # None =>
       clients[j].nfds # e /\ clients[j].sock_fd # c
  /\ \A i \in Index : i # e => u[i] = fds[i]
  /\ \A d \in Conn : d # c => mt[d] = net[d]
  /\ \A j \in Index : j # k => /\ Queued(j, dq) => Queued(j, dataPipe)
                               /\ Queued(j, xq) => Queued(j, exitPipe)
                               /\ j \in jc <=> j \in jobs

LEMMA OneSlot ==
  ASSUME TablesInv, Slots(clients, fds, net, dataPipe, exitPipe, jobs), NEW k \in Index,
         NEW e, NEW c, NEW cl, NEW u, NEW mt, NEW dq, NEW xq, NEW jc,
         Aside(k, e, c, cl, u, mt, dq, xq, jc),
         SlotOK(k, cl[k], u, mt, dq, xq, jc)
  PROVE  Slots(cl, u, mt, dq, xq, jc)
<1> SUFFICES ASSUME NEW j \in Index, j # k PROVE SlotOK(j, cl[j], u, mt, dq, xq, jc)
  BY DEF Slots
<1>1. cl[j] = clients[j] /\ SlotOK(j, clients[j], fds, net, dataPipe, exitPipe, jobs)
  BY DEF Slots, Aside
<1>2. clients[j].sock_fd # None =>
        /\ u[clients[j].nfds].events = fds[clients[j].nfds].events
        /\ mt[clients[j].sock_fd] = net[clients[j].sock_fd]
  <2> SUFFICES ASSUME clients[j].sock_fd # None
               PROVE  /\ u[clients[j].nfds].events = fds[clients[j].nfds].events
                      /\ mt[clients[j].sock_fd] = net[clients[j].sock_fd]
    OBVIOUS
  <2>1. clients[j].nfds \in Index /\ clients[j].sock_fd \in Conn
    BY TheSlot DEF TablesInv, Typed, ClientData
  <2> QED
    BY <2>1 DEF Aside
<1>3. /\ Queued(j, dq) => Queued(j, dataPipe)
      /\ Queued(j, xq) => Queued(j, exitPipe)
      /\ j \in jc <=> j \in jobs
  BY DEF Aside
<1>4. SlotOK(j, clients[j], u, mt, dq, xq, jc)
  BY <1>1, <1>2, <1>3, SlotFrame
<1> QED
  BY <1>1, <1>4

\* A branch of the pass that leaves the slots in order.
LEMMA BranchReplies ==
  ASSUME NEW t \in [Index -> Entry], NEW i \in Int, Continue(t, i), at \in Index, TablesInv,
         clients' \in [Index -> ClientData], Slots(clients', t, net', dataPipe', exitPipe', jobs'),
         Once(dataPipe'), Once(exitPipe'), Wanted(t, served \cup {at})
  PROVE  Replies'
<1>1. /\ fds' \in [Index -> Entry] /\ at' \in 0 .. AtPoll
      /\ \A j \in Index : fds'[j].fd = t[j].fd /\ fds'[j].events = t[j].events
  BY LeaveKeeps DEF Continue
<1>2. Slots(clients', fds', net', dataPipe', exitPipe', jobs')
  <2> SUFFICES ASSUME NEW k \in Index
               PROVE  SlotOK(k, clients'[k], fds', net', dataPipe', exitPipe', jobs')
    BY DEF Slots
  <2>1. SlotOK(k, clients'[k], t, net', dataPipe', exitPipe', jobs')
    BY DEF Slots
  <2>2. clients'[k].nfds \in Index
    BY DEF ClientData
  <2>3. fds'[clients'[k].nfds].events = t[clients'[k].nfds].events
    BY <1>1, <2>2
  <2> QED
    BY <2>1, <2>3, SlotFrame
<1>3. ASSUME at' # AtPoll PROVE Wanted(fds', served') /\ fds'[at'].revents # {}
  <2>1. fds' = t /\ served' = served \cup {at}
    BY <1>3 DEF Continue, Leave
  <2>2. t[at'].revents # {}
    BY <1>3 DEF Continue, Leave, Turn, First
  <2> QED
    BY <2>1, <2>2
<1> QED
  BY <1>2, <1>3 DEF Replies
-----------------------------------------------------------------------------
(* The main thread.                                                        *)

LEMMA FirstVisit ==
  ASSUME at # AtPoll, fds[at].fd \in Conn, NEW t, NEW i, Continue(t, i), ~twice'
  PROVE  at \notin served
BY DEF Continue

LEMMA SlotAt ==
  ASSUME TablesInv, at # AtPoll, Here.fd \in Conn
  PROVE  /\ at \in Index /\ SlotOf(Here.fd) \in Index
         /\ clients[SlotOf(Here.fd)].sock_fd = Here.fd /\ Here.fd # None
         /\ clients[SlotOf(Here.fd)].nfds = at
<1>1. /\ at \in Index /\ SlotOf(Here.fd) \in Index
      /\ clients[SlotOf(Here.fd)].sock_fd = Here.fd /\ Here.fd # None
  BY AtEntry, SlotHere
<1>2. clients[SlotOf(Here.fd)].nfds \in Index /\ fds[clients[SlotOf(Here.fd)].nfds].fd = Here.fd
  BY <1>1 DEF TablesInv, Typed, ClientData, Agree, Pointed
<1>3. clients[SlotOf(Here.fd)].nfds = at
  BY <1>1, <1>2, OneEntry DEF Here
<1> QED
  BY <1>1, <1>3

LEMMA PollReplies ==
  ASSUME TablesInv, Replies, Poll
  PROVE  Replies'
<1>1. fds \in [Index -> Entry] /\ clients \in [Index -> ClientData]
  BY DEF TablesInv, Typed
<1>2. ASSUME NEW j \in Index
      PROVE  /\ fds'[j].events = fds[j].events /\ fds'[j].fd = fds[j].fd
             /\ fds'[j].revents \subseteq fds[j].events
  <2>1. fds'[j] = [fds[j] EXCEPT !.revents = IF j < fd_most_tail THEN Reported(fds[j]) ELSE {}]
    BY DEF Poll
  <2>2. Reported(fds[j]) \subseteq fds[j].events
    BY DEF Reported
  <2> QED
    BY <1>1, <2>1, <2>2 DEF Entry
<1>3. Slots(clients', fds', net', dataPipe', exitPipe', jobs')
  <2> SUFFICES ASSUME NEW k \in Index
               PROVE  SlotOK(k, clients[k], fds', net, dataPipe, exitPipe, jobs)
    BY DEF Poll, pipes, Slots
  <2>1. SlotOK(k, clients[k], fds, net, dataPipe, exitPipe, jobs)
    BY DEF Replies, Slots
  <2>2. clients[k].nfds \in Index
    BY <1>1 DEF ClientData
  <2> QED
    BY <1>2, <2>1, <2>2, SlotFrame
<1>4. Wanted(fds', served')
  BY <1>2 DEF Wanted
<1>5. fds'[at'].revents # {}
  BY DEF Poll, Turn, First
<1> QED
  BY <1>3, <1>4, <1>5 DEF Replies, Poll, pipes

\* A branch that is about one client at most: entry e, connection c, slot k.
LEMMA ServeReplies ==
  ASSUME TablesInv, Replies, at # AtPoll, NEW t \in [Index -> Entry], NEW i \in Int, Continue(t, i),
         NEW k \in Index, NEW e, NEW c,
         clients' \in [Index -> ClientData],
         Aside(k, e, c, clients', t, net', dataPipe', exitPipe', jobs'),
         Once(dataPipe'), Once(exitPipe'),
         SlotOK(k, clients'[k], t, net', dataPipe', exitPipe', jobs'),
         e \in Index /\ e # at /\ "out" \in t[e].revents => "out" \in t[e].events
  PROVE  Replies'
<1>1. at \in Index /\ Wanted(fds, served)
  BY AtEntry DEF Replies
<1>2. Slots(clients, fds, net, dataPipe, exitPipe, jobs)
  BY DEF Replies
<1>5. Slots(clients', t, net', dataPipe', exitPipe', jobs')
  BY <1>2, OneSlot
<1>6. Wanted(t, served \cup {at})
  BY <1>1 DEF Wanted, Aside
<1> QED
  BY <1>1, <1>5, <1>6, BranchReplies

\* A branch that touches nobody.
LEMMA IdleReplies ==
  ASSUME TablesInv, Replies, at # AtPoll, NEW i \in Int, Continue(fds, i),
         UNCHANGED <<clients, net, dataPipe, exitPipe, jobs>>
  PROVE  Replies'
<1>1. at \in Index /\ fds \in [Index -> Entry] /\ clients' \in [Index -> ClientData]
  BY AtEntry DEF TablesInv, Typed
<1>2. Slots(clients', fds, net', dataPipe', exitPipe', jobs')
  BY DEF Replies
<1>3. Once(dataPipe') /\ Once(exitPipe') /\ Wanted(fds, served \cup {at})
  BY DEF Replies, Wanted
<1> QED
  BY <1>1, <1>2, <1>3, BranchReplies

LEMMA AcceptReplies ==
  ASSUME TablesInv, Replies, Accept, FreshOwners
  PROVE  Replies'
<1>0. TablesInv' /\ clients \in [Index -> ClientData] /\ fds \in [Index -> Entry]
      /\ net \in [Conn -> Remote]
  BY AcceptKeeps DEF TablesInv, Typed
<1>1. PICK c \in Conn \ OpenConns, i \in First(Vacant), k \in First(FreeSlots) :
        /\ clients' = [clients EXCEPT ![k] =
                         [@ EXCEPT !.sock_fd = c, !.nfds = i,
                                   !.net_state = "NEED_SEND", !.net_lock = TRUE]]
        /\ net' = [net EXCEPT ![c] = Fresh]
        /\ GoOn([fds EXCEPT ![i] = [fd |-> c, events |-> {"out"}, revents |-> {}]])
  BY DEF Accept
<1> DEFINE e == [fd |-> c, events |-> {"out"}, revents |-> {}]
           t == [fds EXCEPT ![i] = e]
           r == [FreeClient EXCEPT !.sock_fd = c, !.nfds = i,
                                   !.net_state = "NEED_SEND", !.net_lock = TRUE]
<1>2. /\ i \in Index /\ fds[i].fd = None /\ k \in Index /\ clients[k].sock_fd = None
      /\ at # AtPoll /\ at \in Int /\ Continue(t, at)
  BY <1>1, AtEntry DEF First, Vacant, FreeSlots, Accept, ServeIn, GoOn
<1>3. clients[k] = FreeClient /\ k \notin jobs
  BY <1>2 DEF Replies, Slots, SlotOK
<1>4. clients' = [clients EXCEPT ![k] = r]
  BY <1>1, <1>3
<1>5. c \in Conn /\ c # None /\ \A j \in Index : clients[j].sock_fd # c
  BY ListenerAssumption DEF OpenConns
<1>6. e \in Entry /\ e.revents = {} /\ e.events = {"out"}
  BY DEF Entry
<1> HIDE DEF e
<1>7. t \in [Index -> Entry] /\ t[i] = e /\ \A j \in Index : j # i => t[j] = fds[j]
  BY <1>0, <1>2, <1>6
<1>8. /\ r.sock_fd = c /\ r.nfds = i /\ r.net_state = "NEED_SEND" /\ r.net_lock = TRUE
      /\ r.buffer = <<>>
  BY DEF FreeClient
<1> HIDE DEF r, t
<1>9. clients'[k] = r /\ \A j \in Index : j # k => clients'[j] = clients[j]
  BY <1>0, <1>2, <1>4
<1>10. /\ net'[c] = Fresh /\ \A d \in Conn : d # c => net'[d] = net[d]
       /\ UNCHANGED <<dataPipe, exitPipe, jobs>>
  BY <1>0, <1>1, <1>5 DEF Accept, pipes
<1>11. ASSUME NEW j \in Index, clients[j].sock_fd # None PROVE clients[j].nfds # i
  BY <1>2, <1>11 DEF TablesInv, Agree, Pointed
<1>12. ~Queued(k, dataPipe) /\ ~Queued(k, exitPipe)
  BY <1>2, <1>5, <1>8, <1>9 DEF FreshOwners, NewOwner
<1>13. SlotOK(k, clients'[k], t, net', dataPipe', exitPipe', jobs')
  <2>1. <<>> \o <<>> = <<>> /\ Fresh.in = <<>> /\ Fresh.due = 1 /\ Fresh.eof = FALSE
    BY DEF Fresh
  <2>2. Debt(<<>>, 1, r.net_lock, k \in jobs)
    BY <1>3, <1>8, EmptyLine DEF Debt, One
  <2>3. InTurn(r, {"out"}, Fresh, Queued(k, dataPipe), Queued(k, exitPipe), k \in jobs)
    BY <1>3, <1>8, <1>12, <2>1, <2>2 DEF InTurn
  <2> QED
    BY <1>5, <1>6, <1>7, <1>8, <1>9, <1>10, <2>3 DEF SlotOK
<1>14. Once(dataPipe') /\ Once(exitPipe')
  BY <1>10 DEF Replies
<1>15. clients' \in [Index -> ClientData]
  BY <1>0 DEF TablesInv, Typed
<1>16. Aside(k, i, c, clients', t, net', dataPipe', exitPipe', jobs')
  BY <1>5, <1>7, <1>9, <1>10, <1>11 DEF Aside
<1>17. "out" \notin t[i].revents
  BY <1>6, <1>7
<1> QED
  BY <1>2, <1>7, <1>13, <1>14, <1>15, <1>16, <1>17, ServeReplies

\* A connected slot, its entry and its connection.
LEMMA TheTurn ==
  ASSUME TablesInv, Replies, NEW k \in Index, clients[k].sock_fd # None
  PROVE  /\ clients[k] \in ClientData /\ clients[k].nfds \in Index
         /\ clients[k].sock_fd \in Conn /\ net[clients[k].sock_fd] \in Remote
         /\ fds[clients[k].nfds] \in Entry
         /\ InTurn(clients[k], fds[clients[k].nfds].events, net[clients[k].sock_fd],
                   Queued(k, dataPipe), Queued(k, exitPipe), k \in jobs)
         /\ \A j \in Index : j # k /\ clients[j].sock_fd # None =>
              clients[j].nfds # clients[k].nfds /\ clients[j].sock_fd # clients[k].sock_fd
<1>1. clients[k] \in ClientData /\ clients[k].nfds \in Index /\ clients[k].sock_fd \in Conn
  BY TheSlot DEF TablesInv, Typed, ClientData
<1>2. net[clients[k].sock_fd] \in Remote /\ fds[clients[k].nfds] \in Entry
  BY <1>1 DEF TablesInv, Typed
<1>3. InTurn(clients[k], fds[clients[k].nfds].events, net[clients[k].sock_fd],
             Queued(k, dataPipe), Queued(k, exitPipe), k \in jobs)
  BY DEF Replies, Slots, SlotOK
<1> QED
  BY <1>1, <1>2, <1>3, TwoEntries

\* A slot that no client has when the pipe leads to it.
LEMMA StaleReplies ==
  ASSUME TablesInv, Replies, at # AtPoll, NEW k \in Index, clients[k].sock_fd = None,
         Continue(fds, at), UNCHANGED <<clients, net, jobs>>,
         Once(dataPipe'), Once(exitPipe'),
         \A j : Queued(j, dataPipe') => Queued(j, dataPipe),
         \A j : Queued(j, exitPipe') => Queued(j, exitPipe)
  PROVE  Replies'
<1>1. at \in Int /\ fds \in [Index -> Entry] /\ clients' \in [Index -> ClientData]
  BY AtEntry DEF TablesInv, Typed
<1>2. \A j \in Index : clients[j].nfds # -1
  BY ListenerAssumption DEF TablesInv, Typed, ClientData, Index
<1>3. Aside(k, -1, None, clients', fds, net', dataPipe', exitPipe', jobs')
  BY <1>2 DEF Aside
<1>4. SlotOK(k, clients'[k], fds, net', dataPipe', exitPipe', jobs')
  BY DEF Replies, Slots, SlotOK
<1>5. -1 \notin Index
  BY DEF Index
<1> QED
  BY <1>1, <1>3, <1>4, <1>5, ServeReplies

\* POLLOUT is requested for slot k, which holds a reply.
LEMMA RequestReplies ==
  ASSUME TablesInv, Replies, at # AtPoll, NEW k \in Index, clients[k].sock_fd # None,
         NEW ev \in SUBSET {"in", "out"}, "out" \in ev,
         Continue([fds EXCEPT ![clients[k].nfds].events = ev], at),
         clients[k].net_lock, UNCHANGED <<clients, net, jobs>>,
         Once(dataPipe'), Once(exitPipe'),
         \A j : Queued(j, dataPipe') => Queued(j, dataPipe),
         \A j : Queued(j, exitPipe') => Queued(j, exitPipe),
         ~Queued(k, dataPipe'), ~Queued(k, exitPipe')
  PROVE  Replies'
<1> DEFINE i == clients[k].nfds
           c == clients[k].sock_fd
           t == [fds EXCEPT ![i].events = ev]
<1>1. at \in Int /\ fds \in [Index -> Entry] /\ clients' \in [Index -> ClientData]
  BY AtEntry DEF TablesInv, Typed
<1>2. /\ i \in Index /\ c \in Conn /\ net[c] \in Remote
      /\ InTurn(clients[k], fds[i].events, net[c], Queued(k, dataPipe), Queued(k, exitPipe), k \in jobs)
      /\ \A j \in Index : j # k /\ clients[j].sock_fd # None =>
           clients[j].nfds # i /\ clients[j].sock_fd # c
  BY TheTurn
<1>3. /\ t \in [Index -> Entry] /\ t[i].events = ev
      /\ \A j \in Index : j # i => t[j] = fds[j]
  BY <1>1, <1>2 DEF Entry
<1>4. Continue(t, at)
  OBVIOUS
<1> HIDE DEF t
<1>5. Aside(k, i, c, clients', t, net', dataPipe', exitPipe', jobs')
  BY <1>2, <1>3 DEF Aside
<1>6. InTurn(clients[k], ev, net[c], Queued(k, dataPipe'), Queued(k, exitPipe'), k \in jobs)
  BY <1>2 DEF InTurn
<1>7. SlotOK(k, clients'[k], t, net', dataPipe', exitPipe', jobs')
  BY <1>3, <1>6 DEF SlotOK
<1> QED
  BY <1>1, <1>3, <1>4, <1>5, <1>7, ServeReplies

LEMMA DataPipeReplies ==
  ASSUME TablesInv, Replies, ReadDataPipe
  PROVE  Replies'
<1>1. /\ at # AtPoll /\ at \in Int /\ dataPipe \in Seq(Index) /\ fds \in [Index -> Entry]
      /\ UNCHANGED <<clients, net, exitPipe, jobs>> /\ Once(dataPipe) /\ Once(exitPipe)
  BY AtEntry DEF ReadDataPipe, ServeIn, TablesInv, Typed, Replies
<1>2. CASE dataPipe = <<>>
  <2>1. Continue(fds, at) /\ dataPipe' = dataPipe
    BY <1>2 DEF ReadDataPipe, GoOn
  <2> QED
    BY <1>1, <2>1, IdleReplies
<1>3. CASE dataPipe # <<>>
  <2> DEFINE k == Head(dataPipe)
             i == clients[k].nfds
  <2>1. k \in Index /\ dataPipe' = Tail(dataPipe)
    BY <1>1, <1>3, PipeHead DEF ReadDataPipe
  <2>2. /\ Queued(k, dataPipe) /\ ~Queued(k, dataPipe') /\ Once(dataPipe')
        /\ \A j : Queued(j, dataPipe') => Queued(j, dataPipe)
    BY <1>1, <1>3, <2>1, HeadOnce
  <2>3. Continue(IF clients[k].sock_fd # None
                 THEN AfterHandler(WantWrite(fds, k), clients[k]) ELSE fds, at)
    BY <1>3 DEF ReadDataPipe, GoOn
  <2> HIDE DEF k
  <2>4. CASE clients[k].sock_fd = None
    BY <1>1, <2>1, <2>2, <2>3, <2>4, StaleReplies
  <2>5. CASE clients[k].sock_fd # None
    <3>1. /\ i \in Index
          /\ clients[k].net_state = "NEED_SEND" /\ clients[k].net_lock /\ ~Queued(k, exitPipe)
      BY <2>1, <2>2, <2>5, TheTurn DEF InTurn
    <3>2. AfterHandler(WantWrite(fds, k), clients[k]) = [fds EXCEPT ![i].events = {"out"}]
      <4>1. AfterHandler(WantWrite(fds, k), clients[k]) = [WantWrite(fds, k) EXCEPT ![i].events = {"out"}]
        BY <2>5, <3>1 DEF AfterHandler
      <4>2. WantWrite(fds, k) = [fds EXCEPT ![i].events = @ \cup {"out"}]
        BY DEF WantWrite
      <4> QED
        BY <1>1, <3>1, <4>1, <4>2 DEF Entry
    <3>3. Continue([fds EXCEPT ![i].events = {"out"}], at)
      BY <2>3, <2>5, <3>2
    <3>4. {"out"} \in SUBSET {"in", "out"} /\ "out" \in {"out"}
      OBVIOUS
    <3> QED
      BY <1>1, <2>1, <2>2, <2>5, <3>1, <3>3, <3>4, RequestReplies
  <2> QED
    BY <2>4, <2>5
<1> QED
  BY <1>2, <1>3

LEMMA ExitPipeReplies ==
  ASSUME TablesInv, Replies, ReadExitPipe
  PROVE  Replies'
<1>1. /\ at # AtPoll /\ at \in Int /\ exitPipe \in Seq(Index) /\ fds \in [Index -> Entry]
      /\ UNCHANGED <<clients, net, dataPipe, jobs>> /\ Once(dataPipe) /\ Once(exitPipe)
  BY AtEntry DEF ReadExitPipe, ServeIn, TablesInv, Typed, Replies
<1>2. CASE exitPipe = <<>>
  <2>1. Continue(fds, at) /\ exitPipe' = exitPipe
    BY <1>2 DEF ReadExitPipe, GoOn
  <2> QED
    BY <1>1, <2>1, IdleReplies
<1>3. CASE exitPipe # <<>>
  <2> DEFINE k == Head(exitPipe)
             i == clients[k].nfds
  <2>1. k \in Index /\ exitPipe' = Tail(exitPipe)
    BY <1>1, <1>3, PipeHead DEF ReadExitPipe
  <2>2. /\ Queued(k, exitPipe) /\ ~Queued(k, exitPipe') /\ Once(exitPipe')
        /\ \A j : Queued(j, exitPipe') => Queued(j, exitPipe)
    BY <1>1, <1>3, <2>1, HeadOnce
  <2>3. Continue(IF clients[k].net_state = "NEED_QUIT" THEN WantWrite(fds, k)
                 ELSE AfterHandler(fds, clients[k]), at)
    BY <1>3 DEF ReadExitPipe, GoOn
  <2> HIDE DEF k
  <2>4. CASE clients[k].sock_fd = None
    <3>1. clients[k].net_state # "NEED_QUIT"
      BY <2>1, <2>4 DEF TablesInv, Agree, Quitting
    <3>2. AfterHandler(fds, clients[k]) = fds
      BY <2>4 DEF AfterHandler
    <3>3. Continue(fds, at)
      BY <2>3, <3>1, <3>2
    <3> QED
      BY <1>1, <2>1, <2>2, <2>4, <3>3, StaleReplies
  <2>5. CASE clients[k].sock_fd # None
    <3>1. /\ i \in Index /\ fds[i] \in Entry
          /\ clients[k].net_state = "NEED_QUIT" /\ clients[k].net_lock /\ ~Queued(k, dataPipe)
      BY <2>1, <2>2, <2>5, TheTurn DEF InTurn
    <3> DEFINE ev == fds[i].events \cup {"out"}
    <3>2. WantWrite(fds, k) = [fds EXCEPT ![i].events = ev]
      BY <1>1, <3>1 DEF WantWrite
    <3>3. ev \in SUBSET {"in", "out"} /\ "out" \in ev
      BY <3>1 DEF Entry
    <3>4. Continue([fds EXCEPT ![i].events = ev], at)
      BY <2>3, <3>1, <3>2
    <3> QED
      BY <1>1, <2>1, <2>2, <2>5, <3>1, <3>3, <3>4, RequestReplies
  <2> QED
    BY <2>4, <2>5
<1> QED
  BY <1>2, <1>3

\* A branch about the client the pass is at.
LEMMA HereReplies ==
  ASSUME TablesInv, Replies, at # AtPoll, Here.fd \in Conn,
         NEW k, k = SlotOf(Here.fd),
         NEW t \in [Index -> Entry], NEW i \in Int, Continue(t, i),
         clients' \in [Index -> ClientData],
         \A j \in Index : j # k => clients'[j] = clients[j],
         \A j \in Index : j # at => t[j] = fds[j],
         \A d \in Conn : d # Here.fd => net'[d] = net[d],
         dataPipe' = dataPipe, Once(exitPipe'),
         \A j \in Index : j # k => (Queued(j, exitPipe') => Queued(j, exitPipe)),
         \A j \in Index : j # k => (j \in jobs' <=> j \in jobs),
         SlotOK(k, clients'[k], t, net', dataPipe', exitPipe', jobs')
  PROVE  Replies'
<1>1. /\ k \in Index /\ clients[k].sock_fd = Here.fd /\ clients[k].nfds = at
      /\ clients[k].sock_fd # None
  BY SlotAt
<1>2. \A j \in Index : j # k /\ clients[j].sock_fd # None =>
         clients[j].nfds # at /\ clients[j].sock_fd # Here.fd
  BY <1>1, TwoEntries
<1>3. Aside(k, at, Here.fd, clients', t, net', dataPipe', exitPipe', jobs')
  BY <1>2 DEF Aside
<1>4. Once(dataPipe')
  BY DEF Replies
<1> QED
  BY <1>1, <1>3, <1>4, ServeReplies

\* The client the pass is at, with what it has sent.
LEMMA TurnHere ==
  ASSUME TablesInv, Replies, NEW c \in Conn, ServeIn(c), NEW k, k = SlotOf(c)
  PROVE  /\ k \in Index /\ at \in Index /\ at \in Int /\ at # AtPoll /\ Here.fd = c /\ c # None
         /\ clients[k] \in ClientData /\ net[c] \in Remote /\ fds[at] \in Entry
         /\ clients[k].sock_fd = c /\ clients[k].nfds = at
         /\ InTurn(clients[k], fds[at].events, net[c],
                   Queued(k, dataPipe), Queued(k, exitPipe), k \in jobs)
         /\ Buffered(k) = clients[k].buffer \o net[c].in /\ Buffered(k) \in Seq(Piece)
         /\ net[c].in # <<>> => Buffered(k) # <<>>
<1>1. at # AtPoll /\ Here.fd = c /\ at \in Index /\ at \in Int
  BY AtEntry DEF ServeIn
<1>2. k \in Index /\ clients[k].sock_fd = c /\ c # None /\ clients[k].nfds = at
  BY <1>1, SlotAt
<1>3. /\ clients[k] \in ClientData /\ net[c] \in Remote /\ fds[at] \in Entry
      /\ InTurn(clients[k], fds[at].events, net[c],
                Queued(k, dataPipe), Queued(k, exitPipe), k \in jobs)
  BY <1>2, TheTurn
<1>4. Buffered(k) = clients[k].buffer \o net[c].in
  BY <1>2 DEF Buffered
<1>5. clients[k].buffer \in Seq(Piece) /\ net[c].in \in Seq(Piece)
  BY <1>3 DEF ClientData, Remote
<1>6. Buffered(k) \in Seq(Piece) /\ (net[c].in # <<>> => Buffered(k) # <<>>)
  BY <1>4, <1>5
<1> QED
  BY <1>1, <1>2, <1>3, <1>4, <1>6

\* A whole line is all that the client has sent, and nothing else of it is
\* under way.
LEMMA OneLineThere ==
  ASSUME TablesInv, Replies, NEW c \in Conn, ServeIn(c), NEW k, k = SlotOf(c),
         net[c].in # <<>>, NEW n, n \in First(Ends(Buffered(k)))
  PROVE  /\ n = Len(Buffered(k)) /\ SubSeq(Buffered(k), n + 1, Len(Buffered(k))) = <<>>
         /\ Buffered(k)[n] \in Line
         /\ net[c].due = Cost(Buffered(k)[n]) /\ ~net[c].eof
         /\ ~clients[k].net_lock /\ k \notin jobs
         /\ ~Queued(k, dataPipe) /\ ~Queued(k, exitPipe) /\ "out" \notin fds[at].events
<1> DEFINE b == Buffered(k)
<1>1. /\ b \in Seq(Piece) /\ b # <<>>
      /\ InTurn(clients[k], fds[at].events, net[c],
                Queued(k, dataPipe), Queued(k, exitPipe), k \in jobs)
      /\ b = clients[k].buffer \o net[c].in
  BY TurnHere
<1>2. n \in Ends(b)
  BY DEF First
<1>3. Debt(b, net[c].due, clients[k].net_lock, k \in jobs)
  BY <1>1 DEF InTurn
<1> HIDE DEF b
<1>4. Ends(b) # {}
  BY <1>2
<1>5. Ends(b) = {Len(b)} /\ net[c].due = Cost(b[Len(b)]) /\ ~clients[k].net_lock /\ ~(k \in jobs)
  BY <1>3, <1>4 DEF Debt
<1>6. n = Len(b) /\ b[n] \in Line
  BY <1>2, <1>5 DEF Ends
<1>7. SubSeq(b, n + 1, Len(b)) = <<>>
  BY <1>1, <1>6
<1>8. ~net[c].eof
  BY <1>1 DEF InTurn
<1>9. ~Queued(k, dataPipe) /\ ~Queued(k, exitPipe) /\ "out" \notin fds[at].events
  BY <1>1, <1>5 DEF InTurn
<1> QED
  BY <1>5, <1>6, <1>7, <1>8, <1>9 DEF b

LEMMA RecvLineReplies ==
  ASSUME TablesInv, Replies, NEW c \in Conn, RecvLine(c)
  PROVE  Replies'
<1> DEFINE k == SlotOf(c)
           b == Buffered(k)
<1>1. /\ k \in Index /\ at \in Index /\ at \in Int /\ at # AtPoll /\ Here.fd = c /\ c # None
      /\ clients[k] \in ClientData /\ net[c] \in Remote /\ fds[at] \in Entry
      /\ clients[k].sock_fd = c /\ clients[k].nfds = at /\ b \in Seq(Piece)
  BY TurnHere DEF RecvLine
<1>2. PICK n \in First(Ends(b)) :
        /\ clients' = [clients EXCEPT ![k] =
             [@ EXCEPT !.net_lock = TRUE,
                       !.net_state = IF b[n] = "QUIT" THEN "NEED_QUIT" ELSE "NEED_SEND",
                       !.buffer = SubSeq(b, n + 1, Len(b))]]
        /\ jobs' = IF b[n] = "XFER" THEN jobs \cup {k} ELSE jobs
        /\ exitPipe' = IF b[n] = "QUIT" THEN Append(exitPipe, k) ELSE exitPipe
  BY DEF RecvLine
<1>3. /\ Continue(AfterHandler(fds, clients'[k]), at) /\ net' = [net EXCEPT ![c].in = <<>>]
      /\ dataPipe' = dataPipe
  BY DEF RecvLine, GoOn
<1>4. /\ SubSeq(b, n + 1, Len(b)) = <<>> /\ b[n] \in Line
      /\ net[c].due = Cost(b[n]) /\ ~net[c].eof
      /\ ~clients[k].net_lock /\ k \notin jobs
      /\ ~Queued(k, dataPipe) /\ ~Queued(k, exitPipe) /\ "out" \notin fds[at].events
  BY OneLineThere DEF RecvLine
<1> DEFINE p == b[n]
           s == IF p = "QUIT" THEN "NEED_QUIT" ELSE "NEED_SEND"
           r == [clients[k] EXCEPT !.net_lock = TRUE, !.net_state = s, !.buffer = <<>>]
           m == [net[c] EXCEPT !.in = <<>>]
           t == AfterHandler(fds, r)
<1> HIDE DEF k, b, p
<1>5. clients' = [clients EXCEPT ![k] = r] /\ net' = [net EXCEPT ![c] = m]
  BY <1>2, <1>3, <1>4 DEF p
<1>6. /\ r.net_lock = TRUE /\ r.net_state = s /\ r.buffer = <<>> /\ r.sock_fd = c /\ r.nfds = at
      /\ r \in ClientData
  <2>1. s \in {"IDLE", "NEED_SEND", "NEED_QUIT"} /\ <<>> \in Seq(Piece)
    OBVIOUS
  <2> HIDE DEF s
  <2> QED
    BY <1>1, <2>1 DEF ClientData
<1>7. m.in = <<>> /\ m.due = Cost(p) /\ m.eof = FALSE
  BY <1>1, <1>4 DEF Remote, p
<1>8. /\ fds \in [Index -> Entry] /\ clients \in [Index -> ClientData] /\ net \in [Conn -> Remote]
      /\ exitPipe \in Seq(Index)
  BY DEF TablesInv, Typed
<1> HIDE DEF r, m
<1>9. /\ clients'[k] = r /\ \A j \in Index : j # k => clients'[j] = clients[j]
      /\ net'[c] = m /\ \A d \in Conn : d # c => net'[d] = net[d]
      /\ clients' \in [Index -> ClientData]
  BY <1>1, <1>5, <1>6, <1>8
<1>10. t = IF p = "QUIT" THEN fds ELSE [fds EXCEPT ![at].events = {"out"}]
  BY <1>1, <1>6 DEF AfterHandler
<1>11. Continue(t, at)
  BY <1>3, <1>9
<1> DEFINE ev == IF p = "QUIT" THEN fds[at].events ELSE {"out"}
<1>12. /\ t \in [Index -> Entry] /\ t[at].events = ev /\ \A j \in Index : j # at => t[j] = fds[j]
  BY <1>1, <1>8, <1>10 DEF Entry
<1> HIDE DEF t
<1>13. jobs' = IF p = "XFER" THEN jobs \cup {k} ELSE jobs
  BY <1>2 DEF p
<1>14. exitPipe' = IF p = "QUIT" THEN Append(exitPipe, k) ELSE exitPipe
  BY <1>2 DEF p
<1>15. /\ Once(exitPipe') /\ \A j \in Index : j # k => (Queued(j, exitPipe') => Queued(j, exitPipe))
       /\ Queued(k, exitPipe') <=> p = "QUIT"
  BY <1>1, <1>4, <1>8, <1>14, AppendOnce DEF Replies
<1>16. InTurn(r, ev, m, Queued(k, dataPipe'), Queued(k, exitPipe'), k \in jobs')
  <2>1. <<>> \o <<>> = <<>> /\ p \in Line
    BY <1>4 DEF p
  <2>2. k \in jobs' <=> p = "XFER"
    BY <1>4, <1>13
  <2>3. Debt(<<>>, Cost(p), r.net_lock, k \in jobs')
    BY <1>6, <2>1, <2>2, EmptyLine DEF Debt, One, Cost
  <2>4. Debt(r.buffer \o m.in, m.due, r.net_lock, k \in jobs')
    BY <1>6, <1>7, <2>1, <2>3
  <2> QED
    BY <1>3, <1>4, <1>6, <1>7, <1>15, <2>2, <2>4 DEF InTurn
<1>17. SlotOK(k, clients'[k], t, net', dataPipe', exitPipe', jobs')
  BY <1>1, <1>6, <1>9, <1>12, <1>16 DEF SlotOK
<1>18. \A j \in Index : j # k => (j \in jobs' <=> j \in jobs)
  BY <1>13
<1>19. k = SlotOf(Here.fd) /\ Here.fd \in Conn
  BY <1>1 DEF k
<1> QED
  BY <1>1, <1>3, <1>9, <1>11, <1>12, <1>15, <1>17, <1>18, <1>19, HereReplies

LEMMA RecvPartReplies ==
  ASSUME TablesInv, Replies, NEW c \in Conn, RecvPart(c)
  PROVE  Replies'
<1> DEFINE k == SlotOf(c)
           b == Buffered(k)
           r == [clients[k] EXCEPT !.buffer = b]
           m == [net[c] EXCEPT !.in = <<>>]
<1>1. /\ k \in Index /\ at \in Index /\ at \in Int /\ at # AtPoll /\ Here.fd = c /\ c # None
      /\ clients[k] \in ClientData /\ net[c] \in Remote /\ fds[at] \in Entry
      /\ clients[k].sock_fd = c /\ clients[k].nfds = at /\ b \in Seq(Piece) /\ b # <<>>
      /\ b = clients[k].buffer \o net[c].in
      /\ InTurn(clients[k], fds[at].events, net[c],
                Queued(k, dataPipe), Queued(k, exitPipe), k \in jobs)
  BY TurnHere DEF RecvPart
<1>2. /\ Continue(AfterHandler(fds, clients[k]), at) /\ Ends(b) = {}
      /\ clients' = [clients EXCEPT ![k] = r] /\ net' = [net EXCEPT ![c] = m]
      /\ UNCHANGED <<dataPipe, exitPipe, jobs>>
  BY DEF RecvPart, GoOn, pipes
<1> HIDE DEF k, b
<1>3. ~net[c].eof /\ ~clients[k].net_lock /\ k \notin jobs /\ net[c].due = 0
  <2>1. ~net[c].eof /\ Debt(b, net[c].due, clients[k].net_lock, k \in jobs)
    BY <1>1 DEF InTurn
  <2>2. net[c].due = One(clients[k].net_lock) + One(k \in jobs) /\ net[c].due = 0
    BY <1>1, <1>2, <2>1 DEF Debt
  <2> QED
    BY <2>1, <2>2 DEF One
<1>4. clients[k].net_state = "IDLE"
  BY <1>1, <1>3 DEF InTurn
<1>5. Continue(fds, at)
  BY <1>2, <1>4 DEF AfterHandler
<1>6. /\ r.net_lock = clients[k].net_lock /\ r.net_state = "IDLE" /\ r.buffer = b
      /\ r.sock_fd = c /\ r.nfds = at /\ r \in ClientData
  BY <1>1, <1>4 DEF ClientData
<1>7. m.in = <<>> /\ m.due = 0 /\ m.eof = FALSE
  BY <1>1, <1>3 DEF Remote
<1>8. /\ fds \in [Index -> Entry] /\ clients \in [Index -> ClientData] /\ net \in [Conn -> Remote]
  BY DEF TablesInv, Typed
<1> HIDE DEF r, m
<1>9. /\ clients'[k] = r /\ \A j \in Index : j # k => clients'[j] = clients[j]
      /\ net'[c] = m /\ \A d \in Conn : d # c => net'[d] = net[d]
      /\ clients' \in [Index -> ClientData]
  BY <1>1, <1>2, <1>6, <1>8
<1>10. InTurn(r, fds[at].events, m, Queued(k, dataPipe), Queued(k, exitPipe), k \in jobs)
  <2>1. b \o <<>> = b
    BY <1>1
  <2>2. Debt(b, 0, r.net_lock, k \in jobs)
    BY <1>2, <1>3, <1>6 DEF Debt, One
  <2>3. Debt(r.buffer \o m.in, m.due, r.net_lock, k \in jobs)
    BY <1>6, <1>7, <2>1, <2>2
  <2> QED
    BY <1>1, <1>3, <1>4, <1>6, <1>7, <2>3 DEF InTurn
<1>11. SlotOK(k, clients'[k], fds, net', dataPipe', exitPipe', jobs')
  BY <1>1, <1>2, <1>6, <1>9, <1>10 DEF SlotOK
<1>12. k = SlotOf(Here.fd) /\ Here.fd \in Conn /\ Once(exitPipe')
  BY <1>1, <1>2 DEF k, Replies
<1>13. /\ \A j \in Index : j # k => (Queued(j, exitPipe') => Queued(j, exitPipe))
       /\ \A j \in Index : j # k => (j \in jobs' <=> j \in jobs)
  BY <1>2
<1>14. dataPipe' = dataPipe /\ \A d \in Conn : d # Here.fd => net'[d] = net[d]
  BY <1>1, <1>2, <1>9
<1> QED
  BY <1>1, <1>5, <1>8, <1>9, <1>11, <1>12, <1>13, <1>14, HereReplies

\* A connection is closed: the entry and the slot are free again.
LEMMA CloseReplies ==
  ASSUME TablesInv, Replies, at # AtPoll, Here.fd \in Conn, NEW k, k = SlotOf(Here.fd),
         NEW i \in Int, Continue(Closed(fds, k), i), CloseClient(k), k \notin jobs,
         \A d \in Conn : d # Here.fd => net'[d] = net[d],
         UNCHANGED <<dataPipe, exitPipe, jobs>>
  PROVE  Replies'
<1>1. /\ k \in Index /\ at \in Index /\ clients[k].nfds = at /\ clients[k].sock_fd # None
      /\ fds \in [Index -> Entry] /\ clients \in [Index -> ClientData] /\ Empty \in Entry
      /\ FreeClient \in ClientData
  BY SlotAt, FreeTypes DEF TablesInv, Typed
<1> DEFINE t == [fds EXCEPT ![at] = Empty]
<1>2. Continue(t, i)
  BY <1>1 DEF Closed
<1>3. t \in [Index -> Entry] /\ \A j \in Index : j # at => t[j] = fds[j]
  BY <1>1
<1> HIDE DEF t
<1>4. /\ clients'[k] = FreeClient /\ \A j \in Index : j # k => clients'[j] = clients[j]
      /\ clients' \in [Index -> ClientData]
  BY <1>1 DEF CloseClient
<1>5. SlotOK(k, clients'[k], t, net', dataPipe', exitPipe', jobs')
  <2>1. FreeClient.sock_fd = None
    BY DEF FreeClient
  <2> QED
    BY <1>4, <2>1 DEF SlotOK
<1>6. Once(exitPipe')
  BY DEF Replies
<1> QED
  BY <1>2, <1>3, <1>4, <1>5, <1>6, HereReplies

LEMMA RecvNothingReplies ==
  ASSUME ReportInv, Replies, NEW c \in Conn, RecvNothing(c), ~twice'
  PROVE  Replies'
<1> DEFINE k == SlotOf(c)
<1>1. TablesInv /\ ServeIn(c) /\ net[c].in = <<>> /\ -1 \in Int
  BY DEF ReportInv, RecvNothing
<1>2. /\ k \in Index /\ at \in Index /\ at # AtPoll /\ Here.fd = c
      /\ InTurn(clients[k], fds[at].events, net[c],
                Queued(k, dataPipe), Queued(k, exitPipe), k \in jobs)
  BY <1>1, TurnHere
<1>3. /\ Continue(Closed(fds, k), -1) /\ CloseClient(k)
      /\ UNCHANGED <<dataPipe, exitPipe, jobs, net>>
  BY DEF RecvNothing, Restart, pipes
<1>4. at \notin served
  BY <1>2, <1>3, FirstVisit DEF Here
<1>5. net[c].eof
  BY <1>1, <1>2, <1>4 DEF ReportInv, Unread, ServeIn, Here
<1>6. k \notin jobs
  BY <1>2, <1>5 DEF InTurn
<1> QED
  BY <1>1, <1>2, <1>3, <1>6, CloseReplies

\* The reply in cmd_send is sent: the entry was reported for POLLOUT, which is
\* asked for only while there is one.
LEMMA WriteTurn ==
  ASSUME TablesInv, Replies, Write, ~twice', NEW k, k = SlotOf(Here.fd)
  PROVE  /\ k \in Index /\ at \in Index /\ at \in Int /\ at # AtPoll
         /\ clients[k] \in ClientData /\ net[Here.fd] \in Remote /\ fds[at] \in Entry
         /\ clients[k].sock_fd = Here.fd /\ clients[k].nfds = at
         /\ InTurn(clients[k], fds[at].events, net[Here.fd],
                   Queued(k, dataPipe), Queued(k, exitPipe), k \in jobs)
         /\ clients[k].net_lock /\ ~Queued(k, dataPipe) /\ ~Queued(k, exitPipe)
<1>1. at # AtPoll /\ Here.fd \in Conn /\ "in" \notin Here.revents
  BY DEF Write, ServeOut
<1>2. /\ at \in Index /\ at \in Int /\ k \in Index /\ clients[k].sock_fd = Here.fd
      /\ clients[k].nfds = at /\ clients[k].sock_fd # None
  BY <1>1, SlotAt, AtEntry
<1>3. /\ clients[k] \in ClientData /\ net[Here.fd] \in Remote /\ fds[at] \in Entry
      /\ InTurn(clients[k], fds[at].events, net[Here.fd],
                Queued(k, dataPipe), Queued(k, exitPipe), k \in jobs)
  BY <1>2, TheTurn
<1>4. at \notin served
  <2>1. \E t, i : Continue(t, i)
    BY DEF Write, GoOn
  <2> QED
    BY <1>1, <2>1, FirstVisit DEF Here
<1>5. "out" \in fds[at].revents
  BY <1>1, <1>3 DEF Replies, Here, Entry
<1>6. "out" \in fds[at].events
  BY <1>1, <1>2, <1>4, <1>5 DEF Replies, Wanted, Here
<1> QED
  BY <1>1, <1>2, <1>3, <1>6 DEF InTurn

LEMMA WriteReplies ==
  ASSUME TablesInv, Replies, Write, ~twice'
  PROVE  Replies'
<1> DEFINE c == Here.fd
           k == SlotOf(c)
           d0 == IF net[c].due > 0 THEN net[c].due - 1 ELSE 0
           m == [net[c] EXCEPT !.due = d0]
           r == [clients[k] EXCEPT !.net_lock = FALSE, !.net_state = "IDLE"]
           t == [fds EXCEPT ![at].events = {"in"}]
<1>1. /\ k \in Index /\ at \in Index /\ at \in Int /\ at # AtPoll /\ c \in Conn /\ c # None
      /\ clients[k] \in ClientData /\ net[c] \in Remote /\ fds[at] \in Entry
      /\ clients[k].sock_fd = c /\ clients[k].nfds = at
      /\ InTurn(clients[k], fds[at].events, net[c],
                Queued(k, dataPipe), Queued(k, exitPipe), k \in jobs)
      /\ clients[k].net_lock /\ ~Queued(k, dataPipe) /\ ~Queued(k, exitPipe)
  BY WriteTurn, ListenerAssumption DEF Write, ServeOut
<1>2. /\ net' = [net EXCEPT ![c] = m] /\ UNCHANGED <<dataPipe, exitPipe, jobs>>
      /\ IF clients[k].net_state = "NEED_QUIT"
         THEN CloseClient(k) /\ Continue(Closed(fds, k), at)
         ELSE clients' = [clients EXCEPT ![k] = r] /\ Continue(t, at)
  BY <1>1 DEF Write, GoOn, pipes
<1>3. k = SlotOf(Here.fd) /\ Here.fd = c
  OBVIOUS
<1> HIDE DEF k, c
<1>4. /\ fds \in [Index -> Entry] /\ clients \in [Index -> ClientData] /\ net \in [Conn -> Remote]
  BY DEF TablesInv, Typed
<1>5. Debt(clients[k].buffer \o net[c].in, net[c].due, TRUE, k \in jobs)
  BY <1>1 DEF InTurn
<1>6. net[c].due = 1 + One(k \in jobs)
  BY <1>5 DEF Debt, One
<1>7. m.in = net[c].in /\ m.eof = net[c].eof /\ m.due = One(k \in jobs)
  BY <1>1, <1>6 DEF Remote, One
<1> HIDE DEF m
<1>8. net'[c] = m /\ \A d \in Conn : d # c => net'[d] = net[d]
  BY <1>1, <1>2, <1>4
<1>9. CASE clients[k].net_state = "NEED_QUIT"
  <2>1. k \notin jobs
    BY <1>1, <1>9 DEF InTurn
  <2> QED
    BY <1>1, <1>2, <1>3, <1>8, <1>9, <2>1, CloseReplies
<1>10. CASE clients[k].net_state # "NEED_QUIT"
  <2>1. /\ r.net_lock = FALSE /\ r.net_state = "IDLE" /\ r.buffer = clients[k].buffer
        /\ r.sock_fd = c /\ r.nfds = at /\ r \in ClientData
    BY <1>1 DEF ClientData
  <2>2. /\ t \in [Index -> Entry] /\ t[at].events = {"in"} /\ \A j \in Index : j # at => t[j] = fds[j]
    BY <1>1, <1>4 DEF Entry
  <2>3. clients' = [clients EXCEPT ![k] = r] /\ Continue(t, at)
    BY <1>2, <1>10
  <2> HIDE DEF r, t
  <2>4. /\ clients'[k] = r /\ \A j \in Index : j # k => clients'[j] = clients[j]
        /\ clients' \in [Index -> ClientData]
    BY <1>1, <1>4, <2>1, <2>3
  <2>5. Debt(r.buffer \o m.in, m.due, r.net_lock, k \in jobs)
    <3> DEFINE b == clients[k].buffer \o net[c].in
    <3>2. Ends(b) = {} /\ (b # <<>> => net[c].due = 0)
      BY <1>5 DEF Debt
    <3> HIDE DEF b
    <3>3. One(k \in jobs) = One(FALSE) + One(k \in jobs) /\ net[c].due # 0
      BY <1>6 DEF One
    <3>1. Debt(b, One(k \in jobs), FALSE, k \in jobs)
      BY <3>2, <3>3 DEF Debt
    <3> QED
      BY <1>7, <2>1, <3>1 DEF b
  <2>10. m.eof => r.buffer \o m.in = <<>> /\ k \notin jobs
    BY <1>1, <1>7, <2>1 DEF InTurn
  <2>11. ~Queued(k, dataPipe) /\ ~Queued(k, exitPipe) /\ "out" \notin {"in"}
    BY <1>1
  <2>6. InTurn(r, {"in"}, m, Queued(k, dataPipe), Queued(k, exitPipe), k \in jobs)
    BY <2>1, <2>5, <2>10, <2>11 DEF InTurn
  <2>7. SlotOK(k, clients'[k], t, net', dataPipe', exitPipe', jobs')
    <3>1. t[r.nfds].events = {"in"} /\ net'[r.sock_fd] = m /\ r.sock_fd # None
      BY <1>1, <1>8, <2>1, <2>2
    <3>2. SlotOK(k, r, t, net', dataPipe, exitPipe, jobs)
      BY <2>6, <3>1 DEF SlotOK
    <3> QED
      BY <1>2, <2>4, <3>2
  <2>8. /\ Once(exitPipe')
        /\ \A j \in Index : j # k => (Queued(j, exitPipe') => Queued(j, exitPipe))
        /\ \A j \in Index : j # k => (j \in jobs' <=> j \in jobs)
    BY <1>2 DEF Replies
  <2>9. /\ dataPipe' = dataPipe /\ \A d \in Conn : d # Here.fd => net'[d] = net[d]
        /\ Here.fd \in Conn
    BY <1>1, <1>2, <1>3, <1>8
  <2> QED
    BY <1>1, <1>3, <2>2, <2>3, <2>4, <2>7, <2>8, <2>9, HereReplies
<1> QED
  BY <1>9, <1>10
-----------------------------------------------------------------------------
(* The other thread and the remote clients.                                *)

\* A step beside the main thread, about slot k.
LEMMA OutsideReplies ==
  ASSUME TablesInv, Replies, UNCHANGED <<fds, at, served>>, NEW k \in Index,
         clients[k].sock_fd # None,
         \A j \in Index : j # k => clients'[j] = clients[j],
         \A d \in Conn : d # clients[k].sock_fd => net'[d] = net[d],
         \A j \in Index : j # k => (Queued(j, dataPipe') => Queued(j, dataPipe)),
         Once(dataPipe'), exitPipe' = exitPipe,
         \A j \in Index : j # k => (j \in jobs' <=> j \in jobs),
         SlotOK(k, clients'[k], fds, net', dataPipe', exitPipe', jobs')
  PROVE  Replies'
<1>1. \A j \in Index : j # k /\ clients[j].sock_fd # None =>
         clients[j].nfds # clients[k].nfds /\ clients[j].sock_fd # clients[k].sock_fd
  BY TwoEntries
<1>2. \A j \in Index : j # k => (Queued(j, exitPipe') => Queued(j, exitPipe))
  OBVIOUS
<1>3. Aside(k, clients[k].nfds, clients[k].sock_fd, clients', fds, net', dataPipe', exitPipe', jobs')
  BY <1>1, <1>2 DEF Aside
<1>4. Slots(clients', fds, net', dataPipe', exitPipe', jobs')
  BY <1>3, OneSlot DEF Replies
<1> QED
  BY <1>4 DEF Replies

\* A completion is composed while its client owes nothing else.
LEMMA CompleteReplies ==
  ASSUME TablesInv, Replies, NEW k \in Index, Complete(k)
  PROVE  Replies'
<1> DEFINE c == clients[k].sock_fd
           r == [clients[k] EXCEPT !.net_lock = TRUE, !.net_state = "NEED_SEND"]
<1>1. /\ k \in jobs /\ ~clients[k].net_lock /\ jobs' = jobs \ {k}
      /\ clients' = [clients EXCEPT ![k] = r] /\ dataPipe' = Append(dataPipe, k)
      /\ UNCHANGED <<fds, at, served, exitPipe, net>>
  BY DEF Complete, ghosts
<1>2. c # None
  BY <1>1 DEF Replies, Slots, SlotOK
<1>3. /\ clients[k] \in ClientData /\ c \in Conn
      /\ InTurn(clients[k], fds[clients[k].nfds].events, net[c],
                Queued(k, dataPipe), Queued(k, exitPipe), k \in jobs)
      /\ clients \in [Index -> ClientData] /\ dataPipe \in Seq(Index) /\ Once(dataPipe)
  BY <1>2, TheTurn DEF TablesInv, Typed, Replies
<1> HIDE DEF c
<1>4. /\ clients[k].net_state = "IDLE" /\ ~Queued(k, dataPipe) /\ ~Queued(k, exitPipe)
      /\ "out" \notin fds[clients[k].nfds].events /\ ~net[c].eof
  BY <1>1, <1>3 DEF InTurn
<1>5. /\ r.net_lock = TRUE /\ r.net_state = "NEED_SEND" /\ r.buffer = clients[k].buffer
      /\ r.sock_fd = c /\ r.nfds = clients[k].nfds
  BY <1>3 DEF ClientData, c
<1> HIDE DEF r
<1>6. clients'[k] = r /\ \A j \in Index : j # k => clients'[j] = clients[j]
  BY <1>1, <1>3
<1>7. /\ Once(dataPipe') /\ Queued(k, dataPipe')
      /\ \A j \in Index : j # k => (Queued(j, dataPipe') => Queued(j, dataPipe))
  BY <1>1, <1>3, <1>4, AppendOnce
<1>8. Debt(r.buffer \o net[c].in, net[c].due, TRUE, FALSE)
  <2> DEFINE b == clients[k].buffer \o net[c].in
  <2>1. Debt(b, net[c].due, FALSE, TRUE)
    BY <1>1, <1>3 DEF InTurn, Debt, One
  <2> HIDE DEF b
  <2>2. Ends(b) = {} /\ net[c].due = 1 /\ (b # <<>> => net[c].due = 0)
    BY <2>1 DEF Debt, One
  <2>3. Debt(b, net[c].due, TRUE, FALSE)
    BY <2>2 DEF Debt, One
  <2> QED
    BY <1>5, <2>3 DEF b
<1>9. k \notin jobs' /\ \A j \in Index : j # k => (j \in jobs' <=> j \in jobs)
  BY <1>1
<1>10. InTurn(r, fds[clients[k].nfds].events, net[c], Queued(k, dataPipe'), Queued(k, exitPipe), FALSE)
  BY <1>4, <1>5, <1>7, <1>8 DEF InTurn
<1>11. InTurn(r, fds[clients[k].nfds].events, net[c],
              Queued(k, dataPipe'), Queued(k, exitPipe), k \in jobs')
  BY <1>9, <1>10 DEF InTurn, Debt, One
<1>12. SlotOK(k, clients'[k], fds, net', dataPipe', exitPipe', jobs')
  BY <1>1, <1>2, <1>5, <1>6, <1>11 DEF SlotOK
<1> QED
  BY <1>1, <1>2, <1>6, <1>7, <1>9, <1>12, OutsideReplies DEF c

\* The slot of an open connection.
LEMMA OpenTurn ==
  ASSUME TablesInv, Replies, NEW c \in OpenConns, NEW k, k = SlotOf(c)
  PROVE  /\ k \in Index /\ c \in Conn /\ c # None /\ clients[k].sock_fd = c
         /\ clients[k] \in ClientData /\ net[c] \in Remote /\ Unhandled(c) = clients[k].buffer \o net[c].in
         /\ InTurn(clients[k], fds[clients[k].nfds].events, net[c],
                   Queued(k, dataPipe), Queued(k, exitPipe), k \in jobs)
<1>1. PICK j \in Index : clients[j].sock_fd = c /\ c # None
  BY DEF OpenConns
<1>2. k = j /\ c \in Conn
  BY <1>1, TheSlot
<1>3. Unhandled(c) = clients[k].buffer \o net[c].in
  BY <1>1, <1>2 DEF Unhandled, Buffered
<1> QED
  BY <1>1, <1>2, <1>3, TheTurn

LEMMA HangupReplies ==
  ASSUME TablesInv, Replies, NEW c \in Conn, Hangup(c)
  PROVE  Replies'
<1> DEFINE k == SlotOf(c)
           m == [net[c] EXCEPT !.eof = TRUE]
<1>1. /\ k \notin jobs /\ Unhandled(c) = <<>> /\ net' = [net EXCEPT ![c] = m]
      /\ UNCHANGED <<fds, at, served, clients, dataPipe, exitPipe, jobs>> /\ c \in OpenConns
  BY DEF Hangup, tables, ghosts, pipes
<1>2. /\ k \in Index /\ c # None /\ clients[k].sock_fd = c /\ net[c] \in Remote
      /\ clients[k].buffer \o net[c].in = <<>>
      /\ InTurn(clients[k], fds[clients[k].nfds].events, net[c],
                Queued(k, dataPipe), Queued(k, exitPipe), k \in jobs)
      /\ net \in [Conn -> Remote] /\ Once(dataPipe)
  BY <1>1, OpenTurn DEF TablesInv, Typed, Replies
<1> HIDE DEF k
<1>3. m.in = net[c].in /\ m.due = net[c].due /\ m.eof = TRUE
  BY <1>2 DEF Remote
<1> HIDE DEF m
<1>4. net'[c] = m /\ \A d \in Conn : d # c => net'[d] = net[d]
  BY <1>1, <1>2
<1>5. InTurn(clients[k], fds[clients[k].nfds].events, m,
             Queued(k, dataPipe), Queued(k, exitPipe), k \in jobs)
  BY <1>1, <1>2, <1>3 DEF InTurn
<1>6. SlotOK(k, clients'[k], fds, net', dataPipe', exitPipe', jobs')
  BY <1>1, <1>2, <1>4, <1>5 DEF SlotOK
<1>7. /\ \A j \in Index : j # k => (Queued(j, dataPipe') => Queued(j, dataPipe))
      /\ \A j \in Index : j # k => (j \in jobs' <=> j \in jobs)
      /\ \A j \in Index : j # k => clients'[j] = clients[j]
  BY <1>1
<1> QED
  BY <1>1, <1>2, <1>4, <1>6, <1>7, OutsideReplies

LEMMA PieceAppended ==
  ASSUME NEW s \in Seq(Piece), NEW t \in Seq(Piece), NEW p \in Piece
  PROVE  s \o t \in Seq(Piece) /\ s \o Append(t, p) = Append(s \o t, p)
<1>1. s \o t \in Seq(Piece) /\ <<p>> \in Seq(Piece)
  OBVIOUS
<1>2. Append(t, p) = t \o <<p>>
  BY AppendIsConcat
<1>3. Append(s \o t, p) = (s \o t) \o <<p>>
  BY <1>1, AppendIsConcat
<1>4. (s \o t) \o <<p>> = s \o (t \o <<p>>)
  BY <1>1, ConcatAssociative
<1> QED
  BY <1>1, <1>2, <1>3, <1>4

\* A client that waits for its answers sends when nothing is on its way back.
LEMMA SendPieceReplies ==
  ASSUME TablesInv, Replies, NEW c \in Conn, NEW p \in Piece, SendPiece(c, p), ~Batch
  PROVE  Replies'
<1> DEFINE k == SlotOf(c)
           q == Append(net[c].in, p)
           d0 == IF p = "part" THEN 0 ELSE Cost(p)
           m == [net[c] EXCEPT !.in = q, !.due = d0]
           b == clients[k].buffer \o net[c].in
<1>1. /\ ~net[c].eof /\ net[c].due = 0 /\ c \in OpenConns
      /\ UNCHANGED <<fds, at, served, clients, dataPipe, exitPipe, jobs>>
  BY DEF SendPiece, tables, ghosts, pipes
<1>2. /\ k \in Index /\ c # None /\ clients[k].sock_fd = c /\ net[c] \in Remote
      /\ clients[k] \in ClientData
      /\ InTurn(clients[k], fds[clients[k].nfds].events, net[c],
                Queued(k, dataPipe), Queued(k, exitPipe), k \in jobs)
      /\ net \in [Conn -> Remote] /\ Once(dataPipe)
  BY <1>1, OpenTurn DEF TablesInv, Typed, Replies
<1>3. net' = [net EXCEPT ![c] = m]
  <2>1. net[c].due + (CASE p = "part" -> 0 [] p = "XFER" -> 2 [] OTHER -> 1) = d0
    BY <1>1 DEF Cost
  <2> QED
    BY <2>1 DEF SendPiece
<1> HIDE DEF k, d0
<1>4. clients[k].buffer \in Seq(Piece) /\ net[c].in \in Seq(Piece)
  BY <1>2 DEF ClientData, Remote
<1>5. b \in Seq(Piece) /\ clients[k].buffer \o q = Append(b, p)
  BY <1>4, PieceAppended
<1>6. m.in = q /\ m.due = d0 /\ m.eof = FALSE
  BY <1>1, <1>2 DEF Remote
<1> HIDE DEF m, q
<1>7. net'[c] = m /\ \A d \in Conn : d # c => net'[d] = net[d]
  BY <1>2, <1>3
<1>8. Debt(b, 0, clients[k].net_lock, k \in jobs)
  BY <1>1, <1>2 DEF InTurn
<1> HIDE DEF b
<1>9. Ends(b) = {} /\ ~clients[k].net_lock /\ k \notin jobs
  BY <1>8 DEF Debt, One, Cost
<1>10. Debt(Append(b, p), d0, clients[k].net_lock, k \in jobs)
  <2>1. CASE p = "part"
    <3>1. Ends(Append(b, p)) = {} /\ d0 = 0
      BY <1>5, <1>9, <2>1, AppendLine DEF d0
    <3> QED
      BY <1>9, <3>1 DEF Debt, One
  <2>2. CASE p # "part"
    <3>1. /\ Ends(Append(b, p)) = {Len(Append(b, p))} /\ Append(b, p)[Len(Append(b, p))] = p
          /\ d0 = Cost(p)
      BY <1>5, <1>9, <2>2, AppendLine DEF d0
    <3> QED
      BY <1>9, <3>1 DEF Debt
  <2> QED
    BY <2>1, <2>2
<1>11. Debt(clients[k].buffer \o m.in, m.due, clients[k].net_lock, k \in jobs)
  BY <1>5, <1>6, <1>10
<1>12. InTurn(clients[k], fds[clients[k].nfds].events, m,
              Queued(k, dataPipe), Queued(k, exitPipe), k \in jobs)
  BY <1>2, <1>6, <1>11 DEF InTurn
<1>13. SlotOK(k, clients'[k], fds, net', dataPipe', exitPipe', jobs')
  BY <1>1, <1>2, <1>7, <1>12 DEF SlotOK
<1>14. /\ \A j \in Index : j # k => (Queued(j, dataPipe') => Queued(j, dataPipe))
       /\ \A j \in Index : j # k => (j \in jobs' <=> j \in jobs)
       /\ \A j \in Index : j # k => clients'[j] = clients[j]
  BY <1>1
<1> QED
  BY <1>1, <1>2, <1>7, <1>13, <1>14, OutsideReplies
-----------------------------------------------------------------------------
(* Every step.                                                             *)

LEMMA RepliesInit == Init => Replies
<1> SUFFICES ASSUME Init PROVE Replies
  OBVIOUS
<1>1. at = AtPoll /\ dataPipe = <<>> /\ exitPipe = <<>> /\ jobs = {}
  BY DEF Init
<1>2. Once(<<>>)
  BY DEF Once
<1>3. ASSUME NEW k \in Index
      PROVE  SlotOK(k, clients[k], fds, net, dataPipe, exitPipe, jobs)
  <2>1. clients[k] = FreeClient /\ FreeClient.sock_fd = None
    BY DEF Init, FreeClient
  <2> QED
    BY <1>1, <2>1 DEF SlotOK
<1> QED
  BY <1>1, <1>2, <1>3 DEF Replies, Slots

\* Once an entry of a client has been served twice that is known for ever.
LEMMA TwiceStays == twice /\ [Next]_vars => twice'
<1> SUFFICES ASSUME twice, [Next]_vars PROVE twice'
  OBVIOUS
<1>1. CASE Poll \/ (\E k \in Index : Complete(k)) \/ Peers \/ UNCHANGED vars
  <2>1. twice' = twice
    BY <1>1 DEF Poll, Complete, Peers, Arrive, Hangup, SendPiece, vars, ghosts
  <2> QED
    BY <2>1
<1>2. CASE Serve
  <2>1. \E t, i : Continue(t, i)
    BY <1>2 DEF Serve, AcceptNobody, AcceptFull, Accept, ReadDataPipe, ReadExitPipe,
                RecvLine, RecvPart, RecvNothing, Write, GoOn, Restart
  <2> QED
    BY <2>1 DEF Continue
<1> QED
  BY <1>1, <1>2 DEF Next

LEMMA RepliesStep ==
  ASSUME ReportInv, Replies, Next, FreshOwners, ~twice', ~Batch
  PROVE  Replies'
<1>1. TablesInv
  BY DEF ReportInv
<1>2. CASE Poll
  BY <1>1, <1>2, PollReplies
<1>3. CASE AcceptNobody \/ AcceptFull
  <2>1. /\ at # AtPoll /\ UNCHANGED <<clients, net, dataPipe, exitPipe, jobs>>
        /\ Continue(fds, at) \/ Continue(fds, -1)
    BY <1>3 DEF AcceptNobody, AcceptFull, ServeIn, GoOn, Restart, pipes
  <2>2. at \in Int /\ -1 \in Int
    BY <1>1, <2>1, AtEntry
  <2> QED
    BY <1>1, <2>1, <2>2, IdleReplies
<1>4. CASE Accept
  BY <1>1, <1>4, AcceptReplies
<1>5. CASE ReadDataPipe
  BY <1>1, <1>5, DataPipeReplies
<1>6. CASE ReadExitPipe
  BY <1>1, <1>6, ExitPipeReplies
<1>7. ASSUME NEW c \in Conn, RecvLine(c) \/ RecvPart(c) \/ RecvNothing(c) PROVE Replies'
  BY <1>1, <1>7, RecvLineReplies, RecvPartReplies, RecvNothingReplies
<1>8. CASE Write
  BY <1>1, <1>8, WriteReplies
<1>9. ASSUME NEW k \in Index, Complete(k) PROVE Replies'
  BY <1>1, <1>9, CompleteReplies
<1>10. CASE Arrive
  <2>1. UNCHANGED <<clients, fds, net, dataPipe, exitPipe, jobs, at, served>>
    BY <1>10 DEF Arrive, tables, ghosts, pipes
  <2> QED
    BY <2>1 DEF Replies
<1>11. ASSUME NEW c \in Conn, Hangup(c) PROVE Replies'
  BY <1>1, <1>11, HangupReplies
<1>12. ASSUME NEW c \in Conn, NEW p \in Piece, SendPiece(c, p) PROVE Replies'
  BY <1>1, <1>12, SendPieceReplies
<1> QED
  BY <1>2, <1>3, <1>4, <1>5, <1>6, <1>7, <1>8, <1>9, <1>10, <1>11, <1>12
     DEF Next, Serve, Peers

\* The invariant: the replies are in order as long as nothing is served twice.
ReplyInv == ReportInv /\ (twice \/ Replies)

LEMMA ReplyStep ==
  ASSUME ~Batch
  PROVE  ReplyInv /\ [Next]_vars /\ [FreshOwners]_vars => ReplyInv'
<1> SUFFICES ASSUME ReplyInv, [Next]_vars, [FreshOwners]_vars PROVE ReplyInv'
  OBVIOUS
<1>1. ReportInv' /\ (twice => twice')
  BY ReportStep, TwiceStays DEF ReplyInv
<1>2. CASE UNCHANGED vars
  <2>1. UNCHANGED <<clients, fds, net, dataPipe, exitPipe, jobs, at, served, twice>>
    BY <1>2 DEF vars, tables, ghosts, pipes
  <2> QED
    BY <1>1, <2>1 DEF ReplyInv, Replies
<1>3. CASE Next /\ FreshOwners
  <2>1. ASSUME ~twice' PROVE Replies'
    BY <1>1, <1>3, <2>1, RepliesStep DEF ReplyInv
  <2> QED
    BY <1>1, <2>1 DEF ReplyInv
<1> QED
  BY <1>2, <1>3

LEMMA ReplyInit == Init => ReplyInv
<1> SUFFICES ASSUME Init PROVE ReplyInv
  OBVIOUS
<1>1. TablesInv /\ Replies /\ at = AtPoll
  BY TablesInit, RepliesInit DEF Init
<1> QED
  BY <1>1 DEF ReplyInv, ReportInv

\* What the invariant says of the two properties.
LEMMA ReplyUnblocked == ReplyInv => ServerNotBlocked
<1> SUFFICES ASSUME ReportInv, Replies, NEW c \in Conn, ServeIn(c), net[c].in # <<>>,
                    Ends(Unhandled(c)) # {}, clients[SlotOf(c)].net_lock
             PROVE  FALSE
  BY DEF ReplyInv, ServerNotBlocked
<1> DEFINE k == SlotOf(c)
<1>1. InTurn(clients[k], fds[at].events, net[c],
             Queued(k, dataPipe), Queued(k, exitPipe), k \in jobs)
      /\ Unhandled(c) = clients[k].buffer \o net[c].in
  BY TurnHere DEF ReportInv, Unhandled
<1>2. Debt(Unhandled(c), net[c].due, clients[k].net_lock, k \in jobs)
  BY <1>1 DEF InTurn
<1> HIDE DEF k
<1>3. ~clients[k].net_lock
  BY <1>2 DEF Debt
<1> QED
  BY <1>3 DEF k

LEMMA ReplySent == ReplyInv /\ Write => twice' \/ clients[SlotOf(Here.fd)].net_lock
<1> SUFFICES ASSUME ReplyInv, Write, ~twice' PROVE clients[SlotOf(Here.fd)].net_lock
  OBVIOUS
<1>1. ReportInv /\ (twice => twice')
  BY TwiceStays DEF ReplyInv, Next, Serve
<1>2. TablesInv /\ Replies
  BY <1>1 DEF ReplyInv, ReportInv
<1> QED
  BY <1>2, WriteTurn

\* Every reply is sent once: for clients that wait for their answers, as long
\* as no slot gets a new owner while a message about the last one is in a pipe.
THEOREM RepliesSentOnce ==
  ASSUME ~Batch
  PROVE  Spec /\ [][FreshOwners]_vars => SentOnce
<1>1. Init => ReplyInv
  BY ReplyInit
<1>2. ReplyInv /\ [Next]_vars /\ [FreshOwners]_vars => ReplyInv'
  BY ReplyStep
<1>3. ReplyInv => [Write => twice' \/ clients[SlotOf(Here.fd)].net_lock]_vars
  BY ReplySent
<1> QED
  BY <1>1, <1>2, <1>3, PTL DEF Spec, SentOnce

\* Under the same hypothesis the main thread never blocks on net_lock.
THEOREM ServerRuns ==
  ASSUME ~Batch
  PROVE  Spec /\ [][FreshOwners]_vars => []ServerNotBlocked
<1>1. Init => ReplyInv
  BY ReplyInit
<1>2. ReplyInv /\ [Next]_vars /\ [FreshOwners]_vars => ReplyInv'
  BY ReplyStep
<1>3. ReplyInv => ServerNotBlocked
  BY ReplyUnblocked
<1> QED
  BY <1>1, <1>2, <1>3, PTL DEF Spec
-----------------------------------------------------------------------------
(* Clients that have their replies before they leave: then no message stays *)
(* behind for the next owner of a slot.                                     *)

Patient == \A c \in Conn : net'[c].eof /\ ~net[c].eof => net[c].due = 0

QuietEnds(nt)      == \A c \in Conn : nt[c].eof => nt[c].due = 0
NoRemains(cl, dp, xp) ==
  \A k \in Index : cl[k].sock_fd = None => ~Queued(k, dp) /\ ~Queued(k, xp)

PatientInv ==
  ReportInv /\ (twice \/ (Replies /\ QuietEnds(net) /\ NoRemains(clients, dataPipe, exitPipe)))

\* Only clients with everything answered have left.
LEMMA QuietStep ==
  ASSUME TablesInv, QuietEnds(net), Next, Patient
  PROVE  QuietEnds(net')
<1> SUFFICES ASSUME NEW c \in Conn, net'[c].eof PROVE net'[c].due = 0
  BY DEF QuietEnds
<1>1. net \in [Conn -> Remote] /\ net[c] \in Remote
  BY DEF TablesInv, Typed
<1>2. CASE ~net[c].eof
  <2>1. CASE Accept
    <3>1. PICK d \in Conn : net' = [net EXCEPT ![d] = Fresh]
      BY <2>1 DEF Accept
    <3>2. d # c
      BY <1>1, <1>2, <3>1 DEF Fresh
    <3> QED
      BY <1>1, <1>2, <3>1, <3>2
  <2>2. ASSUME NEW d \in Conn, NEW s, net' = [net EXCEPT ![d].in = s] PROVE FALSE
    BY <1>1, <1>2, <2>2 DEF Remote
  <2>3. ASSUME NEW d \in Conn, NEW n, net' = [net EXCEPT ![d].due = n] PROVE FALSE
    BY <1>1, <1>2, <2>3 DEF Remote
  <2>4. ASSUME NEW d \in Conn, NEW s, NEW n, net' = [net EXCEPT ![d].in = s, ![d].due = n]
        PROVE  FALSE
    BY <1>1, <1>2, <2>4 DEF Remote
  <2>5. ASSUME NEW d \in Conn, net' = [net EXCEPT ![d].eof = TRUE] PROVE net'[c].due = 0
    <3>1. net'[c].due = net[c].due
      BY <1>1, <2>5 DEF Remote
    <3> QED
      BY <1>2, <3>1 DEF Patient
  <2>6. ASSUME net' = net PROVE FALSE
    BY <1>2, <2>6
  <2> QED
    BY <2>1, <2>2, <2>3, <2>4, <2>5, <2>6
       DEF Next, Poll, Serve, AcceptNobody, AcceptFull, ReadDataPipe, ReadExitPipe, RecvLine,
           RecvPart, RecvNothing, Write, ServeOut, Complete, Peers, Arrive, Hangup, SendPiece
<1>3. CASE net[c].eof
  <2>0. net[c].due = 0
    BY <1>3 DEF QuietEnds
  <2>1. CASE Accept
    <3>1. PICK d \in Conn : net' = [net EXCEPT ![d] = Fresh]
      BY <2>1 DEF Accept
    <3>2. d # c
      BY <1>1, <3>1 DEF Fresh
    <3> QED
      BY <1>1, <2>0, <3>1, <3>2
  <2>2. ASSUME NEW d \in Conn, NEW s, net' = [net EXCEPT ![d].in = s] PROVE net'[c].due = 0
    BY <1>1, <2>0, <2>2 DEF Remote
  <2>3. ASSUME NEW d \in Conn,
               net' = [net EXCEPT ![d].due = IF @ > 0 THEN @ - 1 ELSE 0]
        PROVE  net'[c].due = 0
    BY <1>1, <2>0, <2>3 DEF Remote
  <2>4. ASSUME NEW d \in Conn, NEW p \in Piece, SendPiece(d, p) PROVE net'[c].due = 0
    <3>1. d # c
      BY <1>3, <2>4 DEF SendPiece
    <3>2. net'[c] = net[c]
      BY <1>1, <2>4, <3>1 DEF SendPiece
    <3> QED
      BY <2>0, <3>2
  <2>5. ASSUME NEW d \in Conn, net' = [net EXCEPT ![d].eof = TRUE] PROVE net'[c].due = 0
    BY <1>1, <2>0, <2>5 DEF Remote
  <2>6. ASSUME net' = net PROVE net'[c].due = 0
    BY <2>0, <2>6
  <2> QED
    BY <2>1, <2>2, <2>3, <2>4, <2>5, <2>6
       DEF Next, Poll, Serve, AcceptNobody, AcceptFull, ReadDataPipe, ReadExitPipe, RecvLine,
           RecvPart, RecvNothing, Write, ServeOut, Complete, Peers, Arrive, Hangup
<1> QED
  BY <1>2, <1>3

\* A slot that is free after a step was free before it, unless its client has
\* been disconnected; a new message is about a slot that is not free.
LEMMA RemainsStep ==
  ASSUME ReportInv, Replies, QuietEnds(net), NoRemains(clients, dataPipe, exitPipe), Next, ~twice'
  PROVE  NoRemains(clients', dataPipe', exitPipe')
<1> SUFFICES ASSUME NEW k \in Index, clients'[k].sock_fd = None
             PROVE  ~Queued(k, dataPipe') /\ ~Queued(k, exitPipe')
  BY DEF NoRemains
<1>1. /\ TablesInv /\ clients \in [Index -> ClientData] /\ clients[k] \in ClientData
      /\ dataPipe \in Seq(Index) /\ exitPipe \in Seq(Index) /\ Once(dataPipe) /\ Once(exitPipe)
  BY DEF ReportInv, TablesInv, Typed, Replies
<1>2. clients[k].sock_fd = None => ~Queued(k, dataPipe) /\ ~Queued(k, exitPipe)
  BY DEF NoRemains
<1>3. CASE Poll \/ AcceptNobody \/ AcceptFull \/ Arrive
  BY <1>2, <1>3 DEF Poll, AcceptNobody, AcceptFull, Arrive, tables, pipes
<1>4. ASSUME NEW c \in Conn, Hangup(c) \/ \E p \in Piece : SendPiece(c, p)
      PROVE  ~Queued(k, dataPipe') /\ ~Queued(k, exitPipe')
  BY <1>2, <1>4 DEF Hangup, SendPiece, tables, pipes
<1>5. CASE Accept
  <2>1. PICK c \in Conn, i, j \in Index :
          clients' = [clients EXCEPT ![j] =
                        [@ EXCEPT !.sock_fd = c, !.nfds = i,
                                  !.net_state = "NEED_SEND", !.net_lock = TRUE]]
    BY <1>5 DEF Accept, First, FreeSlots, Vacant
  <2>2. clients[j] \in ClientData /\ c # None
    BY <1>1, ListenerAssumption
  <2>3. clients'[j].sock_fd = c /\ (k # j => clients'[k] = clients[k])
    BY <1>1, <2>1, <2>2 DEF ClientData
  <2>4. clients[k].sock_fd = None
    BY <2>2, <2>3
  <2> QED
    BY <1>2, <1>5, <2>4 DEF Accept, pipes
<1>6. CASE ReadDataPipe \/ ReadExitPipe
  <2>1. clients' = clients
    BY <1>6 DEF ReadDataPipe, ReadExitPipe
  <2>2. /\ Queued(k, dataPipe') => Queued(k, dataPipe)
        /\ Queued(k, exitPipe') => Queued(k, exitPipe)
    <3>1. /\ dataPipe' \in {dataPipe, Tail(dataPipe)} /\ exitPipe' \in {exitPipe, Tail(exitPipe)}
          /\ dataPipe = <<>> => dataPipe' = dataPipe
          /\ exitPipe = <<>> => exitPipe' = exitPipe
      BY <1>6 DEF ReadDataPipe, ReadExitPipe
    <3> QED
      BY <1>1, <3>1, HeadOnce
  <2> QED
    BY <1>2, <2>1, <2>2
<1>7. ASSUME NEW c \in Conn, RecvLine(c) PROVE ~Queued(k, dataPipe') /\ ~Queued(k, exitPipe')
  <2> DEFINE j == SlotOf(c)
  <2>1. j \in Index /\ clients[j].sock_fd = c /\ c # None
    BY <1>1, <1>7, TurnHere DEF RecvLine
  <2>2. PICK s, b : clients' = [clients EXCEPT ![j] =
                      [@ EXCEPT !.net_lock = TRUE, !.net_state = s, !.buffer = b]]
    BY <1>7 DEF RecvLine
  <2>3. dataPipe' = dataPipe /\ (exitPipe' = exitPipe \/ exitPipe' = Append(exitPipe, j))
    BY <1>7 DEF RecvLine
  <2> HIDE DEF j
  <2>4. clients[j] \in ClientData
    BY <1>1, <2>1
  <2>5. clients'[j].sock_fd = c /\ (k # j => clients'[k] = clients[k])
    BY <1>1, <2>1, <2>2, <2>4 DEF ClientData
  <2>6. k # j /\ clients[k].sock_fd = None
    BY <2>1, <2>5
  <2> QED
    BY <1>1, <1>2, <2>1, <2>3, <2>6, AppendOnce
<1>8. ASSUME NEW c \in Conn, RecvPart(c) PROVE ~Queued(k, dataPipe') /\ ~Queued(k, exitPipe')
  <2>1. clients'[k].sock_fd = clients[k].sock_fd /\ UNCHANGED <<dataPipe, exitPipe>>
    BY <1>1, <1>8 DEF RecvPart, pipes, ClientData
  <2> QED
    BY <1>2, <2>1
<1>9. ASSUME NEW c \in Conn, RecvNothing(c) PROVE ~Queued(k, dataPipe') /\ ~Queued(k, exitPipe')
  <2> DEFINE j == SlotOf(c)
  <2>1. /\ j \in Index /\ at # AtPoll /\ at \in Index /\ Here.fd = c /\ net[c] \in Remote
        /\ InTurn(clients[j], fds[at].events, net[c],
                  Queued(j, dataPipe), Queued(j, exitPipe), j \in jobs)
    BY <1>1, <1>9, TurnHere DEF RecvNothing
  <2>2. /\ Continue(Closed(fds, j), -1) /\ clients' = [clients EXCEPT ![j] = FreeClient]
        /\ UNCHANGED <<dataPipe, exitPipe>>
    BY <1>9 DEF RecvNothing, Restart, CloseClient, pipes
  <2>3. at \notin served
    BY <2>1, <2>2, FirstVisit DEF Here
  <2>4. net[c].eof
    BY <1>9, <2>1, <2>3 DEF ReportInv, Unread, RecvNothing, ServeIn, Here
  <2> HIDE DEF j
  <2>5. ~clients[j].net_lock
    <3>1. net[c].due = 0 /\ Debt(clients[j].buffer \o net[c].in, net[c].due, clients[j].net_lock, j \in jobs)
      BY <2>1, <2>4 DEF QuietEnds, InTurn
    <3>2. net[c].due = One(clients[j].net_lock) + One(j \in jobs) \/ ~clients[j].net_lock
      BY <3>1 DEF Debt
    <3> QED
      BY <3>1, <3>2 DEF One
  <2>6. ~Queued(j, dataPipe) /\ ~Queued(j, exitPipe)
    BY <2>1, <2>5 DEF InTurn
  <2>7. k # j => clients[k].sock_fd = None
    BY <1>1, <2>1, <2>2
  <2> QED
    BY <1>2, <2>2, <2>6, <2>7
<1>10. CASE Write
  <2> DEFINE j == SlotOf(Here.fd)
  <2>1. j \in Index /\ ~Queued(j, dataPipe) /\ ~Queued(j, exitPipe)
    BY <1>1, <1>10, WriteTurn
  <2>2. k # j => clients'[k] = clients[k]
    BY <1>1, <1>10, <2>1 DEF Write, CloseClient
  <2>3. UNCHANGED <<dataPipe, exitPipe>>
    BY <1>10 DEF Write, pipes
  <2> QED
    BY <1>2, <2>1, <2>2, <2>3
<1>11. ASSUME NEW j \in Index, Complete(j) PROVE ~Queued(k, dataPipe') /\ ~Queued(k, exitPipe')
  <2>1. j \in jobs /\ dataPipe' = Append(dataPipe, j) /\ exitPipe' = exitPipe
    BY <1>11 DEF Complete
  <2>2. clients[j].sock_fd # None
    BY <2>1 DEF Replies, Slots, SlotOK
  <2>3. clients'[k].sock_fd = clients[k].sock_fd
    BY <1>1, <1>11 DEF Complete, ClientData
  <2> QED
    BY <1>1, <1>2, <2>1, <2>2, <2>3, AppendOnce
<1> QED
  BY <1>3, <1>4, <1>5, <1>6, <1>7, <1>8, <1>9, <1>10, <1>11 DEF Next, Serve, Peers

LEMMA PatientStep ==
  ASSUME ~Batch
  PROVE  PatientInv /\ [Next]_vars /\ [Patient]_vars => PatientInv'
<1> SUFFICES ASSUME PatientInv, [Next]_vars, [Patient]_vars PROVE PatientInv'
  OBVIOUS
<1>1. ReportInv' /\ (twice => twice') /\ ReportInv
  BY ReportStep, TwiceStays DEF PatientInv
<1>2. CASE UNCHANGED vars
  <2>1. UNCHANGED <<clients, fds, net, dataPipe, exitPipe, jobs, at, served, twice>>
    BY <1>2 DEF vars, tables, ghosts, pipes
  <2> QED
    BY <1>1, <2>1 DEF PatientInv, Replies
<1>3. CASE Next /\ Patient
  <2>1. ASSUME ~twice'
        PROVE  Replies' /\ QuietEnds(net') /\ NoRemains(clients', dataPipe', exitPipe')
    <3>1. Replies /\ QuietEnds(net) /\ NoRemains(clients, dataPipe, exitPipe)
      BY <1>1, <2>1 DEF PatientInv
    <3>2. FreshOwners
      BY <3>1 DEF NoRemains, FreshOwners, NewOwner
    <3>3. Replies'
      BY <1>1, <1>3, <2>1, <3>1, <3>2, RepliesStep
    <3>4. QuietEnds(net') /\ NoRemains(clients', dataPipe', exitPipe')
      BY <1>1, <1>3, <2>1, <3>1, QuietStep, RemainsStep DEF ReportInv
    <3> QED
      BY <3>3, <3>4
  <2> QED
    BY <1>1, <2>1 DEF PatientInv
<1> QED
  BY <1>2, <1>3

LEMMA PatientInit == Init => PatientInv
<1> SUFFICES ASSUME Init PROVE PatientInv
  OBVIOUS
<1>1. ReportInv /\ Replies
  BY ReplyInit, RepliesInit DEF ReplyInv
<1>2. QuietEnds(net) /\ NoRemains(clients, dataPipe, exitPipe)
  BY DEF Init, QuietEnds, NoRemains, Queued, Fresh
<1> QED
  BY <1>1, <1>2 DEF PatientInv

\* The same without a word about slots: every reply is sent once when each
\* client has its replies before it sends the next line and before it leaves.
THEOREM PatientClientsAnsweredOnce ==
  ASSUME ~Batch
  PROVE  Spec /\ [][Patient]_vars => SentOnce
<1>1. Init => PatientInv
  BY PatientInit
<1>2. PatientInv /\ [Next]_vars /\ [Patient]_vars => PatientInv'
  BY PatientStep
<1>3. PatientInv => [Write => twice' \/ clients[SlotOf(Here.fd)].net_lock]_vars
  BY ReplySent DEF PatientInv, ReplyInv
<1> QED
  BY <1>1, <1>2, <1>3, PTL DEF Spec, SentOnce

\* And for such clients the main thread never blocks on net_lock.
THEOREM PatientClientsNeverBlock ==
  ASSUME ~Batch
  PROVE  Spec /\ [][Patient]_vars => []ServerNotBlocked
<1>1. Init => PatientInv
  BY PatientInit
<1>2. PatientInv /\ [Next]_vars /\ [Patient]_vars => PatientInv'
  BY PatientStep
<1>3. PatientInv => ServerNotBlocked
  BY ReplyUnblocked DEF PatientInv, ReplyInv
<1> QED
  BY <1>1, <1>2, <1>3, PTL DEF Spec
=============================================================================
