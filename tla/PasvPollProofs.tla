--------------------------- MODULE PasvPollProofs ---------------------------
(***************************************************************************)
(* Proofs about PasvPoll for tables of any size and any number of          *)
(* sessions, ports and connections: the table of the data thread and its   *)
(* slots agree, the thread returns only in a pass that has started again,  *)
(* and only in such a pass is a transfer broken off.                       *)
(***************************************************************************)
EXTENDS PasvPoll, LeastNumber, TLAPS

\* The entries behind that of the pipe.
Slots == 1 .. MaxClients - 1

\* The pipe is in the first entry, and polled.
PipeEntry(t) == t[0].fd = Pipe /\ "in" \in t[0].events

\* Entry i with descriptor d is that of the slot r.
Owns(r, i, d) == (r.port = d /\ r.server_nfds = i) \/ (r.sock = d /\ r.client_nfds = i)

\* Every other entry in use is below the tail and belongs to a slot.
Owned(t, pc, tail) ==
  \A i \in Slots : t[i].fd # None =>
    i < tail /\ t[i].fd # Pipe /\ \E k \in Index : Owns(pc[k], i, t[i].fd)

\* A slot whose client has connected has the entry of its port, and that of
\* the connection unless the table was full; a slot that is new has none.
Slotted(t, r) ==
  /\ r.port = None => r.sock = None
  /\ r.state = "NEW_CLIENT" => r.port # None /\ r.sock = None /\ \A i \in Slots : t[i].fd # r.port
  /\ r.sock # None => /\ r.server_nfds \in Slots /\ t[r.server_nfds].fd = r.port
                      /\ r.client_nfds \in Slots \cup {-1}
                      /\ r.client_nfds # -1 => t[r.client_nfds].fd = r.sock

\* No two slots share a port or a connection.
Apart(pc) ==
  /\ \A j, k \in Index : pc[j].port # None /\ pc[j].port = pc[k].port => j = k
  /\ \A j, k \in Index : pc[j].sock # None /\ pc[j].sock = pc[k].sock => j = k

\* A port is dialled once: by the one session that was told it.
Dialled(pc, ct, dl) ==
  /\ \A p \in dl : \E k \in Index : pc[k].port = p
  /\ \A s \in Session : ct[s].port \in dl => ct[s].conn
  /\ \A k \in Index : pc[k].sock # None =>
       pc[k].port \notin dl /\ \A s \in Session : ct[s].port = pc[k].port => ct[s].conn
  /\ \A s, u \in Session : ct[s].port # None /\ ct[s].port = ct[u].port => s = u

\* A slot with a job serves the session it was given to, which waits for it;
\* and only an upload has something to read.
Serving(pc, ct, pr) ==
  /\ \A k \in Index : IF pc[k].state \in {"NEED_SEND", "NEED_RECV"}
                      THEN pc[k].ctrl # None /\ pc[k].port # None /\ ct[pc[k].ctrl].xfer
                           /\ ct[pc[k].ctrl].port = pc[k].port
                      ELSE pc[k].ctrl = None
  /\ \A f \in Sock : pr[f].in => \E k \in Index : pc[k].sock = f /\ pc[k].state = "NEED_RECV"

\* What poll has reported of an entry holds until the pass has served it.
Fresh(t, sv, dl, pr) ==
  \A i \in Slots \ sv :
    /\ t[i].fd \in Port /\ "in" \in t[i].revents => t[i].fd \in dl
    /\ t[i].fd \in Sock /\ "in" \in t[i].revents => pr[t[i].fd].gone \/ pr[t[i].fd].in
    /\ t[i].fd \in Sock /\ "out" \in t[i].revents => pr[t[i].fd].gone \/ pr[t[i].fd].room

Agree(t, pc, tail, ct, dl, pr) ==
  /\ PipeEntry(t) /\ Owned(t, pc, tail) /\ (\A k \in Index : Slotted(t, pc[k])) /\ Apart(pc)
  /\ Dialled(pc, ct, dl) /\ Serving(pc, ct, pr)

PassInv ==
  /\ at # AtPoll => Fresh(fds, served, dialled, peer) /\ fds[at].revents # {}
  /\ ~alive => at \in served

Inv == TypeOK /\ Agree(fds, pasv_clients, fd_most_tail, ctl, dialled, peer) /\ PassInv

-----------------------------------------------------------------------------
(* Names. *)

\* The entries of the table.
LEMMA Entries ==
  /\ Index \subseteq Nat /\ Slots \subseteq Index /\ 0 \in Index /\ 0 \notin Slots
  /\ MaxClients \in Nat /\ MaxClients \notin Index /\ -1 \notin Index
  /\ \A i \in Index : i # 0 => i \in Slots
  /\ \A i \in Index : i < MaxClients /\ i >= 0
BY PasvAssumption DEF Index, Slots

\* Ports, connections, the pipe and nothing are told apart.
LEMMA Kinds ==
  /\ None \notin Session /\ None \notin Port /\ None \notin Sock
  /\ \A p \in Port : p \notin Sock
  /\ Pipe \notin Port /\ Pipe \notin Sock /\ Pipe # None
BY PasvAssumption

\* The types of what Agree is about.
Typed(t, pc, tail, ct, dl, pr) ==
  /\ t \in [Index -> Entry] /\ pc \in [Index -> PasvData] /\ tail \in 1 .. MaxClients
  /\ ct \in [Session -> Control] /\ dl \subseteq Port /\ pr \in [Sock -> Remote]

\* The fields.
LEMMA Fields ==
  ASSUME NEW t, NEW pc, NEW tail, NEW ct, NEW dl, NEW pr, Typed(t, pc, tail, ct, dl, pr)
  PROVE  /\ \A i \in Index : t[i].fd \in Port \cup Sock \cup {None, Pipe}
         /\ \A k \in Index : /\ pc[k].port \in Port \cup {None} /\ pc[k].sock \in Sock \cup {None}
                             /\ pc[k].server_nfds \in Index \cup {-1}
                             /\ pc[k].client_nfds \in Index \cup {-1}
                             /\ pc[k].ctrl \in Session \cup {None}
                             /\ pc[k].left \in 0 .. MaxChunks
         /\ \A s \in Session : ct[s].port \in Port \cup {None} /\ ct[s].xfer \in BOOLEAN /\ ct[s].conn \in BOOLEAN
<1>1. \A i \in Index : t[i].fd \in Port \cup Sock \cup {None, Pipe}
  BY DEF Typed, Entry
<1>2. \A k \in Index : pc[k] \in PasvData
  BY DEF Typed
<1>3. \A r \in PasvData : /\ r.port \in Port \cup {None} /\ r.sock \in Sock \cup {None}
                          /\ r.server_nfds \in Index \cup {-1}
                          /\ r.client_nfds \in Index \cup {-1}
                          /\ r.ctrl \in Session \cup {None}
                          /\ r.left \in 0 .. MaxChunks
  BY DEF PasvData
<1>4. \A s \in Session : ct[s].port \in Port \cup {None} /\ ct[s].xfer \in BOOLEAN /\ ct[s].conn \in BOOLEAN
  BY DEF Typed, Control
<1> QED
  BY <1>1, <1>2, <1>3, <1>4

-----------------------------------------------------------------------------
(* The entries of a slot. *)

\* A port has one entry, and so has a connection; a socket in the table has a slot.
LEMMA OneEntry ==
  ASSUME NEW t, NEW pc, NEW tail, NEW ct, NEW dl, NEW pr, Typed(t, pc, tail, ct, dl, pr),
         Owned(t, pc, tail), Apart(pc)
  PROVE  /\ \A i \in Slots, k \in Index :
              pc[k].port # None /\ t[i].fd = pc[k].port => pc[k].server_nfds = i
         /\ \A i \in Slots, k \in Index :
              pc[k].sock # None /\ t[i].fd = pc[k].sock => pc[k].client_nfds = i
         /\ \A i \in Slots : t[i].fd \in Port => \E k \in Index : pc[k].port = t[i].fd
         /\ \A i \in Slots : t[i].fd \in Sock => \E k \in Index : pc[k].sock = t[i].fd
         /\ \A i \in Slots : t[i].fd # None => t[i].fd \in Port \cup Sock
<1> USE Entries, Kinds
<1>0. \A k \in Index : pc[k].port \in Port \cup {None} /\ pc[k].sock \in Sock \cup {None}
  BY Fields
<1>5. \A i \in Slots : t[i].fd # None => t[i].fd # Pipe /\ \E k \in Index : Owns(pc[k], i, t[i].fd)
  BY DEF Owned
<1>1. ASSUME NEW i \in Slots, NEW k \in Index, pc[k].port # None, t[i].fd = pc[k].port
      PROVE  pc[k].server_nfds = i
  <2>1. PICK j \in Index : Owns(pc[j], i, t[i].fd)
    BY <1>1, <1>5
  <2>2. pc[j].port = pc[k].port /\ pc[j].server_nfds = i
    BY <1>0, <1>1, <2>1 DEF Owns
  <2> QED
    BY <1>1, <2>2 DEF Apart
<1>2. ASSUME NEW i \in Slots, NEW k \in Index, pc[k].sock # None, t[i].fd = pc[k].sock
      PROVE  pc[k].client_nfds = i
  <2>1. PICK j \in Index : Owns(pc[j], i, t[i].fd)
    BY <1>2, <1>5
  <2>2. pc[j].sock = pc[k].sock /\ pc[j].client_nfds = i
    BY <1>0, <1>2, <2>1 DEF Owns
  <2> QED
    BY <1>2, <2>2 DEF Apart
<1>3. \A i \in Slots : t[i].fd \in Port => \E k \in Index : pc[k].port = t[i].fd
  BY <1>0, <1>5 DEF Owns
<1>4. \A i \in Slots : t[i].fd \in Sock => \E k \in Index : pc[k].sock = t[i].fd
  BY <1>0, <1>5 DEF Owns
<1>6. \A i \in Slots : t[i].fd # None => t[i].fd \in Port \cup Sock
  BY <1>5, Fields
<1> QED
  BY <1>1, <1>2, <1>3, <1>4, <1>6

-----------------------------------------------------------------------------
(* Changes that leave the descriptors where they are. *)

SameFd(t, u) == \A i \in Index : u[i].fd = t[i].fd

LEMMA SameFdAgree ==
  ASSUME NEW t, NEW u, NEW pc, NEW tail, NEW ct, NEW dl, NEW pr,
         Typed(t, pc, tail, ct, dl, pr), Agree(t, pc, tail, ct, dl, pr),
         SameFd(t, u), PipeEntry(u)
  PROVE  Agree(u, pc, tail, ct, dl, pr)
<1> USE Entries, Kinds
<1>1. \A i \in Slots : u[i].fd = t[i].fd
  BY DEF SameFd
<1>2. Owned(u, pc, tail)
  BY <1>1 DEF Agree, Owned
<1>3. \A k \in Index : Slotted(u, pc[k])
  <2> TAKE k \in Index
  <2>1. Slotted(t, pc[k])
    BY DEF Agree
  <2> QED
    BY <1>1, <2>1 DEF Slotted
<1> QED
  BY <1>2, <1>3 DEF Agree

-----------------------------------------------------------------------------
(* A channel is closed. *)

\* What close_connection leaves of slot k, and a completion of its session.
Closed(k, t, u, pc, qc, ct, du, dl, dm, pr, ps) ==
  /\ pc[k].sock # None
  /\ \A i \in Index : u[i] = IF i \in {pc[k].client_nfds, pc[k].server_nfds} THEN Empty ELSE t[i]
  /\ qc[k] = FreePasv /\ \A j \in Index \ {k} : qc[j] = pc[j]
  /\ \A s \in Session : du[s] = ct[s] \/ (s = pc[k].ctrl /\ du[s] = NoPasv)
  /\ dm = dl \ {pc[k].port}
  /\ \A f \in Sock : ps[f] = IF f = pc[k].sock THEN NewPeer ELSE pr[f]

LEMMA CloseAgree ==
  ASSUME NEW k \in Index, NEW t, NEW u, NEW pc, NEW qc, NEW tail, NEW ct, NEW du,
         NEW dl, NEW dm, NEW pr, NEW ps,
         Typed(t, pc, tail, ct, dl, pr), Agree(t, pc, tail, ct, dl, pr),
         Closed(k, t, u, pc, qc, ct, du, dl, dm, pr, ps)
  PROVE  Agree(u, qc, tail, du, dm, ps)
<1> USE Entries, Kinds
<1> DEFINE P == \A j \in Index : pc[j].port \in Port \cup {None} /\ pc[j].sock \in Sock \cup {None}
<1>0. P
  BY Fields
<1>a. PipeEntry(t) /\ Owned(t, pc, tail) /\ (\A j \in Index : Slotted(t, pc[j])) /\ Apart(pc)
      /\ Dialled(pc, ct, dl) /\ Serving(pc, ct, pr)
  BY DEF Agree
<1>b. /\ pc[k].sock # None /\ pc[k].port # None
      /\ pc[k].server_nfds \in Slots /\ t[pc[k].server_nfds].fd = pc[k].port
      /\ pc[k].client_nfds \in Slots \cup {-1}
      /\ pc[k].client_nfds # -1 => t[pc[k].client_nfds].fd = pc[k].sock
  BY <1>a DEF Closed, Slotted
<1>c. /\ \A i \in Index : i # pc[k].client_nfds /\ i # pc[k].server_nfds => u[i] = t[i]
      /\ \A i \in Index : i = pc[k].client_nfds \/ i = pc[k].server_nfds => u[i].fd = None
  BY DEF Closed, Empty
<1>d. /\ \A j \in Index : j # k => qc[j] = pc[j]
      /\ qc[k].port = None /\ qc[k].sock = None /\ qc[k].state = "IDLE" /\ qc[k].ctrl = None
  BY DEF Closed, FreePasv
<1>e. \A s \in Session : du[s] = ct[s] \/ (s = pc[k].ctrl /\ du[s].port = None)
  BY DEF Closed, NoPasv
<1>f. dm = dl \ {pc[k].port} /\ dl \subseteq Port
  BY DEF Closed, Typed
<1>g. \A f \in Sock : /\ f # pc[k].sock => ps[f] = pr[f]
                      /\ f = pc[k].sock => ~ps[f].in
  BY DEF Closed, NewPeer
<1>1. PipeEntry(u)
  BY <1>a, <1>b, <1>c DEF PipeEntry
<1>2. Owned(u, qc, tail)
  <2> SUFFICES ASSUME NEW i \in Slots, u[i].fd # None
               PROVE  i < tail /\ u[i].fd # Pipe /\ \E j \in Index : Owns(qc[j], i, u[i].fd)
    BY DEF Owned
  <2>1. u[i] = t[i] /\ i # pc[k].client_nfds /\ i # pc[k].server_nfds
    BY <1>c
  <2>2. i < tail /\ t[i].fd # Pipe
    BY <1>a, <2>1 DEF Owned
  <2>3. PICK j \in Index : Owns(pc[j], i, t[i].fd)
    BY <1>a, <2>1 DEF Owned
  <2>4. j # k
    BY <2>1, <2>3 DEF Owns
  <2>5. Owns(qc[j], i, u[i].fd)
    BY <1>d, <2>1, <2>3, <2>4
  <2> QED
    BY <2>1, <2>2, <2>5
<1>3. ASSUME NEW j \in Index PROVE Slotted(u, qc[j])
  <2>1. CASE j = k
    BY <1>d, <2>1 DEF Slotted
  <2>2. CASE j # k
    <3>1. qc[j] = pc[j] /\ Slotted(t, pc[j])
      BY <1>a, <1>d, <2>2
    <3>2. \A i \in Slots : u[i].fd = t[i].fd \/ u[i].fd = None
      BY <1>c
    <3>3. ASSUME pc[j].sock # None
          PROVE  /\ pc[j].server_nfds \in Slots /\ u[pc[j].server_nfds].fd = pc[j].port
                 /\ pc[j].client_nfds \in Slots \cup {-1}
                 /\ pc[j].client_nfds # -1 => u[pc[j].client_nfds].fd = pc[j].sock
      <4>1. /\ pc[j].port # None
            /\ pc[j].server_nfds \in Slots /\ t[pc[j].server_nfds].fd = pc[j].port
            /\ pc[j].client_nfds \in Slots \cup {-1}
            /\ pc[j].client_nfds # -1 => t[pc[j].client_nfds].fd = pc[j].sock
        BY <3>1, <3>3 DEF Slotted
      <4>2. pc[j].port # pc[k].port /\ pc[j].sock # pc[k].sock
        BY <1>a, <1>b, <2>2 DEF Apart
      <4>3. pc[j].port # pc[k].sock /\ pc[j].sock # pc[k].port
        BY <1>0, <1>b
      <4>4. pc[j].server_nfds # pc[k].server_nfds /\ pc[j].server_nfds # pc[k].client_nfds
        BY <1>b, <4>1, <4>2, <4>3
      <4>5. pc[j].client_nfds # -1 =>
              pc[j].client_nfds # pc[k].server_nfds /\ pc[j].client_nfds # pc[k].client_nfds
        BY <1>b, <4>1, <4>2, <4>3
      <4> QED
        BY <1>c, <4>1, <4>4, <4>5
    <3>4. pc[j].state = "NEW_CLIENT" =>
            pc[j].port # None /\ pc[j].sock = None /\ \A i \in Slots : u[i].fd # pc[j].port
      BY <3>1, <3>2 DEF Slotted
    <3>5. pc[j].port = None => pc[j].sock = None
      BY <3>1 DEF Slotted
    <3> QED
      BY <3>1, <3>3, <3>4, <3>5 DEF Slotted
  <2> QED
    BY <2>1, <2>2
<1>4. Apart(qc)
  <2>1. ASSUME NEW i \in Index, NEW j \in Index, qc[i].port # None, qc[i].port = qc[j].port
        PROVE  i = j
    BY <1>a, <1>d, <2>1 DEF Apart
  <2>2. ASSUME NEW i \in Index, NEW j \in Index, qc[i].sock # None, qc[i].sock = qc[j].sock
        PROVE  i = j
    BY <1>a, <1>d, <2>2 DEF Apart
  <2> QED
    BY <2>1, <2>2 DEF Apart
<1>5. Dialled(qc, du, dm)
  <2>1. \A p \in dm : \E j \in Index : qc[j].port = p
    BY <1>a, <1>d, <1>f DEF Dialled
  <2>2. \A s \in Session : du[s].port \in dm => du[s].conn
    BY <1>a, <1>e, <1>f DEF Dialled
  <2>3. ASSUME NEW j \in Index, qc[j].sock # None
        PROVE  qc[j].port \notin dm /\ \A s \in Session : du[s].port = qc[j].port => du[s].conn
    <3>1. qc[j] = pc[j]
      BY <1>d, <2>3
    <3>2. qc[j].port # None
      BY <1>a, <2>3, <3>1 DEF Slotted
    <3> QED
      BY <1>a, <1>e, <1>f, <2>3, <3>1, <3>2 DEF Dialled
  <2>4. \A s, v \in Session : du[s].port # None /\ du[s].port = du[v].port => s = v
    BY <1>a, <1>e DEF Dialled
  <2> QED
    BY <2>1, <2>2, <2>3, <2>4 DEF Dialled
<1>6. Serving(qc, du, ps)
  <2>1. ASSUME NEW j \in Index
        PROVE  IF qc[j].state \in {"NEED_SEND", "NEED_RECV"}
               THEN qc[j].ctrl # None /\ qc[j].port # None /\ du[qc[j].ctrl].xfer
                    /\ du[qc[j].ctrl].port = qc[j].port
               ELSE qc[j].ctrl = None
    <3>1. CASE j = k
      BY <1>d, <3>1
    <3>2. CASE j # k /\ pc[j].state \in {"NEED_SEND", "NEED_RECV"}
      <4>1. /\ pc[j].ctrl # None /\ pc[j].port # None /\ ct[pc[j].ctrl].xfer
            /\ ct[pc[j].ctrl].port = pc[j].port /\ pc[j].ctrl \in Session
        BY <1>a, <3>2, Fields DEF Serving
      <4>2. pc[j].port # pc[k].port
        BY <1>a, <1>b, <3>2 DEF Apart
      <4>3. pc[k].ctrl = None \/ (pc[k].ctrl \in Session /\ ct[pc[k].ctrl].port = pc[k].port)
        BY <1>a, Fields DEF Serving
      <4>4. pc[j].ctrl # pc[k].ctrl
        BY <4>1, <4>2, <4>3
      <4> QED
        BY <1>d, <1>e, <3>2, <4>1, <4>4
    <3>3. CASE j # k /\ pc[j].state \notin {"NEED_SEND", "NEED_RECV"}
      <4>1. pc[j].ctrl = None
        BY <1>a, <3>3 DEF Serving
      <4> QED
        BY <1>d, <3>3, <4>1
    <3> QED
      BY <3>1, <3>2, <3>3
  <2>2. ASSUME NEW f \in Sock, ps[f].in
        PROVE  \E j \in Index : qc[j].sock = f /\ qc[j].state = "NEED_RECV"
    <3>1. f # pc[k].sock /\ pr[f].in
      BY <1>g, <2>2
    <3>2. PICK j \in Index : pc[j].sock = f /\ pc[j].state = "NEED_RECV"
      BY <1>a, <3>1 DEF Serving
    <3> QED
      BY <1>d, <3>1, <3>2
  <2> QED
    BY <2>1, <2>2 DEF Serving
<1> QED
  BY <1>1, <1>2, <1>3, <1>4, <1>5, <1>6 DEF Agree

-----------------------------------------------------------------------------
(* An entry is pushed. *)

\* What push_new_fd and the tail leave: e is in entry i, unless that is -1.
Pushed(t, u, tail, tale, i, e) ==
  /\ i \in Slots \cup {-1}
  /\ i # -1 => t[i].fd = None /\ u[i].fd = e.fd /\ u[i].revents = {} /\ i < tale
  /\ \A j \in Index : j # i => u[j] = t[j]
  /\ tail <= tale /\ tale \in 1 .. MaxClients

\* push_new_fd finds the first free entry, which is never behind the tail.
LEMMA PushIs ==
  ASSUME TypeOK, Agree(fds, pasv_clients, fd_most_tail, ctl, dialled, peer), PushedTail,
         NEW e \in Entry
  PROVE  /\ Push(e) \in [Index -> Entry]
         /\ Pushed(fds, Push(e), fd_most_tail, fd_most_tail', Place, e)
         /\ Place \in Index \cup {-1}
<1> USE Entries, Kinds
<1>0. /\ fds \in [Index -> Entry] /\ fd_most_tail \in 1 .. MaxClients
      /\ PipeEntry(fds) /\ Owned(fds, pasv_clients, fd_most_tail)
  BY DEF TypeOK, Agree
<1>1. CASE Vacant = {}
  <2>1. Place = -1 /\ Push(e) = fds /\ fd_most_tail' = fd_most_tail
    BY <1>0, <1>1 DEF Place, Push, PushedTail
  <2> QED
    BY <1>0, <2>1 DEF Pushed
<1>2. CASE Vacant # {}
  <2>1. Vacant \in SUBSET Nat
    BY DEF Vacant
  <2>2. Place = Min(Vacant) /\ Place \in Vacant /\ \A n \in Vacant : Place <= n
    BY <1>2, <2>1, MinIs DEF Place
  <2>3. Place \in Slots /\ fds[Place].fd = None
    BY <1>0, <2>2 DEF Vacant, PipeEntry
  <2>4. Place <= fd_most_tail
    <3>1. CASE fd_most_tail = MaxClients
      BY <2>3, <3>1
    <3>2. CASE fd_most_tail # MaxClients
      <4>1. fd_most_tail \in Slots
        BY <1>0, <3>2, PasvAssumption DEF Slots
      <4>2. fds[fd_most_tail].fd = None
        BY <1>0, <4>1 DEF Owned
      <4> QED
        BY <2>2, <4>1, <4>2 DEF Vacant
    <3> QED
      BY <3>1, <3>2
  <2>5. fd_most_tail' \in 1 .. MaxClients /\ fd_most_tail <= fd_most_tail' /\ Place < fd_most_tail'
    BY <1>0, <2>3, <2>4, PasvAssumption DEF PushedTail
  <2>6. [e EXCEPT !.revents = {}] \in Entry /\ [e EXCEPT !.revents = {}].fd = e.fd
        /\ [e EXCEPT !.revents = {}].revents = {}
    BY DEF Entry
  <2> DEFINE d == [e EXCEPT !.revents = {}]
  <2>7. Push(e) = [fds EXCEPT ![Place] = d]
    BY <1>2 DEF Push
  <2>8. d \in Entry /\ d.fd = e.fd /\ d.revents = {}
    BY <2>6
  <2> HIDE DEF d
  <2>9. /\ Push(e) \in [Index -> Entry] /\ Push(e)[Place] = d
        /\ \A j \in Index : j # Place => Push(e)[j] = fds[j]
    BY <1>0, <2>3, <2>7, <2>8
  <2> QED
    BY <2>3, <2>5, <2>8, <2>9 DEF Pushed
<1> QED
  BY <1>1, <1>2

\* The entry of a new channel.
LEMMA NewAgree ==
  ASSUME NEW k \in Index, NEW i, NEW e, NEW t, NEW u, NEW pc, NEW qc, NEW tail, NEW tale, NEW ct,
         NEW dl, NEW pr,
         Typed(t, pc, tail, ct, dl, pr), Agree(t, pc, tail, ct, dl, pr),
         Pushed(t, u, tail, tale, i, e), e.fd = pc[k].port, pc[k].state = "NEW_CLIENT",
         \A j \in Index : j # k => qc[j] = pc[j],
         /\ qc[k].port = pc[k].port /\ qc[k].sock = pc[k].sock /\ qc[k].ctrl = pc[k].ctrl
         /\ qc[k].server_nfds = i
         /\ qc[k].state = IF i = -1 THEN "NEW_CLIENT" ELSE "IDLE"
  PROVE  Agree(u, qc, tale, ct, dl, pr)
<1> USE Entries, Kinds
<1>0. /\ \A j \in Index : pc[j].port \in Port \cup {None} /\ pc[j].sock \in Sock \cup {None}
      /\ tail \in Int /\ tale \in Int
  <2>1. \A j \in Index : pc[j].port \in Port \cup {None} /\ pc[j].sock \in Sock \cup {None}
    BY Fields
  <2>2. tail \in Int /\ tale \in Int
    BY DEF Typed, Pushed
  <2> QED
    BY <2>1, <2>2
<1>a. PipeEntry(t) /\ Owned(t, pc, tail) /\ (\A j \in Index : Slotted(t, pc[j])) /\ Apart(pc)
      /\ Dialled(pc, ct, dl) /\ Serving(pc, ct, pr)
  BY DEF Agree
<1>b. pc[k].port # None /\ pc[k].sock = None /\ \A j \in Slots : t[j].fd # pc[k].port
  BY <1>a DEF Slotted
<1>c. \A j \in Index : /\ qc[j].port = pc[j].port /\ qc[j].sock = pc[j].sock /\ qc[j].ctrl = pc[j].ctrl
                       /\ qc[j].state \in {"NEED_SEND", "NEED_RECV"} <=> pc[j].state \in {"NEED_SEND", "NEED_RECV"}
                       /\ qc[j].state = "NEED_RECV" <=> pc[j].state = "NEED_RECV"
  OBVIOUS
<1>1. PipeEntry(u)
  BY <1>a DEF PipeEntry, Pushed
<1>2. Owned(u, qc, tale)
  <2> SUFFICES ASSUME NEW j \in Slots, u[j].fd # None
               PROVE  j < tale /\ u[j].fd # Pipe /\ \E h \in Index : Owns(qc[h], j, u[j].fd)
    BY DEF Owned
  <2>1. CASE j = i
    <3>1. u[j].fd = pc[k].port /\ j < tale
      BY <2>1 DEF Pushed
    <3>2. Owns(qc[k], j, u[j].fd)
      BY <2>1, <3>1 DEF Owns
    <3>3. pc[k].port # Pipe
      BY <1>0
    <3> QED
      BY <3>1, <3>2, <3>3
  <2>2. CASE j # i
    <3>1. u[j] = t[j] /\ tail <= tale
      BY <2>2 DEF Pushed
    <3>2. j < tail /\ t[j].fd # Pipe
      BY <1>a, <3>1 DEF Owned
    <3>3. PICK h \in Index : Owns(pc[h], j, t[j].fd)
      BY <1>a, <3>1 DEF Owned
    <3>4. h # k
      BY <1>b, <3>1, <3>3 DEF Owns
    <3>5. Owns(qc[h], j, u[j].fd)
      BY <3>1, <3>3, <3>4
    <3> QED
      BY <1>0, <3>1, <3>2, <3>5
  <2> QED
    BY <2>1, <2>2
<1>3. ASSUME NEW j \in Index PROVE Slotted(u, qc[j])
  <2>0. Slotted(t, pc[j])
    BY <1>a
  <2>1. CASE j = k
    <3>1. i = -1 => \A h \in Slots : u[h] = t[h]
      BY DEF Pushed
    <3> QED
      BY <1>b, <2>1, <3>1 DEF Slotted
  <2>2. CASE j # k
    <3>1. \A h \in Slots : u[h].fd = t[h].fd \/ (t[h].fd = None /\ u[h].fd = pc[k].port)
      BY DEF Pushed
    <3>2. pc[j].port # None => pc[j].port # pc[k].port
      BY <1>a, <2>2 DEF Apart
    <3> QED
      BY <1>0, <2>0, <2>2, <3>1, <3>2 DEF Slotted
  <2> QED
    BY <2>1, <2>2
<1>4. Apart(qc)
  BY <1>a, <1>c DEF Apart
<1>5. Dialled(qc, ct, dl)
  BY <1>a, <1>c DEF Dialled
<1>6. Serving(qc, ct, pr)
  <2>1. \A j \in Index : IF qc[j].state \in {"NEED_SEND", "NEED_RECV"}
                         THEN qc[j].ctrl # None /\ qc[j].port # None /\ ct[qc[j].ctrl].xfer
                              /\ ct[qc[j].ctrl].port = qc[j].port
                         ELSE qc[j].ctrl = None
    BY <1>a, <1>c DEF Serving
  <2>2. \A f \in Sock : pr[f].in => \E j \in Index : qc[j].sock = f /\ qc[j].state = "NEED_RECV"
    BY <1>a, <1>c DEF Serving
  <2> QED
    BY <2>1, <2>2 DEF Serving
<1> QED
  BY <1>1, <1>2, <1>3, <1>4, <1>5, <1>6 DEF Agree

\* What AcceptData leaves: connection f of slot k, whose listening socket is in
\* entry n, has entry i, or none.
Accepted(k, i, n, f, t, pc, qc, dl, dm) ==
  /\ t[n].fd = pc[k].port /\ pc[k].port \in dl /\ dm = dl \ {pc[k].port}
  /\ \A j \in Index : t[j].fd # f /\ pc[j].sock # f
  /\ \A j \in Index : j # k => qc[j] = pc[j]
  /\ qc[k].port = pc[k].port /\ qc[k].ctrl = pc[k].ctrl /\ qc[k].state = pc[k].state
  /\ qc[k].sock = f /\ qc[k].client_nfds = i /\ qc[k].server_nfds = pc[k].server_nfds

\* The entry of an accepted connection.
LEMMA AcceptAgree ==
  ASSUME NEW k \in Index, NEW i, NEW n \in Slots, NEW f \in Sock, NEW e, NEW t, NEW u, NEW pc, NEW qc,
         NEW tail, NEW tale, NEW ct, NEW dl, NEW dm, NEW pr,
         Typed(t, pc, tail, ct, dl, pr), Agree(t, pc, tail, ct, dl, pr),
         Pushed(t, u, tail, tale, i, e), e.fd = f, Accepted(k, i, n, f, t, pc, qc, dl, dm)
  PROVE  Agree(u, qc, tale, ct, dm, pr)
<1> USE Entries, Kinds
<1>h. /\ t[n].fd = pc[k].port /\ pc[k].port \in dl /\ dm = dl \ {pc[k].port}
      /\ \A j \in Index : t[j].fd # f /\ pc[j].sock # f
      /\ \A j \in Index : j # k => qc[j] = pc[j]
      /\ qc[k].port = pc[k].port /\ qc[k].ctrl = pc[k].ctrl /\ qc[k].state = pc[k].state
      /\ qc[k].sock = f /\ qc[k].client_nfds = i /\ qc[k].server_nfds = pc[k].server_nfds
  BY DEF Accepted
<1>0. /\ \A j \in Index : pc[j].port \in Port \cup {None} /\ pc[j].sock \in Sock \cup {None}
      /\ tail \in Int /\ tale \in Int /\ dl \subseteq Port
  <2>1. \A j \in Index : pc[j].port \in Port \cup {None} /\ pc[j].sock \in Sock \cup {None}
    BY Fields
  <2>2. tail \in Int /\ tale \in Int /\ dl \subseteq Port
    BY DEF Typed, Pushed
  <2> QED
    BY <2>1, <2>2
<1> USE <1>h
<1>a. PipeEntry(t) /\ Owned(t, pc, tail) /\ (\A j \in Index : Slotted(t, pc[j])) /\ Apart(pc)
      /\ Dialled(pc, ct, dl) /\ Serving(pc, ct, pr)
  BY DEF Agree
<1>b. pc[k].port \in Port /\ pc[k].port # None
  BY <1>0
<1>c. pc[k].server_nfds = n /\ pc[k].state # "NEW_CLIENT"
  BY <1>a, <1>b, OneEntry DEF Slotted
<1>d. pc[k].sock = None
  BY <1>a DEF Dialled
<1>e. \A j \in Index : qc[j].port = pc[j].port /\ qc[j].ctrl = pc[j].ctrl /\ qc[j].state = pc[j].state
  OBVIOUS
<1>f. n # i
  BY <1>b DEF Pushed
<1>1. PipeEntry(u)
  BY <1>a DEF PipeEntry, Pushed
<1>2. Owned(u, qc, tale)
  <2> SUFFICES ASSUME NEW j \in Slots, u[j].fd # None
               PROVE  j < tale /\ u[j].fd # Pipe /\ \E h \in Index : Owns(qc[h], j, u[j].fd)
    BY DEF Owned
  <2>1. CASE j = i
    <3>1. u[j].fd = f /\ j < tale
      BY <2>1 DEF Pushed
    <3>2. Owns(qc[k], j, u[j].fd)
      BY <2>1, <3>1 DEF Owns
    <3> QED
      BY <3>1, <3>2
  <2>2. CASE j # i
    <3>1. u[j] = t[j] /\ tail <= tale
      BY <2>2 DEF Pushed
    <3>2. j < tail /\ t[j].fd # Pipe
      BY <1>a, <3>1 DEF Owned
    <3>3. PICK h \in Index : Owns(pc[h], j, t[j].fd)
      BY <1>a, <3>1 DEF Owned
    <3>4. Owns(qc[h], j, u[j].fd)
      BY <1>d, <3>1, <3>3 DEF Owns
    <3> QED
      BY <1>0, <3>1, <3>2, <3>4
  <2> QED
    BY <2>1, <2>2
<1>3. ASSUME NEW j \in Index PROVE Slotted(u, qc[j])
  <2>0. Slotted(t, pc[j])
    BY <1>a
  <2>1. CASE j = k
    <3>1. u[n].fd = pc[k].port
      BY <1>f DEF Pushed
    <3>2. i \in Slots \cup {-1} /\ (i # -1 => u[i].fd = f)
      BY DEF Pushed
    <3> QED
      BY <1>b, <1>c, <2>1, <3>1, <3>2 DEF Slotted
  <2>2. CASE j # k
    <3>1. \A h \in Slots : u[h].fd = t[h].fd \/ (t[h].fd = None /\ u[h].fd = f)
      BY DEF Pushed
    <3> QED
      BY <1>0, <2>0, <2>2, <3>1 DEF Slotted
  <2> QED
    BY <2>1, <2>2
<1>4. Apart(qc)
  <2>1. \A h, j \in Index : qc[h].port # None /\ qc[h].port = qc[j].port => h = j
    BY <1>a, <1>e DEF Apart
  <2>2. \A j \in Index : qc[j].sock = IF j = k THEN f ELSE pc[j].sock
    OBVIOUS
  <2>3. \A h, j \in Index : pc[h].sock # None /\ pc[h].sock = pc[j].sock => h = j
    BY <1>a DEF Apart
  <2>4. \A j \in Index : pc[j].sock # f
    OBVIOUS
  <2> HIDE <1>h
  <2>5. \A h, j \in Index : qc[h].sock # None /\ qc[h].sock = qc[j].sock => h = j
    BY <2>2, <2>3, <2>4
  <2> QED
    BY <2>1, <2>5 DEF Apart
<1>5. Dialled(qc, ct, dm)
  <2>1. \A p \in dm : \E j \in Index : qc[j].port = p
    BY <1>a, <1>e DEF Dialled
  <2>2. \A s \in Session : ct[s].port \in dm => ct[s].conn
    BY <1>a DEF Dialled
  <2>3. ASSUME NEW j \in Index, qc[j].sock # None
        PROVE  qc[j].port \notin dm /\ \A s \in Session : ct[s].port = qc[j].port => ct[s].conn
    <3>1. CASE j = k
      BY <1>a, <3>1 DEF Dialled
    <3>2. CASE j # k
      BY <1>a, <2>3, <3>2 DEF Dialled
    <3> QED
      BY <3>1, <3>2
  <2>4. \A s, v \in Session : ct[s].port # None /\ ct[s].port = ct[v].port => s = v
    BY <1>a DEF Dialled
  <2> QED
    BY <2>1, <2>2, <2>3, <2>4 DEF Dialled
<1>6. Serving(qc, ct, pr)
  <2>1. \A j \in Index : IF qc[j].state \in {"NEED_SEND", "NEED_RECV"}
                         THEN qc[j].ctrl # None /\ qc[j].port # None /\ ct[qc[j].ctrl].xfer
                              /\ ct[qc[j].ctrl].port = qc[j].port
                         ELSE qc[j].ctrl = None
    BY <1>a, <1>e DEF Serving
  <2>2. ASSUME NEW g \in Sock, pr[g].in
        PROVE  \E j \in Index : qc[j].sock = g /\ qc[j].state = "NEED_RECV"
    <3>1. PICK j \in Index : pc[j].sock = g /\ pc[j].state = "NEED_RECV"
      BY <1>a, <2>2 DEF Serving
    <3> QED
      BY <1>d, <3>1
  <2> QED
    BY <2>1, <2>2 DEF Serving
<1> QED
  BY <1>1, <1>2, <1>3, <1>4, <1>5, <1>6 DEF Agree

-----------------------------------------------------------------------------
(* What the commands do to slots and sessions. *)

\* A session without a transfer has no slot at work.
LEMMA IdleSession ==
  ASSUME NEW t, NEW pc, NEW tail, NEW ct, NEW dl, NEW pr,
         Typed(t, pc, tail, ct, dl, pr), Agree(t, pc, tail, ct, dl, pr),
         NEW s \in Session, ~ct[s].xfer
  PROVE  /\ \A k \in Index : pc[k].ctrl # s
         /\ \A k \in Index : pc[k].port # None /\ pc[k].port = ct[s].port => pc[k].ctrl = None
<1> USE Kinds
<1>0. Serving(pc, ct, pr) /\ Dialled(pc, ct, dl)
  BY DEF Agree
<1>1. \A k \in Index : pc[k].ctrl # s
  BY <1>0 DEF Serving
<1>2. ASSUME NEW k \in Index, pc[k].port # None, pc[k].port = ct[s].port
      PROVE  pc[k].ctrl = None
  <2>1. CASE pc[k].state \in {"NEED_SEND", "NEED_RECV"}
    <3>1. pc[k].ctrl \in Session /\ ct[pc[k].ctrl].port = pc[k].port
      BY <1>0, <2>1, Fields DEF Serving
    <3>2. pc[k].ctrl = s
      BY <1>0, <1>2, <3>1 DEF Dialled
    <3> QED
      BY <1>1, <3>2
  <2>2. CASE pc[k].state \notin {"NEED_SEND", "NEED_RECV"}
    BY <1>0, <2>2 DEF Serving
  <2> QED
    BY <2>1, <2>2
<1> QED
  BY <1>1, <1>2

\* A session that has no slot at work forgets its port.
LEMMA ForgetAgree ==
  ASSUME NEW t, NEW pc, NEW tail, NEW ct, NEW du, NEW dl, NEW pr,
         Typed(t, pc, tail, ct, dl, pr), Agree(t, pc, tail, ct, dl, pr),
         NEW s \in Session, \A k \in Index : pc[k].ctrl # s,
         du[s] = NoPasv, \A v \in Session : v # s => du[v] = ct[v]
  PROVE  Agree(t, pc, tail, du, dl, pr)
<1> USE Kinds
<1>0. Serving(pc, ct, pr) /\ Dialled(pc, ct, dl) /\ dl \subseteq Port
      /\ \A k \in Index : Slotted(t, pc[k])
  BY DEF Agree, Typed
<1>1. du[s].port = None
  BY DEF NoPasv
<1>2. Dialled(pc, du, dl)
  <2>1. \A v \in Session : du[v].port \in dl => du[v].conn
    BY <1>0, <1>1 DEF Dialled
  <2>2. \A k \in Index : pc[k].sock # None =>
          pc[k].port \notin dl /\ \A v \in Session : du[v].port = pc[k].port => du[v].conn
    BY <1>0, <1>1 DEF Dialled, Slotted
  <2>3. \A w, v \in Session : du[w].port # None /\ du[w].port = du[v].port => w = v
    BY <1>0, <1>1 DEF Dialled
  <2> QED
    BY <1>0, <2>1, <2>2, <2>3 DEF Dialled
<1>3. Serving(pc, du, pr)
  <2>1. ASSUME NEW k \in Index
        PROVE  IF pc[k].state \in {"NEED_SEND", "NEED_RECV"}
               THEN pc[k].ctrl # None /\ pc[k].port # None /\ du[pc[k].ctrl].xfer
                    /\ du[pc[k].ctrl].port = pc[k].port
               ELSE pc[k].ctrl = None
    <3>1. pc[k].ctrl # None => pc[k].ctrl \in Session /\ du[pc[k].ctrl] = ct[pc[k].ctrl]
      BY Fields
    <3> QED
      BY <1>0, <3>1 DEF Serving
  <2> QED
    BY <1>0, <2>1 DEF Serving
<1> QED
  BY <1>2, <1>3 DEF Agree

\* 227: a free slot has a new port, and the session is told.
LEMMA OpenAgree ==
  ASSUME NEW t, NEW pc, NEW qc, NEW tail, NEW ct, NEW du, NEW dl, NEW pr,
         Typed(t, pc, tail, ct, dl, pr), Agree(t, pc, tail, ct, dl, pr),
         NEW s \in Session, ~ct[s].xfer, NEW k \in Index, pc[k].port = None,
         NEW p \in Port, \A j \in Index : pc[j].port # p, \A v \in Session : ct[v].port # p,
         /\ qc[k].port = p /\ qc[k].state = "NEW_CLIENT"
         /\ qc[k].sock = pc[k].sock /\ qc[k].ctrl = pc[k].ctrl,
         \A j \in Index : j # k => qc[j] = pc[j],
         du[s].port = p, \A v \in Session : v # s => du[v] = ct[v]
  PROVE  Agree(t, qc, tail, du, dl, pr)
<1> USE Entries, Kinds
<1>0. /\ PipeEntry(t) /\ Owned(t, pc, tail) /\ (\A j \in Index : Slotted(t, pc[j])) /\ Apart(pc)
      /\ Dialled(pc, ct, dl) /\ Serving(pc, ct, pr) /\ dl \subseteq Port
  BY DEF Agree, Typed
<1>a. \A j \in Index : pc[j].port \in Port \cup {None} /\ pc[j].sock \in Sock \cup {None}
                       /\ pc[j].ctrl \in Session \cup {None}
  BY Fields
<1>1. pc[k].sock = None /\ pc[k].ctrl = None
  BY <1>0 DEF Slotted, Serving
<1>2. p \notin dl
  BY <1>0 DEF Dialled
<1>3. \A i \in Slots : t[i].fd # p
  BY <1>0, <1>a DEF Owned, Owns
<1>4. Owned(t, qc, tail)
  <2> SUFFICES ASSUME NEW i \in Slots, t[i].fd # None
               PROVE  i < tail /\ t[i].fd # Pipe /\ \E j \in Index : Owns(qc[j], i, t[i].fd)
    BY DEF Owned
  <2>1. i < tail /\ t[i].fd # Pipe
    BY <1>0 DEF Owned
  <2>2. PICK j \in Index : Owns(pc[j], i, t[i].fd)
    BY <1>0 DEF Owned
  <2>3. j # k
    BY <1>1, <2>2 DEF Owns
  <2> QED
    BY <2>1, <2>2, <2>3
<1>5. ASSUME NEW j \in Index PROVE Slotted(t, qc[j])
  <2>1. CASE j = k
    BY <1>1, <1>3, <2>1 DEF Slotted
  <2>2. CASE j # k
    BY <1>0, <2>2
  <2> QED
    BY <2>1, <2>2
<1>6. Apart(qc)
  <2>1. \A h, j \in Index : qc[h].port # None /\ qc[h].port = qc[j].port => h = j
    BY <1>0 DEF Apart
  <2>2. \A j \in Index : qc[j].sock = pc[j].sock
    OBVIOUS
  <2>3. \A h, j \in Index : qc[h].sock # None /\ qc[h].sock = qc[j].sock => h = j
    BY <1>0, <2>2 DEF Apart
  <2> QED
    BY <2>1, <2>3 DEF Apart
<1>7. Dialled(qc, du, dl)
  <2>1. \A q \in dl : \E j \in Index : qc[j].port = q
    BY <1>0 DEF Dialled
  <2>2. \A v \in Session : du[v].port \in dl => du[v].conn
    BY <1>0, <1>2 DEF Dialled
  <2>3. \A j \in Index : qc[j].sock # None =>
          qc[j].port \notin dl /\ \A v \in Session : du[v].port = qc[j].port => du[v].conn
    BY <1>0, <1>1 DEF Dialled
  <2>4. \A w, v \in Session : du[w].port # None /\ du[w].port = du[v].port => w = v
    BY <1>0 DEF Dialled
  <2> QED
    BY <2>1, <2>2, <2>3, <2>4 DEF Dialled
<1>8. Serving(qc, du, pr)
  <2>1. ASSUME NEW j \in Index
        PROVE  IF qc[j].state \in {"NEED_SEND", "NEED_RECV"}
               THEN qc[j].ctrl # None /\ qc[j].port # None /\ du[qc[j].ctrl].xfer
                    /\ du[qc[j].ctrl].port = qc[j].port
               ELSE qc[j].ctrl = None
    <3>1. CASE j = k
      BY <1>1, <3>1
    <3>2. CASE j # k
      <4>1. pc[j].ctrl # s
        BY IdleSession
      <4>2. pc[j].ctrl # None => du[pc[j].ctrl] = ct[pc[j].ctrl]
        BY <1>a, <4>1
      <4> QED
        BY <1>0, <3>2, <4>2 DEF Serving
    <3> QED
      BY <3>1, <3>2
  <2>2. \A f \in Sock : pr[f].in => \E j \in Index : qc[j].sock = f /\ qc[j].state = "NEED_RECV"
    BY <1>0, <1>1 DEF Serving
  <2> QED
    BY <2>1, <2>2 DEF Serving
<1> QED
  BY <1>0, <1>4, <1>5, <1>6, <1>7, <1>8 DEF Agree

\* 150: the session is promised a completion.
LEMMA PromiseAgree ==
  ASSUME NEW t, NEW pc, NEW tail, NEW ct, NEW du, NEW dl, NEW pr,
         Typed(t, pc, tail, ct, dl, pr), Agree(t, pc, tail, ct, dl, pr),
         \A v \in Session : /\ du[v].port = ct[v].port /\ du[v].conn = ct[v].conn
                            /\ ct[v].xfer => du[v].xfer
  PROVE  Agree(t, pc, tail, du, dl, pr)
<1>0. Dialled(pc, ct, dl) /\ Serving(pc, ct, pr)
  BY DEF Agree
<1>1. Dialled(pc, du, dl)
  BY <1>0 DEF Dialled
<1>2. Serving(pc, du, pr)
  <2>1. \A k \in Index : pc[k].ctrl \in Session \cup {None}
    BY Fields
  <2>2. \A k \in Index : IF pc[k].state \in {"NEED_SEND", "NEED_RECV"}
               THEN pc[k].ctrl # None /\ pc[k].port # None /\ du[pc[k].ctrl].xfer
                    /\ du[pc[k].ctrl].port = pc[k].port
               ELSE pc[k].ctrl = None
    BY <1>0, <2>1, Kinds DEF Serving
  <2> QED
    BY <1>0, <2>2 DEF Serving
<1> QED
  BY <1>1, <1>2 DEF Agree

\* A slot without a job gets one for the session that waits for it, or it is to be closed.
LEMMA StateAgree ==
  ASSUME NEW t, NEW pc, NEW qc, NEW tail, NEW ct, NEW dl, NEW pr,
         Typed(t, pc, tail, ct, dl, pr), Agree(t, pc, tail, ct, dl, pr),
         NEW k \in Index, pc[k].port # None, pc[k].ctrl = None,
         /\ qc[k].port = pc[k].port /\ qc[k].sock = pc[k].sock
         /\ qc[k].server_nfds = pc[k].server_nfds /\ qc[k].client_nfds = pc[k].client_nfds,
         \/ qc[k].state = "NEED_QUIT" /\ qc[k].ctrl = None
         \/ /\ qc[k].state \in {"NEED_SEND", "NEED_RECV"} /\ qc[k].ctrl \in Session
            /\ ct[qc[k].ctrl].xfer /\ ct[qc[k].ctrl].port = pc[k].port,
         \A j \in Index : j # k => qc[j] = pc[j]
  PROVE  Agree(t, qc, tail, ct, dl, pr)
<1> USE Kinds
<1>0. /\ PipeEntry(t) /\ Owned(t, pc, tail) /\ (\A j \in Index : Slotted(t, pc[j])) /\ Apart(pc)
      /\ Dialled(pc, ct, dl) /\ Serving(pc, ct, pr)
  BY DEF Agree
<1>1. \A j \in Index : /\ qc[j].port = pc[j].port /\ qc[j].sock = pc[j].sock
                       /\ qc[j].server_nfds = pc[j].server_nfds /\ qc[j].client_nfds = pc[j].client_nfds
                       /\ qc[j].state = "NEW_CLIENT" => pc[j].state = "NEW_CLIENT"
  OBVIOUS
<1>2. Owned(t, qc, tail)
  BY <1>0, <1>1 DEF Owned, Owns
<1>3. ASSUME NEW j \in Index PROVE Slotted(t, qc[j])
  <2>1. Slotted(t, pc[j])
    BY <1>0
  <2> QED
    BY <1>1, <2>1 DEF Slotted
<1>4. Apart(qc)
  BY <1>0, <1>1 DEF Apart
<1>5. Dialled(qc, ct, dl)
  BY <1>0, <1>1 DEF Dialled
<1>6. Serving(qc, ct, pr)
  <2>1. ASSUME NEW j \in Index
        PROVE  IF qc[j].state \in {"NEED_SEND", "NEED_RECV"}
               THEN qc[j].ctrl # None /\ qc[j].port # None /\ ct[qc[j].ctrl].xfer
                    /\ ct[qc[j].ctrl].port = qc[j].port
               ELSE qc[j].ctrl = None
    <3>1. CASE j = k
      BY <3>1
    <3>2. CASE j # k
      BY <1>0, <3>2 DEF Serving
    <3> QED
      BY <3>1, <3>2
  <2>2. pc[k].state # "NEED_RECV"
    BY <1>0 DEF Serving
  <2>3. \A f \in Sock : pr[f].in => \E j \in Index : qc[j].sock = f /\ qc[j].state = "NEED_RECV"
    BY <1>0, <2>2 DEF Serving
  <2> QED
    BY <2>1, <2>3 DEF Serving
<1> QED
  BY <1>0, <1>2, <1>3, <1>4, <1>5, <1>6 DEF Agree

-----------------------------------------------------------------------------
(* What the remote ends do. *)

\* The client connects to the port it was told.
LEMMA ConnectAgree ==
  ASSUME NEW t, NEW pc, NEW tail, NEW ct, NEW du, NEW dl, NEW dm, NEW pr,
         Typed(t, pc, tail, ct, dl, pr), Agree(t, pc, tail, ct, dl, pr),
         NEW s \in Session, ~ct[s].conn, NEW k \in Index, pc[k].port # None, ct[s].port = pc[k].port,
         dm = dl \cup {ct[s].port},
         du[s].port = ct[s].port /\ du[s].xfer = ct[s].xfer /\ du[s].conn,
         \A v \in Session : v # s => du[v] = ct[v]
  PROVE  Agree(t, pc, tail, du, dm, pr)
<1> USE Kinds
<1>0. Dialled(pc, ct, dl) /\ Serving(pc, ct, pr) /\ Apart(pc)
  BY DEF Agree
<1>1. \A v \in Session : du[v].port = ct[v].port /\ du[v].xfer = ct[v].xfer /\ (ct[v].conn => du[v].conn)
  OBVIOUS
<1>2. Dialled(pc, du, dm)
  <2>1. \A p \in dm : \E j \in Index : pc[j].port = p
    BY <1>0 DEF Dialled
  <2>2. \A v \in Session : du[v].port \in dm => du[v].conn
    BY <1>0, <1>1 DEF Dialled
  <2>3. ASSUME NEW j \in Index, pc[j].sock # None
        PROVE  pc[j].port \notin dm /\ \A v \in Session : du[v].port = pc[j].port => du[v].conn
    <3>1. pc[j].port # ct[s].port
      BY <1>0, <2>3 DEF Dialled
    <3> QED
      BY <1>0, <1>1, <2>3, <3>1 DEF Dialled
  <2>4. \A w, v \in Session : du[w].port # None /\ du[w].port = du[v].port => w = v
    BY <1>0, <1>1 DEF Dialled
  <2> QED
    BY <2>1, <2>2, <2>3, <2>4 DEF Dialled
<1>3. Serving(pc, du, pr)
  <2>1. \A j \in Index : pc[j].ctrl \in Session \cup {None}
    BY Fields
  <2>2. \A j \in Index : IF pc[j].state \in {"NEED_SEND", "NEED_RECV"}
               THEN pc[j].ctrl # None /\ pc[j].port # None /\ du[pc[j].ctrl].xfer
                    /\ du[pc[j].ctrl].port = pc[j].port
               ELSE pc[j].ctrl = None
    BY <1>0, <1>1, <2>1 DEF Serving
  <2> QED
    BY <1>0, <2>2 DEF Serving
<1> QED
  BY <1>2, <1>3 DEF Agree

\* Only an upload brings bytes to read.
LEMMA PeerAgree ==
  ASSUME NEW t, NEW pc, NEW tail, NEW ct, NEW dl, NEW pr, NEW ps,
         Agree(t, pc, tail, ct, dl, pr),
         \A f \in Sock : ps[f].in => pr[f].in \/ \E k \in Index : pc[k].sock = f /\ pc[k].state = "NEED_RECV"
  PROVE  Agree(t, pc, tail, ct, dl, ps)
BY DEF Agree, Serving

\* The length of what is left to send does not matter.
LEMMA LeftAgree ==
  ASSUME NEW t, NEW pc, NEW qc, NEW tail, NEW ct, NEW dl, NEW pr,
         Agree(t, pc, tail, ct, dl, pr),
         \A j \in Index : /\ qc[j].port = pc[j].port /\ qc[j].sock = pc[j].sock
                          /\ qc[j].server_nfds = pc[j].server_nfds /\ qc[j].client_nfds = pc[j].client_nfds
                          /\ qc[j].state = pc[j].state /\ qc[j].ctrl = pc[j].ctrl
  PROVE  Agree(t, qc, tail, ct, dl, pr)
<1>0. /\ PipeEntry(t) /\ Owned(t, pc, tail) /\ (\A j \in Index : Slotted(t, pc[j])) /\ Apart(pc)
      /\ Dialled(pc, ct, dl) /\ Serving(pc, ct, pr)
  BY DEF Agree
<1>1. Owned(t, qc, tail)
  BY <1>0 DEF Owned, Owns
<1>2. \A j \in Index : Slotted(t, qc[j])
  BY <1>0 DEF Slotted
<1>3. Apart(qc)
  BY <1>0 DEF Apart
<1>4. Dialled(qc, ct, dl)
  BY <1>0 DEF Dialled
<1>5. Serving(qc, ct, pr)
  BY <1>0 DEF Serving
<1> QED
  BY <1>0, <1>1, <1>2, <1>3, <1>4, <1>5 DEF Agree

-----------------------------------------------------------------------------
(* The pass goes on, or starts again. *)

\* What the pass leaves of the table, and where it goes.
LEMMA Continued ==
  ASSUME TypeOK, at # AtPoll, alive, NEW t \in [Index -> Entry], NEW i \in Index \cup {-1}, Continue(t, i)
  PROVE  /\ fds' \in [Index -> Entry] /\ at' \in 0 .. AtPoll /\ served' \subseteq Index /\ alive'
         /\ SameFd(t, fds') /\ (PipeEntry(t) => PipeEntry(fds'))
         /\ at' # AtPoll => at' \in Index /\ fds' = t /\ served' = served \cup {at} /\ t[at'].revents # {}
<1> USE Entries
<1>0. at \in Index /\ served \subseteq Index
  BY PasvAssumption DEF TypeOK, AtPoll, Index
<1>1. /\ at' \in 0 .. AtPoll
      /\ at' # AtPoll => at' \in Index /\ t[at'].revents # {}
  <2> DEFINE ready == {j \in Index : j > i /\ t[j].revents # {}}
  <2>1. at' = IF ready = {} THEN AtPoll ELSE Min(ready)
    BY DEF Continue, Turn
  <2>2. CASE ready = {}
    BY <2>1, <2>2 DEF AtPoll
  <2>3. CASE ready # {}
    <3>1. ready \in SUBSET Nat
      OBVIOUS
    <3>2. Min(ready) \in ready
      BY <2>3, <3>1, MinIs
    <3> QED
      BY <2>1, <2>3, <3>2 DEF AtPoll
  <2> QED
    BY <2>2, <2>3
<1>2. alive'
  BY DEF Continue
<1>3. CASE at' = AtPoll
  <2>1. fds' = [j \in Index |-> [t[j] EXCEPT !.revents = {}]] /\ served' = {}
    BY <1>3 DEF Continue
  <2>2. \A j \in Index : /\ t[j] \in Entry /\ [t[j] EXCEPT !.revents = {}] \in Entry
                         /\ [t[j] EXCEPT !.revents = {}].fd = t[j].fd
                         /\ [t[j] EXCEPT !.revents = {}].events = t[j].events
    BY DEF Entry
  <2>3. fds' \in [Index -> Entry] /\ SameFd(t, fds') /\ (PipeEntry(t) => PipeEntry(fds'))
    BY <2>1, <2>2 DEF SameFd, PipeEntry
  <2> QED
    BY <1>1, <1>2, <1>3, <2>1, <2>3
<1>4. CASE at' # AtPoll
  <2>1. fds' = t /\ served' = served \cup {at}
    BY <1>4 DEF Continue
  <2> QED
    BY <1>0, <1>1, <1>2, <1>4, <2>1 DEF SameFd
<1> QED
  BY <1>3, <1>4

\* The pass goes on with the table t.
GoesOn(t) ==
  /\ Typed(t, pasv_clients', fd_most_tail', ctl', dialled', peer')
  /\ Agree(t, pasv_clients', fd_most_tail', ctl', dialled', peer')
  /\ Fresh(t, served \cup {at}, dialled', peer')
  /\ pipe' \in Seq(Index) /\ Len(pipe') <= MaxPipe

LEMMA ContinueInv ==
  ASSUME TypeOK, at # AtPoll, alive, NEW t, NEW i \in Index \cup {-1}, Continue(t, i), GoesOn(t)
  PROVE  Inv'
<1>0. t \in [Index -> Entry]
  BY DEF GoesOn, Typed
<1>1. /\ fds' \in [Index -> Entry] /\ at' \in 0 .. AtPoll /\ served' \subseteq Index /\ alive'
      /\ SameFd(t, fds') /\ (PipeEntry(t) => PipeEntry(fds'))
      /\ at' # AtPoll => at' \in Index /\ fds' = t /\ served' = served \cup {at} /\ t[at'].revents # {}
  BY <1>0, Continued
<1>2. TypeOK'
  BY <1>1 DEF TypeOK, GoesOn, Typed
<1>3. Agree(fds', pasv_clients', fd_most_tail', ctl', dialled', peer')
  <2>1. PipeEntry(fds')
    BY <1>1 DEF GoesOn, Agree
  <2> QED
    BY <1>1, <2>1, SameFdAgree DEF GoesOn
<1>4. PassInv'
  BY <1>1 DEF PassInv, GoesOn, AtPoll
<1> QED
  BY <1>2, <1>3, <1>4 DEF Inv

\* The types and the parts of the invariant.
LEMMA Parts ==
  ASSUME Inv
  PROVE  /\ Typed(fds, pasv_clients, fd_most_tail, ctl, dialled, peer)
         /\ Agree(fds, pasv_clients, fd_most_tail, ctl, dialled, peer)
         /\ pipe \in Seq(Index) /\ Len(pipe) <= MaxPipe
         /\ at # AtPoll => at \in Index /\ Fresh(fds, served, dialled, peer) /\ fds[at].revents # {}
         /\ at # AtPoll /\ fds[at].fd # Pipe => at \in Slots
BY Entries, PasvAssumption DEF Inv, TypeOK, Typed, PassInv, AtPoll, Index, Agree, PipeEntry

\* The slot of a connection.
LEMMA OwnerIs ==
  ASSUME Inv, at # AtPoll, Here.fd \in Sock
  PROVE  /\ at \in Slots /\ Owner \in Index /\ pasv_clients[Owner].sock = Here.fd
         /\ pasv_clients[Owner].sock # None
         /\ \A k \in Index : pasv_clients[k].sock = Here.fd => k = Owner
<1>1. at \in Slots
  BY Parts, Kinds DEF Here
<1>2. \E k \in Index : pasv_clients[k].sock = fds[at].fd
  BY <1>1, Parts, OneEntry DEF Agree, Here
<1>3. Owner \in Index /\ pasv_clients[Owner].sock = Here.fd
  BY <1>2 DEF Owner, Here
<1>4. Apart(pasv_clients)
  BY Parts DEF Agree
<1> QED
  BY <1>1, <1>3, <1>4, Kinds DEF Apart

-----------------------------------------------------------------------------
(* The thread closes a channel. *)

\* What becomes of the session of slot k: it hears of it, or not.
Told(k) == \/ ctl' = ctl
           \/ ctl' = [ctl EXCEPT ![pasv_clients[k].ctrl] = NoPasv]

LEMMA CloseInv ==
  ASSUME Inv, at # AtPoll, alive, NEW k \in Index, pasv_clients[k].sock # None,
         CloseConnection(k), Told(k), UNCHANGED fd_most_tail,
         pipe' \in Seq(Index), Len(pipe') <= MaxPipe
  PROVE  Inv'
<1> USE Entries, Kinds
<1> DEFINE t == [i \in Index |->
                   IF i \in {pasv_clients[k].client_nfds, pasv_clients[k].server_nfds}
                   THEN Empty ELSE fds[i]]
<1>0. /\ Typed(fds, pasv_clients, fd_most_tail, ctl, dialled, peer)
      /\ Agree(fds, pasv_clients, fd_most_tail, ctl, dialled, peer)
      /\ at \in Index /\ Fresh(fds, served, dialled, peer)
  BY Parts
<1>1. FreePasv \in PasvData /\ NoPasv \in Control /\ NewPeer \in Remote /\ Empty \in Entry
  <2>1. 0 \in Index /\ 0 \in 0 .. MaxChunks
    BY PasvAssumption
  <2>2. FreePasv \in PasvData
    BY <2>1 DEF FreePasv, PasvData
  <2>3. NoPasv \in Control /\ NewPeer \in Remote /\ Empty \in Entry
    BY DEF NoPasv, Control, NewPeer, Remote, Empty, Entry
  <2> QED
    BY <2>2, <2>3
<1>2. /\ t \in [Index -> Entry]
      /\ \A i \in Index : t[i] = IF i \in {pasv_clients[k].client_nfds, pasv_clients[k].server_nfds}
                                 THEN Empty ELSE fds[i]
  BY <1>0, <1>1 DEF Typed
<1>3. /\ pasv_clients' \in [Index -> PasvData] /\ pasv_clients'[k] = FreePasv
      /\ \A j \in Index \ {k} : pasv_clients'[j] = pasv_clients[j]
  BY <1>0, <1>1 DEF Typed, CloseConnection
<1>4. /\ ctl' \in [Session -> Control]
      /\ \A s \in Session : ctl'[s] = ctl[s] \/ (s = pasv_clients[k].ctrl /\ ctl'[s] = NoPasv)
  BY <1>0, <1>1 DEF Typed, Told
<1>5. dialled' = dialled \ {pasv_clients[k].port} /\ dialled' \subseteq Port
  BY <1>0 DEF Typed, CloseConnection
<1>6. /\ peer' \in [Sock -> Remote]
      /\ \A f \in Sock : peer'[f] = IF f = pasv_clients[k].sock THEN NewPeer ELSE peer[f]
  BY <1>0, <1>1 DEF Typed, CloseConnection
<1>7. Continue(t, -1)
  BY DEF CloseConnection, Restart
<1>8. Typed(t, pasv_clients', fd_most_tail', ctl', dialled', peer')
  BY <1>0, <1>2, <1>3, <1>4, <1>5, <1>6 DEF Typed
<1> HIDE DEF t
<1>9. Closed(k, fds, t, pasv_clients, pasv_clients', ctl, ctl', dialled, dialled', peer, peer')
  BY <1>2, <1>3, <1>4, <1>5, <1>6 DEF Closed
<1>10. Agree(t, pasv_clients', fd_most_tail', ctl', dialled', peer')
  BY <1>0, <1>9, CloseAgree
<1>11. Fresh(t, served \cup {at}, dialled', peer')
  <2> SUFFICES ASSUME NEW i \in Slots \ (served \cup {at})
        PROVE  /\ t[i].fd \in Port /\ "in" \in t[i].revents => t[i].fd \in dialled'
               /\ t[i].fd \in Sock /\ "in" \in t[i].revents => peer'[t[i].fd].gone \/ peer'[t[i].fd].in
               /\ t[i].fd \in Sock /\ "out" \in t[i].revents => peer'[t[i].fd].gone \/ peer'[t[i].fd].room
    BY DEF Fresh
  <2>1. CASE i \in {pasv_clients[k].client_nfds, pasv_clients[k].server_nfds}
    BY <1>2, <2>1 DEF Empty
  <2>2. CASE i \notin {pasv_clients[k].client_nfds, pasv_clients[k].server_nfds}
    <3>1. t[i] = fds[i]
      BY <1>2, <2>2
    <3>2. Owned(fds, pasv_clients, fd_most_tail) /\ Apart(pasv_clients)
      BY <1>0 DEF Agree
    <3>3. pasv_clients[k].port # None
      BY <1>0 DEF Agree, Slotted
    <3>4. fds[i].fd # pasv_clients[k].port /\ fds[i].fd # pasv_clients[k].sock
      BY <1>0, <2>2, <3>2, <3>3, OneEntry
    <3> QED
      BY <1>0, <1>5, <1>6, <3>1, <3>4 DEF Fresh
  <2> QED
    BY <2>1, <2>2
<1>12. GoesOn(t)
  BY <1>8, <1>10, <1>11 DEF GoesOn
<1>13. TypeOK
  BY DEF Inv
<1> QED
  BY <1>7, <1>12, <1>13, ContinueInv

-----------------------------------------------------------------------------
(* The steps of the thread. *)

\* What poll reported of the other entries still holds.
LEMMA FreshKept ==
  ASSUME NEW t, NEW u, NEW sv, NEW dl, NEW pr, NEW i, Fresh(t, sv, dl, pr),
         \A j \in Slots : u[j].revents = {} \/ (u[j].fd = t[j].fd /\ u[j].revents = t[j].revents)
  PROVE  Fresh(u, sv \cup {i}, dl, pr)
BY DEF Fresh

LEMMA Working ==
  ASSUME NEW d
  PROVE  /\ ServeIn(d) => alive /\ at # AtPoll /\ Here.fd \in d /\ "in" \in fds[at].revents
         /\ ServeOut => alive /\ at # AtPoll /\ Here.fd \in Sock /\ "in" \notin fds[at].revents
BY DEF ServeIn, ServeOut, Here

LEMMA PipeRead ==
  ASSUME Inv, TakeMessage
  PROVE  /\ Message \in Index /\ pipe' \in Seq(Index) /\ Len(pipe') <= MaxPipe
         /\ alive /\ at # AtPoll
BY Parts, PasvAssumption DEF TakeMessage, Message, ServeIn

LEMMA Asked ==
  ASSUME NEW d \in SUBSET {"in", "out"}, NEW state
  PROVE  Wanted(d, state) \in SUBSET {"in", "out"}
BY DEF Wanted

LEMMA ReadEmptyInv ==
  ASSUME Inv, ReadEmpty
  PROVE  Inv'
<1>1. TypeOK /\ at # AtPoll /\ alive
  BY DEF Inv, ReadEmpty, ServeIn
<1>2. Continue(fds, at) /\ at \in Index \cup {-1}
  BY <1>1, Parts DEF ReadEmpty, GoOn
<1>3. /\ pasv_clients' = pasv_clients /\ fd_most_tail' = fd_most_tail /\ pipe' = pipe
      /\ ctl' = ctl /\ dialled' = dialled /\ peer' = peer
  BY DEF ReadEmpty, world
<1>4. Fresh(fds, served \cup {at}, dialled, peer)
  BY <1>1, Parts DEF Fresh
<1>5. GoesOn(fds)
  BY <1>3, <1>4, Parts DEF GoesOn
<1> QED
  BY <1>1, <1>2, <1>5, ContinueInv

LEMMA ReadNewInv ==
  ASSUME Inv, ReadNew
  PROVE  Inv'
<1> USE Entries, Kinds
<1> DEFINE k == Message
           e == [Empty EXCEPT !.fd = pasv_clients[k].port, !.events = {"in"}]
           u == Push(e)
<1>1. /\ Typed(fds, pasv_clients, fd_most_tail, ctl, dialled, peer)
      /\ Agree(fds, pasv_clients, fd_most_tail, ctl, dialled, peer)
      /\ TypeOK
  BY Parts DEF Inv
<1>2. k \in Index /\ pipe' \in Seq(Index) /\ Len(pipe') <= MaxPipe /\ alive /\ at # AtPoll
  BY PipeRead DEF ReadNew
<1>3. e \in Entry /\ e.fd = pasv_clients[k].port
  BY <1>1, <1>2, Fields DEF Empty, Entry
<1>4. Continue(u, at) /\ at \in Index \cup {-1} /\ Fresh(fds, served, dialled, peer)
  BY <1>2, Parts DEF ReadNew, GoOn
<1>5. ctl' = ctl /\ dialled' = dialled /\ peer' = peer
  BY DEF ReadNew, world
<1>6. u \in [Index -> Entry] /\ Pushed(fds, u, fd_most_tail, fd_most_tail', Place, e)
      /\ Place \in Index \cup {-1}
  BY <1>1, <1>3, PushIs DEF ReadNew
<1>7. /\ pasv_clients' \in [Index -> PasvData]
      /\ \A j \in Index : j # k => pasv_clients'[j] = pasv_clients[j]
      /\ pasv_clients'[k].port = pasv_clients[k].port /\ pasv_clients'[k].sock = pasv_clients[k].sock
      /\ pasv_clients'[k].ctrl = pasv_clients[k].ctrl /\ pasv_clients'[k].server_nfds = Place
      /\ pasv_clients'[k].state = IF Place = -1 THEN "NEW_CLIENT" ELSE "IDLE"
  <2>1. pasv_clients' = [pasv_clients EXCEPT ![k].server_nfds = Place,
                                             ![k].state = IF Place = -1 THEN @ ELSE "IDLE"]
    BY DEF ReadNew
  <2>2. pasv_clients[k].state = "NEW_CLIENT" /\ pasv_clients \in [Index -> PasvData]
    BY <1>1 DEF ReadNew, Typed
  <2>3. k \in Index /\ Place \in Index \cup {-1}
    BY <1>2, <1>6
  <2> HIDE DEF k
  <2>4. CASE Place = -1
    <3>1. pasv_clients' = [pasv_clients EXCEPT ![k].server_nfds = -1, ![k].state = "NEW_CLIENT"]
      BY <2>1, <2>2, <2>3, <2>4 DEF PasvData
    <3> QED
      BY <2>2, <2>3, <2>4, <3>1 DEF PasvData
  <2>5. CASE Place # -1
    BY <2>1, <2>2, <2>3, <2>5 DEF PasvData
  <2> QED
    BY <2>4, <2>5
<1>8. pasv_clients[k].state = "NEW_CLIENT"
  BY DEF ReadNew
<1> HIDE DEF k, e, u
<1>9. Agree(u, pasv_clients', fd_most_tail', ctl, dialled, peer)
  BY <1>1, <1>2, <1>3, <1>6, <1>7, <1>8, NewAgree
<1>10. Fresh(u, served \cup {at}, dialled, peer)
  <2>1. \A j \in Slots : u[j].revents = {} \/ (u[j].fd = fds[j].fd /\ u[j].revents = fds[j].revents)
    BY <1>6 DEF Pushed
  <2> QED
    BY <1>4, <2>1, FreshKept
<1>11. Typed(u, pasv_clients', fd_most_tail', ctl, dialled, peer)
  BY <1>1, <1>6, <1>7 DEF Typed, Pushed
<1>12. GoesOn(u)
  BY <1>2, <1>5, <1>9, <1>10, <1>11 DEF GoesOn
<1> QED
  BY <1>1, <1>2, <1>4, <1>12, ContinueInv

LEMMA ReadJobInv ==
  ASSUME Inv, ReadJob
  PROVE  Inv'
<1> USE Entries, Kinds
<1> DEFINE k == Message
           i == pasv_clients[k].client_nfds
           u == IF pasv_clients[k].sock # None /\ i \in Index
                THEN [fds EXCEPT ![i].events = Wanted(@, pasv_clients[k].state)] ELSE fds
<1>1. /\ Typed(fds, pasv_clients, fd_most_tail, ctl, dialled, peer)
      /\ Agree(fds, pasv_clients, fd_most_tail, ctl, dialled, peer)
      /\ TypeOK
  BY Parts DEF Inv
<1>2. k \in Index /\ pipe' \in Seq(Index) /\ Len(pipe') <= MaxPipe /\ alive /\ at # AtPoll
  BY PipeRead DEF ReadJob
<1>3. Continue(u, at) /\ at \in Index \cup {-1} /\ Fresh(fds, served, dialled, peer)
  BY <1>2, Parts DEF ReadJob, GoOn
<1>4. /\ pasv_clients' = pasv_clients /\ fd_most_tail' = fd_most_tail
      /\ ctl' = ctl /\ dialled' = dialled /\ peer' = peer
  BY DEF ReadJob, world
<1>5. /\ u \in [Index -> Entry]
      /\ \A j \in Index : u[j].fd = fds[j].fd /\ u[j].revents = fds[j].revents
      /\ u[0] = fds[0]
  <2>1. CASE pasv_clients[k].sock # None /\ i \in Index
    <3>1. i # 0
      BY <1>1, <1>2, <2>1 DEF Agree, Slotted
    <3>2. \A j \in Index : /\ fds[j] \in Entry /\ fds[j].events \in SUBSET {"in", "out"}
                           /\ Wanted(fds[j].events, pasv_clients[k].state) \in SUBSET {"in", "out"}
      BY <1>1, Asked DEF Typed, Entry
    <3> DEFINE d == [fds[i] EXCEPT !.events = Wanted(@, pasv_clients[k].state)]
    <3>3. u = [fds EXCEPT ![i] = d]
      BY <2>1
    <3>4. d \in Entry /\ d.fd = fds[i].fd /\ d.revents = fds[i].revents
      BY <2>1, <3>2 DEF Entry
    <3> HIDE DEF d, u, i
    <3> QED
      BY <1>1, <2>1, <3>1, <3>3, <3>4 DEF Typed
  <2>2. CASE ~(pasv_clients[k].sock # None /\ i \in Index)
    BY <1>1, <2>2 DEF Typed
  <2> QED
    BY <2>1, <2>2
<1> HIDE DEF k, i, u
<1>6. Agree(u, pasv_clients, fd_most_tail, ctl, dialled, peer)
  <2>1. SameFd(fds, u) /\ PipeEntry(u)
    BY <1>1, <1>5 DEF SameFd, PipeEntry, Agree
  <2> QED
    BY <1>1, <2>1, SameFdAgree
<1>7. Fresh(u, served \cup {at}, dialled, peer)
  BY <1>3, <1>5, FreshKept
<1>8. GoesOn(u)
  BY <1>1, <1>2, <1>4, <1>5, <1>6, <1>7 DEF GoesOn, Typed
<1> QED
  BY <1>1, <1>2, <1>3, <1>8, ContinueInv

LEMMA ReadQuitInv ==
  ASSUME Inv, ReadQuit
  PROVE  Inv'
<1>1. Message \in Index /\ pipe' \in Seq(Index) /\ Len(pipe') <= MaxPipe /\ alive /\ at # AtPoll
  BY PipeRead DEF ReadQuit
<1>2. CASE pasv_clients[Message].sock # None
  <2>1. CloseConnection(Message) /\ Told(Message) /\ UNCHANGED fd_most_tail
    BY <1>2 DEF ReadQuit, Told
  <2> QED
    BY <1>1, <1>2, <2>1, CloseInv
<1>3. CASE pasv_clients[Message].sock = None
  <2>1. /\ pasv_clients' = pasv_clients /\ fd_most_tail' = fd_most_tail
        /\ ctl' = ctl /\ dialled' = dialled /\ peer' = peer /\ GoOn(fds)
    BY <1>3 DEF ReadQuit
  <2>2. Continue(fds, at) /\ at \in Index \cup {-1} /\ TypeOK
    BY <1>1, <2>1, Parts DEF GoOn, Inv
  <2>3. Fresh(fds, served \cup {at}, dialled, peer)
    BY <1>1, Parts DEF Fresh
  <2>4. GoesOn(fds)
    BY <1>1, <2>1, <2>3, Parts DEF GoesOn
  <2> QED
    BY <1>1, <2>2, <2>4, ContinueInv
<1> QED
  BY <1>2, <1>3

LEMMA AcceptDataInv ==
  ASSUME Inv, AcceptData
  PROVE  Inv'
<1> USE Entries, Kinds
<1> DEFINE k == CHOOSE j \in Used : pasv_clients[j].port = Here.fd
           f == CHOOSE x \in FreeSock : TRUE
           e == [Empty EXCEPT !.fd = f, !.events = Wanted({"in"}, pasv_clients[k].state)]
           u == Push(e)
<1>1. /\ Typed(fds, pasv_clients, fd_most_tail, ctl, dialled, peer)
      /\ Agree(fds, pasv_clients, fd_most_tail, ctl, dialled, peer)
      /\ TypeOK /\ pipe \in Seq(Index) /\ Len(pipe) <= MaxPipe
  BY Parts DEF Inv
<1>2. alive /\ at # AtPoll /\ Here.fd \in dialled /\ Here = fds[at]
  BY Working DEF AcceptData, Here
<1>3. Here.fd \in Port /\ at \in Slots
  BY <1>1, <1>2, Parts DEF Typed
<1>4. k \in Index /\ pasv_clients[k].port = Here.fd
  <2>1. \E j \in Index : pasv_clients[j].port = Here.fd
    BY <1>1, <1>2 DEF Agree, Dialled
  <2>2. \E j \in Used : pasv_clients[j].port = Here.fd
    BY <1>3, <2>1 DEF Used
  <2> QED
    BY <2>2 DEF Used
<1>5. f \in Sock /\ \A j \in Index : fds[j].fd # f /\ pasv_clients[j].sock # f
  <2>1. f \in FreeSock
    BY DEF AcceptData
  <2> QED
    BY <2>1 DEF FreeSock, OpenSocks
<1>6. e \in Entry /\ e.fd = f
  <2>1. Wanted({"in"}, pasv_clients[k].state) \in SUBSET {"in", "out"}
    BY Asked
  <2> HIDE DEF f, k
  <2> QED
    BY <1>5, <2>1 DEF Empty, Entry
<1>7. Continue(u, at) /\ at \in Index \cup {-1} /\ Fresh(fds, served, dialled, peer)
  BY <1>2, Parts DEF AcceptData, GoOn
<1>8. ctl' = ctl /\ dialled' = dialled \ {Here.fd} /\ peer' = peer /\ pipe' = pipe
  BY DEF AcceptData
<1>9. u \in [Index -> Entry] /\ Pushed(fds, u, fd_most_tail, fd_most_tail', Place, e)
      /\ Place \in Index \cup {-1}
  BY <1>1, <1>6, PushIs DEF AcceptData
<1>10. pasv_clients' = [pasv_clients EXCEPT ![k].sock = f, ![k].client_nfds = Place]
  BY DEF AcceptData
<1> HIDE DEF k, f, e, u
<1>11. /\ pasv_clients' \in [Index -> PasvData]
       /\ \A j \in Index : j # k => pasv_clients'[j] = pasv_clients[j]
       /\ pasv_clients'[k].port = pasv_clients[k].port /\ pasv_clients'[k].ctrl = pasv_clients[k].ctrl
       /\ pasv_clients'[k].state = pasv_clients[k].state
       /\ pasv_clients'[k].sock = f /\ pasv_clients'[k].client_nfds = Place
       /\ pasv_clients'[k].server_nfds = pasv_clients[k].server_nfds
  <2>1. k \in Index /\ f \in Sock /\ Place \in Index \cup {-1} /\ pasv_clients \in [Index -> PasvData]
    BY <1>1, <1>4, <1>5, <1>9 DEF Typed
  <2> QED
    BY <1>10, <2>1 DEF PasvData
<1>12. /\ fds[at].fd = pasv_clients[k].port /\ pasv_clients[k].port \in dialled
      /\ pasv_clients[k].port # None /\ dialled' = dialled \ {pasv_clients[k].port}
  BY <1>2, <1>3, <1>4, <1>8
<1>13. Agree(u, pasv_clients', fd_most_tail', ctl, dialled', peer)
  <2>1. Accepted(k, Place, at, f, fds, pasv_clients, pasv_clients', dialled, dialled')
    BY <1>5, <1>11, <1>12 DEF Accepted
  <2> QED
    BY <1>1, <1>3, <1>4, <1>5, <1>6, <1>9, <2>1, AcceptAgree
<1>14. Fresh(u, served \cup {at}, dialled', peer)
  <2>1. \A j \in Slots : u[j].revents = {} \/ u[j] = fds[j]
    BY <1>9 DEF Pushed
  <2>2. ASSUME NEW j \in Slots, j # at PROVE fds[j].fd # Here.fd
    <3>1. Owned(fds, pasv_clients, fd_most_tail) /\ Apart(pasv_clients)
      BY <1>1 DEF Agree
    <3>2. pasv_clients[k].server_nfds = at /\ (fds[j].fd = Here.fd => pasv_clients[k].server_nfds = j)
      <4>1. pasv_clients[k].server_nfds = at
        BY <1>1, <1>3, <1>4, <1>12, <3>1, OneEntry
      <4>2. fds[j].fd = pasv_clients[k].port => pasv_clients[k].server_nfds = j
        BY <1>1, <1>4, <1>12, <3>1, OneEntry
      <4> QED
        BY <1>4, <4>1, <4>2
    <3> QED
      BY <2>2, <3>2
  <2> QED
    BY <1>7, <1>8, <2>1, <2>2 DEF Fresh
<1>15. Typed(u, pasv_clients', fd_most_tail', ctl, dialled', peer)
  BY <1>1, <1>8, <1>9, <1>11 DEF Typed, Pushed
<1>16. GoesOn(u)
  BY <1>1, <1>8, <1>13, <1>14, <1>15 DEF GoesOn
<1> QED
  BY <1>1, <1>2, <1>7, <1>16, ContinueInv

\* accept found nobody: the thread returns on revents that were served before.
LEMMA AcceptNobodyInv ==
  ASSUME Inv, AcceptNobody
  PROVE  Inv'
<1>1. alive /\ at # AtPoll /\ Here.fd \in Port \ dialled /\ "in" \in fds[at].revents /\ Here = fds[at]
  BY Working DEF AcceptNobody, Here
<1>2. at \in Slots /\ Fresh(fds, served, dialled, peer)
  BY <1>1, Kinds, Parts
<1>3. at \in served
  BY <1>1, <1>2 DEF Fresh
<1>4. /\ pasv_clients' = pasv_clients /\ pipe' = pipe /\ ctl' = ctl /\ dialled' = dialled /\ peer' = peer
      /\ fds' = fds /\ fd_most_tail' = fd_most_tail /\ at' = at /\ served' = served /\ alive' = FALSE
  BY DEF AcceptNobody, Return, world, table
<1>5. TypeOK'
  BY <1>4 DEF TypeOK, Inv
<1>6. Agree(fds', pasv_clients', fd_most_tail', ctl', dialled', peer')
  BY <1>4, Parts
<1>7. PassInv'
  BY <1>3, <1>4 DEF PassInv, Inv, AtPoll
<1> QED
  BY <1>5, <1>6, <1>7 DEF Inv

LEMMA ReceiveInv ==
  ASSUME Inv, Receive
  PROVE  Inv'
<1> USE Entries, Kinds
<1> DEFINE f == Here.fd
<1>1. /\ Typed(fds, pasv_clients, fd_most_tail, ctl, dialled, peer)
      /\ Agree(fds, pasv_clients, fd_most_tail, ctl, dialled, peer)
      /\ TypeOK /\ pipe \in Seq(Index) /\ Len(pipe) <= MaxPipe
  BY Parts DEF Inv
<1>2. alive /\ at # AtPoll /\ f \in Sock /\ fds[at].fd = f
  BY Working DEF Receive, Receiving, Here
<1>3. at \in Slots /\ Fresh(fds, served, dialled, peer)
  BY <1>2, Parts
<1>4. /\ Continue(fds, at) /\ at \in Index \cup {-1}
      /\ pasv_clients' = pasv_clients /\ fd_most_tail' = fd_most_tail /\ pipe' = pipe
      /\ ctl' = ctl /\ dialled' = dialled /\ peer' = [peer EXCEPT ![f].in = FALSE]
  BY <1>3 DEF Receive, GoOn
<1> HIDE DEF f
<1>5. /\ peer' \in [Sock -> Remote] /\ ~peer'[f].in
      /\ \A g \in Sock : g # f => peer'[g] = peer[g]
  BY <1>1, <1>2, <1>4 DEF Typed, Remote
<1>6. Agree(fds, pasv_clients, fd_most_tail, ctl, dialled, peer')
  BY <1>1, <1>5, PeerAgree
<1>7. Fresh(fds, served \cup {at}, dialled, peer')
  <2>1. ASSUME NEW j \in Slots, j # at PROVE fds[j].fd # f
    <3>1. Owned(fds, pasv_clients, fd_most_tail) /\ Apart(pasv_clients)
      BY <1>1 DEF Agree
    <3>2. PICK k \in Index : pasv_clients[k].sock = f
      BY <1>1, <1>2, <1>3, <3>1, OneEntry
    <3>3. pasv_clients[k].client_nfds = at /\ (fds[j].fd = f => pasv_clients[k].client_nfds = j)
      BY <1>1, <1>2, <1>3, <3>1, <3>2, OneEntry
    <3> QED
      BY <2>1, <3>3
  <2> QED
    BY <1>3, <1>5, <2>1 DEF Fresh
<1>8. Typed(fds, pasv_clients, fd_most_tail, ctl, dialled, peer')
  BY <1>1, <1>5 DEF Typed
<1>9. GoesOn(fds)
  BY <1>1, <1>4, <1>6, <1>7, <1>8 DEF GoesOn
<1> QED
  BY <1>1, <1>2, <1>4, <1>9, ContinueInv

\* The last step of a transfer, and a failed call.
LEMMA FinishInv ==
  ASSUME Inv, at # AtPoll, alive, Here.fd \in Sock, Finish \/ GiveUp, UNCHANGED <<fd_most_tail, pipe>>
  PROVE  Inv'
<1>1. Owner \in Index /\ pasv_clients[Owner].sock # None
  BY OwnerIs
<1>2. CloseConnection(Owner) /\ Told(Owner)
  BY DEF Finish, GiveUp, Told
<1>3. pipe' \in Seq(Index) /\ Len(pipe') <= MaxPipe /\ UNCHANGED fd_most_tail
  BY Parts
<1> QED
  BY <1>1, <1>2, <1>3, CloseInv

LEMMA ReceiveEndInv ==
  ASSUME Inv, ReceiveEnd
  PROVE  Inv'
<1>1. alive /\ at # AtPoll /\ Here.fd \in Sock
  BY Working DEF ReceiveEnd, Receiving
<1> QED
  BY <1>1, FinishInv DEF ReceiveEnd

LEMMA ReceiveFailsInv ==
  ASSUME Inv, ReceiveFails
  PROVE  Inv'
<1>1. alive /\ at # AtPoll /\ Here.fd \in Sock
  BY Working DEF ReceiveFails
<1> QED
  BY <1>1, FinishInv DEF ReceiveFails

LEMMA SendInv ==
  ASSUME Inv, Send
  PROVE  Inv'
<1> USE Entries, Kinds
<1> DEFINE f == Here.fd
           k == Owner
           u == [fds EXCEPT ![at].events = {"out"}]
<1>1. /\ Typed(fds, pasv_clients, fd_most_tail, ctl, dialled, peer)
      /\ Agree(fds, pasv_clients, fd_most_tail, ctl, dialled, peer)
      /\ TypeOK /\ pipe \in Seq(Index) /\ Len(pipe) <= MaxPipe
  BY Parts DEF Inv
<1>2. alive /\ at # AtPoll /\ f \in Sock /\ fds[at].fd = f
  BY Working DEF Send, Here
<1>3. at \in Slots /\ Fresh(fds, served, dialled, peer) /\ k \in Index /\ pasv_clients[k].sock = f
  BY <1>2, Parts, OwnerIs
<1>4. /\ Continue(u, at) /\ at \in Index \cup {-1}
      /\ fd_most_tail' = fd_most_tail /\ pipe' = pipe /\ ctl' = ctl /\ dialled' = dialled
  BY <1>3 DEF Send, GoOn
<1>5. PICK r \in BOOLEAN : peer' = [peer EXCEPT ![f].room = r]
  BY DEF Send
<1>6. Rest \in 0 .. MaxChunks
  <2>1. pasv_clients[k].left \in 0 .. MaxChunks
    BY <1>1, <1>3, Fields
  <2> QED
    BY <2>1, PasvAssumption DEF Rest
<1>7. pasv_clients' = [pasv_clients EXCEPT ![k].left = Rest]
  BY DEF Send
<1>8. /\ u \in [Index -> Entry] /\ u[at].fd = fds[at].fd
      /\ \A j \in Index : j # at => u[j] = fds[j]
  BY <1>1, <1>3 DEF Typed, Entry
<1> HIDE DEF f, k, u
<1>9. /\ peer' \in [Sock -> Remote]
      /\ \A g \in Sock : peer'[g].in = peer[g].in /\ (g # f => peer'[g] = peer[g])
  BY <1>1, <1>2, <1>5 DEF Typed, Remote
<1>10. /\ pasv_clients' \in [Index -> PasvData]
       /\ \A j \in Index :
            /\ pasv_clients'[j].port = pasv_clients[j].port /\ pasv_clients'[j].sock = pasv_clients[j].sock
            /\ pasv_clients'[j].server_nfds = pasv_clients[j].server_nfds
            /\ pasv_clients'[j].client_nfds = pasv_clients[j].client_nfds
            /\ pasv_clients'[j].state = pasv_clients[j].state /\ pasv_clients'[j].ctrl = pasv_clients[j].ctrl
  <2>1. pasv_clients \in [Index -> PasvData]
    BY <1>1 DEF Typed
  <2> QED
    BY <1>3, <1>6, <1>7, <2>1 DEF PasvData
<1>11. Agree(u, pasv_clients', fd_most_tail, ctl, dialled, peer')
  <2>1. SameFd(fds, u) /\ PipeEntry(u)
    BY <1>1, <1>3, <1>8 DEF SameFd, PipeEntry, Agree
  <2>2. Agree(u, pasv_clients, fd_most_tail, ctl, dialled, peer)
    BY <1>1, <2>1, SameFdAgree
  <2>3. Agree(u, pasv_clients, fd_most_tail, ctl, dialled, peer')
    BY <1>9, <2>2, PeerAgree
  <2> QED
    BY <1>10, <2>3, LeftAgree
<1>12. Fresh(u, served \cup {at}, dialled, peer')
  <2>1. ASSUME NEW j \in Slots, j # at PROVE fds[j].fd # f
    <3>1. Owned(fds, pasv_clients, fd_most_tail) /\ Apart(pasv_clients)
      BY <1>1 DEF Agree
    <3>2. pasv_clients[k].client_nfds = at /\ (fds[j].fd = f => pasv_clients[k].client_nfds = j)
      BY <1>1, <1>2, <1>3, <3>1, OneEntry
    <3> QED
      BY <2>1, <3>2
  <2> QED
    BY <1>3, <1>8, <1>9, <2>1 DEF Fresh
<1>13. Typed(u, pasv_clients', fd_most_tail, ctl, dialled, peer')
  BY <1>1, <1>8, <1>9, <1>10 DEF Typed
<1>14. GoesOn(u)
  BY <1>1, <1>4, <1>11, <1>12, <1>13 DEF GoesOn
<1> QED
  BY <1>1, <1>2, <1>4, <1>14, ContinueInv

LEMMA SendLastInv ==
  ASSUME Inv, SendLast
  PROVE  Inv'
<1>1. alive /\ at # AtPoll /\ Here.fd \in Sock
  BY Working DEF SendLast
<1> QED
  BY <1>1, FinishInv DEF SendLast

LEMMA SendFailsInv ==
  ASSUME Inv, SendFails
  PROVE  Inv'
<1>1. alive /\ at # AtPoll /\ Here.fd \in Sock
  BY Working DEF SendFails
<1> QED
  BY <1>1, FinishInv DEF SendFails

LEMMA ServeInv ==
  ASSUME Inv, Serve
  PROVE  Inv'
BY ReadEmptyInv, ReadNewInv, ReadJobInv, ReadQuitInv, AcceptDataInv, AcceptNobodyInv, ReceiveInv,
   ReceiveEndInv, ReceiveFailsInv, SendInv, SendLastInv, SendFailsInv DEF Serve

\* A new pass.
LEMMA PollInv ==
  ASSUME Inv, Poll
  PROVE  Inv'
<1> USE Entries, Kinds
<1>1. /\ Typed(fds, pasv_clients, fd_most_tail, ctl, dialled, peer)
      /\ Agree(fds, pasv_clients, fd_most_tail, ctl, dialled, peer)
      /\ TypeOK /\ dialled \subseteq Port
  BY Parts DEF Inv, TypeOK
<1>2. /\ pasv_clients' = pasv_clients /\ fd_most_tail' = fd_most_tail /\ pipe' = pipe
      /\ served' = served /\ alive' /\ ctl' = ctl /\ dialled' = dialled /\ peer' = peer
      /\ at' = Turn(fds', -1) /\ at' # AtPoll
  BY DEF Poll, world
<1>3. fds' = [j \in Index |-> [fds[j] EXCEPT !.revents = IF j < fd_most_tail THEN Reported(fds[j]) ELSE {}]]
  BY DEF Poll
<1>4. \A j \in Index : /\ Reported(fds[j]) \subseteq fds[j].events
                       /\ fds[j].events \in SUBSET {"in", "out"} /\ fds[j] \in Entry
  BY <1>1 DEF Reported, Typed, Entry
<1>5. /\ fds' \in [Index -> Entry]
      /\ \A j \in Index : fds'[j].fd = fds[j].fd /\ fds'[j].events = fds[j].events
                          /\ fds'[j].revents \subseteq Reported(fds[j])
  <2> DEFINE W(j) == [fds[j] EXCEPT !.revents = IF j < fd_most_tail THEN Reported(fds[j]) ELSE {}]
  <2>1. ASSUME NEW j \in Index
        PROVE  /\ W(j) \in Entry /\ W(j).fd = fds[j].fd /\ W(j).events = fds[j].events
               /\ W(j).revents \subseteq Reported(fds[j])
    BY <1>4 DEF Entry
  <2>2. fds' = [j \in Index |-> W(j)]
    BY <1>3
  <2> HIDE DEF W
  <2>3. \A j \in Index : fds'[j] = W(j)
    BY <2>2
  <2>4. fds' \in [Index -> Entry]
    BY <2>1, <2>2
  <2> QED
    BY <2>1, <2>3, <2>4
<1>6. at' \in Index /\ fds'[at'].revents # {}
  <2> DEFINE ready == {j \in Index : j > -1 /\ fds'[j].revents # {}}
  <2>1. at' = IF ready = {} THEN AtPoll ELSE Min(ready)
    BY <1>2 DEF Turn
  <2>2. ready \in SUBSET Nat /\ ready # {}
    BY <1>2, <2>1
  <2>3. Min(ready) \in ready
    BY <2>2, MinIs
  <2> QED
    BY <2>1, <2>2, <2>3
<1>7. TypeOK'
  BY <1>1, <1>2, <1>5, <1>6 DEF TypeOK, AtPoll
<1>8. Agree(fds', pasv_clients', fd_most_tail', ctl', dialled', peer')
  <2>1. SameFd(fds, fds') /\ PipeEntry(fds')
    BY <1>1, <1>5 DEF SameFd, PipeEntry, Agree
  <2> QED
    BY <1>1, <1>2, <2>1, SameFdAgree
<1>9. Fresh(fds', served, dialled, peer)
  <2> SUFFICES ASSUME NEW i \in Slots
        PROVE  /\ fds'[i].fd \in Port /\ "in" \in fds'[i].revents => fds'[i].fd \in dialled
               /\ fds'[i].fd \in Sock /\ "in" \in fds'[i].revents => peer[fds'[i].fd].gone \/ peer[fds'[i].fd].in
               /\ fds'[i].fd \in Sock /\ "out" \in fds'[i].revents => peer[fds'[i].fd].gone \/ peer[fds'[i].fd].room
    BY DEF Fresh
  <2>1. \A x \in fds'[i].revents : fds[i].fd \in (IF x = "in" THEN Readable ELSE Writable)
    BY <1>5 DEF Reported
  <2>2. "in" \in fds'[i].revents => fds[i].fd \in Readable
    BY <2>1
  <2>3. "out" \in fds'[i].revents => fds[i].fd \in Writable
    BY <2>1
  <2>4. OpenSocks \subseteq Sock
    BY DEF OpenSocks
  <2> QED
    BY <1>1, <1>5, <2>2, <2>3, <2>4 DEF Readable, Writable
<1>10. PassInv'
  BY <1>2, <1>6, <1>9 DEF PassInv
<1> QED
  BY <1>7, <1>8, <1>10 DEF Inv

-----------------------------------------------------------------------------
(* The steps of the main thread and of the remote ends. *)

\* A step outside the pass that takes nothing back from what poll reported.
Outside ==
  /\ UNCHANGED <<table, pass>>
  /\ Typed(fds, pasv_clients', fd_most_tail, ctl', dialled', peer')
  /\ Agree(fds, pasv_clients', fd_most_tail, ctl', dialled', peer')
  /\ dialled \subseteq dialled'
  /\ \A f \in Sock : /\ peer[f].gone => peer'[f].gone
                     /\ peer[f].in => peer'[f].in
                     /\ peer[f].room => peer'[f].room
  /\ pipe' \in Seq(Index) /\ Len(pipe') <= MaxPipe

LEMMA OutsideInv ==
  ASSUME Inv, Outside
  PROVE  Inv'
<1>1. fds' = fds /\ fd_most_tail' = fd_most_tail /\ at' = at /\ served' = served /\ alive' = alive
  BY DEF Outside, table, pass
<1>2. TypeOK'
  BY <1>1 DEF Outside, Typed, TypeOK, Inv
<1>3. Agree(fds', pasv_clients', fd_most_tail', ctl', dialled', peer')
  BY <1>1 DEF Outside
<1>4. PassInv'
  <2>1. Fresh(fds, served, dialled, peer) => Fresh(fds, served, dialled', peer')
    BY DEF Outside, Fresh
  <2>2. at # AtPoll => Fresh(fds, served, dialled, peer) /\ fds[at].revents # {}
    BY DEF Inv, PassInv
  <2>3. ~alive => at \in served
    BY DEF Inv, PassInv
  <2> QED
    BY <1>1, <2>1, <2>2, <2>3 DEF PassInv, AtPoll
<1> QED
  BY <1>2, <1>3, <1>4 DEF Inv

\* A message fits in.
LEMMA TellIs ==
  ASSUME Inv, NEW s \in Session, Ready(s), NEW k \in Index, Tell(k)
  PROVE  pipe' \in Seq(Index) /\ Len(pipe') <= MaxPipe
<1>1. pipe \in Seq(Index) /\ Len(pipe) < MaxPipe /\ pipe' = Append(pipe, k)
  BY Parts DEF Ready, Tell
<1> QED
  BY <1>1, PasvAssumption

\* The slot that FTP_PASV takes, and the slot a port finds.
LEMMA SlotIs ==
  ASSUME NEW S \in SUBSET Index, S # {}
  PROVE  Min(S) \in S
BY MinIs, Entries

LEMMA PasvInv ==
  ASSUME Inv, NEW s \in Session, FTP_PASV(s)
  PROVE  Inv'
<1> USE Entries, Kinds
<1> DEFINE k == Min(Index \ Used)
           p == CHOOSE x \in FreePort : TRUE
<1>1. /\ Typed(fds, pasv_clients, fd_most_tail, ctl, dialled, peer)
      /\ Agree(fds, pasv_clients, fd_most_tail, ctl, dialled, peer)
  BY Parts
<1>2. k \in Index /\ pasv_clients[k].port = None
  <2>1. Index \ Used # {}
    BY DEF FTP_PASV, Used
  <2>2. k \in Index \ Used
    BY <2>1, SlotIs
  <2> QED
    BY <2>2 DEF Used
<1>3. /\ p \in Port /\ \A j \in Index : pasv_clients[j].port # p
      /\ \A v \in Session : ctl[v].port # p
  <2>1. p \in FreePort
    BY DEF FTP_PASV
  <2>2. p \in Port /\ p \notin OpenPorts /\ \A v \in Session : ctl[v].port # p
    BY <2>1 DEF FreePort
  <2> HIDE DEF p
  <2>3. \A j \in Index : pasv_clients[j].port = p => j \in Used
    BY <2>2 DEF Used
  <2>4. \A j \in Used : pasv_clients[j].port # p
    BY <2>2 DEF OpenPorts
  <2> QED
    BY <2>2, <2>3, <2>4
<1>4. /\ pasv_clients' = [pasv_clients EXCEPT ![k] =
                            [@ EXCEPT !.port = p, !.left = 0, !.state = "NEW_CLIENT"]]
      /\ ctl' = [ctl EXCEPT ![s] = [NoPasv EXCEPT !.port = p]]
      /\ Ready(s) /\ Tell(k)
  BY DEF FTP_PASV
<1>5. UNCHANGED <<table, pass, dialled, peer>>
  BY DEF FTP_PASV
<1> HIDE DEF k, p
<1>6. /\ pasv_clients' \in [Index -> PasvData]
      /\ pasv_clients'[k].port = p /\ pasv_clients'[k].state = "NEW_CLIENT"
      /\ pasv_clients'[k].sock = pasv_clients[k].sock /\ pasv_clients'[k].ctrl = pasv_clients[k].ctrl
      /\ \A j \in Index : j # k => pasv_clients'[j] = pasv_clients[j]
  <2>1. pasv_clients \in [Index -> PasvData] /\ 0 \in 0 .. MaxChunks
    BY <1>1, PasvAssumption DEF Typed
  <2> DEFINE r == [pasv_clients[k] EXCEPT !.port = p, !.left = 0, !.state = "NEW_CLIENT"]
  <2>2. pasv_clients' = [pasv_clients EXCEPT ![k] = r]
    BY <1>4
  <2>3. r \in PasvData /\ r.port = p /\ r.state = "NEW_CLIENT"
        /\ r.sock = pasv_clients[k].sock /\ r.ctrl = pasv_clients[k].ctrl
    <3>1. pasv_clients[k] \in PasvData /\ p \in Port
      BY <1>2, <1>3, <2>1
    <3> QED
      BY <2>1, <3>1 DEF PasvData
  <2> HIDE DEF r
  <2> QED
    BY <1>2, <2>1, <2>2, <2>3
<1>7. /\ ctl' \in [Session -> Control] /\ ctl'[s].port = p
      /\ \A v \in Session : v # s => ctl'[v] = ctl[v]
  BY <1>1, <1>3, <1>4 DEF Typed, Control, NoPasv
<1>8. ~ctl[s].xfer
  BY <1>4 DEF Ready
<1>9. Agree(fds, pasv_clients', fd_most_tail, ctl', dialled, peer)
  BY <1>1, <1>2, <1>3, <1>6, <1>7, <1>8, OpenAgree
<1>10. Typed(fds, pasv_clients', fd_most_tail, ctl', dialled, peer)
  BY <1>1, <1>6, <1>7 DEF Typed
<1>11. pipe' \in Seq(Index) /\ Len(pipe') <= MaxPipe
  BY <1>2, <1>4, TellIs
<1>12. Outside
  BY <1>5, <1>9, <1>10, <1>11 DEF Outside
<1> QED
  BY <1>12, OutsideInv

\* A session without a slot at work forgets its port: 434, and the end of an abandoned transfer.
LEMMA ForgetInv ==
  ASSUME Inv, NEW s \in Session, \A k \in Index : pasv_clients[k].ctrl # s,
         ctl' = [ctl EXCEPT ![s] = NoPasv],
         UNCHANGED <<pasv_clients, table, pipe, pass, dialled, peer>>
  PROVE  Inv'
<1>1. /\ Typed(fds, pasv_clients, fd_most_tail, ctl, dialled, peer)
      /\ Agree(fds, pasv_clients, fd_most_tail, ctl, dialled, peer)
      /\ pipe \in Seq(Index) /\ Len(pipe) <= MaxPipe
  BY Parts
<1>2. /\ ctl' \in [Session -> Control] /\ ctl'[s] = NoPasv
      /\ \A v \in Session : v # s => ctl'[v] = ctl[v]
  BY <1>1 DEF Typed, Control, NoPasv
<1>3. Agree(fds, pasv_clients, fd_most_tail, ctl', dialled, peer)
  BY <1>1, <1>2, ForgetAgree
<1>4. Typed(fds, pasv_clients, fd_most_tail, ctl', dialled, peer)
  BY <1>1, <1>2 DEF Typed
<1>5. Outside
  BY <1>1, <1>3, <1>4 DEF Outside
<1> QED
  BY <1>5, OutsideInv

LEMMA PasvFailsInv ==
  ASSUME Inv, NEW s \in Session, FTP_PASV_Fails(s)
  PROVE  Inv'
<1>1. ~ctl[s].xfer
  BY DEF FTP_PASV_Fails, Ready
<1>2. \A k \in Index : pasv_clients[k].ctrl # s
  BY <1>1, Parts, IdleSession
<1> QED
  BY <1>2, ForgetInv DEF FTP_PASV_Fails

LEMMA AbandonInv ==
  ASSUME Inv, NEW s \in Session, Abandon(s)
  PROVE  Inv'
BY ForgetInv DEF Abandon

\* The slot a session's port finds.
LEMMA FoundIs ==
  ASSUME NEW s, Found(s) # {}
  PROVE  /\ Min(Found(s)) \in Index /\ pasv_clients[Min(Found(s))].port # None
         /\ pasv_clients[Min(Found(s))].port = ctl[s].port
<1>1. Found(s) \in SUBSET Index
  BY DEF Found, Used
<1>2. Min(Found(s)) \in Found(s)
  BY <1>1, SlotIs
<1> QED
  BY <1>2 DEF Found, Used

LEMMA JobInv ==
  ASSUME Inv, NEW s \in Session, NEW state \in {"NEED_SEND", "NEED_RECV"}, NEW left \in 0 .. MaxChunks,
         Job(s, state, left)
  PROVE  Inv'
<1> DEFINE k == Min(Found(s))
<1>1. /\ Typed(fds, pasv_clients, fd_most_tail, ctl, dialled, peer)
      /\ Agree(fds, pasv_clients, fd_most_tail, ctl, dialled, peer)
      /\ pipe \in Seq(Index) /\ Len(pipe) <= MaxPipe
  BY Parts
<1>2. /\ Ready(s) /\ ~ctl[s].xfer /\ ctl' = [ctl EXCEPT ![s].xfer = TRUE]
      /\ UNCHANGED <<table, pass, dialled, peer>>
  BY DEF Job, Ready
<1>3. /\ ctl' \in [Session -> Control] /\ ctl'[s].xfer
      /\ \A v \in Session : /\ ctl'[v].port = ctl[v].port /\ ctl'[v].conn = ctl[v].conn
                            /\ ctl[v].xfer => ctl'[v].xfer
  BY <1>1, <1>2 DEF Typed, Control
<1>4. Agree(fds, pasv_clients, fd_most_tail, ctl', dialled, peer)
  BY <1>1, <1>3, PromiseAgree
<1>5. Typed(fds, pasv_clients, fd_most_tail, ctl', dialled, peer)
  BY <1>1, <1>3 DEF Typed
<1>6. CASE Found(s) = {}
  <2>1. UNCHANGED <<pasv_clients, pipe>>
    BY <1>6 DEF Job
  <2>2. Outside
    BY <1>1, <1>2, <1>4, <1>5, <2>1 DEF Outside
  <2> QED
    BY <2>2, OutsideInv
<1>7. CASE Found(s) # {}
  <2>1. k \in Index /\ pasv_clients[k].port # None /\ pasv_clients[k].port = ctl[s].port
    BY <1>7, FoundIs
  <2>2. pasv_clients[k].ctrl = None
    BY <1>1, <1>2, <2>1, IdleSession
  <2>3. /\ Tell(k)
        /\ pasv_clients' = [pasv_clients EXCEPT ![k] =
                              [@ EXCEPT !.state = state, !.ctrl = s, !.left = left]]
    BY <1>7 DEF Job
  <2> HIDE DEF k
  <2>4. /\ pasv_clients' \in [Index -> PasvData]
        /\ pasv_clients'[k].port = pasv_clients[k].port /\ pasv_clients'[k].sock = pasv_clients[k].sock
        /\ pasv_clients'[k].server_nfds = pasv_clients[k].server_nfds
        /\ pasv_clients'[k].client_nfds = pasv_clients[k].client_nfds
        /\ pasv_clients'[k].state = state /\ pasv_clients'[k].ctrl = s
        /\ \A j \in Index : j # k => pasv_clients'[j] = pasv_clients[j]
    <3>1. pasv_clients \in [Index -> PasvData]
      BY <1>1 DEF Typed
    <3> QED
      BY <2>1, <2>3, <3>1 DEF PasvData
  <2>5. ctl'[s].port = pasv_clients[k].port
    BY <1>3, <2>1
  <2>6. Agree(fds, pasv_clients', fd_most_tail, ctl', dialled, peer)
    BY <1>3, <1>4, <1>5, <2>1, <2>2, <2>4, <2>5, StateAgree
  <2>7. Typed(fds, pasv_clients', fd_most_tail, ctl', dialled, peer)
    BY <1>5, <2>4 DEF Typed
  <2>8. pipe' \in Seq(Index) /\ Len(pipe') <= MaxPipe
    BY <1>2, <2>1, <2>3, TellIs
  <2>9. Outside
    BY <1>2, <2>6, <2>7, <2>8 DEF Outside
  <2> QED
    BY <2>9, OutsideInv
<1> QED
  BY <1>6, <1>7

LEMMA QuitInv ==
  ASSUME Inv, NEW s \in Session, FTP_QUIT(s)
  PROVE  Inv'
<1> DEFINE k == Min(Found(s))
<1>1. /\ Typed(fds, pasv_clients, fd_most_tail, ctl, dialled, peer)
      /\ Agree(fds, pasv_clients, fd_most_tail, ctl, dialled, peer)
  BY Parts
<1>2. /\ Ready(s) /\ ~ctl[s].xfer /\ ctl' = [ctl EXCEPT ![s] = NoPasv]
      /\ UNCHANGED <<table, pass, dialled, peer>>
  BY DEF FTP_QUIT, Ready
<1>3. \A j \in Index : pasv_clients[j].ctrl # s
  BY <1>1, <1>2, IdleSession
<1>4. CASE Found(s) = {}
  <2>1. UNCHANGED <<pasv_clients, pipe>>
    BY <1>4 DEF FTP_QUIT
  <2> QED
    BY <1>2, <1>3, <2>1, ForgetInv
<1>5. CASE Found(s) # {}
  <2>1. k \in Index /\ pasv_clients[k].port # None /\ pasv_clients[k].port = ctl[s].port
    BY <1>5, FoundIs
  <2>2. pasv_clients[k].ctrl = None
    BY <1>1, <1>2, <2>1, IdleSession
  <2>3. Tell(k) /\ pasv_clients' = [pasv_clients EXCEPT ![k].state = "NEED_QUIT"]
    BY <1>5 DEF FTP_QUIT
  <2> HIDE DEF k
  <2>4. /\ pasv_clients' \in [Index -> PasvData]
        /\ pasv_clients'[k].port = pasv_clients[k].port /\ pasv_clients'[k].sock = pasv_clients[k].sock
        /\ pasv_clients'[k].server_nfds = pasv_clients[k].server_nfds
        /\ pasv_clients'[k].client_nfds = pasv_clients[k].client_nfds
        /\ pasv_clients'[k].state = "NEED_QUIT" /\ pasv_clients'[k].ctrl = None
        /\ \A j \in Index : j # k => pasv_clients'[j] = pasv_clients[j]
    <3>1. pasv_clients \in [Index -> PasvData]
      BY <1>1 DEF Typed
    <3> QED
      BY <2>1, <2>2, <2>3, <3>1 DEF PasvData
  <2>5. Agree(fds, pasv_clients', fd_most_tail, ctl, dialled, peer)
    BY <1>1, <2>1, <2>2, <2>4, StateAgree
  <2>6. Typed(fds, pasv_clients', fd_most_tail, ctl, dialled, peer)
    BY <1>1, <2>4 DEF Typed
  <2>7. /\ ctl' \in [Session -> Control] /\ ctl'[s] = NoPasv
        /\ \A v \in Session : v # s => ctl'[v] = ctl[v]
    BY <1>1, <1>2 DEF Typed, Control, NoPasv
  <2>8. \A j \in Index : pasv_clients'[j].ctrl # s
    BY <1>3, <2>4, Kinds
  <2>9. Agree(fds, pasv_clients', fd_most_tail, ctl', dialled, peer)
    BY <2>5, <2>6, <2>7, <2>8, ForgetAgree
  <2>10. Typed(fds, pasv_clients', fd_most_tail, ctl', dialled, peer)
    BY <2>6, <2>7 DEF Typed
  <2>11. pipe' \in Seq(Index) /\ Len(pipe') <= MaxPipe
    BY <1>2, <2>1, <2>3, TellIs
  <2>12. Outside
    BY <1>2, <2>9, <2>10, <2>11 DEF Outside
  <2> QED
    BY <2>12, OutsideInv
<1> QED
  BY <1>4, <1>5

LEMMA CommandInv ==
  ASSUME Inv, NEW s \in Session, Command(s)
  PROVE  Inv'
<1>1. CASE FTP_PASV(s)
  BY <1>1, PasvInv
<1>2. CASE FTP_PASV_Fails(s)
  BY <1>2, PasvFailsInv
<1>3. CASE FTP_RETR(s)
  BY <1>3, JobInv DEF FTP_RETR
<1>4. CASE FTP_STOR(s)
  <2>1. 0 \in 0 .. MaxChunks
    BY PasvAssumption
  <2> QED
    BY <1>4, <2>1, JobInv DEF FTP_STOR
<1>5. CASE FTP_QUIT(s)
  BY <1>5, QuitInv
<1> QED
  BY <1>1, <1>2, <1>3, <1>4, <1>5 DEF Command

LEMMA ConnectInv ==
  ASSUME Inv, NEW s \in Session, Connect(s)
  PROVE  Inv'
<1> USE Kinds
<1>1. /\ Typed(fds, pasv_clients, fd_most_tail, ctl, dialled, peer)
      /\ Agree(fds, pasv_clients, fd_most_tail, ctl, dialled, peer)
      /\ pipe \in Seq(Index) /\ Len(pipe) <= MaxPipe
  BY Parts
<1>2. PICK k \in Index : pasv_clients[k].port # None /\ ctl[s].port = pasv_clients[k].port
  BY DEF Connect, OpenPorts, Used
<1>3. /\ ~ctl[s].conn /\ dialled' = dialled \cup {ctl[s].port}
      /\ ctl' = [ctl EXCEPT ![s].conn = TRUE]
      /\ UNCHANGED <<pasv_clients, table, pipe, pass, peer>>
  BY DEF Connect
<1>4. /\ ctl' \in [Session -> Control]
      /\ ctl'[s].port = ctl[s].port /\ ctl'[s].xfer = ctl[s].xfer /\ ctl'[s].conn
      /\ \A v \in Session : v # s => ctl'[v] = ctl[v]
  BY <1>1, <1>3 DEF Typed, Control
<1>5. Agree(fds, pasv_clients, fd_most_tail, ctl', dialled', peer)
  <2>1. ~ctl[s].conn /\ dialled' = dialled \cup {ctl[s].port}
    BY <1>3
  <2> QED
    BY <1>1, <1>2, <1>4, <2>1, ConnectAgree
<1>6. dialled' \subseteq Port
  <2>1. dialled' = dialled \cup {ctl[s].port} /\ dialled \subseteq Port
    BY <1>1, <1>3 DEF Typed
  <2>2. ctl[s].port \in Port
    BY <1>1, <1>2, Fields
  <2> QED
    BY <2>1, <2>2
<1>7. Typed(fds, pasv_clients, fd_most_tail, ctl', dialled', peer)
  BY <1>1, <1>4, <1>6 DEF Typed
<1>8. Outside
  BY <1>1, <1>3, <1>5, <1>7 DEF Outside
<1> QED
  BY <1>8, OutsideInv

\* The other end reads, writes or leaves.
LEMMA PeerInv ==
  ASSUME Inv, NEW f \in Sock, Drain(f) \/ Upload(f) \/ Depart(f)
  PROVE  Inv'
<1>1. /\ Typed(fds, pasv_clients, fd_most_tail, ctl, dialled, peer)
      /\ Agree(fds, pasv_clients, fd_most_tail, ctl, dialled, peer)
      /\ pipe \in Seq(Index) /\ Len(pipe) <= MaxPipe
  BY Parts
<1>2. UNCHANGED <<pasv_clients, table, pipe, pass, ctl, dialled>>
  BY DEF Drain, Upload, Depart
<1>3. /\ peer' \in [Sock -> Remote]
      /\ \A g \in Sock : /\ peer[g].gone => peer'[g].gone
                         /\ peer[g].in => peer'[g].in
                         /\ peer[g].room => peer'[g].room
                         /\ peer'[g].in => peer[g].in \/ (g = f /\ Uploads(f))
  <2>1. CASE Drain(f)
    BY <1>1, <2>1 DEF Typed, Remote, Drain
  <2>2. CASE Upload(f)
    BY <1>1, <2>2 DEF Typed, Remote, Upload
  <2>3. CASE Depart(f)
    BY <1>1, <2>3 DEF Typed, Remote, Depart
  <2> QED
    BY <2>1, <2>2, <2>3
<1>4. Agree(fds, pasv_clients, fd_most_tail, ctl, dialled, peer')
  <2>1. \A g \in Sock : peer'[g].in =>
          peer[g].in \/ \E k \in Index : pasv_clients[k].sock = g /\ pasv_clients[k].state = "NEED_RECV"
    BY <1>3 DEF Uploads
  <2> QED
    BY <1>1, <2>1, PeerAgree
<1>5. Typed(fds, pasv_clients, fd_most_tail, ctl, dialled, peer')
  BY <1>1, <1>3 DEF Typed
<1>6. Outside
  BY <1>1, <1>2, <1>3, <1>4, <1>5 DEF Outside
<1> QED
  BY <1>6, OutsideInv

-----------------------------------------------------------------------------
(* The invariant. *)

LEMMA InitInv ==
  ASSUME Init
  PROVE  Inv
<1> USE Entries, Kinds
<1>1. FreePasv \in PasvData /\ NoPasv \in Control /\ NewPeer \in Remote /\ Empty \in Entry
  <2>1. 0 \in 0 .. MaxChunks
    BY PasvAssumption
  <2>2. FreePasv \in PasvData
    BY <2>1 DEF FreePasv, PasvData
  <2>3. NoPasv \in Control /\ NewPeer \in Remote /\ Empty \in Entry
    BY DEF NoPasv, Control, NewPeer, Remote, Empty, Entry
  <2> QED
    BY <2>2, <2>3
<1>2. /\ \A k \in Index : pasv_clients[k] = FreePasv
      /\ fds[0] = [fd |-> Pipe, events |-> {"in"}, revents |-> {}]
      /\ \A i \in Index : i # 0 => fds[i] = Empty
      /\ \A s \in Session : ctl[s] = NoPasv
      /\ \A f \in Sock : peer[f] = NewPeer
  BY DEF Init
<1>3. /\ pasv_clients \in [Index -> PasvData] /\ ctl \in [Session -> Control] /\ peer \in [Sock -> Remote]
      /\ dialled = {} /\ pipe = <<>> /\ at = AtPoll /\ served = {} /\ alive = TRUE /\ fd_most_tail = 1
  BY <1>1 DEF Init
<1>4. fds \in [Index -> Entry]
  <2>1. [fd |-> Pipe, events |-> {"in"}, revents |-> {}] \in Entry
    BY DEF Entry
  <2> QED
    BY <1>1, <2>1 DEF Init
<1>5. TypeOK
  <2>1. pipe \in Seq(Index) /\ Len(pipe) <= MaxPipe
    BY <1>3, PasvAssumption
  <2>2. fd_most_tail \in 1 .. MaxClients /\ at \in 0 .. AtPoll
    BY <1>3, PasvAssumption DEF AtPoll
  <2> QED
    BY <1>3, <1>4, <2>1, <2>2 DEF TypeOK
<1>6. PipeEntry(fds) /\ Owned(fds, pasv_clients, fd_most_tail)
  BY <1>2 DEF PipeEntry, Owned, Empty
<1>7. \A k \in Index : Slotted(fds, pasv_clients[k])
  <2>1. \A k \in Index : /\ pasv_clients[k].port = None /\ pasv_clients[k].sock = None
                         /\ pasv_clients[k].state = "IDLE"
    BY <1>2 DEF FreePasv
  <2> QED
    BY <2>1 DEF Slotted
<1>8. Apart(pasv_clients)
  <2>1. \A k \in Index : pasv_clients[k].port = None /\ pasv_clients[k].sock = None
    BY <1>2 DEF FreePasv
  <2> HIDE <1>2
  <2> QED
    BY <2>1 DEF Apart
<1>9. Dialled(pasv_clients, ctl, dialled)
  BY <1>2, <1>3 DEF Dialled, FreePasv, NoPasv
<1>10. Serving(pasv_clients, ctl, peer)
  BY <1>2 DEF Serving, FreePasv, NewPeer
<1>11. PassInv
  BY <1>3 DEF PassInv
<1> QED
  BY <1>5, <1>6, <1>7, <1>8, <1>9, <1>10, <1>11 DEF Inv, Agree

LEMMA NextInv ==
  ASSUME Inv, [Next]_vars
  PROVE  Inv'
<1>1. CASE Poll
  BY <1>1, PollInv
<1>2. CASE Serve
  BY <1>2, ServeInv
<1>3. ASSUME NEW s \in Session, Command(s) \/ Connect(s) \/ Abandon(s) PROVE Inv'
  BY <1>3, CommandInv, ConnectInv, AbandonInv
<1>4. ASSUME NEW f \in Sock, Drain(f) \/ Upload(f) \/ Depart(f) PROVE Inv'
  BY <1>4, PeerInv
<1>5. CASE UNCHANGED vars
  <2>1. /\ pasv_clients' = pasv_clients /\ fds' = fds /\ fd_most_tail' = fd_most_tail /\ pipe' = pipe
        /\ at' = at /\ served' = served /\ alive' = alive /\ ctl' = ctl /\ dialled' = dialled /\ peer' = peer
    BY <1>5 DEF vars, table, pass, world
  <2>2. TypeOK'
    BY <2>1 DEF Inv, TypeOK
  <2>3. Agree(fds', pasv_clients', fd_most_tail', ctl', dialled', peer')
    BY <2>1, Parts
  <2>4. PassInv'
    BY <2>1 DEF Inv, PassInv, AtPoll
  <2> QED
    BY <2>2, <2>3, <2>4 DEF Inv
<1> QED
  BY <1>1, <1>2, <1>3, <1>4, <1>5 DEF Next

LEMMA InvHolds == Spec => []Inv
<1>1. Init => Inv
  BY InitInv
<1>2. Inv /\ [Next]_vars => Inv'
  BY NextInv
<1> QED
  BY <1>1, <1>2, PTL DEF Spec

-----------------------------------------------------------------------------
(* The theorems. *)

\* Every variable of the data thread has its type in every reachable state.
THEOREM PollTypes == Spec => []TypeOK
<1>1. Inv => TypeOK
  BY DEF Inv
<1> QED
  BY <1>1, InvHolds, PTL

\* Tables of every size agree: the thread hears of new work, each socket it
\* polls has the one slot that names its entry, and poll looks at all of them.
THEOREM TablesStayAgreed == Spec => []TablesAgree
<1>1. ASSUME Inv PROVE TablesAgree
  <2> USE Entries, Kinds
  <2>1. /\ Typed(fds, pasv_clients, fd_most_tail, ctl, dialled, peer)
        /\ PipeEntry(fds) /\ Owned(fds, pasv_clients, fd_most_tail) /\ Apart(pasv_clients)
    BY <1>1, Parts DEF Agree
  <2>2. ASSUME NEW i \in Index \ {0}, fds[i].fd # None
        PROVE  /\ i < fd_most_tail
               /\ Cardinality({k \in Index :
                    \/ (pasv_clients[k].port = fds[i].fd /\ pasv_clients[k].server_nfds = i)
                    \/ (pasv_clients[k].sock = fds[i].fd /\ pasv_clients[k].client_nfds = i)}) = 1
    <3> DEFINE S == {k \in Index :
                       \/ (pasv_clients[k].port = fds[i].fd /\ pasv_clients[k].server_nfds = i)
                       \/ (pasv_clients[k].sock = fds[i].fd /\ pasv_clients[k].client_nfds = i)}
    <3>1. i \in Slots
      OBVIOUS
    <3>2. i < fd_most_tail
      BY <2>1, <2>2, <3>1 DEF Owned
    <3>3. PICK k \in Index : Owns(pasv_clients[k], i, fds[i].fd)
      BY <2>1, <2>2, <3>1 DEF Owned
    <3>a. \A j \in Index : j \in S <=> Owns(pasv_clients[j], i, fds[i].fd)
      BY DEF Owns
    <3>b. \A j \in S : j \in Index
      OBVIOUS
    <3> HIDE DEF S
    <3>4. k \in S
      BY <3>3, <3>a
    <3>5. \A j \in S : j = k
      <4>1. \A j \in Index : /\ pasv_clients[j].port \in Port \cup {None}
                             /\ pasv_clients[j].sock \in Sock \cup {None}
        BY <2>1, Fields
      <4>2. TAKE j \in S
      <4>3. Owns(pasv_clients[j], i, fds[i].fd) /\ j \in Index
        BY <3>a, <3>b
      <4>4. \/ pasv_clients[j].port = pasv_clients[k].port /\ pasv_clients[j].port # None
            \/ pasv_clients[j].sock = pasv_clients[k].sock /\ pasv_clients[j].sock # None
        BY <2>2, <3>3, <4>1, <4>3 DEF Owns
      <4> QED
        BY <2>1, <4>3, <4>4 DEF Apart
    <3>6. S = {k}
      BY <3>4, <3>5
    <3>7. Cardinality(S) = 1
      BY <3>6, FS_Singleton
    <3> QED
      BY <3>2, <3>7 DEF S
  <2>3. fds[0].fd = Pipe /\ "in" \in fds[0].events
    BY <2>1 DEF PipeEntry
  <2> QED
    BY <2>2, <2>3, Zenon DEF TablesAgree
<1> QED
  BY <1>1, InvHolds, PTL

\* The thread returns only in a pass that has started again, at a listening
\* socket that the pass has served before.
THEOREM ThreadReturnsLate == Spec => []ThreadStays
<1>1. Inv => ThreadStays
  BY DEF Inv, PassInv, ThreadStays
<1> QED
  BY <1>1, InvHolds, PTL

\* Closing slot j leaves the jobs of the others alone.
LEMMA ClosedAlone ==
  ASSUME Inv, NEW j \in Index, CloseConnection(j), NEW k \in Index, k # j
  PROVE  pasv_clients'[k] = pasv_clients[k]
<1>1. pasv_clients \in [Index -> PasvData]
  BY DEF Inv, TypeOK
<1> QED
  BY <1>1 DEF CloseConnection

\* A transfer that the thread gives up has lost its remote end, or is at an
\* entry that this pass has served before.
LEMMA GivesUpLate ==
  ASSUME Inv, ReceiveFails \/ SendFails \/ (ReceiveEnd /\ GiveUp), NEW k \in Index, CutOff(k)
  PROVE  peer[pasv_clients[k].sock].gone \/ at \in served
<1> USE Entries, Kinds
<1>1. alive /\ at # AtPoll /\ Here.fd \in Sock /\ Here = fds[at]
  BY Working DEF ReceiveFails, SendFails, ReceiveEnd, Receiving, Here
<1>2. /\ at \in Slots /\ Owner \in Index /\ pasv_clients[Owner].sock = Here.fd
      /\ \A j \in Index : pasv_clients[j].sock = Here.fd => j = Owner
  BY <1>1, OwnerIs
<1>3. /\ Fresh(fds, served, dialled, peer) /\ fds[at].revents # {}
      /\ Serving(pasv_clients, ctl, peer) /\ Typed(fds, pasv_clients, fd_most_tail, ctl, dialled, peer)
  BY <1>1, Parts DEF Agree
<1>4. CloseConnection(Owner)
  BY DEF ReceiveFails, SendFails, GiveUp
<1>5. k = Owner /\ pasv_clients[Owner].ctrl # None
  <2>1. pasv_clients[k].ctrl # None /\ pasv_clients'[k].ctrl = None
    BY DEF CutOff
  <2> QED
    BY <1>2, <1>4, <2>1, ClosedAlone
<1>6. SUFFICES ASSUME at \notin served PROVE There.gone
  BY <1>2, <1>5 DEF There
<1>7. at \in Slots \ served /\ fds[at].fd \in Sock /\ There = peer[fds[at].fd]
  BY <1>1, <1>2, <1>6 DEF There
<1>8. /\ "in" \in fds[at].revents => There.gone \/ There.in
      /\ "out" \in fds[at].revents => There.gone \/ There.room
  BY <1>3, <1>7 DEF Fresh
<1>9. There.in => pasv_clients[Owner].state = "NEED_RECV"
  BY <1>1, <1>2, <1>3 DEF Serving, There
<1>10. CASE ReceiveFails
  BY <1>1, <1>8, <1>9, <1>10, Working DEF ReceiveFails, Receiving
<1>11. CASE SendFails
  <2>1. "in" \notin fds[at].revents /\ fds[at].revents \in SUBSET {"in", "out"}
    BY <1>2, <1>3, <1>11, Working DEF SendFails, Typed, Entry
  <2>2. "out" \in fds[at].revents
    BY <1>3, <2>1
  <2> QED
    BY <1>8, <1>11, <2>2 DEF SendFails, CanSend
<1>12. CASE ReceiveEnd
  BY <1>12 DEF ReceiveEnd
<1> QED
  BY <1>10, <1>11, <1>12

\* A session that hears of the end of its transfer was not cut off.
LEMMA FinishTells ==
  ASSUME Inv, at # AtPoll, Here.fd \in Sock, Finish, NEW k \in Index
  PROVE  ~CutOff(k)
<1> SUFFICES ASSUME CutOff(k) PROVE FALSE
  OBVIOUS
<1>1. Owner \in Index /\ CloseConnection(Owner)
  BY OwnerIs DEF Finish
<1>2. pasv_clients[k].ctrl # None /\ pasv_clients'[k].ctrl = None /\ ctl'[pasv_clients[k].ctrl].xfer
  BY DEF CutOff
<1>3. k = Owner
  BY <1>1, <1>2, ClosedAlone
<1>4. pasv_clients[Owner].ctrl \in Session
  BY <1>1, <1>2, <1>3, Parts, Fields
<1>5. ctl' = [ctl EXCEPT ![pasv_clients[Owner].ctrl] = NoPasv] /\ ctl \in [Session -> Control]
  BY DEF Finish, Inv, TypeOK
<1>6. ctl'[pasv_clients[Owner].ctrl] = NoPasv
  BY <1>4, <1>5
<1> QED
  BY <1>2, <1>3, <1>6 DEF NoPasv

\* A step that keeps the session of every slot cuts nobody off.
LEMMA CtrlKept ==
  ASSUME NEW k \in Index, pasv_clients'[k].ctrl = pasv_clients[k].ctrl
  PROVE  ~CutOff(k)
BY DEF CutOff

\* A channel that its session has quit has no job.
LEMMA QuitCutsNobody ==
  ASSUME Inv, ReadQuit, NEW k \in Index
  PROVE  ~CutOff(k)
<1>1. Message \in Index /\ pasv_clients[Message].state = "NEED_QUIT"
  BY PipeRead DEF ReadQuit
<1>2. pasv_clients[Message].ctrl = None
  BY <1>1, Parts DEF Agree, Serving
<1>3. CASE pasv_clients[Message].sock = None
  BY <1>3, CtrlKept DEF ReadQuit
<1>4. CASE pasv_clients[Message].sock # None
  <2>1. CloseConnection(Message)
    BY <1>4 DEF ReadQuit
  <2>2. CASE k = Message
    BY <1>2, <2>2 DEF CutOff
  <2>3. CASE k # Message
    BY <1>1, <2>1, <2>3, ClosedAlone, CtrlKept
  <2> QED
    BY <2>2, <2>3
<1> QED
  BY <1>3, <1>4

\* What the commands do to the session of a slot.
LEMMA CommandCutsNobody ==
  ASSUME Inv, NEW s \in Session, Command(s), NEW k \in Index
  PROVE  ~CutOff(k)
<1>1. pasv_clients \in [Index -> PasvData] /\ pasv_clients[k] \in PasvData
  BY DEF Inv, TypeOK
<1>2. CASE FTP_PASV(s)
  <2> DEFINE j == Min(Index \ Used)
             p == CHOOSE x \in FreePort : TRUE
  <2>1. pasv_clients' = [pasv_clients EXCEPT ![j] = [@ EXCEPT !.port = p, !.left = 0, !.state = "NEW_CLIENT"]]
    BY <1>2 DEF FTP_PASV
  <2> HIDE DEF j, p
  <2>2. pasv_clients'[k].ctrl = pasv_clients[k].ctrl
    BY <1>1, <2>1 DEF PasvData
  <2> QED
    BY <2>2, CtrlKept
<1>3. CASE FTP_PASV_Fails(s)
  BY <1>3, CtrlKept DEF FTP_PASV_Fails
<1>4. ASSUME NEW state, NEW left, Job(s, state, left) PROVE ~CutOff(k)
  <2>1. CASE Found(s) = {}
    <3>1. pasv_clients' = pasv_clients
      BY <1>4, <2>1 DEF Job
    <3> QED
      BY <3>1, CtrlKept
  <2>2. CASE Found(s) # {}
    <3> DEFINE j == Min(Found(s))
    <3>1. pasv_clients' = [pasv_clients EXCEPT ![j] = [@ EXCEPT !.state = state, !.ctrl = s, !.left = left]]
      BY <1>4, <2>2 DEF Job
    <3> HIDE DEF j
    <3>2. pasv_clients'[k].ctrl = pasv_clients[k].ctrl \/ pasv_clients'[k].ctrl = s
      BY <1>1, <3>1 DEF PasvData
    <3>3. s # None
      BY Kinds
    <3> QED
      BY <3>2, <3>3 DEF CutOff
  <2> QED
    BY <2>1, <2>2
<1>5. CASE FTP_RETR(s)
  BY <1>4, <1>5 DEF FTP_RETR
<1>6. CASE FTP_STOR(s)
  BY <1>4, <1>6 DEF FTP_STOR
<1>7. CASE FTP_QUIT(s)
  <2>1. CASE Found(s) = {}
    <3>1. pasv_clients' = pasv_clients
      BY <1>7, <2>1 DEF FTP_QUIT
    <3> QED
      BY <3>1, CtrlKept
  <2>2. CASE Found(s) # {}
    <3> DEFINE j == Min(Found(s))
    <3>1. pasv_clients' = [pasv_clients EXCEPT ![j].state = "NEED_QUIT"]
      BY <1>7, <2>2 DEF FTP_QUIT
    <3> HIDE DEF j
    <3>2. pasv_clients'[k].ctrl = pasv_clients[k].ctrl
      BY <1>1, <3>1 DEF PasvData
    <3> QED
      BY <3>2, CtrlKept
  <2> QED
    BY <2>1, <2>2
<1> QED
  BY <1>2, <1>3, <1>5, <1>6, <1>7 DEF Command

\* A transfer whose data connection stands is broken off only in a pass that
\* has started again and serves its entry for the second time.
THEOREM TransfersKept == Spec => TransferNotCut
<1>1. ASSUME Inv, [Next]_vars, NEW k \in Index, CutOff(k)
      PROVE  peer[pasv_clients[k].sock].gone \/ at \in served
  <2>1. pasv_clients \in [Index -> PasvData] /\ pasv_clients[k] \in PasvData
    BY <1>1 DEF Inv, TypeOK
  <2>2. pasv_clients'[k].ctrl # pasv_clients[k].ctrl
    BY <1>1, CtrlKept
  <2>3. ~Poll /\ ~ReadEmpty /\ ~ReadJob /\ ~AcceptNobody /\ ~Receive
    BY <2>2 DEF Poll, ReadEmpty, ReadJob, AcceptNobody, Receive
  <2>4. ~ReadNew
    <3> SUFFICES ASSUME ReadNew PROVE FALSE
      OBVIOUS
    <3>1. pasv_clients' = [pasv_clients EXCEPT ![Message].server_nfds = Place,
                             ![Message].state = IF Place = -1 THEN @ ELSE "IDLE"]
      BY DEF ReadNew
    <3>2. pasv_clients'[k].ctrl = pasv_clients[k].ctrl
      <4>1. CASE k = Message
        BY <2>1, <3>1, <4>1 DEF PasvData
      <4>2. CASE k # Message
        BY <2>1, <3>1, <4>2
      <4> QED
        BY <4>1, <4>2
    <3> QED
      BY <2>2, <3>2
  <2>5. ~AcceptData
    <3> SUFFICES ASSUME AcceptData PROVE FALSE
      OBVIOUS
    <3> DEFINE j == CHOOSE n \in Used : pasv_clients[n].port = Here.fd
               f == CHOOSE n \in FreeSock : TRUE
    <3>1. pasv_clients' = [pasv_clients EXCEPT ![j].sock = f, ![j].client_nfds = Place]
      BY DEF AcceptData
    <3> HIDE DEF j, f
    <3>2. pasv_clients'[k].ctrl = pasv_clients[k].ctrl
      BY <2>1, <3>1 DEF PasvData
    <3> QED
      BY <2>2, <3>2
  <2>6. ~Send
    <3> SUFFICES ASSUME Send PROVE FALSE
      OBVIOUS
    <3>1. pasv_clients' = [pasv_clients EXCEPT ![Owner].left = Rest]
      BY DEF Send
    <3>2. pasv_clients'[k].ctrl = pasv_clients[k].ctrl
      BY <2>1, <3>1 DEF PasvData
    <3> QED
      BY <2>2, <3>2
  <2>7. ~ReadQuit
    BY <1>1, QuitCutsNobody
  <2>8. CASE ReceiveFails \/ SendFails
    BY <1>1, <2>8, GivesUpLate
  <2>9. CASE ReceiveEnd
    <3>1. at # AtPoll /\ Here.fd \in Sock
      BY <2>9, Working DEF ReceiveEnd, Receiving
    <3>2. GiveUp
      BY <1>1, <2>9, <3>1, FinishTells DEF ReceiveEnd
    <3> QED
      BY <1>1, <2>9, <3>2, GivesUpLate
  <2>10. ~SendLast
    <3> SUFFICES ASSUME SendLast PROVE FALSE
      OBVIOUS
    <3>1. at # AtPoll /\ Here.fd \in Sock /\ Finish
      BY Working DEF SendLast
    <3> QED
      BY <1>1, <3>1, FinishTells
  <2>11. ASSUME NEW s \in Session PROVE ~Command(s) /\ ~Connect(s) /\ ~Abandon(s)
    BY <1>1, <2>2, CommandCutsNobody DEF Connect, Abandon
  <2>12. ASSUME NEW f \in Sock PROVE ~Drain(f) /\ ~Upload(f) /\ ~Depart(f)
    BY <2>2 DEF Drain, Upload, Depart
  <2>13. ~(UNCHANGED vars)
    BY <2>2 DEF vars
  <2> QED
    BY <1>1, <2>3, <2>4, <2>5, <2>6, <2>7, <2>8, <2>9, <2>10, <2>11, <2>12, <2>13 DEF Next, Serve
<1>2. Inv /\ [Next]_vars =>
        [\A k \in Index : CutOff(k) => peer[pasv_clients[k].sock].gone \/ at \in served]_vars
  BY <1>1
<1> QED
  BY <1>2, InvHolds, PTL DEF Spec, TransferNotCut
=============================================================================
