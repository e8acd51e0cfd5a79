------------------------- MODULE PortChannelProofs -------------------------
(***************************************************************************)
(* Proofs about PortChannel for tables of any size and any number of       *)
(* sessions, addresses and sockets: as long as no command overtakes the    *)
(* NEW_CLIENT of its channel, the table of the data thread and its slots   *)
(* agree, and a transfer is broken off only in a pass that has started     *)
(* again.                                                                  *)
(***************************************************************************)
EXTENDS PortChannel, LeastNumber, TLAPS

\* The entries behind that of the pipe.
Slots == 1 .. MaxClients - 1

\* The pipe is in the first entry, and polled.
PipeEntry(t) == t[0].fd = Pipe /\ "in" \in t[0].events

\* Every other entry in use is below the tail and that of a slot.
Owned(t, pc, tail) ==
  \A i \in Slots : t[i].fd # None =>
    i < tail /\ t[i].fd # Pipe /\ \E k \in Index : pc[k].sock = t[i].fd /\ pc[k].nfds = i

\* A slot in use has a socket; a slot that is new has no entry; and one that
\* the thread has heard of has one, unless the table was full.
Slotted(t, r) ==
  /\ (r.addr = None) <=> (r.sock = None)
  /\ r.addr = None => r.state = "IDLE"
  /\ r.state = "NEW_CLIENT" => \A i \in Slots : t[i].fd # r.sock
  /\ r.sock # None /\ r.state # "NEW_CLIENT" =>
       r.nfds \in Slots \cup {-1} /\ (r.nfds # -1 => t[r.nfds].fd = r.sock)

\* No two slots share an address or a socket.
Apart(pc) ==
  /\ \A j, k \in Index : pc[j].addr # None /\ pc[j].addr = pc[k].addr => j = k
  /\ \A j, k \in Index : pc[j].sock # None /\ pc[j].sock = pc[k].sock => j = k

\* The thread will hear of a slot that is new, or has no entry for it.
InPipe(p, k) == \E n \in 1 .. Len(p) : p[n] = k
Heard(pc, p) == \A k \in Index : pc[k].state = "NEW_CLIENT" => pc[k].nfds = -1 \/ InPipe(p, k)

\* A slot with a job serves the session it was given to, which waits for it;
\* and only an upload has something to read.
Serving(pc, ct, pr) ==
  /\ \A k \in Index : IF pc[k].state \in {"NEED_SEND", "NEED_RECV"}
                      THEN pc[k].ctrl # None /\ pc[k].addr # None /\ ct[pc[k].ctrl].xfer
                           /\ ct[pc[k].ctrl].addr = pc[k].addr
                      ELSE pc[k].ctrl = None
  /\ \A f \in Sock : pr[f].in => \E k \in Index : pc[k].sock = f /\ pc[k].state = "NEED_RECV"

\* No two sessions would look for the same address.
Own(ct) == \A s, u \in Session : ct[s].addr # None /\ ct[s].addr = ct[u].addr => s = u

\* What poll has reported of an entry holds until the pass has served it.
Fresh(t, sv, pr) ==
  \A i \in Slots \ sv :
    /\ t[i].fd \in Sock /\ "in" \in t[i].revents => pr[t[i].fd].net = "gone" \/ pr[t[i].fd].in
    /\ t[i].fd \in Sock /\ "out" \in t[i].revents =>
         pr[t[i].fd].net = "gone" \/ (pr[t[i].fd].net = "up" /\ pr[t[i].fd].room)

Agree(t, pc, tail, ct, pr) ==
  /\ PipeEntry(t) /\ Owned(t, pc, tail) /\ (\A k \in Index : Slotted(t, pc[k])) /\ Apart(pc)
  /\ Own(ct) /\ Serving(pc, ct, pr)

PassInv == at # AtPoll => Fresh(fds, served, peer) /\ fds[at].revents # {}

\* The types, without what only the properties speak of.
Types ==
  /\ port_clients \in [Index -> PortData]
  /\ fds \in [Index -> Entry] /\ fd_most_tail \in 1 .. MaxClients
  /\ pipe \in Seq(Index) /\ Len(pipe) <= MaxPipe
  /\ at \in 0 .. AtPoll /\ served \subseteq Index
  /\ ctl \in [Session -> Control] /\ peer \in [Sock -> Remote]

Inv == ~Hurry /\ Types /\ Agree(fds, port_clients, fd_most_tail, ctl, peer)
       /\ Heard(port_clients, pipe) /\ PassInv

-----------------------------------------------------------------------------
(* Names. *)

\* The entries of the table.
LEMMA Entries ==
  /\ Index \subseteq Nat /\ Slots \subseteq Index /\ 0 \in Index /\ 0 \notin Slots
  /\ MaxClients \in Nat /\ MaxClients \notin Index /\ -1 \notin Index
  /\ \A i \in Index : i # 0 => i \in Slots
  /\ \A i \in Index : i < MaxClients /\ i >= 0
BY PortAssumption DEF Index, Slots

\* Sockets, the pipe and nothing are told apart.
LEMMA Kinds ==
  /\ None \notin Session /\ None \notin Addr /\ None \notin Sock
  /\ Pipe \notin Sock /\ Pipe # None
BY PortAssumption

\* The types of what Agree is about.
Typed(t, pc, tail, ct, pr) ==
  /\ t \in [Index -> Entry] /\ pc \in [Index -> PortData] /\ tail \in 1 .. MaxClients
  /\ ct \in [Session -> Control] /\ pr \in [Sock -> Remote]

\* The fields.
LEMMA Fields ==
  ASSUME NEW t, NEW pc, NEW tail, NEW ct, NEW pr, Typed(t, pc, tail, ct, pr)
  PROVE  /\ \A i \in Index : t[i].fd \in Sock \cup {None, Pipe}
         /\ \A k \in Index : /\ pc[k].addr \in Addr \cup {None} /\ pc[k].sock \in Sock \cup {None}
                             /\ pc[k].nfds \in Index \cup {-1}
                             /\ pc[k].ctrl \in Session \cup {None}
                             /\ pc[k].left \in 0 .. MaxChunks
         /\ \A s \in Session : ct[s].addr \in Addr \cup {None} /\ ct[s].xfer \in BOOLEAN
<1>1. \A i \in Index : t[i].fd \in Sock \cup {None, Pipe}
  BY DEF Typed, Entry
<1>2. \A k \in Index : pc[k] \in PortData
  BY DEF Typed
<1>3. \A r \in PortData : /\ r.addr \in Addr \cup {None} /\ r.sock \in Sock \cup {None}
                          /\ r.nfds \in Index \cup {-1} /\ r.ctrl \in Session \cup {None}
                          /\ r.left \in 0 .. MaxChunks
  BY DEF PortData
<1>4. \A s \in Session : ct[s].addr \in Addr \cup {None} /\ ct[s].xfer \in BOOLEAN
  BY DEF Typed, Control
<1> QED
  BY <1>1, <1>2, <1>3, <1>4

\* A socket has one entry; a socket in the table has a slot, which is not new.
LEMMA OneEntry ==
  ASSUME NEW t, NEW pc, NEW tail, NEW ct, NEW pr, Typed(t, pc, tail, ct, pr), Agree(t, pc, tail, ct, pr)
  PROVE  /\ \A i \in Slots, k \in Index :
              pc[k].sock # None /\ t[i].fd = pc[k].sock => pc[k].nfds = i /\ pc[k].state # "NEW_CLIENT"
         /\ \A i \in Slots : t[i].fd \in Sock => \E k \in Index : pc[k].sock = t[i].fd
         /\ \A i \in Slots : t[i].fd # None => t[i].fd \in Sock
<1> USE Entries, Kinds
<1>0. Owned(t, pc, tail) /\ Apart(pc) /\ \A k \in Index : Slotted(t, pc[k])
  BY DEF Agree
<1>1. ASSUME NEW i \in Slots, NEW k \in Index, pc[k].sock # None, t[i].fd = pc[k].sock
      PROVE  pc[k].nfds = i /\ pc[k].state # "NEW_CLIENT"
  <2>1. PICK j \in Index : pc[j].sock = t[i].fd /\ pc[j].nfds = i
    BY <1>0, <1>1 DEF Owned
  <2>2. j = k
    BY <1>0, <1>1, <2>1 DEF Apart
  <2>3. pc[k].state # "NEW_CLIENT"
    BY <1>0, <1>1 DEF Slotted
  <2> QED
    BY <2>1, <2>2, <2>3
<1>2. \A i \in Slots : t[i].fd \in Sock => \E k \in Index : pc[k].sock = t[i].fd
  BY <1>0 DEF Owned
<1>3. \A i \in Slots : t[i].fd # None => t[i].fd \in Sock
  BY <1>0, Fields DEF Owned
<1> QED
  BY <1>1, <1>2, <1>3

-----------------------------------------------------------------------------
(* Changes that leave the descriptors where they are. *)

SameFd(t, u) == \A i \in Index : u[i].fd = t[i].fd

LEMMA SameFdAgree ==
  ASSUME NEW t, NEW u, NEW pc, NEW tail, NEW ct, NEW pr,
         Agree(t, pc, tail, ct, pr), SameFd(t, u), PipeEntry(u)
  PROVE  Agree(u, pc, tail, ct, pr)
<1> USE Entries
<1>1. \A i \in Slots : u[i].fd = t[i].fd
  BY DEF SameFd
<1>2. Owned(u, pc, tail)
  BY <1>1 DEF Agree, Owned
<1>3. \A k \in Index : Slotted(u, pc[k])
  <2> TAKE k \in Index
  <2>1. Slotted(t, pc[k])
    BY DEF Agree
  <2> QED
    BY <1>1, <2>1 DEF Slotted
<1> QED
  BY <1>2, <1>3 DEF Agree

-----------------------------------------------------------------------------
(* A channel is closed. *)

\* What close_connection leaves of slot k, and a completion of its session.
Freed(k, t, u, pc, qc, ct, du, pr, ps) ==
  /\ pc[k].sock # None /\ pc[k].state # "NEW_CLIENT"
  /\ \A i \in Index : u[i] = IF i = pc[k].nfds THEN Empty ELSE t[i]
  /\ qc[k] = FreePort /\ \A j \in Index \ {k} : qc[j] = pc[j]
  /\ \A s \in Session : du[s] = ct[s] \/ (s = pc[k].ctrl /\ du[s] = NoPort)
  /\ \A f \in Sock : ps[f] = IF f = pc[k].sock THEN NewPeer ELSE pr[f]

LEMMA CloseAgree ==
  ASSUME NEW k \in Index, NEW t, NEW u, NEW pc, NEW qc, NEW tail, NEW ct, NEW du, NEW pr, NEW ps,
         Typed(t, pc, tail, ct, pr), Agree(t, pc, tail, ct, pr),
         Freed(k, t, u, pc, qc, ct, du, pr, ps)
  PROVE  Agree(u, qc, tail, du, ps)
<1> USE Entries, Kinds
<1>a. PipeEntry(t) /\ Owned(t, pc, tail) /\ (\A j \in Index : Slotted(t, pc[j])) /\ Apart(pc)
      /\ Own(ct) /\ Serving(pc, ct, pr)
  BY DEF Agree
<1>b. /\ pc[k].sock # None /\ pc[k].addr # None
      /\ pc[k].nfds \in Slots \cup {-1} /\ (pc[k].nfds # -1 => t[pc[k].nfds].fd = pc[k].sock)
  BY <1>a DEF Freed, Slotted
<1>c. /\ \A i \in Index : i # pc[k].nfds => u[i] = t[i]
      /\ \A i \in Index : i = pc[k].nfds => u[i].fd = None
  BY DEF Freed, Empty
<1>d. /\ \A j \in Index : j # k => qc[j] = pc[j]
      /\ qc[k].addr = None /\ qc[k].sock = None /\ qc[k].state = "IDLE" /\ qc[k].ctrl = None
  BY DEF Freed, FreePort
<1>e. \A s \in Session : du[s] = ct[s] \/ (s = pc[k].ctrl /\ du[s].addr = None)
  BY DEF Freed, NoPort
<1>f. \A f \in Sock : /\ f # pc[k].sock => ps[f] = pr[f]
                      /\ f = pc[k].sock => ~ps[f].in
  BY DEF Freed, NewPeer
<1>1. PipeEntry(u)
  BY <1>a, <1>b, <1>c DEF PipeEntry
<1>2. Owned(u, qc, tail)
  <2> SUFFICES ASSUME NEW i \in Slots, u[i].fd # None
               PROVE  i < tail /\ u[i].fd # Pipe
                      /\ \E j \in Index : qc[j].sock = u[i].fd /\ qc[j].nfds = i
    BY DEF Owned
  <2>1. u[i] = t[i] /\ i # pc[k].nfds
    BY <1>c
  <2>2. i < tail /\ t[i].fd # Pipe
    BY <1>a, <2>1 DEF Owned
  <2>3. PICK j \in Index : pc[j].sock = t[i].fd /\ pc[j].nfds = i
    BY <1>a, <2>1 DEF Owned
  <2> QED
    BY <1>d, <2>1, <2>2, <2>3
<1>3. ASSUME NEW j \in Index PROVE Slotted(u, qc[j])
  <2>1. CASE j = k
    BY <1>d, <2>1 DEF Slotted
  <2>2. CASE j # k
    <3>1. qc[j] = pc[j] /\ Slotted(t, pc[j])
      BY <1>a, <1>d, <2>2
    <3>2. \A i \in Slots : u[i].fd = t[i].fd \/ u[i].fd = None
      BY <1>c
    <3>3. ASSUME pc[j].sock # None, pc[j].state # "NEW_CLIENT"
          PROVE  pc[j].nfds \in Slots \cup {-1} /\ (pc[j].nfds # -1 => u[pc[j].nfds].fd = pc[j].sock)
      <4>1. pc[j].nfds \in Slots \cup {-1} /\ (pc[j].nfds # -1 => t[pc[j].nfds].fd = pc[j].sock)
        BY <3>1, <3>3 DEF Slotted
      <4>2. pc[j].sock # pc[k].sock
        BY <1>a, <1>b, <2>2 DEF Apart
      <4>3. pc[j].nfds # -1 => pc[j].nfds # pc[k].nfds
        BY <1>b, <4>1, <4>2
      <4> QED
        BY <1>c, <4>1, <4>3
    <3>4. pc[j].state = "NEW_CLIENT" => \A i \in Slots : u[i].fd # pc[j].sock
      BY <3>1, <3>2 DEF Slotted
    <3>5. ((pc[j].addr = None) <=> (pc[j].sock = None)) /\ (pc[j].addr = None => pc[j].state = "IDLE")
      BY <3>1 DEF Slotted
    <3> QED
      BY <3>1, <3>3, <3>4, <3>5 DEF Slotted
  <2> QED
    BY <2>1, <2>2
<1>4. Apart(qc)
  <2>1. \A i, j \in Index : qc[i].addr # None /\ qc[i].addr = qc[j].addr => i = j
    BY <1>a, <1>d DEF Apart
  <2>2. \A i, j \in Index : qc[i].sock # None /\ qc[i].sock = qc[j].sock => i = j
    BY <1>a, <1>d DEF Apart
  <2> QED
    BY <2>1, <2>2 DEF Apart
<1>5. Own(du)
  BY <1>a, <1>e DEF Own
<1>6. Serving(qc, du, ps)
  <2>1. ASSUME NEW j \in Index
        PROVE  IF qc[j].state \in {"NEED_SEND", "NEED_RECV"}
               THEN qc[j].ctrl # None /\ qc[j].addr # None /\ du[qc[j].ctrl].xfer
                    /\ du[qc[j].ctrl].addr = qc[j].addr
               ELSE qc[j].ctrl = None
    <3>1. CASE j = k
      BY <1>d, <3>1
    <3>2. CASE j # k /\ pc[j].state \in {"NEED_SEND", "NEED_RECV"}
      <4>1. /\ pc[j].ctrl # None /\ pc[j].addr # None /\ ct[pc[j].ctrl].xfer
            /\ ct[pc[j].ctrl].addr = pc[j].addr /\ pc[j].ctrl \in Session
        BY <1>a, <3>2, Fields DEF Serving
      <4>2. pc[j].addr # pc[k].addr
        BY <1>a, <1>b, <3>2 DEF Apart
      <4>3. pc[k].ctrl = None \/ (pc[k].ctrl \in Session /\ ct[pc[k].ctrl].addr = pc[k].addr)
        BY <1>a, Fields DEF Serving
      <4>4. pc[j].ctrl # pc[k].ctrl
        BY <4>1, <4>2, <4>3
      <4> QED
        BY <1>d, <1>e, <3>2, <4>1, <4>4
    <3>3. CASE j # k /\ pc[j].state \notin {"NEED_SEND", "NEED_RECV"}
      <4>1. pc[j].ctrl = None
        BY <1>a, <3>3 DEF Serving
      <4> QED
        BY <1>d, <3>3, <4>1
    <3> QED
      BY <3>1, <3>2, <3>3
  <2>2. ASSUME NEW f \in Sock, ps[f].in
        PROVE  \E j \in Index : qc[j].sock = f /\ qc[j].state = "NEED_RECV"
    <3>1. f # pc[k].sock /\ pr[f].in
      BY <1>f, <2>2
    <3>2. PICK j \in Index : pc[j].sock = f /\ pc[j].state = "NEED_RECV"
      BY <1>a, <3>1 DEF Serving
    <3> QED
      BY <1>d, <3>1, <3>2
  <2> QED
    BY <2>1, <2>2 DEF Serving
<1> QED
  BY <1>1, <1>2, <1>3, <1>4, <1>5, <1>6 DEF Agree

-----------------------------------------------------------------------------
(* A new channel gets its entry. *)

\* What ReadNew and ReadNewFull leave: entry i is that of slot k, or there is
\* none and i is -1.
Entered(k, i, t, u, pc, qc, tail, tale) ==
  /\ pc[k].state = "NEW_CLIENT"
  /\ qc[k].addr = pc[k].addr /\ qc[k].sock = pc[k].sock /\ qc[k].ctrl = pc[k].ctrl
  /\ qc[k].nfds = i /\ qc[k].state = IF i = -1 THEN "NEW_CLIENT" ELSE "IDLE"
  /\ \A j \in Index : j # k => qc[j] = pc[j]
  /\ i \in Slots \cup {-1}
  /\ i # -1 => t[i].fd = None /\ u[i].fd = pc[k].sock /\ u[i].revents = {} /\ i < tale
  /\ \A j \in Index : j # i => u[j] = t[j]
  /\ tail <= tale /\ tale \in 1 .. MaxClients

LEMMA EnterAgree ==
  ASSUME NEW k \in Index, NEW i, NEW t, NEW u, NEW pc, NEW qc, NEW tail, NEW tale, NEW ct, NEW pr,
         Typed(t, pc, tail, ct, pr), Agree(t, pc, tail, ct, pr),
         Entered(k, i, t, u, pc, qc, tail, tale)
  PROVE  Agree(u, qc, tale, ct, pr)
<1> USE Entries, Kinds
<1>a. PipeEntry(t) /\ Owned(t, pc, tail) /\ (\A j \in Index : Slotted(t, pc[j])) /\ Apart(pc)
      /\ Own(ct) /\ Serving(pc, ct, pr)
  BY DEF Agree
<1>b. /\ pc[k].state = "NEW_CLIENT"
      /\ qc[k].addr = pc[k].addr /\ qc[k].sock = pc[k].sock /\ qc[k].ctrl = pc[k].ctrl
      /\ qc[k].nfds = i /\ qc[k].state = IF i = -1 THEN "NEW_CLIENT" ELSE "IDLE"
      /\ \A j \in Index : j # k => qc[j] = pc[j]
  BY DEF Entered
<1>c. /\ i \in Slots \cup {-1}
      /\ i # -1 => t[i].fd = None /\ u[i].fd = pc[k].sock /\ i < tale
      /\ \A j \in Index : j # i => u[j] = t[j]
      /\ tail <= tale
  BY DEF Entered
<1>d. tail \in Int /\ tale \in Int
  BY DEF Entered, Typed
<1>e. pc[k].sock \in Sock /\ pc[k].addr # None /\ \A j \in Slots : t[j].fd # pc[k].sock
  <2>1. Slotted(t, pc[k]) /\ pc[k].sock \in Sock \cup {None}
    BY <1>a, Fields
  <2> QED
    BY <1>b, <2>1 DEF Slotted
<1>f. \A j \in Index : /\ qc[j].addr = pc[j].addr /\ qc[j].sock = pc[j].sock /\ qc[j].ctrl = pc[j].ctrl
                       /\ qc[j].state \in {"NEED_SEND", "NEED_RECV"} <=> pc[j].state \in {"NEED_SEND", "NEED_RECV"}
                       /\ qc[j].state = "NEED_RECV" <=> pc[j].state = "NEED_RECV"
  BY <1>b
<1>1. PipeEntry(u)
  BY <1>a, <1>c DEF PipeEntry
<1>2. Owned(u, qc, tale)
  <2> SUFFICES ASSUME NEW j \in Slots, u[j].fd # None
               PROVE  j < tale /\ u[j].fd # Pipe /\ \E h \in Index : qc[h].sock = u[j].fd /\ qc[h].nfds = j
    BY DEF Owned
  <2>1. CASE j = i
    BY <1>b, <1>c, <1>e, <2>1
  <2>2. CASE j # i
    <3>1. u[j] = t[j]
      BY <1>c, <2>2
    <3>2. j < tail /\ t[j].fd # Pipe
      BY <1>a, <3>1 DEF Owned
    <3>3. PICK h \in Index : pc[h].sock = t[j].fd /\ pc[h].nfds = j
      BY <1>a, <3>1 DEF Owned
    <3>4. qc[h].sock = u[j].fd /\ qc[h].nfds = j
      BY <1>b, <1>e, <3>1, <3>3
    <3>5. tail <= tale /\ j \in Int
      BY <1>c
    <3>6. j < tale
      BY <1>d, <3>2, <3>5
    <3> QED
      BY <3>1, <3>2, <3>4, <3>6
  <2> QED
    BY <2>1, <2>2
<1>3. ASSUME NEW j \in Index PROVE Slotted(u, qc[j])
  <2>0. Slotted(t, pc[j])
    BY <1>a
  <2>1. CASE j = k
    <3>1. i = -1 => \A h \in Slots : u[h] = t[h]
      BY <1>c
    <3> QED
      BY <1>b, <1>c, <1>e, <2>1, <3>1 DEF Slotted
  <2>2. CASE j # k
    <3>1. \A h \in Slots : u[h].fd = t[h].fd \/ (t[h].fd = None /\ u[h].fd = pc[k].sock)
      BY <1>c
    <3>2. pc[j].sock # pc[k].sock
      BY <1>a, <1>e, <2>2 DEF Apart
    <3>3. pc[j].state = "NEW_CLIENT" => pc[j].sock # None
      BY <2>0 DEF Slotted
    <3>4. qc[j] = pc[j]
      BY <1>b, <2>2
    <3>5. pc[j].state = "NEW_CLIENT" => \A h \in Slots : u[h].fd # pc[j].sock
      BY <2>0, <3>1, <3>2 DEF Slotted
    <3>6. pc[j].sock # None /\ pc[j].state # "NEW_CLIENT" =>
            pc[j].nfds \in Slots \cup {-1} /\ (pc[j].nfds # -1 => u[pc[j].nfds].fd = pc[j].sock)
      BY <2>0, <3>1 DEF Slotted
    <3> QED
      BY <2>0, <3>4, <3>5, <3>6 DEF Slotted
  <2> QED
    BY <2>1, <2>2
<1>4. Apart(qc)
  BY <1>a, <1>f DEF Apart
<1>5. Serving(qc, ct, pr)
  <2>1. \A j \in Index : IF qc[j].state \in {"NEED_SEND", "NEED_RECV"}
                         THEN qc[j].ctrl # None /\ qc[j].addr # None /\ ct[qc[j].ctrl].xfer
                              /\ ct[qc[j].ctrl].addr = qc[j].addr
                         ELSE qc[j].ctrl = None
    BY <1>a, <1>f DEF Serving
  <2>2. \A f \in Sock : pr[f].in => \E j \in Index : qc[j].sock = f /\ qc[j].state = "NEED_RECV"
    BY <1>a, <1>f DEF Serving
  <2> QED
    BY <2>1, <2>2 DEF Serving
<1> QED
  BY <1>a, <1>1, <1>2, <1>3, <1>4, <1>5 DEF Agree

-----------------------------------------------------------------------------
(* What the commands do to slots and sessions. *)

\* A session without a transfer has no slot at work.
LEMMA IdleSession ==
  ASSUME NEW t, NEW pc, NEW tail, NEW ct, NEW pr,
         Typed(t, pc, tail, ct, pr), Agree(t, pc, tail, ct, pr),
         NEW s \in Session, ~ct[s].xfer
  PROVE  /\ \A k \in Index : pc[k].ctrl # s
         /\ \A k \in Index : pc[k].addr # None /\ pc[k].addr = ct[s].addr => pc[k].ctrl = None
<1> USE Kinds
<1>0. Serving(pc, ct, pr) /\ Own(ct)
  BY DEF Agree
<1>1. \A k \in Index : pc[k].ctrl # s
  BY <1>0 DEF Serving
<1>2. ASSUME NEW k \in Index, pc[k].addr # None, pc[k].addr = ct[s].addr
      PROVE  pc[k].ctrl = None
  <2>1. CASE pc[k].state \in {"NEED_SEND", "NEED_RECV"}
    <3>1. pc[k].ctrl \in Session /\ ct[pc[k].ctrl].addr = pc[k].addr
      BY <1>0, <2>1, Fields DEF Serving
    <3>2. pc[k].ctrl = s
      BY <1>0, <1>2, <3>1 DEF Own
    <3> QED
      BY <1>1, <3>2
  <2>2. CASE pc[k].state \notin {"NEED_SEND", "NEED_RECV"}
    BY <1>0, <2>2 DEF Serving
  <2> QED
    BY <2>1, <2>2
<1> QED
  BY <1>1, <1>2

\* A session that has no slot at work forgets its address.
LEMMA ForgetAgree ==
  ASSUME NEW t, NEW pc, NEW tail, NEW ct, NEW du, NEW pr,
         Typed(t, pc, tail, ct, pr), Agree(t, pc, tail, ct, pr),
         NEW s \in Session, \A k \in Index : pc[k].ctrl # s,
         du[s] = NoPort, \A v \in Session : v # s => du[v] = ct[v]
  PROVE  Agree(t, pc, tail, du, pr)
<1> USE Kinds
<1>0. Serving(pc, ct, pr) /\ Own(ct)
  BY DEF Agree
<1>1. du[s].addr = None
  BY DEF NoPort
<1>2. Own(du)
  BY <1>0, <1>1 DEF Own
<1>3. Serving(pc, du, pr)
  <2>1. ASSUME NEW k \in Index
        PROVE  IF pc[k].state \in {"NEED_SEND", "NEED_RECV"}
               THEN pc[k].ctrl # None /\ pc[k].addr # None /\ du[pc[k].ctrl].xfer
                    /\ du[pc[k].ctrl].addr = pc[k].addr
               ELSE pc[k].ctrl = None
    <3>1. pc[k].ctrl # None => pc[k].ctrl \in Session /\ du[pc[k].ctrl] = ct[pc[k].ctrl]
      BY Fields
    <3> QED
      BY <1>0, <3>1 DEF Serving
  <2> QED
    BY <1>0, <2>1 DEF Serving
<1> QED
  BY <1>2, <1>3 DEF Agree

\* 200: a free slot has a new address and a new socket, and the session is told.
Opened(s, k, a, f, pc, qc, ct, du) ==
  /\ ~ct[s].xfer /\ pc[k].addr = None
  /\ \A j \in Index : pc[j].addr # a /\ pc[j].sock # f
  /\ \A v \in Session : ct[v].addr # a
  /\ qc[k].addr = a /\ qc[k].state = "NEW_CLIENT" /\ qc[k].sock = f /\ qc[k].ctrl = pc[k].ctrl
  /\ \A j \in Index : j # k => qc[j] = pc[j]
  /\ du[s].addr = a /\ \A v \in Session : v # s => du[v] = ct[v]

LEMMA OpenAgree ==
  ASSUME NEW t, NEW pc, NEW qc, NEW tail, NEW ct, NEW du, NEW pr,
         Typed(t, pc, tail, ct, pr), Agree(t, pc, tail, ct, pr),
         NEW s \in Session, NEW k \in Index, NEW a \in Addr, NEW f \in Sock,
         Opened(s, k, a, f, pc, qc, ct, du)
  PROVE  Agree(t, qc, tail, du, pr)
<1> USE Entries, Kinds
<1>0. /\ PipeEntry(t) /\ Owned(t, pc, tail) /\ (\A j \in Index : Slotted(t, pc[j])) /\ Apart(pc)
      /\ Own(ct) /\ Serving(pc, ct, pr)
  BY DEF Agree
<1>a. /\ ~ct[s].xfer /\ pc[k].addr = None
      /\ \A j \in Index : pc[j].addr # a /\ pc[j].sock # f
      /\ \A v \in Session : ct[v].addr # a
      /\ qc[k].addr = a /\ qc[k].state = "NEW_CLIENT" /\ qc[k].sock = f /\ qc[k].ctrl = pc[k].ctrl
      /\ \A j \in Index : j # k => qc[j] = pc[j]
      /\ du[s].addr = a /\ \A v \in Session : v # s => du[v] = ct[v]
  BY DEF Opened
<1>1. pc[k].sock = None /\ pc[k].ctrl = None /\ pc[k].state = "IDLE"
  BY <1>0, <1>a DEF Slotted, Serving
<1>2. \A i \in Slots : t[i].fd # f
  BY <1>0, <1>a DEF Owned
<1>3. Owned(t, qc, tail)
  <2> SUFFICES ASSUME NEW i \in Slots, t[i].fd # None
               PROVE  i < tail /\ t[i].fd # Pipe /\ \E j \in Index : qc[j].sock = t[i].fd /\ qc[j].nfds = i
    BY DEF Owned
  <2>1. i < tail /\ t[i].fd # Pipe
    BY <1>0 DEF Owned
  <2>2. PICK j \in Index : pc[j].sock = t[i].fd /\ pc[j].nfds = i
    BY <1>0 DEF Owned
  <2>3. qc[j] = pc[j]
    BY <1>1, <1>a, <2>2
  <2> QED
    BY <2>1, <2>2, <2>3
<1>4. ASSUME NEW j \in Index PROVE Slotted(t, qc[j])
  <2>1. CASE j = k
    BY <1>a, <1>2, <2>1 DEF Slotted
  <2>2. CASE j # k
    BY <1>0, <1>a, <2>2
  <2> QED
    BY <2>1, <2>2
<1>5. Apart(qc)
  <2>1. \A h, j \in Index : qc[h].addr # None /\ qc[h].addr = qc[j].addr => h = j
    BY <1>0, <1>a DEF Apart
  <2>2. \A h, j \in Index : qc[h].sock # None /\ qc[h].sock = qc[j].sock => h = j
    BY <1>0, <1>a DEF Apart
  <2> QED
    BY <2>1, <2>2 DEF Apart
<1>6. Own(du)
  BY <1>0, <1>a DEF Own
<1>7. Serving(qc, du, pr)
  <2>1. ASSUME NEW j \in Index
        PROVE  IF qc[j].state \in {"NEED_SEND", "NEED_RECV"}
               THEN qc[j].ctrl # None /\ qc[j].addr # None /\ du[qc[j].ctrl].xfer
                    /\ du[qc[j].ctrl].addr = qc[j].addr
               ELSE qc[j].ctrl = None
    <3>1. CASE j = k
      BY <1>1, <1>a, <3>1
    <3>2. CASE j # k
      <4>1. pc[j].ctrl # s /\ pc[j].ctrl \in Session \cup {None}
        BY <1>a, IdleSession, Fields
      <4>2. pc[j].ctrl # None => du[pc[j].ctrl] = ct[pc[j].ctrl]
        BY <1>a, <4>1
      <4>3. qc[j] = pc[j]
        BY <1>a, <3>2
      <4> QED
        BY <1>0, <4>2, <4>3 DEF Serving
    <3> QED
      BY <3>1, <3>2
  <2>2. \A g \in Sock : pr[g].in => \E j \in Index : qc[j].sock = g /\ qc[j].state = "NEED_RECV"
    BY <1>0, <1>1, <1>a DEF Serving
  <2> QED
    BY <2>1, <2>2 DEF Serving
<1> QED
  BY <1>0, <1>3, <1>4, <1>5, <1>6, <1>7 DEF Agree

\* 150: the session is promised a completion.
LEMMA PromiseAgree ==
  ASSUME NEW t, NEW pc, NEW tail, NEW ct, NEW du, NEW pr,
         Typed(t, pc, tail, ct, pr), Agree(t, pc, tail, ct, pr),
         \A v \in Session : du[v].addr = ct[v].addr /\ (ct[v].xfer => du[v].xfer)
  PROVE  Agree(t, pc, tail, du, pr)
<1>0. Own(ct) /\ Serving(pc, ct, pr)
  BY DEF Agree
<1>1. Own(du)
  BY <1>0 DEF Own
<1>2. Serving(pc, du, pr)
  <2>1. \A k \in Index : pc[k].ctrl \in Session \cup {None}
    BY Fields
  <2>2. \A k \in Index : IF pc[k].state \in {"NEED_SEND", "NEED_RECV"}
               THEN pc[k].ctrl # None /\ pc[k].addr # None /\ du[pc[k].ctrl].xfer
                    /\ du[pc[k].ctrl].addr = pc[k].addr
               ELSE pc[k].ctrl = None
    BY <1>0, <2>1, Kinds DEF Serving
  <2> QED
    BY <1>0, <2>2 DEF Serving
<1> QED
  BY <1>1, <1>2 DEF Agree

\* A slot that the thread has heard of, without a job, gets one for the
\* session that waits for it, or it is to be closed.
LEMMA StateAgree ==
  ASSUME NEW t, NEW pc, NEW qc, NEW tail, NEW ct, NEW pr,
         Typed(t, pc, tail, ct, pr), Agree(t, pc, tail, ct, pr),
         NEW k \in Index, pc[k].addr # None, pc[k].ctrl = None,
         pc[k].state # "NEW_CLIENT" \/ pc[k].nfds = -1,
         /\ qc[k].addr = pc[k].addr /\ qc[k].sock = pc[k].sock /\ qc[k].nfds = pc[k].nfds,
         \/ qc[k].state = "NEED_QUIT" /\ qc[k].ctrl = None
         \/ /\ qc[k].state \in {"NEED_SEND", "NEED_RECV"} /\ qc[k].ctrl \in Session
            /\ ct[qc[k].ctrl].xfer /\ ct[qc[k].ctrl].addr = pc[k].addr,
         \A j \in Index : j # k => qc[j] = pc[j]
  PROVE  Agree(t, qc, tail, ct, pr)
<1> USE Kinds
<1>0. /\ PipeEntry(t) /\ Owned(t, pc, tail) /\ (\A j \in Index : Slotted(t, pc[j])) /\ Apart(pc)
      /\ Own(ct) /\ Serving(pc, ct, pr)
  BY DEF Agree
<1>1. \A j \in Index : qc[j].addr = pc[j].addr /\ qc[j].sock = pc[j].sock /\ qc[j].nfds = pc[j].nfds
  OBVIOUS
<1>2. Owned(t, qc, tail)
  BY <1>0, <1>1 DEF Owned
<1>3. ASSUME NEW j \in Index PROVE Slotted(t, qc[j])
  <2>1. Slotted(t, pc[j])
    BY <1>0
  <2>2. CASE j = k
    <3>1. qc[k].state # "NEW_CLIENT"
      OBVIOUS
    <3> QED
      BY <1>1, <2>1, <2>2, <3>1 DEF Slotted
  <2>3. CASE j # k
    BY <2>1, <2>3
  <2> QED
    BY <2>2, <2>3
<1>4. Apart(qc)
  BY <1>0, <1>1 DEF Apart
<1>5. Serving(qc, ct, pr)
  <2>1. ASSUME NEW j \in Index
        PROVE  IF qc[j].state \in {"NEED_SEND", "NEED_RECV"}
               THEN qc[j].ctrl # None /\ qc[j].addr # None /\ ct[qc[j].ctrl].xfer
                    /\ ct[qc[j].ctrl].addr = qc[j].addr
               ELSE qc[j].ctrl = None
    <3>1. CASE j = k
      BY <3>1
    <3>2. CASE j # k
      BY <1>0, <3>2 DEF Serving
    <3> QED
      BY <3>1, <3>2
  <2>2. pc[k].state # "NEED_RECV"
    BY <1>0 DEF Serving
  <2>3. \A f \in Sock : pr[f].in => \E j \in Index : qc[j].sock = f /\ qc[j].state = "NEED_RECV"
    BY <1>0, <2>2 DEF Serving
  <2> QED
    BY <2>1, <2>3 DEF Serving
<1> QED
  BY <1>0, <1>2, <1>3, <1>4, <1>5 DEF Agree

\* Only an upload brings bytes to read.
LEMMA PeerAgree ==
  ASSUME NEW t, NEW pc, NEW tail, NEW ct, NEW pr, NEW ps, Agree(t, pc, tail, ct, pr),
         \A f \in Sock : ps[f].in => pr[f].in \/ \E k \in Index : pc[k].sock = f /\ pc[k].state = "NEED_RECV"
  PROVE  Agree(t, pc, tail, ct, ps)
BY DEF Agree, Serving

\* The length of what is left to send does not matter.
LEMMA LeftAgree ==
  ASSUME NEW t, NEW pc, NEW qc, NEW tail, NEW ct, NEW pr, Agree(t, pc, tail, ct, pr),
         \A j \in Index : /\ qc[j].addr = pc[j].addr /\ qc[j].sock = pc[j].sock /\ qc[j].nfds = pc[j].nfds
                          /\ qc[j].state = pc[j].state /\ qc[j].ctrl = pc[j].ctrl
  PROVE  Agree(t, qc, tail, ct, pr)
<1>0. /\ PipeEntry(t) /\ Owned(t, pc, tail) /\ (\A j \in Index : Slotted(t, pc[j])) /\ Apart(pc)
      /\ Own(ct) /\ Serving(pc, ct, pr)
  BY DEF Agree
<1>1. Owned(t, qc, tail)
  BY <1>0 DEF Owned
<1>2. \A j \in Index : Slotted(t, qc[j])
  BY <1>0 DEF Slotted
<1>3. Apart(qc)
  BY <1>0 DEF Apart
<1>4. Serving(qc, ct, pr)
  BY <1>0 DEF Serving
<1> QED
  BY <1>0, <1>1, <1>2, <1>3, <1>4 DEF Agree

-----------------------------------------------------------------------------
(* The messages in the pipe. *)

LEMMA Appended ==
  ASSUME NEW p \in Seq(Index), NEW j \in Index
  PROVE  /\ Append(p, j) \in Seq(Index) /\ Len(Append(p, j)) = Len(p) + 1
         /\ InPipe(Append(p, j), j)
         /\ \A k \in Index : InPipe(p, k) => InPipe(Append(p, j), k)
<1>1. Append(p, j) \in Seq(Index) /\ Len(Append(p, j)) = Len(p) + 1 /\ Len(p) \in Nat
  OBVIOUS
<1>2. Append(p, j)[Len(p) + 1] = j /\ \A n \in 1 .. Len(p) : Append(p, j)[n] = p[n]
  OBVIOUS
<1>3. InPipe(Append(p, j), j)
  BY <1>1, <1>2 DEF InPipe
<1>4. \A k \in Index : InPipe(p, k) => InPipe(Append(p, j), k)
  BY <1>1, <1>2 DEF InPipe
<1> QED
  BY <1>1, <1>3, <1>4

LEMMA Removed ==
  ASSUME NEW p \in Seq(Index), p # <<>>
  PROVE  /\ Head(p) \in Index /\ Tail(p) \in Seq(Index) /\ Len(Tail(p)) = Len(p) - 1
         /\ \A k \in Index : InPipe(p, k) /\ k # Head(p) => InPipe(Tail(p), k)
<1>1. Head(p) \in Index /\ Tail(p) \in Seq(Index) /\ Len(Tail(p)) = Len(p) - 1 /\ Len(p) \in Nat \ {0}
      /\ Head(p) = p[1]
  OBVIOUS
<1>2. \A n \in 1 .. Len(p) - 1 : Tail(p)[n] = p[n + 1]
  OBVIOUS
<1>3. ASSUME NEW k \in Index, InPipe(p, k), k # Head(p) PROVE InPipe(Tail(p), k)
  <2>1. PICK n \in 1 .. Len(p) : p[n] = k
    BY <1>3 DEF InPipe
  <2>2. n # 1
    BY <1>1, <1>3, <2>1
  <2>3. n - 1 \in 1 .. Len(p) - 1 /\ Tail(p)[n - 1] = p[n]
    BY <1>1, <1>2, <2>1, <2>2
  <2> QED
    BY <1>1, <2>1, <2>3 DEF InPipe
<1> QED
  BY <1>1, <1>3

-----------------------------------------------------------------------------
(* The pass goes on, or starts again. *)

\* What the pass leaves of the table, and where it goes.
LEMMA Continued ==
  ASSUME Types, at # AtPoll, NEW t \in [Index -> Entry], NEW i \in Index \cup {-1}, Continue(t, i)
  PROVE  /\ fds' \in [Index -> Entry] /\ at' \in 0 .. AtPoll /\ served' \subseteq Index
         /\ SameFd(t, fds') /\ (PipeEntry(t) => PipeEntry(fds'))
         /\ at' # AtPoll => at' \in Index /\ fds' = t /\ served' = served \cup {at} /\ t[at'].revents # {}
<1> USE Entries
<1>0. at \in Index /\ served \subseteq Index
  BY PortAssumption DEF Types, AtPoll, Index
<1>1. /\ at' \in 0 .. AtPoll
      /\ at' # AtPoll => at' \in Index /\ t[at'].revents # {}
  <2> DEFINE ready == {j \in Index : j > i /\ t[j].revents # {}}
  <2>1. at' = IF ready = {} THEN AtPoll ELSE Min(ready)
    BY DEF Continue, Turn
  <2>2. CASE ready = {}
    BY <2>1, <2>2 DEF AtPoll
  <2>3. CASE ready # {}
    <3>1. ready \in SUBSET Nat
      OBVIOUS
    <3>2. Min(ready) \in ready
      BY <2>3, <3>1, MinIs
    <3> QED
      BY <2>1, <2>3, <3>2 DEF AtPoll
  <2> QED
    BY <2>2, <2>3
<1>2. CASE at' = AtPoll
  <2>1. fds' = [j \in Index |-> [t[j] EXCEPT !.revents = {}]] /\ served' = {}
    BY <1>2 DEF Continue
  <2>2. \A j \in Index : /\ t[j] \in Entry /\ [t[j] EXCEPT !.revents = {}] \in Entry
                         /\ [t[j] EXCEPT !.revents = {}].fd = t[j].fd
                         /\ [t[j] EXCEPT !.revents = {}].events = t[j].events
    BY DEF Entry
  <2>3. fds' \in [Index -> Entry] /\ SameFd(t, fds') /\ (PipeEntry(t) => PipeEntry(fds'))
    BY <2>1, <2>2 DEF SameFd, PipeEntry
  <2> QED
    BY <1>1, <1>2, <2>1, <2>3
<1>3. CASE at' # AtPoll
  <2>1. fds' = t /\ served' = served \cup {at}
    BY <1>3 DEF Continue
  <2> QED
    BY <1>0, <1>1, <1>3, <2>1 DEF SameFd
<1> QED
  BY <1>2, <1>3

\* The pass goes on with the table t.
GoesOn(t) ==
  /\ Typed(t, port_clients', fd_most_tail', ctl', peer')
  /\ Agree(t, port_clients', fd_most_tail', ctl', peer')
  /\ Fresh(t, served \cup {at}, peer')
  /\ pipe' \in Seq(Index) /\ Len(pipe') <= MaxPipe /\ Heard(port_clients', pipe')

LEMMA ContinueInv ==
  ASSUME ~Hurry, Types, at # AtPoll, NEW t, NEW i \in Index \cup {-1}, Continue(t, i), GoesOn(t)
  PROVE  Inv'
<1>0. t \in [Index -> Entry]
  BY DEF GoesOn, Typed
<1>1. /\ fds' \in [Index -> Entry] /\ at' \in 0 .. AtPoll /\ served' \subseteq Index
      /\ SameFd(t, fds') /\ (PipeEntry(t) => PipeEntry(fds'))
      /\ at' # AtPoll => at' \in Index /\ fds' = t /\ served' = served \cup {at} /\ t[at'].revents # {}
  BY <1>0, Continued
<1>2. Types'
  BY <1>1 DEF Types, GoesOn, Typed
<1>3. Agree(fds', port_clients', fd_most_tail', ctl', peer')
  <2>1. PipeEntry(fds')
    BY <1>1 DEF GoesOn, Agree
  <2> QED
    BY <1>1, <2>1, SameFdAgree DEF GoesOn
<1>4. PassInv'
  BY <1>1 DEF PassInv, GoesOn, AtPoll
<1> QED
  BY <1>2, <1>3, <1>4 DEF Inv, GoesOn

\* The types and the parts of the invariant.
LEMMA Parts ==
  ASSUME Inv
  PROVE  /\ ~Hurry /\ Types
         /\ Typed(fds, port_clients, fd_most_tail, ctl, peer)
         /\ Agree(fds, port_clients, fd_most_tail, ctl, peer)
         /\ pipe \in Seq(Index) /\ Len(pipe) <= MaxPipe /\ Heard(port_clients, pipe)
         /\ at # AtPoll => at \in Index /\ Fresh(fds, served, peer) /\ fds[at].revents # {}
         /\ at # AtPoll /\ fds[at].fd # Pipe => at \in Slots
BY Entries, PortAssumption DEF Inv, Types, Typed, PassInv, AtPoll, Index, Agree, PipeEntry

\* The slot of a connection.
LEMMA HereIs ==
  ASSUME Inv, at # AtPoll, fds[at].fd \in Sock
  PROVE  /\ at \in Slots /\ Here \in Index /\ port_clients[Here].sock = fds[at].fd
         /\ port_clients[Here].sock # None /\ port_clients[Here].state # "NEW_CLIENT"
         /\ port_clients[Here].nfds = at
         /\ \A k \in Index : port_clients[k].sock = fds[at].fd => k = Here
<1>1. at \in Slots
  BY Parts, Kinds
<1>2. \E k \in Index : port_clients[k].sock = fds[at].fd
  BY <1>1, Parts, OneEntry
<1>3. Here \in Index /\ port_clients[Here].sock = fds[at].fd
  BY <1>2 DEF Here
<1>4. Apart(port_clients)
  BY Parts DEF Agree
<1>5. port_clients[Here].sock # None
  BY <1>3, Kinds
<1>6. port_clients[Here].state # "NEW_CLIENT" /\ port_clients[Here].nfds = at
  BY <1>1, <1>3, <1>5, Parts, OneEntry
<1> QED
  BY <1>1, <1>3, <1>4, <1>5, <1>6 DEF Apart

-----------------------------------------------------------------------------
(* The thread closes a channel. *)

\* What becomes of the session of slot k: it hears of it, or not.
Told(k) == \/ ctl' = ctl
           \/ ctl' = [ctl EXCEPT ![port_clients[k].ctrl] = NoPort]

\* The pipe keeps the messages for the other slots.
PipeKept(k) == /\ pipe' \in Seq(Index) /\ Len(pipe') <= MaxPipe
               /\ \A j \in Index : j # k /\ InPipe(pipe, j) => InPipe(pipe', j)

LEMMA CloseInv ==
  ASSUME Inv, at # AtPoll, NEW k \in Index, port_clients[k].sock # None,
         port_clients[k].state # "NEW_CLIENT",
         CloseConnection(k), Told(k), UNCHANGED fd_most_tail, PipeKept(k)
  PROVE  Inv'
<1> USE Entries, Kinds
<1> DEFINE t == Closed(fds, k)
<1>0. /\ Typed(fds, port_clients, fd_most_tail, ctl, peer)
      /\ Agree(fds, port_clients, fd_most_tail, ctl, peer)
      /\ at \in Index /\ Fresh(fds, served, peer) /\ ~Hurry /\ Types /\ Heard(port_clients, pipe)
  BY Parts
<1>1. FreePort \in PortData /\ NoPort \in Control /\ NewPeer \in Remote /\ Empty \in Entry
  <2>1. 0 \in 0 .. MaxChunks
    BY PortAssumption
  <2>2. FreePort \in PortData
    BY <2>1 DEF FreePort, PortData
  <2>3. NoPort \in Control /\ NewPeer \in Remote /\ Empty \in Entry
    BY DEF NoPort, Control, NewPeer, Remote, Empty, Entry
  <2> QED
    BY <2>2, <2>3
<1>2. /\ t \in [Index -> Entry]
      /\ \A i \in Index : t[i] = IF i = port_clients[k].nfds THEN Empty ELSE fds[i]
  BY <1>0, <1>1 DEF Typed, Closed
<1>3. /\ port_clients' \in [Index -> PortData] /\ port_clients'[k] = FreePort
      /\ \A j \in Index \ {k} : port_clients'[j] = port_clients[j]
  BY <1>0, <1>1 DEF Typed, CloseConnection
<1>4. /\ ctl' \in [Session -> Control]
      /\ \A s \in Session : ctl'[s] = ctl[s] \/ (s = port_clients[k].ctrl /\ ctl'[s] = NoPort)
  BY <1>0, <1>1 DEF Typed, Told
<1>5. /\ peer' \in [Sock -> Remote]
      /\ \A f \in Sock : peer'[f] = IF f = port_clients[k].sock THEN NewPeer ELSE peer[f]
  BY <1>0, <1>1 DEF Typed, CloseConnection
<1>6. Continue(t, -1)
  BY DEF CloseConnection, Restart
<1> HIDE DEF t
<1>7. Freed(k, fds, t, port_clients, port_clients', ctl, ctl', peer, peer')
  BY <1>2, <1>3, <1>4, <1>5 DEF Freed
<1>8. Typed(t, port_clients', fd_most_tail', ctl', peer')
  BY <1>0, <1>2, <1>3, <1>4, <1>5 DEF Typed
<1>9. Agree(t, port_clients', fd_most_tail', ctl', peer')
  BY <1>0, <1>7, CloseAgree
<1>10. Fresh(t, served \cup {at}, peer')
  <2> SUFFICES ASSUME NEW i \in Slots \ (served \cup {at})
        PROVE  /\ t[i].fd \in Sock /\ "in" \in t[i].revents =>
                    peer'[t[i].fd].net = "gone" \/ peer'[t[i].fd].in
               /\ t[i].fd \in Sock /\ "out" \in t[i].revents =>
                    peer'[t[i].fd].net = "gone" \/ (peer'[t[i].fd].net = "up" /\ peer'[t[i].fd].room)
    BY DEF Fresh
  <2>1. CASE i = port_clients[k].nfds
    <3>1. t[i] = Empty
      BY <1>2, <2>1
    <3> QED
      BY <3>1 DEF Empty
  <2>2. CASE i # port_clients[k].nfds
    <3>1. t[i] = fds[i]
      BY <1>2, <2>2
    <3>2. fds[i].fd # port_clients[k].sock
      <4>1. \A h \in Slots, j \in Index :
              port_clients[j].sock # None /\ fds[h].fd = port_clients[j].sock => port_clients[j].nfds = h
        BY <1>0, OneEntry
      <4> QED
        BY <2>2, <4>1
    <3> QED
      BY <1>0, <1>5, <3>1, <3>2 DEF Fresh
  <2> QED
    BY <2>1, <2>2
<1>11. Heard(port_clients', pipe')
  <2>1. port_clients'[k].state = "IDLE"
    BY <1>3 DEF FreePort
  <2> QED
    BY <1>0, <1>3, <2>1 DEF Heard, PipeKept
<1>12. GoesOn(t)
  BY <1>8, <1>9, <1>10, <1>11 DEF GoesOn, PipeKept
<1> QED
  BY <1>0, <1>6, <1>12, ContinueInv

-----------------------------------------------------------------------------
(* The steps of the thread. *)

\* What poll reported of the other entries still holds.
LEMMA FreshKept ==
  ASSUME NEW t, NEW u, NEW sv, NEW pr, NEW i, Fresh(t, sv, pr),
         \A j \in Slots : u[j].revents = {} \/ (u[j].fd = t[j].fd /\ u[j].revents = t[j].revents)
  PROVE  Fresh(u, sv \cup {i}, pr)
BY DEF Fresh

LEMMA PipeRead ==
  ASSUME Inv, TakeMessage
  PROVE  /\ Message \in Index /\ PipeKept(Message) /\ at # AtPoll
<1>1. at # AtPoll /\ pipe # <<>> /\ pipe' = Tail(pipe) /\ Message = Head(pipe)
  BY DEF TakeMessage, ServePipe, Message
<1>2. pipe \in Seq(Index) /\ Len(pipe) <= MaxPipe
  BY Parts
<1>3. Len(pipe) \in Nat /\ MaxPipe \in Nat
  BY <1>2, PortAssumption
<1>4. /\ Head(pipe) \in Index /\ Tail(pipe) \in Seq(Index) /\ Len(Tail(pipe)) = Len(pipe) - 1
      /\ \A k \in Index : InPipe(pipe, k) /\ k # Head(pipe) => InPipe(Tail(pipe), k)
  BY <1>1, <1>2, Removed
<1> QED
  BY <1>1, <1>2, <1>3, <1>4 DEF PipeKept

LEMMA Asked ==
  ASSUME NEW d \in SUBSET {"in", "out"}, NEW state
  PROVE  Wanted(d, state) \in SUBSET {"in", "out"}
BY DEF Wanted

LEMMA ReadEmptyInv ==
  ASSUME Inv, ReadEmpty
  PROVE  Inv'
<1>1. at # AtPoll /\ ~Hurry /\ Types
  BY Parts DEF ReadEmpty, ServePipe
<1>2. Continue(fds, at) /\ at \in Index \cup {-1}
  BY <1>1, Parts DEF ReadEmpty, GoOn
<1>3. /\ port_clients' = port_clients /\ fd_most_tail' = fd_most_tail /\ pipe' = pipe
      /\ ctl' = ctl /\ peer' = peer
  BY DEF ReadEmpty
<1>4. Fresh(fds, served \cup {at}, peer)
  BY <1>1, Parts DEF Fresh
<1>5. GoesOn(fds)
  BY <1>3, <1>4, Parts DEF GoesOn
<1> QED
  BY <1>1, <1>2, <1>5, ContinueInv

\* The slot and the table once the thread has heard of a new channel.
LEMMA EnterInv ==
  ASSUME Inv, TakeMessage, NEW u \in [Index -> Entry], Continue(u, at), NEW i,
         Entered(Message, i, fds, u, port_clients, port_clients', fd_most_tail, fd_most_tail'),
         port_clients' \in [Index -> PortData], UNCHANGED <<ctl, peer>>
  PROVE  Inv'
<1> USE Entries, Kinds
<1>1. /\ Typed(fds, port_clients, fd_most_tail, ctl, peer)
      /\ Agree(fds, port_clients, fd_most_tail, ctl, peer)
      /\ ~Hurry /\ Types /\ Heard(port_clients, pipe)
  BY Parts
<1>2. Message \in Index /\ PipeKept(Message) /\ at # AtPoll
  BY PipeRead
<1>3. at \in Index \cup {-1} /\ Fresh(fds, served, peer)
  BY <1>2, Parts
<1>4. Agree(u, port_clients', fd_most_tail', ctl, peer)
  BY <1>1, <1>2, EnterAgree
<1>5. Fresh(u, served \cup {at}, peer)
  <2>1. \A j \in Slots : u[j].revents = {} \/ (u[j].fd = fds[j].fd /\ u[j].revents = fds[j].revents)
    BY DEF Entered
  <2> QED
    BY <1>3, <2>1, FreshKept
<1>6. Typed(u, port_clients', fd_most_tail', ctl, peer)
  BY <1>1 DEF Typed, Entered
<1>7. Heard(port_clients', pipe')
  <2> SUFFICES ASSUME NEW k \in Index, port_clients'[k].state = "NEW_CLIENT"
               PROVE  port_clients'[k].nfds = -1 \/ InPipe(pipe', k)
    BY DEF Heard
  <2>1. CASE k = Message
    BY <2>1 DEF Entered
  <2>2. CASE k # Message
    BY <1>1, <1>2, <2>2 DEF Entered, Heard, PipeKept
  <2> QED
    BY <2>1, <2>2
<1>8. GoesOn(u)
  BY <1>2, <1>4, <1>5, <1>6, <1>7 DEF GoesOn, PipeKept
<1> QED
  BY <1>1, <1>2, <1>3, <1>8, ContinueInv

LEMMA ReadNewInv ==
  ASSUME Inv, ReadNew
  PROVE  Inv'
<1> USE Entries, Kinds
<1> DEFINE k == Message
           i == Min(Vacant)
           e == [fd |-> port_clients[k].sock, events |-> {"in"}, revents |-> {}]
           u == [fds EXCEPT ![i] = e]
<1>1. /\ Typed(fds, port_clients, fd_most_tail, ctl, peer)
      /\ Agree(fds, port_clients, fd_most_tail, ctl, peer)
  BY Parts
<1>2. TakeMessage /\ k \in Index /\ port_clients[k].state = "NEW_CLIENT"
  BY PipeRead DEF ReadNew
<1>3. i \in Vacant /\ \A n \in Vacant : i <= n
  <2>1. Vacant \in SUBSET Nat /\ Vacant # {}
    BY DEF Vacant, ReadNew
  <2> QED
    BY <2>1, MinIs
<1>4. /\ port_clients' = [port_clients EXCEPT ![k].nfds = i, ![k].state = "IDLE"]
      /\ fd_most_tail' = IF i >= fd_most_tail THEN fd_most_tail + 1 ELSE fd_most_tail
      /\ Continue(u, at) /\ UNCHANGED <<ctl, peer>>
  BY DEF ReadNew, GoOn
<1>5. i \in Slots /\ fds[i].fd = None
  BY <1>1, <1>3 DEF Vacant, Agree, PipeEntry
<1>6. e \in Entry /\ e.fd = port_clients[k].sock /\ e.revents = {}
  <2>1. port_clients[k].sock \in Sock \cup {None}
    BY <1>1, <1>2, Fields
  <2> QED
    BY <2>1 DEF Entry
<1> HIDE DEF k, i, e
<1>7. /\ u \in [Index -> Entry] /\ u[i] = e
      /\ \A j \in Index : j # i => u[j] = fds[j]
  BY <1>1, <1>5, <1>6 DEF Typed
<1>8. i <= fd_most_tail
  <2>1. fd_most_tail \in 1 .. MaxClients
    BY <1>1 DEF Typed
  <2>2. CASE fd_most_tail = MaxClients
    BY <1>5, <2>2
  <2>3. CASE fd_most_tail # MaxClients
    <3>1. fd_most_tail \in Slots
      BY <2>1, <2>3, PortAssumption DEF Slots
    <3>2. fds[fd_most_tail].fd = None
      BY <1>1, <3>1 DEF Agree, Owned
    <3> QED
      BY <1>3, <3>1, <3>2 DEF Vacant
  <2> QED
    BY <2>2, <2>3
<1>9. fd_most_tail' \in 1 .. MaxClients /\ fd_most_tail <= fd_most_tail' /\ i < fd_most_tail'
  <2>1. fd_most_tail \in 1 .. MaxClients /\ i \in Nat /\ i < MaxClients
    BY <1>1, <1>5 DEF Typed
  <2>2. fd_most_tail' = IF i >= fd_most_tail THEN fd_most_tail + 1 ELSE fd_most_tail
    BY <1>4
  <2> QED
    BY <1>8, <2>1, <2>2, PortAssumption
<1>10. /\ port_clients' \in [Index -> PortData]
       /\ port_clients'[k].addr = port_clients[k].addr /\ port_clients'[k].sock = port_clients[k].sock
       /\ port_clients'[k].ctrl = port_clients[k].ctrl
       /\ port_clients'[k].nfds = i /\ port_clients'[k].state = "IDLE"
       /\ \A j \in Index : j # k => port_clients'[j] = port_clients[j]
  <2>1. port_clients \in [Index -> PortData] /\ i \in Index \cup {-1} /\ k \in Index
    BY <1>1, <1>2, <1>5 DEF Typed
  <2>2. port_clients' = [port_clients EXCEPT ![k].nfds = i, ![k].state = "IDLE"]
    BY <1>4
  <2> QED
    BY <2>1, <2>2 DEF PortData
<1>11. Entered(k, i, fds, u, port_clients, port_clients', fd_most_tail, fd_most_tail')
  <2>1. i # -1
    BY <1>5
  <2> HIDE DEF u
  <2> QED
    BY <1>2, <1>5, <1>6, <1>7, <1>9, <1>10, <2>1 DEF Entered
<1>12. UNCHANGED <<ctl, peer>> /\ Continue(u, at)
  BY <1>4
<1> HIDE DEF u
<1> QED
  BY <1>2, <1>7, <1>10, <1>11, <1>12, EnterInv DEF k

LEMMA ReadNewFullInv ==
  ASSUME Inv, ReadNewFull
  PROVE  Inv'
<1> USE Entries, Kinds
<1> DEFINE k == Message
<1>1. Typed(fds, port_clients, fd_most_tail, ctl, peer)
  BY Parts
<1>2. TakeMessage /\ k \in Index /\ port_clients[k].state = "NEW_CLIENT"
  BY PipeRead DEF ReadNewFull
<1>3. /\ port_clients' = [port_clients EXCEPT ![k].nfds = -1]
      /\ Continue(fds, at) /\ UNCHANGED <<ctl, peer>> /\ fd_most_tail' = fd_most_tail
  BY DEF ReadNewFull, GoOn
<1> HIDE DEF k
<1>4. /\ port_clients' \in [Index -> PortData]
      /\ port_clients'[k].addr = port_clients[k].addr /\ port_clients'[k].sock = port_clients[k].sock
      /\ port_clients'[k].ctrl = port_clients[k].ctrl
      /\ port_clients'[k].nfds = -1 /\ port_clients'[k].state = port_clients[k].state
      /\ \A j \in Index : j # k => port_clients'[j] = port_clients[j]
  <2>1. port_clients \in [Index -> PortData] /\ -1 \in Index \cup {-1} /\ k \in Index
    BY <1>1, <1>2 DEF Typed
  <2>2. port_clients' = [port_clients EXCEPT ![k].nfds = -1]
    BY <1>3
  <2> QED
    BY <2>1, <2>2 DEF PortData
<1>5. fd_most_tail <= fd_most_tail' /\ fd_most_tail' \in 1 .. MaxClients
  BY <1>1, <1>3 DEF Typed
<1>6. Entered(k, -1, fds, fds, port_clients, port_clients', fd_most_tail, fd_most_tail')
  BY <1>2, <1>4, <1>5 DEF Entered
<1>7. fds \in [Index -> Entry] /\ Continue(fds, at) /\ UNCHANGED <<ctl, peer>>
  BY <1>1, <1>3 DEF Typed
<1> QED
  BY <1>2, <1>4, <1>6, <1>7, EnterInv DEF k

LEMMA ReadJobInv ==
  ASSUME Inv, ReadJob
  PROVE  Inv'
<1> USE Entries, Kinds
<1> DEFINE k == Message
           i == port_clients[k].nfds
           u == IF port_clients[k].sock # None /\ i \in Index
                THEN [fds EXCEPT ![i].events = Wanted(@, port_clients[k].state)] ELSE fds
<1>1. /\ Typed(fds, port_clients, fd_most_tail, ctl, peer)
      /\ Agree(fds, port_clients, fd_most_tail, ctl, peer)
      /\ ~Hurry /\ Types /\ Heard(port_clients, pipe)
  BY Parts
<1>2. k \in Index /\ PipeKept(k) /\ at # AtPoll /\ port_clients[k].state # "NEW_CLIENT"
  BY PipeRead DEF ReadJob
<1>3. Continue(u, at) /\ at \in Index \cup {-1} /\ Fresh(fds, served, peer)
  BY <1>2, Parts DEF ReadJob, GoOn
<1>4. /\ port_clients' = port_clients /\ fd_most_tail' = fd_most_tail
      /\ ctl' = ctl /\ peer' = peer
  BY DEF ReadJob
<1>5. /\ u \in [Index -> Entry]
      /\ \A j \in Index : u[j].fd = fds[j].fd /\ u[j].revents = fds[j].revents
      /\ u[0] = fds[0]
  <2>1. CASE port_clients[k].sock # None /\ i \in Index
    <3>1. i # 0
      BY <1>1, <1>2, <2>1 DEF Agree, Slotted
    <3>2. \A j \in Index : /\ fds[j] \in Entry /\ fds[j].events \in SUBSET {"in", "out"}
                           /\ Wanted(fds[j].events, port_clients[k].state) \in SUBSET {"in", "out"}
      BY <1>1, Asked DEF Typed, Entry
    <3> DEFINE d == [fds[i] EXCEPT !.events = Wanted(@, port_clients[k].state)]
    <3>3. u = [fds EXCEPT ![i] = d]
      BY <2>1
    <3>4. d \in Entry /\ d.fd = fds[i].fd /\ d.revents = fds[i].revents
      BY <2>1, <3>2 DEF Entry
    <3> HIDE DEF d, u, i
    <3> QED
      BY <1>1, <2>1, <3>1, <3>3, <3>4 DEF Typed
  <2>2. CASE ~(port_clients[k].sock # None /\ i \in Index)
    BY <1>1, <2>2 DEF Typed
  <2> QED
    BY <2>1, <2>2
<1> HIDE DEF k, i, u
<1>6. Agree(u, port_clients, fd_most_tail, ctl, peer)
  <2>1. SameFd(fds, u) /\ PipeEntry(u)
    BY <1>1, <1>5 DEF SameFd, PipeEntry, Agree
  <2> QED
    BY <1>1, <2>1, SameFdAgree
<1>7. Fresh(u, served \cup {at}, peer)
  BY <1>3, <1>5, FreshKept
<1>8. Heard(port_clients, pipe')
  BY <1>1, <1>2 DEF Heard, PipeKept
<1>9. GoesOn(u)
  BY <1>1, <1>2, <1>4, <1>5, <1>6, <1>7, <1>8 DEF GoesOn, Typed, PipeKept
<1> QED
  BY <1>1, <1>2, <1>3, <1>9, ContinueInv

LEMMA ReadQuitInv ==
  ASSUME Inv, ReadQuit
  PROVE  Inv'
<1>1. Message \in Index /\ PipeKept(Message) /\ at # AtPoll /\ port_clients[Message].state = "NEED_QUIT"
  BY PipeRead DEF ReadQuit
<1>2. port_clients[Message].sock # None
  <2>1. Slotted(fds, port_clients[Message])
    BY <1>1, Parts DEF Agree
  <2> QED
    BY <1>1, <2>1 DEF Slotted
<1>3. CloseConnection(Message) /\ Told(Message) /\ UNCHANGED fd_most_tail
  BY DEF ReadQuit, Told
<1> QED
  BY <1>1, <1>2, <1>3, CloseInv

\* The other entries are those of other sockets.
LEMMA OtherEntries ==
  ASSUME Inv, at # AtPoll, fds[at].fd \in Sock, NEW j \in Slots, j # at
  PROVE  fds[j].fd # fds[at].fd
<1>1. at \in Slots /\ Here \in Index /\ port_clients[Here].sock = fds[at].fd
      /\ port_clients[Here].sock # None /\ port_clients[Here].nfds = at
  BY HereIs
<1>2. fds[j].fd = port_clients[Here].sock => port_clients[Here].nfds = j
  BY <1>1, Parts, OneEntry
<1> QED
  BY <1>1, <1>2

LEMMA ReceiveInv ==
  ASSUME Inv, Receive
  PROVE  Inv'
<1> USE Entries, Kinds
<1> DEFINE f == fds[at].fd
<1>1. /\ Typed(fds, port_clients, fd_most_tail, ctl, peer)
      /\ Agree(fds, port_clients, fd_most_tail, ctl, peer)
      /\ ~Hurry /\ Types /\ pipe \in Seq(Index) /\ Len(pipe) <= MaxPipe /\ Heard(port_clients, pipe)
  BY Parts
<1>2. at # AtPoll /\ f \in Sock
  BY DEF Receive, ServeIn
<1>3. at \in Slots /\ Fresh(fds, served, peer)
  BY <1>2, Parts
<1>4. /\ Continue(fds, at) /\ at \in Index \cup {-1}
      /\ port_clients' = port_clients /\ fd_most_tail' = fd_most_tail /\ pipe' = pipe
      /\ ctl' = ctl /\ peer' = [peer EXCEPT ![f].in = FALSE]
  BY <1>3 DEF Receive, GoOn
<1>5. \A j \in Slots : j # at => fds[j].fd # f
  BY <1>2, OtherEntries
<1> HIDE DEF f
<1>6. /\ peer' \in [Sock -> Remote] /\ ~peer'[f].in
      /\ \A g \in Sock : g # f => peer'[g] = peer[g]
  BY <1>1, <1>2, <1>4 DEF Typed, Remote
<1>7. Agree(fds, port_clients, fd_most_tail, ctl, peer')
  BY <1>1, <1>6, PeerAgree
<1>8. Fresh(fds, served \cup {at}, peer')
  BY <1>3, <1>5, <1>6 DEF Fresh
<1>9. Typed(fds, port_clients, fd_most_tail, ctl, peer')
  BY <1>1, <1>6 DEF Typed
<1>10. GoesOn(fds)
  BY <1>1, <1>4, <1>7, <1>8, <1>9 DEF GoesOn
<1> QED
  BY <1>1, <1>2, <1>4, <1>10, ContinueInv

\* The last step of a transfer, and a failed call.
LEMMA FinishInv ==
  ASSUME Inv, at # AtPoll, fds[at].fd \in Sock, Finish \/ GiveUp, UNCHANGED <<fd_most_tail, pipe>>
  PROVE  Inv'
<1>1. Here \in Index /\ port_clients[Here].sock # None /\ port_clients[Here].state # "NEW_CLIENT"
  BY HereIs
<1>2. CloseConnection(Here) /\ Told(Here)
  BY DEF Finish, GiveUp, Told
<1>3. PipeKept(Here) /\ UNCHANGED fd_most_tail
  BY Parts DEF PipeKept
<1> QED
  BY <1>1, <1>2, <1>3, CloseInv

LEMMA ReceiveEndInv ==
  ASSUME Inv, ReceiveEnd
  PROVE  Inv'
BY FinishInv DEF ReceiveEnd, ServeIn

LEMMA ReceiveFailsInv ==
  ASSUME Inv, ReceiveFails
  PROVE  Inv'
BY FinishInv DEF ReceiveFails, ServeIn

LEMMA SendInv ==
  ASSUME Inv, Send
  PROVE  Inv'
<1> USE Entries, Kinds
<1> DEFINE f == fds[at].fd
           k == Here
           u == [fds EXCEPT ![at].events = {"out"}]
<1>1. /\ Typed(fds, port_clients, fd_most_tail, ctl, peer)
      /\ Agree(fds, port_clients, fd_most_tail, ctl, peer)
      /\ ~Hurry /\ Types /\ pipe \in Seq(Index) /\ Len(pipe) <= MaxPipe /\ Heard(port_clients, pipe)
  BY Parts
<1>2. at # AtPoll /\ f \in Sock
  BY DEF Send, ServeOut
<1>3. at \in Slots /\ Fresh(fds, served, peer) /\ k \in Index /\ port_clients[k].sock = f
  BY <1>2, Parts, HereIs
<1>4. /\ Continue(u, at) /\ at \in Index \cup {-1}
      /\ fd_most_tail' = fd_most_tail /\ pipe' = pipe /\ ctl' = ctl
  BY <1>3 DEF Send, GoOn
<1>5. PICK r \in BOOLEAN : peer' = [peer EXCEPT ![f].room = r]
  BY DEF Send
<1>6. Rest \in 0 .. MaxChunks
  <2>1. port_clients[k].left \in 0 .. MaxChunks
    BY <1>1, <1>3, Fields
  <2> QED
    BY <2>1, PortAssumption DEF Rest
<1>7. port_clients' = [port_clients EXCEPT ![k].left = Rest]
  BY DEF Send
<1>8. /\ u \in [Index -> Entry] /\ u[at].fd = fds[at].fd
      /\ \A j \in Index : j # at => u[j] = fds[j]
  BY <1>1, <1>3 DEF Typed, Entry
<1>9. \A j \in Slots : j # at => fds[j].fd # f
  BY <1>2, OtherEntries
<1> HIDE DEF f, k, u
<1>10. /\ peer' \in [Sock -> Remote]
       /\ \A g \in Sock : peer'[g].in = peer[g].in /\ (g # f => peer'[g] = peer[g])
  BY <1>1, <1>2, <1>5 DEF Typed, Remote
<1>11. /\ port_clients' \in [Index -> PortData]
       /\ \A j \in Index :
            /\ port_clients'[j].addr = port_clients[j].addr /\ port_clients'[j].sock = port_clients[j].sock
            /\ port_clients'[j].nfds = port_clients[j].nfds
            /\ port_clients'[j].state = port_clients[j].state /\ port_clients'[j].ctrl = port_clients[j].ctrl
  <2>1. port_clients \in [Index -> PortData]
    BY <1>1 DEF Typed
  <2> QED
    BY <1>3, <1>6, <1>7, <2>1 DEF PortData
<1>12. Agree(u, port_clients', fd_most_tail, ctl, peer')
  <2>1. SameFd(fds, u) /\ PipeEntry(u)
    BY <1>1, <1>3, <1>8 DEF SameFd, PipeEntry, Agree
  <2>2. Agree(u, port_clients, fd_most_tail, ctl, peer)
    BY <1>1, <2>1, SameFdAgree
  <2>3. Agree(u, port_clients, fd_most_tail, ctl, peer')
    BY <1>10, <2>2, PeerAgree
  <2> QED
    BY <1>11, <2>3, LeftAgree
<1>13. Fresh(u, served \cup {at}, peer')
  BY <1>3, <1>8, <1>9, <1>10 DEF Fresh
<1>14. Typed(u, port_clients', fd_most_tail, ctl, peer')
  BY <1>1, <1>8, <1>10, <1>11 DEF Typed
<1>15. Heard(port_clients', pipe)
  BY <1>1, <1>11 DEF Heard
<1>16. GoesOn(u)
  BY <1>1, <1>4, <1>12, <1>13, <1>14, <1>15 DEF GoesOn
<1> QED
  BY <1>1, <1>2, <1>4, <1>16, ContinueInv

LEMMA SendLastInv ==
  ASSUME Inv, SendLast
  PROVE  Inv'
BY FinishInv DEF SendLast, ServeOut

LEMMA SendFailsInv ==
  ASSUME Inv, SendFails
  PROVE  Inv'
BY FinishInv DEF SendFails, ServeOut

LEMMA ServeInv ==
  ASSUME Inv, Serve
  PROVE  Inv'
BY ReadEmptyInv, ReadNewInv, ReadNewFullInv, ReadJobInv, ReadQuitInv, ReceiveInv,
   ReceiveEndInv, ReceiveFailsInv, SendInv, SendLastInv, SendFailsInv DEF Serve

\* A new pass.
LEMMA PollInv ==
  ASSUME Inv, Poll
  PROVE  Inv'
<1> USE Entries, Kinds
<1>1. /\ Typed(fds, port_clients, fd_most_tail, ctl, peer)
      /\ Agree(fds, port_clients, fd_most_tail, ctl, peer)
      /\ ~Hurry /\ Types /\ Heard(port_clients, pipe)
  BY Parts
<1>2. /\ port_clients' = port_clients /\ fd_most_tail' = fd_most_tail /\ pipe' = pipe
      /\ served' = served /\ ctl' = ctl /\ peer' = peer
      /\ at' = Turn(fds', -1) /\ at' # AtPoll
  BY DEF Poll
<1>3. fds' = [j \in Index |-> [fds[j] EXCEPT !.revents = IF j < fd_most_tail THEN Reported(fds[j]) ELSE {}]]
  BY DEF Poll
<1>4. \A j \in Index : /\ Reported(fds[j]) \subseteq fds[j].events
                       /\ fds[j].events \in SUBSET {"in", "out"} /\ fds[j] \in Entry
  BY <1>1 DEF Reported, Typed, Entry
<1>5. /\ fds' \in [Index -> Entry]
      /\ \A j \in Index : fds'[j].fd = fds[j].fd /\ fds'[j].events = fds[j].events
                          /\ fds'[j].revents \subseteq Reported(fds[j])
  <2> DEFINE W(j) == [fds[j] EXCEPT !.revents = IF j < fd_most_tail THEN Reported(fds[j]) ELSE {}]
  <2>1. ASSUME NEW j \in Index
        PROVE  /\ W(j) \in Entry /\ W(j).fd = fds[j].fd /\ W(j).events = fds[j].events
               /\ W(j).revents \subseteq Reported(fds[j])
    BY <1>4 DEF Entry
  <2>2. fds' = [j \in Index |-> W(j)]
    BY <1>3
  <2> HIDE DEF W
  <2>3. \A j \in Index : fds'[j] = W(j)
    BY <2>2
  <2>4. fds' \in [Index -> Entry]
    BY <2>1, <2>2
  <2> QED
    BY <2>1, <2>3, <2>4
<1>6. at' \in Index /\ fds'[at'].revents # {}
  <2> DEFINE ready == {j \in Index : j > -1 /\ fds'[j].revents # {}}
  <2>1. at' = IF ready = {} THEN AtPoll ELSE Min(ready)
    BY <1>2 DEF Turn
  <2>2. ready \in SUBSET Nat /\ ready # {}
    BY <1>2, <2>1
  <2>3. Min(ready) \in ready
    BY <2>2, MinIs
  <2> QED
    BY <2>1, <2>2, <2>3
<1>7. Types'
  BY <1>1, <1>2, <1>5, <1>6 DEF Types, AtPoll
<1>8. Agree(fds', port_clients', fd_most_tail', ctl', peer')
  <2>1. SameFd(fds, fds') /\ PipeEntry(fds')
    BY <1>1, <1>5 DEF SameFd, PipeEntry, Agree
  <2> QED
    BY <1>1, <1>2, <2>1, SameFdAgree
<1>9. Fresh(fds', served, peer)
  <2> SUFFICES ASSUME NEW i \in Slots
        PROVE  /\ fds'[i].fd \in Sock /\ "in" \in fds'[i].revents =>
                    peer[fds'[i].fd].net = "gone" \/ peer[fds'[i].fd].in
               /\ fds'[i].fd \in Sock /\ "out" \in fds'[i].revents =>
                    peer[fds'[i].fd].net = "gone" \/ (peer[fds'[i].fd].net = "up" /\ peer[fds'[i].fd].room)
    BY DEF Fresh
  <2>1. \A x \in fds'[i].revents : fds[i].fd \in (IF x = "in" THEN Readable ELSE Writable)
    BY <1>5 DEF Reported
  <2>2. "in" \in fds'[i].revents => fds[i].fd \in Readable
    BY <2>1
  <2>3. "out" \in fds'[i].revents => fds[i].fd \in Writable
    BY <2>1
  <2> QED
    BY <1>5, <2>2, <2>3 DEF Readable, Writable
<1>10. PassInv'
  BY <1>2, <1>6, <1>9 DEF PassInv
<1> QED
  BY <1>1, <1>2, <1>7, <1>8, <1>10 DEF Inv

-----------------------------------------------------------------------------
(* The steps of the main thread and of the remote ends. *)

\* A step outside the pass that takes nothing back from what poll reported.
Outside ==
  /\ UNCHANGED <<table, pass>>
  /\ Typed(fds, port_clients', fd_most_tail, ctl', peer')
  /\ Agree(fds, port_clients', fd_most_tail, ctl', peer')
  /\ \A f \in Sock :
       /\ peer[f].net = "gone" => peer'[f].net = "gone"
       /\ peer[f].in => peer'[f].in
       /\ (peer[f].net = "up" /\ peer[f].room) =>
            (peer'[f].net = "gone" \/ (peer'[f].net = "up" /\ peer'[f].room))
  /\ pipe' \in Seq(Index) /\ Len(pipe') <= MaxPipe /\ Heard(port_clients', pipe')

LEMMA OutsideInv ==
  ASSUME Inv, Outside
  PROVE  Inv'
<1>1. fds' = fds /\ fd_most_tail' = fd_most_tail /\ at' = at /\ served' = served
  BY DEF Outside, table, pass
<1>2. Types'
  BY <1>1 DEF Outside, Typed, Types, Inv
<1>3. Agree(fds', port_clients', fd_most_tail', ctl', peer') /\ Heard(port_clients', pipe')
  BY <1>1 DEF Outside
<1>4. PassInv'
  <2>1. Fresh(fds, served, peer) => Fresh(fds, served, peer')
    BY DEF Outside, Fresh
  <2>2. at # AtPoll => Fresh(fds, served, peer) /\ fds[at].revents # {}
    BY DEF Inv, PassInv
  <2> QED
    BY <1>1, <2>1, <2>2 DEF PassInv, AtPoll
<1> QED
  BY <1>2, <1>3, <1>4 DEF Inv

\* A message fits in, and those before it stay.
LEMMA TellIs ==
  ASSUME Inv, NEW s \in Session, Ready(s), NEW k \in Index, Tell(k)
  PROVE  /\ pipe' \in Seq(Index) /\ Len(pipe') <= MaxPipe /\ InPipe(pipe', k)
         /\ \A j \in Index : InPipe(pipe, j) => InPipe(pipe', j)
<1>1. pipe \in Seq(Index) /\ Len(pipe) < MaxPipe /\ pipe' = Append(pipe, k)
  BY Parts DEF Ready, Tell
<1>2. /\ Append(pipe, k) \in Seq(Index) /\ Len(Append(pipe, k)) = Len(pipe) + 1
      /\ InPipe(Append(pipe, k), k)
      /\ \A j \in Index : InPipe(pipe, j) => InPipe(Append(pipe, k), j)
  BY <1>1, Appended
<1>3. Len(pipe) \in Nat /\ MaxPipe \in Nat
  BY <1>1, PortAssumption
<1> QED
  BY <1>1, <1>2, <1>3

\* When a command comes, the thread has heard of the channel of its session, if
\* it has an entry for it.
LEMMA Noticed ==
  ASSUME Inv, NEW s \in Session, Ready(s), NEW k \in Index, port_clients[k].addr = ctl[s].addr
  PROVE  port_clients[k].state # "NEW_CLIENT" \/ port_clients[k].nfds = -1
<1>1. ~Hurry /\ Heard(port_clients, pipe)
  BY Parts
<1>2. \A n \in 1 .. Len(pipe) : pipe[n] = k => port_clients[k].state # "NEW_CLIENT"
  BY <1>1 DEF Ready
<1> QED
  BY <1>1, <1>2 DEF Heard, InPipe

\* The slot that FTP_PORT takes, and the slot an address finds.
LEMMA SlotIs ==
  ASSUME NEW S \in SUBSET Index, S # {}
  PROVE  Min(S) \in S
BY MinIs, Entries

LEMMA PortInv ==
  ASSUME Inv, NEW s \in Session, FTP_PORT(s)
  PROVE  Inv'
<1> USE Entries, Kinds
<1> DEFINE k == Min(Index \ Used)
           a == CHOOSE x \in FreeAddr : TRUE
           f == CHOOSE x \in FreeSock : TRUE
<1>1. /\ Typed(fds, port_clients, fd_most_tail, ctl, peer)
      /\ Agree(fds, port_clients, fd_most_tail, ctl, peer) /\ Heard(port_clients, pipe)
  BY Parts
<1>2. k \in Index /\ port_clients[k].addr = None
  <2>1. Index \ Used # {}
    BY DEF FTP_PORT, Used
  <2>2. k \in Index \ Used
    BY <2>1, SlotIs
  <2> QED
    BY <2>2 DEF Used
<1>3. /\ a \in Addr /\ \A j \in Index : port_clients[j].addr # a
      /\ \A v \in Session : ctl[v].addr # a
  <2>1. a \in FreeAddr
    BY DEF FTP_PORT
  <2>2. /\ a \in Addr /\ a \notin {port_clients[j].addr : j \in Used}
        /\ \A v \in Session : ctl[v].addr # a
    BY <2>1 DEF FreeAddr
  <2> HIDE DEF a
  <2>3. \A j \in Index : port_clients[j].addr = a => j \in Used
    BY <2>2 DEF Used
  <2>4. \A j \in Used : port_clients[j].addr # a
    BY <2>2
  <2> QED
    BY <2>2, <2>3, <2>4
<1>4. f \in Sock /\ \A j \in Index : port_clients[j].sock # f
  <2>1. f \in FreeSock
    BY DEF FTP_PORT
  <2> QED
    BY <2>1 DEF FreeSock, OpenSocks
<1>5. /\ port_clients' = [port_clients EXCEPT ![k] =
                            [@ EXCEPT !.addr = a, !.sock = f, !.left = 0, !.state = "NEW_CLIENT"]]
      /\ ctl' = [ctl EXCEPT ![s] = [addr |-> a, xfer |-> FALSE]]
      /\ Ready(s) /\ Tell(k)
  BY DEF FTP_PORT
<1>6. UNCHANGED <<table, pass, peer>>
  BY DEF FTP_PORT
<1> HIDE DEF k, a, f
<1>7. /\ port_clients' \in [Index -> PortData]
      /\ port_clients'[k].addr = a /\ port_clients'[k].state = "NEW_CLIENT"
      /\ port_clients'[k].sock = f /\ port_clients'[k].ctrl = port_clients[k].ctrl
      /\ \A j \in Index : j # k => port_clients'[j] = port_clients[j]
  <2>1. port_clients \in [Index -> PortData] /\ 0 \in 0 .. MaxChunks
    BY <1>1, PortAssumption DEF Typed
  <2> DEFINE r == [port_clients[k] EXCEPT !.addr = a, !.sock = f, !.left = 0, !.state = "NEW_CLIENT"]
  <2>2. port_clients' = [port_clients EXCEPT ![k] = r]
    BY <1>5
  <2>3. r \in PortData /\ r.addr = a /\ r.state = "NEW_CLIENT"
        /\ r.sock = f /\ r.ctrl = port_clients[k].ctrl
    <3>1. port_clients[k] \in PortData /\ a \in Addr /\ f \in Sock
      BY <1>2, <1>3, <1>4, <2>1
    <3> QED
      BY <2>1, <3>1 DEF PortData
  <2> HIDE DEF r
  <2> QED
    BY <1>2, <2>1, <2>2, <2>3
<1>8. /\ ctl' \in [Session -> Control] /\ ctl'[s].addr = a
      /\ \A v \in Session : v # s => ctl'[v] = ctl[v]
  BY <1>1, <1>3, <1>5 DEF Typed, Control
<1>9. ~ctl[s].xfer
  BY <1>5 DEF Ready
<1>10. Opened(s, k, a, f, port_clients, port_clients', ctl, ctl')
  BY <1>2, <1>3, <1>4, <1>7, <1>8, <1>9 DEF Opened
<1>11. Agree(fds, port_clients', fd_most_tail, ctl', peer)
  BY <1>1, <1>2, <1>3, <1>4, <1>10, OpenAgree
<1>12. Typed(fds, port_clients', fd_most_tail, ctl', peer)
  BY <1>1, <1>7, <1>8 DEF Typed
<1>13. /\ pipe' \in Seq(Index) /\ Len(pipe') <= MaxPipe /\ InPipe(pipe', k)
       /\ \A j \in Index : InPipe(pipe, j) => InPipe(pipe', j)
  BY <1>2, <1>5, TellIs
<1>14. Heard(port_clients', pipe')
  BY <1>1, <1>7, <1>13 DEF Heard
<1>15. Outside
  BY <1>6, <1>11, <1>12, <1>13, <1>14 DEF Outside
<1> QED
  BY <1>15, OutsideInv

\* A session without a slot at work forgets its address: 434, and the end of an abandoned transfer.
LEMMA ForgetInv ==
  ASSUME Inv, NEW s \in Session, \A k \in Index : port_clients[k].ctrl # s,
         ctl' = [ctl EXCEPT ![s] = NoPort],
         UNCHANGED <<port_clients, table, pipe, pass, peer>>
  PROVE  Inv'
<1>1. /\ Typed(fds, port_clients, fd_most_tail, ctl, peer)
      /\ Agree(fds, port_clients, fd_most_tail, ctl, peer)
      /\ pipe \in Seq(Index) /\ Len(pipe) <= MaxPipe /\ Heard(port_clients, pipe)
  BY Parts
<1>2. /\ ctl' \in [Session -> Control] /\ ctl'[s] = NoPort
      /\ \A v \in Session : v # s => ctl'[v] = ctl[v]
  BY <1>1 DEF Typed, Control, NoPort
<1>3. Agree(fds, port_clients, fd_most_tail, ctl', peer)
  BY <1>1, <1>2, ForgetAgree
<1>4. Typed(fds, port_clients, fd_most_tail, ctl', peer)
  BY <1>1, <1>2 DEF Typed
<1>5. Outside
  BY <1>1, <1>3, <1>4 DEF Outside
<1> QED
  BY <1>5, OutsideInv

LEMMA PortFailsInv ==
  ASSUME Inv, NEW s \in Session, FTP_PORT_Fails(s)
  PROVE  Inv'
<1>1. ~ctl[s].xfer
  BY DEF FTP_PORT_Fails, Ready
<1>2. \A k \in Index : port_clients[k].ctrl # s
  BY <1>1, Parts, IdleSession
<1> QED
  BY <1>2, ForgetInv DEF FTP_PORT_Fails

LEMMA AbandonInv ==
  ASSUME Inv, NEW s \in Session, Abandon(s)
  PROVE  Inv'
BY ForgetInv DEF Abandon

\* The slot a session's address finds.
LEMMA FoundIs ==
  ASSUME NEW s, Found(s) # {}
  PROVE  /\ Min(Found(s)) \in Index /\ port_clients[Min(Found(s))].addr # None
         /\ port_clients[Min(Found(s))].addr = ctl[s].addr
<1>1. Found(s) \in SUBSET Index
  BY DEF Found, Used
<1>2. Min(Found(s)) \in Found(s)
  BY <1>1, SlotIs
<1> QED
  BY <1>2 DEF Found, Used

\* What FTP_RETR and FTP_STOR do.
Job(s, state, left) ==
  /\ Ready(s) /\ ctl' = [ctl EXCEPT ![s].xfer = TRUE]
  /\ Found(s) = {} => UNCHANGED <<port_clients, pipe>>
  /\ Found(s) # {} =>
       /\ Tell(Min(Found(s)))
       /\ port_clients' = [port_clients EXCEPT ![Min(Found(s))] =
                             [@ EXCEPT !.state = state, !.ctrl = s, !.left = left]]
  /\ UNCHANGED <<table, pass, peer>>

LEMMA JobInv ==
  ASSUME Inv, NEW s \in Session, NEW state \in {"NEED_SEND", "NEED_RECV"}, NEW left \in 0 .. MaxChunks,
         Job(s, state, left)
  PROVE  Inv'
<1> DEFINE k == Min(Found(s))
<1>1. /\ Typed(fds, port_clients, fd_most_tail, ctl, peer)
      /\ Agree(fds, port_clients, fd_most_tail, ctl, peer)
      /\ pipe \in Seq(Index) /\ Len(pipe) <= MaxPipe /\ Heard(port_clients, pipe)
  BY Parts
<1>2. /\ Ready(s) /\ ~ctl[s].xfer /\ ctl' = [ctl EXCEPT ![s].xfer = TRUE]
      /\ UNCHANGED <<table, pass, peer>>
  BY DEF Job, Ready
<1>3. /\ ctl' \in [Session -> Control] /\ ctl'[s].xfer
      /\ \A v \in Session : ctl'[v].addr = ctl[v].addr /\ (ctl[v].xfer => ctl'[v].xfer)
  BY <1>1, <1>2 DEF Typed, Control
<1>4. Agree(fds, port_clients, fd_most_tail, ctl', peer)
  BY <1>1, <1>3, PromiseAgree
<1>5. Typed(fds, port_clients, fd_most_tail, ctl', peer)
  BY <1>1, <1>3 DEF Typed
<1>6. CASE Found(s) = {}
  <2>1. UNCHANGED <<port_clients, pipe>>
    BY <1>6 DEF Job
  <2>2. Outside
    BY <1>1, <1>2, <1>4, <1>5, <2>1 DEF Outside
  <2> QED
    BY <2>2, OutsideInv
<1>7. CASE Found(s) # {}
  <2>1. k \in Index /\ port_clients[k].addr # None /\ port_clients[k].addr = ctl[s].addr
    BY <1>7, FoundIs
  <2>2. port_clients[k].ctrl = None
    BY <1>1, <1>2, <2>1, IdleSession
  <2>3. /\ Tell(k)
        /\ port_clients' = [port_clients EXCEPT ![k] =
                              [@ EXCEPT !.state = state, !.ctrl = s, !.left = left]]
    BY <1>7 DEF Job
  <2> HIDE DEF k
  <2>4. /\ port_clients' \in [Index -> PortData]
        /\ port_clients'[k].addr = port_clients[k].addr /\ port_clients'[k].sock = port_clients[k].sock
        /\ port_clients'[k].nfds = port_clients[k].nfds
        /\ port_clients'[k].state = state /\ port_clients'[k].ctrl = s
        /\ \A j \in Index : j # k => port_clients'[j] = port_clients[j]
    <3>1. port_clients \in [Index -> PortData]
      BY <1>1 DEF Typed
    <3> QED
      BY <2>1, <2>3, <3>1 DEF PortData
  <2>5. ctl'[s].addr = port_clients[k].addr
    BY <1>3, <2>1
  <2>6. port_clients[k].state # "NEW_CLIENT" \/ port_clients[k].nfds = -1
    BY <1>2, <2>1, Noticed
  <2>7. Agree(fds, port_clients', fd_most_tail, ctl', peer)
    BY <1>3, <1>4, <1>5, <2>1, <2>2, <2>4, <2>5, <2>6, StateAgree
  <2>8. Typed(fds, port_clients', fd_most_tail, ctl', peer)
    BY <1>5, <2>4 DEF Typed
  <2>9. /\ pipe' \in Seq(Index) /\ Len(pipe') <= MaxPipe
        /\ \A j \in Index : InPipe(pipe, j) => InPipe(pipe', j)
    BY <1>2, <2>1, <2>3, TellIs
  <2>10. Heard(port_clients', pipe')
    BY <1>1, <2>4, <2>9 DEF Heard
  <2>11. Outside
    BY <1>2, <2>7, <2>8, <2>9, <2>10 DEF Outside
  <2> QED
    BY <2>11, OutsideInv
<1> QED
  BY <1>6, <1>7

\* The commands that give a slot a job.
LEMMA Jobs ==
  ASSUME NEW s \in Session
  PROVE  /\ FTP_RETR(s) => \E left \in 0 .. MaxChunks : Job(s, "NEED_SEND", left)
         /\ FTP_STOR(s) => \E left \in 0 .. MaxChunks : Job(s, "NEED_RECV", left)
<1>0. 0 \in 0 .. MaxChunks
  BY PortAssumption
<1>1. ASSUME FTP_RETR(s) PROVE \E left \in 0 .. MaxChunks : Job(s, "NEED_SEND", left)
  <2>1. CASE Found(s) = {}
    BY <1>0, <1>1, <2>1 DEF FTP_RETR, Job
  <2>2. CASE Found(s) # {}
    <3>1. PICK n \in 0 .. MaxChunks :
            port_clients' = [port_clients EXCEPT ![Min(Found(s))] =
              [@ EXCEPT !.state = "NEED_SEND", !.ctrl = s, !.left = n]]
      BY <1>1, <2>2 DEF FTP_RETR
    <3>2. Job(s, "NEED_SEND", n)
      BY <1>1, <2>2, <3>1 DEF FTP_RETR, Job
    <3> QED
      BY <3>2
  <2> QED
    BY <2>1, <2>2
<1>2. ASSUME FTP_STOR(s) PROVE Job(s, "NEED_RECV", 0)
  BY <1>2 DEF FTP_STOR, Job
<1> QED
  BY <1>0, <1>1, <1>2

LEMMA QuitInv ==
  ASSUME Inv, NEW s \in Session, FTP_QUIT(s)
  PROVE  Inv'
<1> DEFINE k == Min(Found(s))
<1>1. /\ Typed(fds, port_clients, fd_most_tail, ctl, peer)
      /\ Agree(fds, port_clients, fd_most_tail, ctl, peer) /\ Heard(port_clients, pipe)
  BY Parts
<1>2. /\ Ready(s) /\ ~ctl[s].xfer /\ ctl' = [ctl EXCEPT ![s] = NoPort]
      /\ UNCHANGED <<table, pass, peer>>
  BY DEF FTP_QUIT, Ready
<1>3. \A j \in Index : port_clients[j].ctrl # s
  BY <1>1, <1>2, IdleSession
<1>4. CASE Found(s) = {}
  <2>1. UNCHANGED <<port_clients, pipe>>
    BY <1>4 DEF FTP_QUIT
  <2> QED
    BY <1>2, <1>3, <2>1, ForgetInv
<1>5. CASE Found(s) # {}
  <2>1. k \in Index /\ port_clients[k].addr # None /\ port_clients[k].addr = ctl[s].addr
    BY <1>5, FoundIs
  <2>2. port_clients[k].ctrl = None
    BY <1>1, <1>2, <2>1, IdleSession
  <2>3. Tell(k) /\ port_clients' = [port_clients EXCEPT ![k].state = "NEED_QUIT"]
    BY <1>5 DEF FTP_QUIT
  <2> HIDE DEF k
  <2>4. /\ port_clients' \in [Index -> PortData]
        /\ port_clients'[k].addr = port_clients[k].addr /\ port_clients'[k].sock = port_clients[k].sock
        /\ port_clients'[k].nfds = port_clients[k].nfds
        /\ port_clients'[k].state = "NEED_QUIT" /\ port_clients'[k].ctrl = None
        /\ \A j \in Index : j # k => port_clients'[j] = port_clients[j]
    <3>1. port_clients \in [Index -> PortData]
      BY <1>1 DEF Typed
    <3> QED
      BY <2>1, <2>2, <2>3, <3>1 DEF PortData
  <2>5. port_clients[k].state # "NEW_CLIENT" \/ port_clients[k].nfds = -1
    BY <1>2, <2>1, Noticed
  <2>6. Agree(fds, port_clients', fd_most_tail, ctl, peer)
    BY <1>1, <2>1, <2>2, <2>4, <2>5, StateAgree
  <2>7. Typed(fds, port_clients', fd_most_tail, ctl, peer)
    BY <1>1, <2>4 DEF Typed
  <2>8. /\ ctl' \in [Session -> Control] /\ ctl'[s] = NoPort
        /\ \A v \in Session : v # s => ctl'[v] = ctl[v]
    BY <1>1, <1>2 DEF Typed, Control, NoPort
  <2>9. \A j \in Index : port_clients'[j].ctrl # s
    BY <1>3, <2>4, Kinds
  <2>10. Agree(fds, port_clients', fd_most_tail, ctl', peer)
    BY <2>6, <2>7, <2>8, <2>9, ForgetAgree
  <2>11. Typed(fds, port_clients', fd_most_tail, ctl', peer)
    BY <2>7, <2>8 DEF Typed
  <2>12. /\ pipe' \in Seq(Index) /\ Len(pipe') <= MaxPipe
         /\ \A j \in Index : InPipe(pipe, j) => InPipe(pipe', j)
    BY <1>2, <2>1, <2>3, TellIs
  <2>13. Heard(port_clients', pipe')
    BY <1>1, <2>4, <2>12 DEF Heard
  <2>14. Outside
    BY <1>2, <2>10, <2>11, <2>12, <2>13 DEF Outside
  <2> QED
    BY <2>14, OutsideInv
<1> QED
  BY <1>4, <1>5

LEMMA CommandInv ==
  ASSUME Inv, NEW s \in Session, Command(s)
  PROVE  Inv'
<1>1. CASE FTP_PORT(s)
  BY <1>1, PortInv
<1>2. CASE FTP_PORT_Fails(s)
  BY <1>2, PortFailsInv
<1>3. CASE FTP_RETR(s) \/ FTP_STOR(s)
  BY <1>3, Jobs, JobInv
<1>4. CASE FTP_QUIT(s)
  BY <1>4, QuitInv
<1> QED
  BY <1>1, <1>2, <1>3, <1>4 DEF Command

\* The other end answers, reads, writes or leaves.
LEMMA PeerInv ==
  ASSUME Inv, NEW f \in Sock, Settle(f) \/ Drain(f) \/ Upload(f) \/ Depart(f)
  PROVE  Inv'
<1>1. /\ Typed(fds, port_clients, fd_most_tail, ctl, peer)
      /\ Agree(fds, port_clients, fd_most_tail, ctl, peer)
      /\ pipe \in Seq(Index) /\ Len(pipe) <= MaxPipe /\ Heard(port_clients, pipe)
  BY Parts
<1>2. UNCHANGED <<port_clients, table, pipe, pass, ctl>>
  BY DEF Settle, Drain, Upload, Depart
<1>3. /\ peer' \in [Sock -> Remote]
      /\ \A g \in Sock :
           /\ peer[g].net = "gone" => peer'[g].net = "gone"
           /\ peer[g].in => peer'[g].in
           /\ (peer[g].net = "up" /\ peer[g].room) =>
                (peer'[g].net = "gone" \/ (peer'[g].net = "up" /\ peer'[g].room))
           /\ peer'[g].in => peer[g].in \/ (g = f /\ Uploads(f))
  <2>1. CASE Drain(f)
    BY <1>1, <2>1 DEF Typed, Remote, Drain
  <2>2. CASE Upload(f)
    BY <1>1, <2>2 DEF Typed, Remote, Upload
  <2>3. CASE Depart(f)
    BY <1>1, <2>3 DEF Typed, Remote, Depart
  <2>4. CASE Settle(f)
    <3>1. PICK n \in {"up", "gone"} : peer' = [peer EXCEPT ![f].net = n]
      BY <2>4 DEF Settle
    <3>2. peer[f].net = "syn"
      BY <2>4 DEF Settle
    <3> QED
      BY <1>1, <3>1, <3>2 DEF Typed, Remote
  <2> QED
    BY <2>1, <2>2, <2>3, <2>4
<1>4. Agree(fds, port_clients, fd_most_tail, ctl, peer')
  <2>1. \A g \in Sock : peer'[g].in =>
          peer[g].in \/ \E k \in Index : port_clients[k].sock = g /\ port_clients[k].state = "NEED_RECV"
    BY <1>3 DEF Uploads
  <2> QED
    BY <1>1, <2>1, PeerAgree
<1>5. Typed(fds, port_clients, fd_most_tail, ctl, peer')
  BY <1>1, <1>3 DEF Typed
<1>6. Outside
  BY <1>1, <1>2, <1>3, <1>4, <1>5 DEF Outside
<1> QED
  BY <1>6, OutsideInv

-----------------------------------------------------------------------------
(* The invariant. *)

LEMMA InitInv ==
  ASSUME ~Hurry, Init
  PROVE  Inv
<1> USE Entries, Kinds
<1>1. FreePort \in PortData /\ NoPort \in Control /\ NewPeer \in Remote /\ Empty \in Entry
  <2>1. 0 \in 0 .. MaxChunks
    BY PortAssumption
  <2>2. FreePort \in PortData
    BY <2>1 DEF FreePort, PortData
  <2>3. NoPort \in Control /\ NewPeer \in Remote /\ Empty \in Entry
    BY DEF NoPort, Control, NewPeer, Remote, Empty, Entry
  <2> QED
    BY <2>2, <2>3
<1>2. /\ \A k \in Index : port_clients[k] = FreePort
      /\ fds[0] = [fd |-> Pipe, events |-> {"in"}, revents |-> {}]
      /\ \A i \in Index : i # 0 => fds[i] = Empty
      /\ \A s \in Session : ctl[s] = NoPort
      /\ \A f \in Sock : peer[f] = NewPeer
  BY DEF Init
<1>3. /\ port_clients \in [Index -> PortData] /\ ctl \in [Session -> Control] /\ peer \in [Sock -> Remote]
      /\ pipe = <<>> /\ at = AtPoll /\ served = {} /\ fd_most_tail = 1
  BY <1>1 DEF Init
<1>4. fds \in [Index -> Entry]
  <2>1. [fd |-> Pipe, events |-> {"in"}, revents |-> {}] \in Entry
    BY DEF Entry
  <2> QED
    BY <1>1, <2>1 DEF Init
<1>5. Types
  <2>1. pipe \in Seq(Index) /\ Len(pipe) <= MaxPipe
    BY <1>3, PortAssumption
  <2>2. fd_most_tail \in 1 .. MaxClients /\ at \in 0 .. AtPoll
    BY <1>3, PortAssumption DEF AtPoll
  <2> QED
    BY <1>3, <1>4, <2>1, <2>2 DEF Types
<1>6. PipeEntry(fds) /\ Owned(fds, port_clients, fd_most_tail)
  BY <1>2 DEF PipeEntry, Owned, Empty
<1>7. \A k \in Index : /\ port_clients[k].addr = None /\ port_clients[k].sock = None
                       /\ port_clients[k].state = "IDLE" /\ port_clients[k].ctrl = None
  BY <1>2 DEF FreePort
<1>8. \A k \in Index : Slotted(fds, port_clients[k])
  BY <1>7 DEF Slotted
<1>9. Apart(port_clients)
  <2> HIDE <1>2
  <2> QED
    BY <1>7 DEF Apart
<1>10. Own(ctl)
  BY <1>2 DEF Own, NoPort
<1>11. Serving(port_clients, ctl, peer)
  BY <1>2, <1>7 DEF Serving, NewPeer
<1>12. PassInv /\ Heard(port_clients, pipe)
  BY <1>3, <1>7 DEF PassInv, Heard
<1> QED
  BY <1>5, <1>6, <1>8, <1>9, <1>10, <1>11, <1>12 DEF Inv, Agree

LEMMA NextInv ==
  ASSUME Inv, [Next]_vars
  PROVE  Inv'
<1>1. CASE Poll
  BY <1>1, PollInv
<1>2. CASE Serve
  BY <1>2, ServeInv
<1>3. ASSUME NEW s \in Session, Command(s) \/ Abandon(s) PROVE Inv'
  BY <1>3, CommandInv, AbandonInv
<1>4. CASE Peers
  <2>1. PICK f \in Sock : Settle(f) \/ Drain(f) \/ Upload(f) \/ Depart(f)
    BY <1>4 DEF Peers
  <2> QED
    BY <2>1, PeerInv
<1>5. CASE UNCHANGED vars
  <2>1. /\ port_clients' = port_clients /\ fds' = fds /\ fd_most_tail' = fd_most_tail /\ pipe' = pipe
        /\ at' = at /\ served' = served /\ ctl' = ctl /\ peer' = peer
    BY <1>5 DEF vars, table, pass
  <2>2. Types'
    BY <2>1 DEF Inv, Types
  <2>3. Agree(fds', port_clients', fd_most_tail', ctl', peer') /\ Heard(port_clients', pipe')
    BY <2>1, Parts
  <2>4. PassInv'
    BY <2>1 DEF Inv, PassInv, AtPoll
  <2> QED
    BY <2>2, <2>3, <2>4 DEF Inv
<1> QED
  BY <1>1, <1>2, <1>3, <1>4, <1>5 DEF Next

LEMMA InvHolds ==
  ASSUME ~Hurry
  PROVE  Spec => []Inv
<1>1. Init => Inv
  BY InitInv
<1>2. Inv /\ [Next]_vars => Inv'
  BY NextInv
<1> QED
  BY <1>1, <1>2, PTL DEF Spec

-----------------------------------------------------------------------------
(* The theorems: no command overtakes the NEW_CLIENT of its channel. *)

\* Only an address is forgotten.
LEMMA ForgottenAddr ==
  ASSUME Inv, replaced \subseteq Addr, [Next]_vars
  PROVE  replaced' \subseteq Addr
<1>1. ASSUME NEW s \in Session PROVE Forget(s) \subseteq Addr
  <2>1. Typed(fds, port_clients, fd_most_tail, ctl, peer)
    BY Parts
  <2> QED
    BY <2>1, Fields DEF Forget, Found, Used
<1>2. CASE Poll
  BY <1>2 DEF Poll
<1>3. CASE Serve
  BY <1>3 DEF Serve, ReadEmpty, ReadNew, ReadNewFull, ReadJob, ReadQuit, Receive, ReceiveEnd,
       ReceiveFails, Send, SendLast, SendFails, Finish, GiveUp, CloseConnection
<1>4. ASSUME NEW s \in Session, Command(s) \/ Abandon(s) PROVE replaced' \subseteq Addr
  BY <1>1, <1>4 DEF Command, FTP_PORT, FTP_PORT_Fails, FTP_RETR, FTP_STOR, FTP_QUIT, Abandon
<1>5. CASE Peers
  BY <1>5 DEF Peers, Settle, Drain, Upload, Depart
<1>6. CASE UNCHANGED vars
  BY <1>6 DEF vars
<1> QED
  BY <1>2, <1>3, <1>4, <1>5, <1>6 DEF Next

\* Every variable of the data thread has its type in every reachable state.
THEOREM PortTypes ==
  ASSUME ~Hurry
  PROVE  Spec => []TypeOK
<1>1. Init => replaced \subseteq Addr
  BY DEF Init
<1>2. Inv /\ replaced \subseteq Addr => TypeOK
  BY DEF Inv, Types, TypeOK
<1>3. Inv /\ replaced \subseteq Addr /\ [Next]_vars => (replaced \subseteq Addr)'
  BY ForgottenAddr
<1> QED
  BY <1>1, <1>2, <1>3, InvHolds, PTL DEF Spec

\* Tables of every size agree: the thread hears of new work, a socket it polls
\* is that of one slot, which names its entry, and poll looks at all of them.
THEOREM TablesStayAgreed ==
  ASSUME ~Hurry
  PROVE  Spec => []TablesAgree
<1>1. ASSUME Inv PROVE TablesAgree
  <2> USE Entries, Kinds
  <2>1. /\ Typed(fds, port_clients, fd_most_tail, ctl, peer)
        /\ Agree(fds, port_clients, fd_most_tail, ctl, peer)
        /\ PipeEntry(fds) /\ Owned(fds, port_clients, fd_most_tail)
    BY <1>1, Parts DEF Agree
  <2>2. ASSUME NEW i \in Index \ {0}, fds[i].fd # None
        PROVE  /\ i < fd_most_tail
               /\ \E k \in Index : port_clients[k].sock = fds[i].fd
               /\ \A k \in Index : port_clients[k].sock = fds[i].fd => port_clients[k].nfds = i
    <3>1. i \in Slots
      OBVIOUS
    <3>2. i < fd_most_tail /\ \E k \in Index : port_clients[k].sock = fds[i].fd
      BY <2>1, <2>2, <3>1 DEF Owned
    <3>3. \A k \in Index : port_clients[k].sock # None /\ fds[i].fd = port_clients[k].sock =>
                             port_clients[k].nfds = i
      BY <2>1, <3>1, OneEntry
    <3> QED
      BY <2>2, <3>2, <3>3
  <2> QED
    BY <2>1, <2>2 DEF TablesAgree, PipeEntry
<1> QED
  BY <1>1, InvHolds, PTL

\* Closing slot j leaves the jobs of the others alone.
LEMMA ClosedAlone ==
  ASSUME Inv, NEW j \in Index, CloseConnection(j), NEW k \in Index, k # j
  PROVE  port_clients'[k] = port_clients[k]
<1>1. port_clients \in [Index -> PortData]
  BY DEF Inv, Types
<1> QED
  BY <1>1 DEF CloseConnection

\* A transfer that the thread gives up has lost its remote end, or is at an
\* entry that this pass has served before.
LEMMA GivesUpLate ==
  ASSUME Inv, ReceiveFails \/ SendFails \/ (ReceiveEnd /\ GiveUp), NEW k \in Index, CutOff(k)
  PROVE  PeerGone(k) \/ at \in served
<1> USE Entries, Kinds
<1>1. at # AtPoll /\ fds[at].fd \in Sock
  BY DEF ReceiveFails, SendFails, ReceiveEnd, ServeIn, ServeOut
<1>2. /\ at \in Slots /\ Here \in Index /\ port_clients[Here].sock = fds[at].fd
      /\ \A j \in Index : port_clients[j].sock = fds[at].fd => j = Here
  BY <1>1, HereIs
<1>3. /\ Fresh(fds, served, peer) /\ fds[at].revents # {}
      /\ Serving(port_clients, ctl, peer) /\ Typed(fds, port_clients, fd_most_tail, ctl, peer)
  BY <1>1, Parts DEF Agree
<1>4. CloseConnection(Here)
  BY DEF ReceiveFails, SendFails, GiveUp
<1>5. k = Here /\ port_clients[Here].ctrl # None
  <2>1. port_clients[k].ctrl # None /\ port_clients'[k].ctrl = None
    BY DEF CutOff
  <2> QED
    BY <1>2, <1>4, <2>1, ClosedAlone
<1>6. SUFFICES ASSUME at \notin served PROVE There.net = "gone"
  BY <1>2, <1>5 DEF There, PeerGone
<1>7. at \in Slots \ served /\ There = peer[fds[at].fd]
  BY <1>2, <1>6 DEF There
<1>8. /\ "in" \in fds[at].revents => There.net = "gone" \/ There.in
      /\ "out" \in fds[at].revents => There.net = "gone" \/ (There.net = "up" /\ There.room)
  BY <1>1, <1>3, <1>7 DEF Fresh
<1>9. There.in => Receiving
  BY <1>1, <1>2, <1>3 DEF Serving, There, Receiving
<1>10. CASE ReceiveFails
  BY <1>8, <1>9, <1>10 DEF ReceiveFails, ServeIn
<1>11. CASE SendFails
  <2>1. "in" \notin fds[at].revents /\ fds[at].revents \in SUBSET {"in", "out"}
    BY <1>2, <1>3, <1>11 DEF SendFails, ServeOut, Typed, Entry
  <2>2. "out" \in fds[at].revents
    BY <1>3, <2>1
  <2> QED
    BY <1>8, <1>11, <2>2 DEF SendFails, CanSend
<1>12. CASE ReceiveEnd
  BY <1>12 DEF ReceiveEnd
<1> QED
  BY <1>10, <1>11, <1>12

\* A session that hears of the end of its transfer was not cut off.
LEMMA FinishTells ==
  ASSUME Inv, at # AtPoll, fds[at].fd \in Sock, Finish, NEW k \in Index
  PROVE  ~CutOff(k)
<1> SUFFICES ASSUME CutOff(k) PROVE FALSE
  OBVIOUS
<1>1. Here \in Index /\ CloseConnection(Here)
  BY HereIs DEF Finish
<1>2. port_clients[k].ctrl # None /\ port_clients'[k].ctrl = None /\ ctl'[port_clients[k].ctrl].xfer
  BY DEF CutOff
<1>3. k = Here
  BY <1>1, <1>2, ClosedAlone
<1>4. port_clients[Here].ctrl \in Session
  BY <1>1, <1>2, <1>3, Parts, Fields
<1>5. ctl' = [ctl EXCEPT ![port_clients[Here].ctrl] = NoPort] /\ ctl \in [Session -> Control]
  BY DEF Finish, Inv, Types
<1>6. ctl'[port_clients[Here].ctrl] = NoPort
  BY <1>4, <1>5
<1> QED
  BY <1>2, <1>3, <1>6 DEF NoPort

\* A step that keeps the session of every slot cuts nobody off.
LEMMA CtrlKept ==
  ASSUME NEW k \in Index, port_clients'[k].ctrl = port_clients[k].ctrl
  PROVE  ~CutOff(k)
BY DEF CutOff

\* A channel that its session has quit has no job.
LEMMA QuitCutsNobody ==
  ASSUME Inv, ReadQuit, NEW k \in Index
  PROVE  ~CutOff(k)
<1>1. Message \in Index /\ port_clients[Message].state = "NEED_QUIT" /\ CloseConnection(Message)
  BY PipeRead DEF ReadQuit
<1>2. port_clients[Message].ctrl = None
  BY <1>1, Parts DEF Agree, Serving
<1>3. CASE k = Message
  BY <1>2, <1>3 DEF CutOff
<1>4. CASE k # Message
  BY <1>1, <1>4, ClosedAlone, CtrlKept
<1> QED
  BY <1>3, <1>4

\* What the commands do to the session of a slot.
LEMMA CommandCutsNobody ==
  ASSUME Inv, NEW s \in Session, Command(s), NEW k \in Index
  PROVE  ~CutOff(k)
<1>1. port_clients \in [Index -> PortData] /\ port_clients[k] \in PortData
  BY DEF Inv, Types
<1>2. CASE FTP_PORT(s)
  <2> DEFINE j == Min(Index \ Used)
             a == CHOOSE x \in FreeAddr : TRUE
             f == CHOOSE x \in FreeSock : TRUE
  <2>1. port_clients' = [port_clients EXCEPT ![j] =
          [@ EXCEPT !.addr = a, !.sock = f, !.left = 0, !.state = "NEW_CLIENT"]]
    BY <1>2 DEF FTP_PORT
  <2> HIDE DEF j, a, f
  <2>2. port_clients'[k].ctrl = port_clients[k].ctrl
    BY <1>1, <2>1 DEF PortData
  <2> QED
    BY <2>2, CtrlKept
<1>3. CASE FTP_PORT_Fails(s)
  BY <1>3, CtrlKept DEF FTP_PORT_Fails
<1>4. ASSUME NEW state, NEW left, Job(s, state, left) PROVE ~CutOff(k)
  <2>1. CASE Found(s) = {}
    <3>1. port_clients' = port_clients
      BY <1>4, <2>1 DEF Job
    <3> QED
      BY <3>1, CtrlKept
  <2>2. CASE Found(s) # {}
    <3> DEFINE j == Min(Found(s))
    <3>1. port_clients' = [port_clients EXCEPT ![j] = [@ EXCEPT !.state = state, !.ctrl = s, !.left = left]]
      BY <1>4, <2>2 DEF Job
    <3> HIDE DEF j
    <3>2. port_clients'[k].ctrl = port_clients[k].ctrl \/ port_clients'[k].ctrl = s
      BY <1>1, <3>1 DEF PortData
    <3>3. s # None
      BY Kinds
    <3> QED
      BY <3>2, <3>3 DEF CutOff
  <2> QED
    BY <2>1, <2>2
<1>5. CASE FTP_RETR(s) \/ FTP_STOR(s)
  BY <1>4, <1>5, Jobs
<1>6. CASE FTP_QUIT(s)
  <2>1. CASE Found(s) = {}
    <3>1. port_clients' = port_clients
      BY <1>6, <2>1 DEF FTP_QUIT
    <3> QED
      BY <3>1, CtrlKept
  <2>2. CASE Found(s) # {}
    <3> DEFINE j == Min(Found(s))
    <3>1. port_clients' = [port_clients EXCEPT ![j].state = "NEED_QUIT"]
      BY <1>6, <2>2 DEF FTP_QUIT
    <3> HIDE DEF j
    <3>2. port_clients'[k].ctrl = port_clients[k].ctrl
      BY <1>1, <3>1 DEF PortData
    <3> QED
      BY <3>2, CtrlKept
  <2> QED
    BY <2>1, <2>2
<1> QED
  BY <1>2, <1>3, <1>5, <1>6 DEF Command

\* A transfer whose data connection stands is broken off only in a pass that
\* has started again and serves its entry for the second time.
THEOREM TransfersKept ==
  ASSUME ~Hurry
  PROVE  Spec => TransferNotCut
<1>1. ASSUME Inv, [Next]_vars, NEW k \in Index, CutOff(k)
      PROVE  PeerGone(k) \/ at \in served
  <2>1. port_clients \in [Index -> PortData] /\ port_clients[k] \in PortData
    BY <1>1 DEF Inv, Types
  <2>2. port_clients'[k].ctrl # port_clients[k].ctrl
    BY <1>1, CtrlKept
  <2>3. ~Poll /\ ~ReadEmpty /\ ~ReadJob /\ ~Receive
    BY <2>2 DEF Poll, ReadEmpty, ReadJob, Receive
  <2>4. ~ReadNew
    <3> SUFFICES ASSUME ReadNew PROVE FALSE
      OBVIOUS
    <3>1. port_clients' = [port_clients EXCEPT ![Message].nfds = Min(Vacant), ![Message].state = "IDLE"]
      BY DEF ReadNew
    <3>2. port_clients'[k].ctrl = port_clients[k].ctrl
      BY <2>1, <3>1 DEF PortData
    <3> QED
      BY <2>2, <3>2
  <2>5. ~ReadNewFull
    <3> SUFFICES ASSUME ReadNewFull PROVE FALSE
      OBVIOUS
    <3>1. port_clients' = [port_clients EXCEPT ![Message].nfds = -1]
      BY DEF ReadNewFull
    <3>2. port_clients'[k].ctrl = port_clients[k].ctrl
      BY <2>1, <3>1 DEF PortData
    <3> QED
      BY <2>2, <3>2
  <2>6. ~Send
    <3> SUFFICES ASSUME Send PROVE FALSE
      OBVIOUS
    <3>1. port_clients' = [port_clients EXCEPT ![Here].left = Rest]
      BY DEF Send
    <3>2. port_clients'[k].ctrl = port_clients[k].ctrl
      BY <2>1, <3>1 DEF PortData
    <3> QED
      BY <2>2, <3>2
  <2>7. ~ReadQuit
    BY <1>1, QuitCutsNobody
  <2>8. CASE ReceiveFails \/ SendFails
    BY <1>1, <2>8, GivesUpLate
  <2>9. CASE ReceiveEnd
    <3>1. at # AtPoll /\ fds[at].fd \in Sock
      BY <2>9 DEF ReceiveEnd, ServeIn
    <3>2. GiveUp
      BY <1>1, <2>9, <3>1, FinishTells DEF ReceiveEnd
    <3> QED
      BY <1>1, <2>9, <3>2, GivesUpLate
  <2>10. ~SendLast
    <3> SUFFICES ASSUME SendLast PROVE FALSE
      OBVIOUS
    <3>1. at # AtPoll /\ fds[at].fd \in Sock /\ Finish
      BY DEF SendLast, ServeOut
    <3> QED
      BY <1>1, <3>1, FinishTells
  <2>11. ASSUME NEW s \in Session PROVE ~Command(s) /\ ~Abandon(s)
    BY <1>1, <2>2, CommandCutsNobody DEF Abandon
  <2>12. ~Peers
    BY <2>2 DEF Peers, Settle, Drain, Upload, Depart
  <2>13. ~(UNCHANGED vars)
    BY <2>2 DEF vars
  <2> QED
    BY <1>1, <2>3, <2>4, <2>5, <2>6, <2>7, <2>8, <2>9, <2>10, <2>11, <2>12, <2>13 DEF Next, Serve
<1>2. Inv /\ [Next]_vars =>
        [\A k \in Index : CutOff(k) => PeerGone(k) \/ at \in served]_vars
  BY <1>1
<1> QED
  BY <1>2, InvHolds, PTL DEF Spec, TransferNotCut
=============================================================================
