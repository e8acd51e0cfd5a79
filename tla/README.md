# A TLA+ model of FriendlyYoungZeroFTP

The repository is an FTP server in C (`src/server`), a client in C++ with a
headless and a Qt front end (`src/client`), and a small UDP exercise
(`src/udp`). This directory models the server, the part with threads, locks,
pipes and shared files, and the headless client that talks to it. Paths below are
relative to `src/`.

## Inventory

| Part | State it keeps | Operations | Talks to |
|---|---|---|---|
| Control listener, `server/src/listener.c` | `fds[]` of the main thread | one `poll` loop: accept, read the two pipes, recv and framing, send, close | calls `protocol_*`; reads `data_send_ctrl_pipe_fd`, `exit_fd` |
| Control protocol, `protocol.c` | `clients[]`: `net_state`, `net_lock`, `cmd_send`, receive buffer | `protocol_client_init/free/by_fd`, `protocol_on_recv`, `..._resp_by_state_machine`, `..._quit` | calls the handlers of `ftp.c`; writes `exit_fd` |
| FTP state machine, `ftp.c` | `ftp_state`, `cwd`, `data_type`, `conn_type`, `pasv_port` in `clients[]`; the tree under `service_root` | one handler per command | `pasv_*`/`port_*` to start transfers, `mkdir -p`, `rm -rf`, `ls -l` through the shell |
| Path functions, `filesystem.c` | none | join, backward, erase, allows, get_directory, tests of existence | the file system |
| Passive data channel, `pasv_channel.c` | `pasv_clients[]`, its own `fds[]` | `pasv_client_new`, `_send_set_rest`, `_send_data`, `_sendfile`, `_recvfile`, `_close_connection` (main thread); accept, receive, send, callback, close (data thread) | reads `ctrl_send_data_pipe_fd`, writes `data_send_ctrl_pipe_fd` and **into** `clients[]` |
| Active data channel, `port_channel.c` | `port_clients[]`, its own `fds[]` | the same with `connect` instead of `accept`; slots found by address | the same |
| Headless client, `client/src/ftpClientHeadless.cpp` | `sockCtrl`, `sockDataPort`, `pasvDataPort`, `transMode` | one blocking command at a time: send, read the reply, open the data connection, move the data, read the completion | the server |
| GUI client, logger, `main.c`, UDP exercise | - | - | - |

What is hard here:

* **A lock used as a token.** `net_lock` is locked by whoever composes a reply
  in `cmd_send` (main thread or data thread) and unlocked by the main thread
  after `send`. It is the only protection of `cmd_send`, and the main thread,
  which alone can release it, also waits for it.
* **Two locks in two orders.** The data thread waits for `net_lock` with the
  channel locked; the handlers of RETR, LIST and QUIT wait for the channel
  with `net_lock` locked.
* **Pointers in pipes.** Messages carry the address of a slot; what they mean
  is read from the slot when the message arrives, without a lock, and the slot
  may have been freed or used again.
* **A pass that starts again.** Each of the three threads has a table `fds[]` of
  twenty entries and goes over it after `poll`. Whenever it has closed something
  it sets `i = -1`, and goes over the same `revents` again, from the first entry,
  those it has already served included.
* **Two ideas of one mode.** `transMode` of the client and `conn_type` of the
  server change with different commands and on different failures.
* **A shared tree.** `RMD` is `rm -rf` and `STOR` truncates, while other
  sessions stand in the directory or transfer the file.
* **Paths as text.** A slash more or less decides what is the parent, what is
  inside the root and what PWD shows.

What makes each part correct: a command gets exactly one reply and a transfer
exactly one 150 and one completion, in this order, on the connection that
asked; no reply is stranded, lost or overwritten; whoever waits is served; the
server never waits for itself; the tables and the slots agree, so that every
descriptor belongs to somebody and is polled; a connection that stands is not
cut; client and server mean the same data connection; PWD, CWD and CDUP agree, and
sessions stay in the root (where the code has it: both depend on paths without
dots); a download, resumed or not, is the file.

## Modules

| Module | Models | Size of the question |
|---|---|---|
| `Transfer` | main thread x passive data thread x remote clients, over one transfer | interleavings, locks, lost messages |
| `FtpDialogue` | the promise: one session at a time is `away`, `wait`, `xfer` or `idle` and every wait ends | abstract specification |
| `TransferProofs` | the theorems about `Transfer`, the refinement of `FtpDialogue` included | every number of sessions, channels, ports; all hazards, or polite clients |
| `LeastNumber` | that sets of natural numbers have a least element, induction on finite sets, what `Min` returns | lemmas |
| `PathOps` | `filesystem.c` on paths as sequences of components | pure operators |
| `PathProofs` | what the path functions do to the directory a path means | every path |
| `FtpSession` | the seventeen handlers of `ftp.c` over the shared tree and file contents | long sequences of legal commands |
| `FtpSessionProofs` | the theorems about `FtpSession` | every root, argument, number of sessions and inodes |
| `Listener` | the main thread's table, slots and pass, with framing, over connections that come and go | restarts of a pass, full tables |
| `ListenerProofs` | the theorems about `Listener` | tables of every size, every number of connections |
| `PasvPoll` | the passive data thread's table: two entries per channel, accept, restarts, full tables | the same, and whether the thread survives |
| `PasvPollProofs` | the theorems about `PasvPoll` | tables of every size, every number of sessions and ports |
| `PortChannel` | the active channel: slots by address, connecting sockets, its table and pass | the same, and reclamation |
| `PortChannelProofs` | the theorems about `PortChannel` | the same |
| `FtpClient` | the headless client with its two modes, composed with the handlers | does the client stay in step with the server |
| `FtpClientProofs` | the theorems about `FtpClient`, the refinement included | every number of channels and ports |
| `MCTransfer`, `MCSession`, `MCListener`, `MCPasvPoll`, `MCPortChannel`, `MCFtpClient` | instances for TLC | - |

`Transfer` and `PasvPoll` look at the same data thread from two sides. `Transfer`
has every lock and program counter and lets the thread serve any one ready
descriptor; `PasvPoll` (and `Listener`, `PortChannel`) has the tables and the
order of a pass, and makes one action of what happens under a lock. Their
product is out of reach, and the hazards are separate: what goes wrong with
locks needs no table, and what goes wrong in a pass needs no second thread
inside a handler.

### Transfer

`clients`, `channels` are the two slot tables; `ctrlPipe`, `dataPipe`,
`exitPipe` the three pipes; `main` and `data` are program counters; `user` and
`peer` are the remote ends.

A critical section in which nothing blocks is one action. Where a thread can
wait in `pthread_mutex_lock` there is a program counter: `reply` (about to
lock `net_lock`), `hand` (about to lock the channel), `callback` (the data
thread, about to lock `net_lock`), `blocked` (the data thread at the lock of a
channel that `pasv_recvfile` left locked). `sent` splits `send` and the unlock
from the store of `IDLE` (`listener.c:225` and `:236`), and `new` splits the
read of `NEW_CLIENT` from the store of `IDLE` (`pasv_channel.c:378` and
`:385`), because the other thread can step in between.

An FTP command is `Recv` and its handler up to the first lock, then `Reply`,
`HandSend`/`HandRecv`/`HandRest`/`HandQuit` and `QuitStep` in the order of
`ftp.c`: RETR, LIST and QUIT reply first and then go to the channel, STOR and
REST the other way round. `CTRL` stands for all commands that only answer,
`RETR` for RETR and LIST.

What the peers may do is the constant `Hazard`: `{}` is the polite client, one
command at a time with the GUI's pause after 227 (`client/src/mainwindow.cpp:217`);
`hurry`, `pipeline`, `eager`, `abort`, `drop` lift one restriction each, and
`openfail` lets `open()` fail in `pasv_recvfile`. Two fields are ghosts:
`orphan` of a channel (the connection that asked has been closed) and `who` of
a data connection.

Bounds: `MaxChunks` chunks in a download (1 and 2: first, middle and last
chunk differ only in whether another follows), `MaxInbox` unread commands,
`MaxPipe` pointers in the pipes before the clients pause (the real pipes hold
thousands). Two sessions with two channels are enough for every pairwise
interference the code has: nothing in it relates three slots.

### FtpSession and PathOps

A path is the sequence of the texts between its slashes (`/srv/ftp/` is
`<<"srv", "ftp", "">>`), so a trailing or doubled slash is visible and `Real`
is what the operating system makes of it, `.` and `..` included; a path exists when
every directory on its way does (`Reach`). The handlers run in one thread, so
each is one action: state check, guards in the order of the code, effect,
reply code. Transfers go on in steps (`SendChunk`, `ReceiveChunk`, ...)
between the commands of all sessions. Files are names for inodes: the file of
a download is opened by name when its first chunk is sent and stays open
through `rm -rf`. `remote` is what the clients remember: the copy they hold
and how far an upload has come. They use it for REST, which takes any other offset
as well, one past the end included, and need not be followed by its transfer.

A transfer that the data thread gives up is `lost`: the name could not be opened
(a directory, a file that is gone), or the listing has no more memory to read. Its
client hears nothing and may break the connection.

Left out of the inputs: directories whose name begins with another's name and names
that end in two dots (`fs_directory_allows` and the search for `../` compare texts,
so that `/srv/ftp2` passes for a path inside `/srv/ftp`); symbolic links; USER and
PASS without an argument (`strcpy` from NULL, `ftp.c:17` and `:35`) and empty lines
(`strlen` of NULL, `protocol.c:83-85`), with all of which the server ends; negative
offsets of REST.

Bounds: `MaxDepth` components of what a client creates (the root and two levels
below it: the root, a child and a grandchild behave differently, deeper ones do
not); `MaxText` components in the text of `cwd`, which dots make longer than the way
it means; `MaxLen` chunks of a file (3 for the downloads, first, middle and last; 1
where the question is only whether a transfer meets its length: empty or not, cut or
not, started before the end, at it or past it; 0 where only names matter).

### Listener, PasvPoll, PortChannel

`fds` is the table, `at` the entry `i` of the pass (`MaxClients` while the thread
is in `poll`), `fd_most_tail` its end. `Poll` computes `revents` for every entry
below the tail, each other action serves the entry `at`, the first with something
in its `revents`, and leaves by `GoOn` (the next such entry) or by `Restart`
(`i = -1`). A socket that has been closed and a number that is used again are
visible, since entries hold socket numbers.

* `Listener`: `clients[k]` has what the loop reads (`sock_fd`, `nfds`,
  `net_state`, `net_lock`, the receive buffer). A line is one piece or two, the
  last of which carries its CRLF. `jobs` are slots with a transfer; `Complete` is
  the data thread's callback, which waits for `net_lock`.
* `PasvPoll`: a channel has the entry of its listening socket and, after
  `AcceptData`, one for the connection. `ReadNew`, `ReadJob`, `ReadQuit` are the
  pipe's message by the state of the slot it points to. `AcceptNobody` is `accept`
  returning -1, after which the thread returns: `alive`.
* `PortChannel`: one entry per channel, connecting or connected (`Settle`), and
  the lookup by the address of the last PORT. `Sends` is what the client of each
  session sends. PORT 0,0,0,0 is left out: a slot with the address 0 is free
  (`port_channel.c:99`), so the next PORT would take the slot of a socket that is
  still in the table.

In all three `POLLIN` goes before `POLLOUT`, and a call on a stale entry does
what the system call would do: `recv`, `splice`, `accept` and `sendfile` return
-1. A full socket (`room`) is what makes `sendfile` on a stale `POLLOUT` fail.

Ghosts: `served`, the entries the pass has been at, so that a property can say
"unless this entry is served for the second time", `twice` of `Listener`, which
remembers that it happened, and `replaced` of `PortChannel`, the addresses in a slot
whose session has sent another PORT since. They are read by properties only. With them
the properties say exactly what the restarts cost: without a second visit nothing
is lost; with it, see the divergences below.

Bounds: tables of 5, 4 and 3 entries, one or two of them free for a client to
come when it is full; `MaxArrivals` (3) connections, so that the third meets a
full table or a slot that has been used; two and three data sockets; downloads of
0 to 2 chunks; `MaxPipe` messages: two for the passive channels, so that two
announcements wait together, one for the active ones. `MaxShared` keeps the third
channel of `PortChannel` for a session that is alone: two sessions share two slots,
one in each, and a full table comes about with one of them. Larger instances hold
too, beyond the time of a regular run: `PortChannel` with two messages in the pipe
and downloads of one chunk (0.9 million states), and `PasvPoll` with one session and
three ports (1.4 million).

### FtpClient

`client.at` is where the one thread of the client blocks: `reply` and `final` in
`rxCtrlResponse`, `open` in `dataChannelInit`, `move` in the loop of `recv` or
`send`. `Heard` is what each command does with its reply. The server's side is
the handlers as far as they decide about replies and data connections (`FTP_PASV`,
`FTP_PORT`, `FTP_DATA`, `FTP_QUIT`) and the data threads as `Complete` and
`Abandon`: every transfer may fail without a word while its connection stands, and a
STOR whose file cannot be opened starts none. The server always reaches a port the
client listens at; a `connect` that fails after 200 would leave the client in
`accept`. A channel has a server end (`open`) and a connection (`conn`) that the
client may have accepted, closed, or reset by closing `sockDataPort`. RETR also
stands for LIST; CTRL for the commands that only read a reply.

`turn` tells the replies to one command from those to the command before it, and
the ghost `skipped` says that the client has left a transfer without reading its
completion, after which replies are off by one. `Forgotten` says that a completion
was promised and no transfer is left to send it. `KeepsDialogue` maps the pair to
`FtpDialogue`: the client is one of those `Transfer` is promised to serve.

Bounds: two channels and two listening ports, so that an old and a new one can be
confused; `MaxBehind` = 0, no command is sent while a reply is on its way (the
client has read all it waited for; only after `skipped` would it).

## Runs

| Run | Instance | Shows |
|---|---|---|
| `transfer_polite` | 2 sessions, 2 channels, 2 ports, no hazard | one reply per command, 226 after 150, nothing sent twice, nothing delivered to another connection, no channel shared, the main thread never waits for itself; no deadlock |
| `transfer_live` | 2 sessions, 1 channel, 1 port, fair | `Transfer` implements `FtpDialogue`, its fairness included |
| `transfer_hostile` | 1 session, 1 channel, every hazard | token, wake-up and mailbox invariants survive everything |
| `session_tree` | 2 sessions, `/srv/ftp/`, dots and slashes in arguments | root, PWD and CDUP under all orders of CWD, CDUP, MKD, RMD |
| `session_share` | 1 session downloads, 1 stores and removes; 2 inodes, two names | downloads are faithful with REST, broken connections, other uploads and RMD |
| `session_ends` | 1 session with all 17 commands, 1 that stores and removes, fair | nothing happens before the login; every announced transfer ends, but those that are lost or whose length cannot be met (`Doomed`) |
| `listener` | 3 connections on a table of 5 (3 are the thread's own), 3 arrivals | tables agree; nobody cut off, no reply twice, every line answered, the main thread not blocked, except after a second visit |
| `port` | 2 sessions, one fetches and one stores, 3 addresses, 3 sockets, table of 3, fair | tables agree; transfers end, are not broken off; the channel of the last PORT is reclaimed |
| `pasv` | 2 sessions, 2 ports, 2 messages in the pipe, table of 4, fair | tables agree; the thread stays; transfers end, are not broken off |
| `client` | 2 channels, 2 listening ports, lost control connection, fair | replies belong to their commands, both sides mean one connection, no command blocks unless its transfer fails silently, refinement of `FtpDialogue` |
| `transfer_hurry` | violation of `EveryCommandAnswered` | a transfer command right after 227 is lost |
| `pasv_downloads` | violation of `ThreadSurvives`, 2 sessions, 2 messages in the pipe | the end of one download while another client connects ends the data thread |

`CHECK_DEADLOCK FALSE` stands in `transfer_hostile` and `transfer_hurry`, where
the system really stops (threads waiting for each other, or a client that waits
for a reply that does not come), in `listener`, where all connections have come
and gone, in `port` and `pasv`, where clients may keep addresses or ports that
leave them none to announce (so in `pasv_downloads`), and in `client`, which ends. The
polite and session runs check deadlock.

Each property of a passing run comes with a mutant in `PROJECT.json`, an
operator of the same module with the fault written out (`Write_KeepsLock`,
`Erase_WithSlash`, ...), which the run refutes.

Fairness. `poll` is level-triggered and each pass of both loops serves every
ready descriptor, so reading a pipe, serving a control socket and serving a
data socket are strongly fair each: a descriptor that is ready again and again
is not passed over for ever. A thread inside a handler or a callback runs on
(weak fairness); a mutex that stays free is acquired. Of the clients only what
a transfer needs: who is in one connects to the data port and ends its upload.
No fairness is assumed for sending commands. In `Listener`, `PasvPoll` and
`PortChannel` the thread runs (weak fairness of poll and pass together, which is
one thread's progress and no more: the order within a pass is the model's); a
client that was promised a transfer connects and reads, an upload ends, and the
network answers a `connect`. In `FtpClient` the client's thread runs, handlers
run, and a transfer whose connection the client uses ends, with its completion or
without. In `FtpSession` the data threads
continue a transfer, and an upload ends.

Other divergences, seen while modelling and not kept as runs. Those marked with
an instance can be reproduced by changing the constant named.

Control connection:

* Two commands stuck together: a reply composed while a completion waits for
  POLLOUT makes the main thread wait for itself (`Transfer` with `Hazard =
  {"pipeline"}` refutes `ServerNotBlocked`, against `server/include/protocol.h:47`);
  and the second command of one `recv` waits for more input (`Listener` with
  `Batch = TRUE` refutes `EveryLineAnswered`).
* STOR starts its job before it composes 150: an upload that is over at once has
  the main thread wait for itself (`Hazard = {"eager"}`).
* Restarted passes of the listener: `recv` on an entry served before returns -1
  and closes a living connection; a stale POLLOUT sends a reply twice; the
  completion of a connection cut off this way reaches the next owner of its slot.
  With a full table each new connection restarts the pass.
* With four and more completions in the data pipe, that of a client that leaves may be
  read when its slot has a new owner, who is then sent a reply again (see the proofs of
  `Listener`).
* A control connection that ends during its transfer leaves a pointer to its slot
  behind (`Hazard = {"drop"}` refutes `NoMisdelivery`).

Data channels:

* A transfer that fails ends without a reply (`Hazard = {"abort"}` refutes
  `EveryCommandAnswered`, against `readme.md:35`). In `PasvPoll` and `PortChannel`
  it also happens to a download whose connection stands: another transfer ends in
  the same pass, and `sendfile` on the stale entry returns -1 with EAGAIN.
* Transfers that never end (`Doomed`): the offset never equals the length told with
  150 when another client has replaced the file by a shorter one, or when REST went
  past the end; RETR of a directory and of a file that is gone by then is answered
  150 and nothing else. The headless client blocks in `rxCtrlResponse` for ever after
  each of them (`Forgotten`; `readme.md:35` wants clients to handle such errors).
* STOR after REST opens with O_TRUNC and then seeks: what had been stored is a
  hole (`pasv_channel.c:259`, against `readme.md:27`).
* In `port_channel.c`, too, a command that overtakes the message of PORT is taken
  for it; a QUIT then empties entry 0, the pipe's (`PortChannel` with `Hurry =
  TRUE` refutes `TablesAgree`).
* A passive channel nobody has connected to outlives QUIT (`pasv_channel.c:386`);
  an active one does not, if it is that of the last PORT. After PORT, PORT, QUIT the
  first keeps its slot for ever, since `ftp.c:166` closes the one that the last
  address finds; the same goes for a PORT before one that fails, or before PASV
  (`ChannelReclaimed` without its exception for `replaced` is refuted). Sessions keep
  their port or address after the transfer.

Commands and client:

* `fs_directory_allows` is a test of a text prefix, and CWD, MKD and RMD, unlike RETR
  and STOR, do not look for `../`: `CWD ../..` passes it (`ftp.c:80-85`,
  `filesystem.c:37`) and the session is outside of `service_root`. After `CWD a/..`
  the path still ends in these components, and CDUP, which cuts one off, leads to `a`.
  `CwdInside` and `UpIsParent` therefore speak of paths without dots (`Named`), and
  the run `session_tree`, whose clients send `CWD ../..`, refutes both without that
  hypothesis.
* APPE is always answered 504, because `FTP_APPE` calls `FTP_STOR`, which insists
  on a line beginning with `STOR ` or `stor ` (`server/src/ftp.c:513`, against
  `readme.md:27`), and for the same reason a command in mixed case works unless it
  is RETR or STOR (`protocol.c:84`). With `-root /`, CDUP from `/a` is refused,
  since `fs_path_backward` leaves an empty string.
* The headless client: when the local file of RETR or STOR cannot be opened it
  returns without reading the completion; every reply after that is taken for the
  one to the next command. In PORT mode a RETR after that can wait in `accept` for
  ever.

## Proofs

`TransferProofs` proves, with no assumption but `ConstantsAssumption` (the
sentinel `None` is none of the slots, bounds are positive, hazards and
commands come from their sets), for any sets of sessions, channels and ports
and any behaviour of the peers:

* `TypeCorrect`: `Spec => []TypeOK`; the chunk counter of a channel stays
  natural although `SendData` decrements it.
* `TokenCorrect`: `Spec => []LockIsToken`; `net_lock` of an open connection is
  held exactly while `cmd_send` holds an unsent reply.
* `WakeupCorrect`: `Spec => []NoLostWakeup`; somebody will always request
  POLLOUT for it.
* `ReplyKept`: `Spec => ReplyNotOverwritten`.

The argument. `LockIsToken` needs only the types and the program counters (`CountersOK`): `Reply` and
`Callback` require the lock free and take it with the reply, `Write` releases
it with the reply, `CloseClient` clears both. `NoLostWakeup` is not: `Sent`
stores `IDLE` and drops POLLOUT after the lock is free, so one needs to know
that a reply found there was composed by the data thread and is still in its
pipe (`SentOK`); and the main thread may be inside a handler with its reply
composed and POLLOUT not requested yet, so one needs that `net_state` still
says `NEED_SEND` when it returns (`HandlerOK`), which holds because the token
keeps the data thread out. `TransferInv` is the conjunction; lemma `Inductive`
shows `Spec => []TransferInv` with one lemma per action and part.
`ReplyKept` follows from it step by step: a step that writes a reply requires
the lock free, hence no reply there.

With the hypothesis `Hazard = {}`, the polite clients of run `transfer_polite`,
and again for any sets of sessions, channels and ports:

* `OneReply`: `Spec => []OneReplyEach`.
* `CompletionLast`: `Spec => []CompletionAfter150`.
* `RepliesSentOnce`: `Spec => []NoRepeatedReply`.
* `CompletionsDelivered`: `Spec => []NoMisdelivery`.
* `ChannelsApart`: `Spec => []NoSharedChannel`.
* `PollLoopFree`: `Spec => []ServerNotBlocked`.
* `DialogueKept`: the initial state is one of `FtpDialogue` and every step is a step
  of it or a stutter: all of `ImplementsDialogue` but its fairness.

The hypothesis cannot go: with all hazards TLC refutes each of the six on two
sessions, two channels and two ports (some of the ways are under the divergences).
What a polite client does, waiting for its replies and staying until the completion,
is what the code relies on and checks nowhere.

None of these is inductive alone, and they need one another. A completion arrives
on the right connection (`JobsOK`) because a busy channel is owned by the session its
`ctrl` points to; ownership is by port (`PortsOK`), and a session keeps its port when
the transfer is over, so one needs what each client knows and has not used yet
(`KnowsOK`); a channel that quits belongs to nobody (`ChannelsOK`), or the session
that was to use it would wait for ever. That a session has one job at most follows
from the dialogue (`DialogOK`, `MainOK`): it says for each stage of a client where its
next reply is, and that 150 and the job come together although FTP_STOR composes 150
after the job and FTP_RETR before it. `FlagsOK` says that POLLOUT is requested once and
for an unsent reply; the exception is the moment between the `send` and the store of
`IDLE`, when the completion may be there already. `PoliteInv` is the conjunction with
`TransferInv`, whose token keeps the two threads out of each other's reply; lemma
`PoliteInductive` shows `Spec => []PoliteInv`, one lemma per action and part. TLC has
checked `Polite` in all states of `transfer_polite`. `DialogueKept` has a lemma for the
steps that a client hears something from (`Write`), for those it does something in
(`Accept`, `SendCmd`, `CloseClient`) and one for all the others, which say nothing
(`HandlersSayNothing`).

`ListenerProofs` proves from `ListenerAssumption` (the tables have more than the
three entries of the thread itself, the numbers of sockets are none of the
sentinels) for tables of any size and any set of connections:

* `TablesCorrect`: `Spec => []TablesAgree`, with no assumption on the clients
  and for passes that start again as often as they like.
* `ConnectionsKept`: `Spec => LiveConnectionKept`; the main thread closes a
  connection whose client is there only at an entry that the pass serves for the
  second time.
* `ListenerTypes`: `Spec => []TypeOK`, for a finite set of connections (the
  theorem's one hypothesis; `Cardinality` has no value otherwise). The types are
  part of `TablesInv`; the bound on what a client has on its way (`Lines`) needs
  that a slot without a client has an empty buffer, which `close_client_connection`
  sees to, and that no two slots have the same connection.

`TablesAgree` is not inductive. `Accept` takes the first entry without a
descriptor, and that its new `nfds` is below `fd_most_tail`, and `fd_most_tail`
not above `MAX_CLIENTS`, needs that nothing lies behind the tail (`Behind`): the
first vacant entry is then at most the tail itself. `ReadExitPipe` requests
POLLOUT through the slot it reads from the pipe, and an entry of the main thread
is not hit by it only because a slot that is about to quit is connected
(`Quitting`). `close_client_connection` clears the entry the slot points to, and
that no other slot loses its entry needs that the pointers go both ways (`Pointed`,
`Owned`) and that no two slots have one socket (`Apart`). `TablesInv` is the
conjunction with the types the code stores (`Typed`); what a branch of the pass has
to keep is stated once (`BranchKeeps`), since leaving an entry changes only
`revents`, and then there is one lemma per action. `ConnectionsKept` needs the pass
as well (`ReportInv`): what `poll` has reported of an entry not served yet is still
there to be read (`Unread`), because only the entry's own service takes it.

Four more theorems are about the replies, with `~Batch` (one command at a time, as
in run `listener`), and until an entry is served twice, as the properties say:

* `RepliesSentOnce`, `ServerRuns`: `SentOnce` and `[]ServerNotBlocked` for every
  behaviour in which no slot gets a new owner while a message about its last one is
  in a pipe (`FreshOwners`).
* `PatientClientsAnsweredOnce`, `PatientClientsNeverBlock`: the same two for clients
  that leave only when they have had their replies (`Patient`); no message outlives
  its owner then (`NoRemains`), so no word about slots is needed.

The hypotheses are needed. `ReadDataPipe` reads one message in a pass. From a start
in which four connected clients are in transfers (five sockets, a table of seven) TLC
refutes `SentOnce` in 25 states: the four completions wait, the last of the clients
leaves, a connection that finds the table full starts the pass again, the next one
gets the slot and its 220, and when the old message is read POLLOUT is requested for
it without a reply. Run `listener` has three sockets, for which the hypothesis need
not be stated.

`Replies` says of each slot where its reply is (`InTurn`): `net_lock` is held exactly
while `net_state` is not idle, POLLOUT is requested only with a reply and when no
message about the slot is under way, a message in the data pipe is of a slot in
`NEED_SEND` and one in the exit pipe of a slot in `NEED_QUIT`. For this to be
inductive one needs what the client may still hear (`Debt`): a client sends its next
line when nothing is due, so an unread line means that neither a reply nor a job is
left, and a job means that no line is. Then the pipes hold a slot once (`Once`), and
what `poll` has reported of an entry not served yet is still requested (`Wanted`);
that is where a second visit breaks it. There is one lemma per action and branch of
the pass, on the change of one slot. TLC has checked `twice \/ Replies` in the 515,223
states that run `listener`'s system has with `FreshOwners` as a constraint.

`PasvPollProofs` proves from `PasvAssumption` (a table has more entries than that
of the pipe, bounds are positive, ports, sockets and sentinels differ):

* `PollTypes`: `Spec => []TypeOK`; `fd_most_tail` stays within the table.
* `TablesStayAgreed`: `Spec => []TablesAgree`.
* `ThreadReturnsLate`: `Spec => []ThreadStays`; a failing `accept`, which ends the
  thread, needs a second visit.
* `TransfersKept`: `Spec => TransferNotCut`.

`Inv` has three parts. The table (`PipeEntry`, `Owned`, `Slotted`): a slot names its
entries and an entry in use has a slot; a slot that is still `NEW_CLIENT` has no
entry, or `ReadNew` would give it a second one. The numbers (`Apart`, `Dialled`,
`Serving`): no two slots share a port or a connection, a port is dialled once and by
the session that was told it, and a slot with a job belongs to a session that waits
for it; without them closing one channel might close the entry of another. The pass
(`PassInv`): what `poll` has reported of an entry holds until the pass has been there
(`Fresh`), since no other entry's service and no step of a peer takes it away. The
last two theorems are this part read at the step that fails.

`PortChannelProofs` proves the same of the active channel from `PortAssumption` and
`~Hurry`, that no command overtakes the message of PORT: with `Hurry`, TLC refutes
`TablesAgree` (see the divergences), so the theorems cannot do without it, and they
say nothing of a client that sends its command before the thread has read the pipe.

* `PortTypes`, `TablesStayAgreed`, `TransfersKept`, as above.

The invariant adds what the lookup by address needs: no two sessions announce the
same address (`Own`, which the model's choice of addresses gives), and a slot that is
`NEW_CLIENT` has its message in the pipe or its `nfds` is -1 (`Heard`, `InPipe`);
lemma `Noticed` concludes that the slot a command finds has been entered in the table,
unless the table was full. The ghost `replaced` is in none of it; that it holds
addresses (`ForgottenAddr`) is shown for `PortTypes` alone.

`PathProofs` and `FtpSessionProofs` prove from `SessionAssumption` (the root is not
empty, arguments and commands come from their sets) for every root and all arguments:

* `SessionTypes`: `Spec => []TypeOK`.
* `SessionsStayInside`: `Spec => []CwdInside`, which speaks of sessions that have gone
  a path without dots; for others it is false (see the divergences).
* `PwdLeadsBack`: `Spec => []PwdRoundTrip` for a root other than the single slash. For
  that one it is false: `fs_path_erase` takes the slash away and what PWD answers is
  taken for a relative path.
* `LoginComesFirst`: `Spec => []LoginFirst`.
* `DownloadsAreFaithful`: `Spec => []DownloadFaithful`.
* `UpLeadsToParent`: `Spec => UpIsParent`, again for paths without dots, under
  `NoDoubleSlash`: the root is not the
  single slash and neither it nor an argument has two slashes in a row. The invariant
  is that every `cwd` is of that form (`CleanDirs`). Both parts are needed, and TLC
  finds the counterexamples: after `CWD a//` CDUP only takes one slash away and stays
  where it is, and with `-root /` it is refused in `/a`. The arguments of run
  `session_tree` satisfy it.

`PathProofs` says what each function does to `Real`, the directory a path means:
`Join` goes on from there (`RealConcat`), `Backward` goes to the parent on a path
without dots, `Erase` undoes `Join` with the root, dots or not. `Real` is a recursive function over the length, so these
need induction, and the theorems of the library that offer it take an operator as a
parameter. `LeastNumber` gets it without: the strict order of the subsets of a finite
set is well founded, hence a set of numbers has a least element, hence a set that has
0 and with each number the next one is all of `Nat` (`SetInduction`); a lemma on paths
applies it to the set of lengths for which it holds.

`Inv` of `FtpSession` is one formula on the tree (`Tree`: finite, everything in a
directory that exists), one on the inodes (`Disk`: no two names for one, lengths
within bounds) and one for each session with its client (`Good`). `Outside` is what a
session may have before it has logged in. A download is a prefix of the file for
several reasons at once: the offset of the slot is what the client holds (`Offset`);
the inode was looked up under a name that still has it, or the client has been told
(`Faithful`); an upload writes to no inode that another name has (`Owns`), and everybody
with a copy of the file it replaces knows it (`Warned`). `Slotted` is there because the
code is reset with the job. `Tree` is what the file system gives, kept here because the
names of files must stay apart from those of directories; proving it for STOR takes the
tree as `mkdir -p` leaves it, not the one the command found, and for a path with dots
that `mkdir -p` makes every directory on its way (`MadeTree`).

`FtpClientProofs` proves from `ClientAssumption` (two listening ports or more, the
sentinel is none of the names), for a control connection that may be lost at any time:

* `ClientTypes`: `Spec => []TypeOK`.
* `RepliesBelong`: `Spec => []ReplyBelongs`.
* `TheSamePlace`: `Spec => []SamePlace`.
* `TheClientKeepsDialogue`: `Spec => KeepsDialogue`, initial state and every step: the
  safety part of a refinement of `FtpDialogue`, one lemma for the handlers, the user,
  the client's thread and the rest.

`Step`, which holds until `skipped`, says where the dialogue is (`Talk`): nothing is on
its way (`Quiet`), the command is (`Asked`), its reply is, with 150 perhaps the
completion behind it (`Answered1`), or the completion is due (`Completes`). None of it
is inductive without the server's debt: `OneJob` says that only the channel of the
transfer has a job, so that `Complete` runs only when it is owed. `Mode` relates
`transMode` and `conn_type` between transfers, and has exceptions exactly while the
reply to PASV or PORT is on its way; `Place` is what it becomes with 150.

Only model-checked:

* liveness, that of `ImplementsDialogue` included: fairness and ENABLED are beyond the prover;
* `SentOnce` and `ServerNotBlocked` of `Listener` without the hypotheses of their
  theorems, on the instance of run `listener`; on larger ones they are false.

## Plan

1. Done: `Transfer`, `FtpDialogue`, `PathOps`, `FtpSession`, `Listener`, `PasvPoll`,
   `PortChannel`, `FtpClient`, and the theorems about each of them.
2. `SendLoop`: offsets and lengths with their width, and the theorem that the
   loop sends each byte once when the file does not change.
3. `UdpEcho`.
4. Proofs: every safety property that a run checks is stated by a theorem. What is
   left is to weaken hypotheses: `Batch` clients in `ListenerProofs`, clients of the
   hazard groups one by one in `TransferProofs`, `Hurry` in `PortChannelProofs`.

## Not modelled

In the modelled parts: failing `socket`, `bind`, `setsockopt`, `poll` and `pipe`
at the start; a write to a pipe that is full (64 KiB hold 8192 pointers, and
there are twenty clients); `POLLERR` and `POLLHUP` alone, which a TCP socket does
not report without POLLIN or POLLOUT once it was connected; the split of
`close_connection` into its unlock and its memset; a second connection to one
passive port; two sessions that announce the same address; PORT 0,0,0,0.

Parts: `logger.c` (no state anybody reads), the parsing of the command line in
`main.c`, the Qt widgets, the UDP exercise in other languages (twenty lines each,
without state), and so far the UDP exercise in C.
