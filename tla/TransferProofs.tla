--------------------------- MODULE TransferProofs ---------------------------
(***************************************************************************)
(* Proofs about Transfer for every number of sessions, channels and ports. *)
(* For every set of hazards, whatever the clients do: the two threads use  *)
(* net_lock as a token and lose or overwrite no reply they composed.  For  *)
(* polite clients (Hazard = {}): every command gets its own replies, once, *)
(* in order and on its own connection, as FtpDialogue says.                *)
(***************************************************************************)
EXTENDS Transfer, FiniteSetTheorems, TLAPS

\* A thread inside a handler has a session, a channel or a code to handle.
CountersOK ==
  /\ main.at # "poll" => main.s \in Session
  /\ main.at = "hand" => main.c \in Channel
  /\ main.at \in {"reply", "hand"} => main.code # 0
  /\ data.at # "poll" => data.c \in Channel

\* Between send and the store of IDLE the reply in cmd_send can only be one
\* the data thread has just announced in its pipe.
SentOK ==
  main.at = "sent" /\ clients[main.s].cmdSend # 0 => In(main.s, dataPipe)

\* Inside the handler that composed it, a reply still shows in net_state.
HandlerOK ==
  /\ main.at = "quit" \/ (main.at = "hand" /\ main.cmd \in {"RETR", "QUIT"})
  /\ clients[main.s].open /\ clients[main.s].cmdSend # 0
  => clients[main.s].netState = "NEED_SEND"

\* The invariant that is preserved by every step.  LockIsToken keeps a second
\* thread from composing a reply over a pending one, which is what keeps
\* net_state as HandlerOK and the exit pipe's entry in NoLostWakeup need it.
TransferInv ==
  /\ TypeOK
  /\ CountersOK
  /\ LockIsToken
  /\ NoLostWakeup
  /\ SentOK
  /\ HandlerOK
-----------------------------------------------------------------------------
(* The records the steps build are records of their type.                  *)

LEMMA FreeTypes ==
  /\ FreeClient \in ClientData /\ FreeChannel \in PasvData /\ NoUser \in UserState
  /\ NoPeer \in PeerState /\ MainIdle \in MainState /\ DataIdle \in DataState
<1>1. FreeClient \in ClientData
  BY DEF FreeClient, ClientData, NetState, Code
<1>2. FreeChannel \in PasvData
  BY ConstantsAssumption DEF FreeChannel, PasvData, NetState
<1>3. NoUser \in UserState /\ NoPeer \in PeerState
  BY DEF NoUser, UserState, NoPeer, PeerState, ReplyKind
<1>4. MainIdle \in MainState /\ DataIdle \in DataState
  BY DEF MainIdle, MainState, DataIdle, DataState, Code
<1> QED
  BY <1>1, <1>2, <1>3, <1>4

LEMMA Values ==
  /\ {"IDLE", "NEW_CLIENT", "NEED_SEND", "NEED_RECV", "NEED_QUIT"} = NetState
  /\ "main" \in Thread \cup {Free} /\ "data" \in Thread \cup {Free} /\ Free \in Thread \cup {Free}
  /\ {0, 150, 200, 220, 221, 226, 227, 350, 434, 550} = Code
  /\ {"CTRL", "PASV", "REST", "RETR", "STOR", "QUIT"} = Cmd
BY DEF NetState, Thread, Code, Cmd

LEMMA OpenRecord ==
  ASSUME NEW r \in ClientData, NEW netState \in NetState, NEW netLock \in Thread \cup {Free},
         NEW cmdSend \in Code
  PROVE  [r EXCEPT !.open = TRUE, !.netState = netState, !.netLock = netLock,
                   !.cmdSend = cmdSend] \in ClientData
BY DEF ClientData

LEMMA PollFlags ==
  ASSUME NEW r \in ClientData
  PROVE  AfterHandler(r) \in ClientData /\ WantWrite(r) \in ClientData
BY DEF AfterHandler, WantWrite, ClientData, PollIn, PollOut

LEMMA HearRecord ==
  ASSUME NEW u \in UserState, NEW stage \in {"away", "wait", "xfer", "idle"},
         NEW asked \in Cmd \cup {"NONE"}, NEW heard \in ReplyKind, NEW gone \in BOOLEAN,
         NEW knows \in Port \cup {None}
  PROVE  [u EXCEPT !.stage = stage, !.asked = asked, !.heard = heard, !.gone = gone,
                   !.knows = knows] \in UserState
BY DEF UserState

LEMMA HearType ==
  ASSUME NEW u \in UserState, NEW code \in Code, NEW port \in Port \cup {None}
  PROVE  Hear(u, code, port) \in UserState
<1> DEFINE stage == NextStage(u, code)
           asked == IF NextStage(u, code) = "xfer" THEN u.asked ELSE "NONE"
           gone  == IF code = 221 THEN TRUE ELSE u.gone
           knows == IF code = 227 THEN port ELSE IF code \in {226, 434} THEN None ELSE u.knows
           heard == Kind(code)
<1>1. heard \in ReplyKind
  BY DEF Kind, ReplyKind, Code
<1>2. stage \in {"away", "wait", "xfer", "idle"}
  BY DEF NextStage
<1>3. /\ asked \in Cmd \cup {"NONE"}
      /\ gone \in BOOLEAN
      /\ knows \in Port \cup {None}
  BY DEF UserState
<1>4. Hear(u, code, port) = [u EXCEPT !.stage = stage, !.asked = asked, !.heard = heard,
                                     !.gone = gone, !.knows = knows]
  BY DEF Hear
<1> HIDE DEF stage, asked, gone, knows, heard
<1>5. [u EXCEPT !.stage = stage, !.asked = asked, !.heard = heard,
                !.gone = gone, !.knows = knows] \in UserState
  BY <1>1, <1>2, <1>3, HearRecord, Zenon
<1> QED
  BY <1>4, <1>5
-----------------------------------------------------------------------------
(* Every step keeps the types, and every thread that is inside a handler   *)
(* has what it needs there.                                                *)

LEMMA SlotsTyped ==
  ASSUME TypeOK
  PROVE  /\ \A s \in Session : clients[s] \in ClientData /\ user[s] \in UserState
         /\ \A c \in Channel : channels[c] \in PasvData /\ peer[c] \in PeerState
         /\ \A s \in Session : ChannelOf(s) \in Channel \cup {None}
BY DEF TypeOK, ChannelOf

LEMMA AcceptType ==
  ASSUME TypeOK, CountersOK, NEW s \in Session, Accept(s)
  PROVE  TypeOK' /\ CountersOK'
<1> DEFINE r == [FreeClient EXCEPT !.open = TRUE, !.netState = "NEED_SEND", !.netLock = "main",
                                   !.cmdSend = 220]
<1>1. AfterHandler(r) \in ClientData
  <2>1. r \in ClientData
    <3>1. /\ "NEED_SEND" \in NetState /\ "main" \in Thread \cup {Free} /\ 220 \in Code
          /\ FreeClient \in ClientData
      BY Values, FreeTypes
    <3> QED
      BY <3>1, OpenRecord, Zenon
  <2> QED
    BY <2>1, PollFlags
<1>2. clients' = [clients EXCEPT ![s] = AfterHandler(r)]
  BY DEF Accept
<1>3. [NoUser EXCEPT !.stage = "wait"] \in UserState
  BY FreeTypes DEF UserState
<1> HIDE DEF r
<1> QED
  BY <1>1, <1>2, <1>3 DEF Accept, TypeOK, CountersOK

LEMMA RecvType ==
  ASSUME TypeOK, NEW s \in Session, NEW cmd, Recv(s, cmd)
  PROVE  user' \in [Session -> UserState]
<1>1. user[s] \in UserState
  BY DEF TypeOK
<1>2. Tail(user[s].inbox) \in Seq(Cmd)
  BY <1>1 DEF Recv, UserState
<1>3. [user[s] EXCEPT !.inbox = Tail(@)] \in UserState
  BY <1>1, <1>2 DEF UserState
<1> QED
  BY <1>3 DEF Recv, TypeOK

LEMMA ThenType ==
  ASSUME TypeOK, NEW s \in Session, NEW cmd \in Cmd, NEW code \in Code \ {0},
         ThenReply(s, cmd, code) \/ ThenHand(s, cmd, code)
  PROVE  /\ main' \in MainState
         /\ main'.s \in Session /\ main'.code # 0
         /\ main'.at = "hand" => main'.c \in Channel
         /\ main'.at \in {"reply", "hand"}
BY SlotsTyped DEF ThenReply, ThenHand, MainState

LEMMA HandleType ==
  ASSUME TypeOK, CountersOK, NEW s \in Session, Handle(s)
  PROVE  TypeOK' /\ CountersOK'
<1> USE DEF FTP_CTRL, FTP_PASV, FTP_PASV_Fails, FTP_REST, FTP_RETR, FTP_STOR, FTP_QUIT
<1>0. \E cmd \in Cmd : Recv(s, cmd)
  BY Values, Zenon DEF Handle, Cmd
<1>1. user' \in [Session -> UserState]
  BY <1>0, RecvType
<1>2. \E cmd \in Cmd, code \in Code \ {0} : ThenReply(s, cmd, code) \/ ThenHand(s, cmd, code)
  <2>1. CASE FTP_CTRL(s) \/ FTP_QUIT(s)
    BY <2>1 DEF Cmd, Code
  <2>4. CASE FTP_PASV(s)
    <3>1. ThenReply(s, "PASV", 227)
      BY <2>4, Zenon
    <3> QED
      BY <3>1 DEF Cmd, Code
  <2>5. CASE FTP_PASV_Fails(s)
    <3>1. ThenReply(s, "PASV", 434)
      BY <2>5, Zenon
    <3> QED
      BY <3>1 DEF Cmd, Code
  <2>2. CASE FTP_RETR(s)
    BY <2>2 DEF Cmd, Code
  <2>3. CASE FTP_REST(s) \/ FTP_STOR(s)
    BY <2>3 DEF Cmd, Code
  <2> QED
    BY <2>1, <2>2, <2>3, <2>4, <2>5, Zenon DEF Handle
<1>3. /\ main' \in MainState
      /\ main'.s \in Session /\ main'.code # 0
      /\ main'.at = "hand" => main'.c \in Channel
      /\ main'.at \in {"reply", "hand"}
  BY <1>2, ThenType
<1>4. UNCHANGED <<dataPipe, exitPipe, data, peer>>
  BY <1>0 DEF Recv
<1>5. CASE FTP_PASV(s)
  <2>1. PICK c \in Channel, p \in Port \ UsedPorts :
          /\ channels' = [channels EXCEPT ![c] = [@ EXCEPT !.port = p, !.state = "NEW_CLIENT",
                                                          !.left = 0, !.wpipe = FALSE, !.lock = Free]]
          /\ ctrlPipe' = Append(ctrlPipe, c)
          /\ clients' = [clients EXCEPT ![s] = [@ EXCEPT !.connType = "PASV", !.pasvPort = p]]
    BY <1>5, Zenon
  <2>2. [clients[s] EXCEPT !.connType = "PASV", !.pasvPort = p] \in ClientData
    BY SlotsTyped DEF ClientData
  <2>3. [channels[c] EXCEPT !.port = p, !.state = "NEW_CLIENT", !.left = 0, !.wpipe = FALSE,
                            !.lock = Free] \in PasvData
    <3>1. /\ channels[c] \in PasvData /\ 0 \in 0..MaxChunks /\ "NEW_CLIENT" \in NetState
          /\ Free \in Thread \cup {Free}
      BY SlotsTyped, Values, ConstantsAssumption
    <3> QED
      BY <3>1 DEF PasvData
  <2> QED
    BY <1>1, <1>3, <1>4, <2>1, <2>2, <2>3 DEF TypeOK, CountersOK
<1>6. CASE FTP_PASV_Fails(s)
  <2>1. PICK p \in UsedPorts \cup {clients[s].pasvPort} :
          clients' = [clients EXCEPT ![s] = [@ EXCEPT !.connType = "NOT_SPECIFIED", !.pasvPort = p]]
    BY <1>6, Zenon
  <2>2. p \in Port \cup {None}
    BY SlotsTyped DEF UsedPorts, ClientData, PasvData
  <2>3. [clients[s] EXCEPT !.connType = "NOT_SPECIFIED", !.pasvPort = p] \in ClientData
    BY <2>2, SlotsTyped DEF ClientData
  <2> QED
    BY <1>1, <1>3, <1>4, <1>6, <2>1, <2>3 DEF TypeOK, CountersOK
<1>7. CASE ~FTP_PASV(s) /\ ~FTP_PASV_Fails(s)
  <2>1. UNCHANGED <<clients, channels, ctrlPipe>>
    BY <1>7, Zenon DEF Handle
  <2> QED
    BY <1>1, <1>3, <1>4, <2>1 DEF TypeOK, CountersOK
<1> QED
  BY <1>5, <1>6, <1>7

LEMMA RespondType ==
  ASSUME TypeOK, NEW s \in Session, NEW code \in Code
  PROVE  Respond(s, code) \in ClientData
<1>1. clients[s] \in ClientData /\ "main" \in Thread \cup {Free} /\ "NEED_SEND" \in NetState
  BY SlotsTyped, Values
<1> QED
  BY <1>1 DEF Respond, ClientData

LEMMA ReturnType ==
  ASSUME TypeOK, CountersOK, main.at # "poll", NEW r \in ClientData, Return(r)
  PROVE  clients' \in [Session -> ClientData] /\ main' = MainIdle /\ main' \in MainState
<1>1. main.s \in Session /\ AfterHandler(r) \in ClientData
  BY PollFlags DEF CountersOK
<1> QED
  BY <1>1, FreeTypes DEF Return, TypeOK

LEMMA ReplyType ==
  ASSUME TypeOK, CountersOK, Reply
  PROVE  TypeOK' /\ CountersOK'
<1> DEFINE r == Respond(main.s, main.code)
           c == IF main.cmd = "QUIT" \/ (main.cmd = "RETR" /\ main.code = 150)
                THEN ChannelOf(main.s) ELSE None
<1>1. /\ main \in MainState /\ main.s \in Session
      /\ main.code \in Code \ {0} /\ main.at = "reply"
  BY DEF Reply, TypeOK, CountersOK, MainState
<1>2. r \in ClientData
  BY <1>1, RespondType
<1>3. c \in Channel \cup {None}
  BY <1>1, SlotsTyped
<1>4. UNCHANGED <<channels, ctrlPipe, dataPipe, exitPipe, data, user, peer>>
  BY DEF Reply
<1>5. CASE Return(r)
  BY <1>1, <1>2, <1>4, <1>5, ReturnType DEF TypeOK, CountersOK, MainIdle
<1>6. CASE /\ c # None \/ main.cmd = "QUIT"
           /\ clients' = [clients EXCEPT ![main.s] = r]
           /\ main' = [main EXCEPT !.at = IF c # None THEN "hand" ELSE "quit", !.c = c]
  <2> HIDE DEF r, c
  <2>1. main' \in MainState /\ main'.s = main.s /\ main'.at \in {"hand", "quit"}
        /\ main'.code = main.code
        /\ (main'.at = "hand" => main'.c \in Channel)
    BY <1>1, <1>3, <1>6 DEF MainState
  <2> QED
    BY <1>1, <1>2, <1>4, <1>6, <2>1 DEF TypeOK, CountersOK
<1> QED
  BY <1>5, <1>6, Zenon DEF Reply

LEMMA HandTypes ==
  ASSUME TypeOK, CountersOK, NEW job \in PasvData, Hand(job)
  PROVE  /\ channels' \in [Channel -> PasvData]
         /\ ctrlPipe' \in Seq(Channel)
         /\ UNCHANGED <<dataPipe, exitPipe, data, user, peer>>
         /\ main \in MainState /\ main.s \in Session /\ main.at = "hand"
<1>1. main \in MainState /\ main.s \in Session /\ main.at = "hand" /\ main.c \in Channel
  BY DEF Hand, TypeOK, CountersOK
<1>2. channels' \in [Channel -> PasvData] /\ ctrlPipe' \in Seq(Channel)
  <2>1. CASE channels' = [channels EXCEPT ![main.c] = job] /\ ctrlPipe' = Append(ctrlPipe, main.c)
    BY <1>1, <2>1 DEF TypeOK
  <2>2. CASE UNCHANGED <<channels, ctrlPipe>>
    BY <2>2 DEF TypeOK
  <2> QED
    BY <2>1, <2>2, Zenon DEF Hand
<1> QED
  BY <1>1, <1>2, Zenon DEF Hand

LEMMA JobType ==
  ASSUME TypeOK, CountersOK, main.at = "hand", NEW state \in NetState,
         NEW left \in 0..MaxChunks, NEW wpipe \in BOOLEAN
  PROVE  Job(state, left, wpipe) \in PasvData
<1>1. channels[main.c] \in PasvData /\ main.s \in Session
  BY SlotsTyped DEF CountersOK
<1> QED
  BY <1>1 DEF Job, PasvData

LEMMA HandSendType ==
  ASSUME TypeOK, CountersOK, HandSend
  PROVE  TypeOK' /\ CountersOK'
<1>1. PICK n \in 1..MaxChunks : Hand(Job("NEED_SEND", n, channels[main.c].wpipe))
  BY DEF HandSend
<1>2. main.at = "hand" /\ main.s \in Session /\ main.c \in Channel
  BY <1>1 DEF Hand, CountersOK
<1>3. n \in 0..MaxChunks /\ channels[main.c].wpipe \in BOOLEAN /\ "NEED_SEND" \in NetState
  BY <1>2, SlotsTyped, ConstantsAssumption, Values DEF PasvData
<1>4. Job("NEED_SEND", n, channels[main.c].wpipe) \in PasvData
  BY <1>2, <1>3, JobType
<1>5. /\ channels' \in [Channel -> PasvData] /\ ctrlPipe' \in Seq(Channel)
      /\ UNCHANGED <<dataPipe, exitPipe, data, user, peer>>
  BY <1>1, <1>4, HandTypes
<1>6. clients' \in [Session -> ClientData] /\ main' = MainIdle /\ main' \in MainState
  BY <1>2, SlotsTyped, ReturnType DEF HandSend
<1> QED
  BY <1>5, <1>6 DEF TypeOK, CountersOK, MainIdle

LEMMA HandRecvType ==
  ASSUME TypeOK, CountersOK, HandRecv
  PROVE  TypeOK' /\ CountersOK' 
<1>1. main.at = "hand" /\ Hand(Job("NEED_RECV", 0, TRUE))
  BY DEF HandRecv, Hand
<1>2. Job("NEED_RECV", 0, TRUE) \in PasvData
  <2>1. "NEED_RECV" \in NetState /\ 0 \in 0..MaxChunks /\ TRUE \in BOOLEAN
    BY ConstantsAssumption, Values
  <2> QED
    BY <1>1, <2>1, JobType, Zenon
<1>3. /\ channels' \in [Channel -> PasvData] /\ ctrlPipe' \in Seq(Channel)
      /\ UNCHANGED <<dataPipe, exitPipe, data, user, peer>>
      /\ main \in MainState /\ main.s \in Session
  BY <1>1, <1>2, HandTypes
<1> QED
  BY <1>1, <1>3 DEF HandRecv, TypeOK, CountersOK, MainState

LEMMA HandRecvFailsType ==
  ASSUME TypeOK, CountersOK, HandRecvFails
  PROVE  TypeOK' /\ CountersOK'
<1>1. channels[main.c] \in PasvData /\ "main" \in Thread \cup {Free} /\ main \in MainState
  BY SlotsTyped, Values DEF HandRecvFails, CountersOK, TypeOK
<1>2. [channels[main.c] EXCEPT !.lock = "main"] \in PasvData
  BY <1>1 DEF PasvData
<1> QED
  BY <1>1, <1>2 DEF HandRecvFails, TypeOK, CountersOK, MainState

LEMMA HandRestType ==
  ASSUME TypeOK, CountersOK, HandRest
  PROVE  TypeOK' /\ CountersOK'
BY DEF HandRest, TypeOK, CountersOK, MainState

LEMMA HandQuitType ==
  ASSUME TypeOK, CountersOK, HandQuit
  PROVE  TypeOK' /\ CountersOK'
<1> DEFINE job == [channels[main.c] EXCEPT !.state = "NEED_QUIT"]
<1>1. Hand(job)
  BY DEF HandQuit
<1>2. channels[main.c] \in PasvData /\ "NEED_QUIT" \in NetState
  BY <1>1, SlotsTyped, Values DEF Hand, CountersOK
<1>3. job \in PasvData
  BY <1>2 DEF PasvData
<1> HIDE DEF job
<1>4. /\ channels' \in [Channel -> PasvData] /\ ctrlPipe' \in Seq(Channel)
      /\ UNCHANGED <<dataPipe, exitPipe, data, user, peer>>
      /\ main \in MainState /\ main.s \in Session /\ main.at = "hand"
  BY <1>1, <1>3, HandTypes
<1> QED
  BY <1>4 DEF HandQuit, TypeOK, CountersOK, MainState

LEMMA QuitStepType ==
  ASSUME TypeOK, CountersOK, QuitStep
  PROVE  TypeOK' /\ CountersOK'
<1>1. main.s \in Session /\ clients[main.s] \in ClientData /\ "NEED_QUIT" \in NetState
  BY SlotsTyped, Values DEF QuitStep, CountersOK
<1>2. [clients[main.s] EXCEPT !.netState = "NEED_QUIT"] \in ClientData
  BY <1>1 DEF ClientData
<1>3. clients' \in [Session -> ClientData] /\ main' = MainIdle /\ main' \in MainState
  BY <1>2, ReturnType DEF QuitStep
<1>4. exitPipe' \in Seq(Session)
  BY <1>1 DEF QuitStep, TypeOK
<1> QED
  BY <1>3, <1>4 DEF QuitStep, TypeOK, CountersOK, MainIdle

LEMMA CloseClientType ==
  ASSUME TypeOK, NEW s \in Session, CloseClient(s)
  PROVE  /\ clients' \in [Session -> ClientData]
         /\ channels' \in [Channel -> PasvData]
         /\ user' \in [Session -> UserState]
         /\ main' = MainIdle /\ main' \in MainState
<1>1. \A c \in Channel : [channels[c] EXCEPT !.orphan = TRUE] \in PasvData
  BY SlotsTyped DEF PasvData
<1>2. channels' \in [Channel -> PasvData]
  BY <1>1, SlotsTyped DEF CloseClient
<1> QED
  BY <1>2, FreeTypes DEF CloseClient, TypeOK

LEMMA SentType ==
  ASSUME TypeOK, CountersOK, Sent
  PROVE  TypeOK' /\ CountersOK'
<1> DEFINE r == [clients[main.s] EXCEPT !.events = {PollIn}, !.netState = "IDLE"]
<1>1. main.s \in Session /\ clients[main.s] \in ClientData /\ "IDLE" \in NetState
  BY SlotsTyped, Values DEF Sent, CountersOK
<1>2. r \in ClientData
  BY <1>1 DEF ClientData
<1>3. UNCHANGED <<ctrlPipe, dataPipe, exitPipe, data, peer>>
  BY DEF Sent
<1>4. CASE CloseClient(main.s)
  BY <1>1, <1>3, <1>4, CloseClientType DEF TypeOK, CountersOK, MainIdle
<1>5. CASE /\ clients' = [clients EXCEPT ![main.s] = r]
           /\ main' = MainIdle
           /\ UNCHANGED <<channels, user>>
  <2> HIDE DEF r
  <2> QED
    BY <1>1, <1>2, <1>3, <1>5, FreeTypes DEF TypeOK, CountersOK, MainIdle
<1> QED
  BY <1>4, <1>5, Zenon DEF Sent

LEMMA WriteType ==
  ASSUME TypeOK, CountersOK, NEW s \in Session, Write(s)
  PROVE  TypeOK' /\ CountersOK'
<1>1. /\ clients[s] \in ClientData /\ user[s] \in UserState
      /\ Free \in Thread \cup {Free} /\ 0 \in Code
  BY SlotsTyped, Values
<1>2. [clients[s] EXCEPT !.netLock = Free, !.cmdSend = 0] \in ClientData
  BY <1>1 DEF ClientData
<1>3. Hear(user[s], clients[s].cmdSend, clients[s].pasvPort) \in UserState
  BY <1>1, HearType DEF ClientData
<1>4. [MainIdle EXCEPT !.at = "sent", !.s = s] \in MainState
  BY FreeTypes DEF MainState
<1>5. user' \in [Session -> UserState]
  BY <1>3 DEF Write, TypeOK
<1>6. main'.s = s /\ main'.at = "sent"
  BY FreeTypes DEF Write, MainState
<1> QED
  BY <1>2, <1>4, <1>5, <1>6 DEF Write, TypeOK, CountersOK

LEMMA RecvEofType ==
  ASSUME TypeOK, CountersOK, NEW s \in Session, RecvEof(s)
  PROVE  TypeOK' /\ CountersOK'
BY CloseClientType DEF RecvEof, TypeOK, CountersOK, MainIdle

LEMMA ReadDataPipeType ==
  ASSUME TypeOK, CountersOK, ReadDataPipe
  PROVE  TypeOK' /\ CountersOK'
<1>1. Head(dataPipe) \in Session /\ dataPipe' \in Seq(Session)
  BY DEF ReadDataPipe, TypeOK
<1>2. AfterHandler(WantWrite(clients[Head(dataPipe)])) \in ClientData
  BY <1>1, SlotsTyped, PollFlags
<1> QED
  BY <1>1, <1>2 DEF ReadDataPipe, TypeOK, CountersOK

LEMMA ReadExitPipeType ==
  ASSUME TypeOK, CountersOK, ReadExitPipe
  PROVE  TypeOK' /\ CountersOK'
<1>1. Head(exitPipe) \in Session /\ exitPipe' \in Seq(Session)
  BY DEF ReadExitPipe, TypeOK
<1>2. /\ AfterHandler(clients[Head(exitPipe)]) \in ClientData
      /\ WantWrite(clients[Head(exitPipe)]) \in ClientData
  BY <1>1, SlotsTyped, PollFlags
<1> QED
  BY <1>1, <1>2 DEF ReadExitPipe, TypeOK, CountersOK

LEMMA CloseChannelType ==
  ASSUME TypeOK, NEW c \in Channel, CloseChannel(c)
  PROVE  /\ channels' \in [Channel -> PasvData]
         /\ peer' \in [Channel -> PeerState]
         /\ data' = DataIdle /\ data' \in DataState
BY FreeTypes DEF CloseChannel, TypeOK

LEMMA ToCallbackType ==
  ASSUME TypeOK, NEW c \in Channel, ToCallback(c)
  PROVE  /\ channels' \in [Channel -> PasvData]
         /\ peer' \in [Channel -> PeerState]
         /\ data'.c = c /\ data' \in DataState
<1>1. channels[c] \in PasvData /\ "data" \in Thread \cup {Free} /\ 0 \in 0..MaxChunks
  BY SlotsTyped, Values, ConstantsAssumption
<1>2. [channels[c] EXCEPT !.lock = "data", !.left = 0] \in PasvData
  BY <1>1 DEF PasvData
<1> QED
  BY <1>2 DEF ToCallback, Serve, TypeOK, DataState

LEMMA ReadCtrlPipeType ==
  ASSUME TypeOK, CountersOK, ReadCtrlPipe
  PROVE  TypeOK' /\ CountersOK'
<1> DEFINE c == Head(ctrlPipe)
<1>1. c \in Channel /\ ctrlPipe' \in Seq(Channel) /\ channels[c] \in PasvData
  BY SlotsTyped DEF ReadCtrlPipe, TypeOK
<1>2. /\ [channels[c] EXCEPT !.polled = TRUE] \in PasvData
      /\ [channels[c] EXCEPT !.events = @ \cup {PollOut}] \in PasvData
      /\ [channels[c] EXCEPT !.events = {PollIn}] \in PasvData
  BY <1>1 DEF PasvData
<1>3. UNCHANGED <<clients, dataPipe, exitPipe, main, user>>
  BY DEF ReadCtrlPipe
<1>4. \/ /\ \/ channels' = [channels EXCEPT ![c] = [channels[c] EXCEPT !.polled = TRUE]]
            \/ channels' = [channels EXCEPT ![c] = [channels[c] EXCEPT !.events = @ \cup {PollOut}]]
            \/ channels' = [channels EXCEPT ![c] = [channels[c] EXCEPT !.events = {PollIn}]]
            \/ channels' = channels
         /\ Serve(c, "new") \/ UNCHANGED data
         /\ UNCHANGED peer
      \/ CloseChannel(c)
  BY Zenon DEF ReadCtrlPipe
<1> HIDE DEF c
<1>5. CASE CloseChannel(c)
  BY <1>1, <1>3, <1>5, CloseChannelType DEF TypeOK, CountersOK, DataIdle
<1>6. CASE ~CloseChannel(c)
  <2>1. channels' \in [Channel -> PasvData]
    BY <1>1, <1>2, <1>4, <1>6 DEF TypeOK
  <2>2. data' \in DataState /\ (data'.at # "poll" => data'.c \in Channel)
    BY <1>1, <1>4, <1>6 DEF TypeOK, CountersOK, Serve, DataState
  <2> QED
    BY <1>1, <1>3, <1>4, <1>6, <2>1, <2>2 DEF TypeOK, CountersOK
<1> QED
  BY <1>5, <1>6

LEMMA StoreIdleType ==
  ASSUME TypeOK, CountersOK, StoreIdle
  PROVE  TypeOK' /\ CountersOK'
<1>1. data.c \in Channel /\ channels[data.c] \in PasvData /\ "IDLE" \in NetState
  BY SlotsTyped, Values DEF StoreIdle, CountersOK
<1>2. [channels[data.c] EXCEPT !.state = "IDLE"] \in PasvData
  BY <1>1 DEF PasvData
<1> QED
  BY <1>1, <1>2, FreeTypes DEF StoreIdle, TypeOK, CountersOK, DataIdle

LEMMA AcceptDataType ==
  ASSUME TypeOK, CountersOK, NEW c \in Channel, AcceptData(c)
  PROVE  TypeOK' /\ CountersOK'
<1> DEFINE events == IF channels[c].state = "NEED_SEND" THEN {PollIn, PollOut} ELSE {PollIn}
<1>1. channels[c] \in PasvData /\ events \in SUBSET {PollIn, PollOut}
  BY SlotsTyped
<1>2. channels' = [channels EXCEPT ![c] = [channels[c] EXCEPT !.accepted = TRUE, !.events = events]]
  BY DEF AcceptData
<1> HIDE DEF events
<1>3. [channels[c] EXCEPT !.accepted = TRUE, !.events = events] \in PasvData
  BY <1>1 DEF PasvData
<1> QED
  BY <1>2, <1>3 DEF AcceptData, TypeOK, CountersOK

LEMMA ReadDataType ==
  ASSUME TypeOK, CountersOK, NEW c \in Channel, ReadData(c)
  PROVE  TypeOK' /\ CountersOK'
<1>1. UNCHANGED <<clients, ctrlPipe, dataPipe, exitPipe, main, user>>
  BY DEF ReadData
<1>2. CASE ToCallback(c)
  BY <1>1, <1>2, ToCallbackType DEF TypeOK, CountersOK
<1>3. CASE CloseChannel(c)
  BY <1>1, <1>3, CloseChannelType DEF TypeOK, CountersOK, DataIdle
<1>4. CASE peer' = [peer EXCEPT ![c].rx = FALSE] /\ UNCHANGED <<channels, data>>
  <2>1. [peer[c] EXCEPT !.rx = FALSE] \in PeerState
    BY SlotsTyped DEF PeerState
  <2> QED
    BY <1>1, <1>4, <2>1 DEF TypeOK, CountersOK
<1> QED
  BY <1>2, <1>3, <1>4, Zenon DEF ReadData

LEMMA SendDataType ==
  ASSUME TypeOK, CountersOK, NEW c \in Channel, SendData(c)
  PROVE  TypeOK' /\ CountersOK'
<1>1. UNCHANGED <<clients, ctrlPipe, dataPipe, exitPipe, main, user>>
  BY DEF SendData
<1>2. CASE ToCallback(c)
  BY <1>1, <1>2, ToCallbackType DEF TypeOK, CountersOK
<1>3. CASE CloseChannel(c)
  BY <1>1, <1>3, CloseChannelType DEF TypeOK, CountersOK, DataIdle
<1>4. CASE /\ channels[c].left > 1
           /\ channels' = [channels EXCEPT
                ![c] = [@ EXCEPT !.left = channels[c].left - 1, !.events = {PollOut}]]
           /\ UNCHANGED <<data, peer>>
  <2>1. channels[c] \in PasvData /\ channels[c].left \in 0..MaxChunks
    BY SlotsTyped DEF PasvData
  <2>2. channels[c].left - 1 \in 0..MaxChunks
    BY <1>4, <2>1, ConstantsAssumption
  <2>3. [channels[c] EXCEPT !.left = channels[c].left - 1, !.events = {PollOut}] \in PasvData
    BY <2>1, <2>2 DEF PasvData
  <2> QED
    BY <1>1, <1>4, <2>3 DEF TypeOK, CountersOK
<1> QED
  BY <1>2, <1>3, <1>4, Zenon DEF SendData

LEMMA CompleteType ==
  ASSUME TypeOK, NEW s \in Session, Complete(s)
  PROVE  clients' \in [Session -> ClientData] /\ dataPipe' \in Seq(Session)
<1>1. /\ clients[s] \in ClientData /\ "data" \in Thread \cup {Free} /\ 226 \in Code
      /\ "NEED_SEND" \in NetState
  BY SlotsTyped, Values
<1>2. [clients[s] EXCEPT !.netLock = "data", !.connType = "NOT_SPECIFIED", !.cmdSend = 226,
                         !.netState = "NEED_SEND"] \in ClientData
  BY <1>1 DEF ClientData
<1> QED
  BY <1>2 DEF Complete, TypeOK

LEMMA CallbackType ==
  ASSUME TypeOK, CountersOK, Callback
  PROVE  TypeOK' /\ CountersOK'
<1> DEFINE s == channels[data.c].ctrl
<1>1. data.c \in Channel /\ s \in Session \cup {None}
  BY SlotsTyped DEF Callback, CountersOK, PasvData
<1>2. clients' \in [Session -> ClientData] /\ dataPipe' \in Seq(Session)
  BY <1>1, CompleteType DEF Callback, TypeOK
<1>3. data' \in DataState /\ data'.c = data.c
  BY <1>1 DEF Callback, Serve, DataState
<1> QED
  BY <1>1, <1>2, <1>3 DEF Callback, TypeOK, CountersOK

LEMMA CloseStepType ==
  ASSUME TypeOK, CountersOK, CloseStep
  PROVE  TypeOK' /\ CountersOK'
<1>1. data.c \in Channel
  BY DEF CloseStep, CountersOK
<1> QED
  BY <1>1, CloseChannelType DEF CloseStep, TypeOK, CountersOK, DataIdle

LEMMA BlockType ==
  ASSUME TypeOK, CountersOK, NEW c \in Channel, Block(c)
  PROVE  TypeOK' /\ CountersOK'
BY DEF Block, Serve, TypeOK, CountersOK, DataState

LEMMA PeerType ==
  ASSUME TypeOK, CountersOK, PeerStep
  PROVE  TypeOK' /\ CountersOK'
<1>1. ASSUME NEW s \in Session, NEW cmd \in Used, SendCmd(s, cmd)
      PROVE  user' \in [Session -> UserState]
  <2>1. user[s] \in UserState /\ cmd \in Cmd
    BY SlotsTyped, ConstantsAssumption
  <2>2. Append(user[s].inbox, cmd) \in Seq(Cmd)
    BY <2>1 DEF UserState
  <2> DEFINE u == [user[s] EXCEPT !.inbox = Append(user[s].inbox, cmd)]
  <2>3. u \in UserState
    BY <2>1, <2>2 DEF UserState
  <2>4. user' = [user EXCEPT ![s] = IF u.stage = "idle"
                                   THEN [u EXCEPT !.asked = cmd, !.stage = "wait"] ELSE u]
    BY <1>1, Zenon DEF SendCmd
  <2> HIDE DEF u
  <2>5. [u EXCEPT !.asked = cmd, !.stage = "wait"] \in UserState
    BY <2>1, <2>3 DEF UserState
  <2> QED
    BY <2>3, <2>4, <2>5 DEF TypeOK
<1>2. ASSUME NEW s \in Session, Connect(s)
      PROVE  user' \in [Session -> UserState] /\ peer' \in [Channel -> PeerState]
  <2>1. /\ [user[s] EXCEPT !.knows = None] \in UserState
        /\ \A c \in Channel : [peer[c] EXCEPT !.conn = TRUE, !.who = s] \in PeerState
    BY SlotsTyped DEF UserState, PeerState
  <2> QED
    BY <1>2, <2>1 DEF Connect, TypeOK
<1>3. ASSUME NEW s \in Session, Drop(s)
      PROVE  user' \in [Session -> UserState]
  <2>1. [user[s] EXCEPT !.gone = TRUE] \in UserState
    BY SlotsTyped DEF UserState
  <2> QED
    BY <1>3, <2>1 DEF Drop, TypeOK
<1>4. ASSUME NEW c \in Channel, Upload(c) \/ Finish(c) \/ Abort(c)
      PROVE  peer' \in [Channel -> PeerState]
  <2>1. /\ [peer[c] EXCEPT !.rx = TRUE] \in PeerState
        /\ [peer[c] EXCEPT !.fin = TRUE] \in PeerState
    BY SlotsTyped DEF PeerState
  <2> QED
    BY <1>4, <2>1 DEF Upload, Finish, Abort, CloseData, TypeOK
<1>5. CASE \E s \in Session, cmd \in Used : SendCmd(s, cmd)
  BY <1>1, <1>5 DEF SendCmd, TypeOK, CountersOK
<1>6. CASE \E s \in Session : Connect(s)
  BY <1>2, <1>6 DEF Connect, TypeOK, CountersOK
<1>7. CASE \E s \in Session : Drop(s)
  BY <1>3, <1>7 DEF Drop, TypeOK, CountersOK
<1>8. CASE \E c \in Channel : Upload(c) \/ Finish(c) \/ Abort(c)
  BY <1>4, <1>8 DEF Upload, Finish, Abort, CloseData, TypeOK, CountersOK
<1> QED
  BY <1>5, <1>6, <1>7, <1>8 DEF PeerStep

\* The fields of every slot, the entries of every pipe and the two program
\* counters stay within their types (TypeOK), for every number of slots.
LEMMA TypeStep ==
  ASSUME TypeOK, CountersOK, [Next]_vars
  PROVE  TypeOK' /\ CountersOK'
<1>1. CASE MainStep
  BY <1>1, AcceptType, HandleType, WriteType, RecvEofType, ReadDataPipeType, ReadExitPipeType,
     ReplyType, HandSendType, HandRecvType, HandRecvFailsType, HandRestType, HandQuitType,
     QuitStepType, SentType
     DEF MainStep, Continue
<1>2. CASE DataStep
  BY <1>2, ReadCtrlPipeType, StoreIdleType, AcceptDataType, ReadDataType, SendDataType, BlockType,
     CallbackType, CloseStepType
     DEF DataStep
<1>3. CASE PeerStep
  BY <1>3, PeerType
<1>4. CASE UNCHANGED vars
  BY <1>4 DEF vars, TypeOK, CountersOK
<1> QED
  BY <1>1, <1>2, <1>3, <1>4 DEF Next

LEMMA TypeInit ==
  ASSUME Init
  PROVE  TypeOK /\ CountersOK
BY FreeTypes DEF Init, TypeOK, CountersOK, MainIdle, DataIdle

\* TypeOK is an invariant of every instance, whatever the clients do.
THEOREM TypeCorrect == Spec => []TypeOK
<1>1. Init => TypeOK /\ CountersOK
  BY TypeInit
<1>2. TypeOK /\ CountersOK /\ [Next]_vars => (TypeOK /\ CountersOK)'
  BY TypeStep
<1> QED
  BY <1>1, <1>2, PTL DEF Spec
-----------------------------------------------------------------------------
(* The token argument.  A step that leaves the control slots and the two   *)
(* pipes to the main thread alone disturbs none of it; every other step    *)
(* changes one slot, whose new fields are worked out first.                *)

Token == LockIsToken /\ NoLostWakeup /\ SentOK /\ HandlerOK

\* What a step does not do to a reply that waits (ReplyNotOverwritten).
Kept ==
  \A s \in Session :
    clients[s].open /\ clients[s].cmdSend # 0 /\ clients'[s].cmdSend # 0
      => clients'[s].cmdSend = clients[s].cmdSend

LEMMA InAppend ==
  ASSUME NEW S, NEW q \in Seq(S), NEW x, NEW y \in S, In(x, q) \/ x = y
  PROVE  In(x, Append(q, y))
<1>1. CASE In(x, q)
  <2>1. PICK i \in DOMAIN q : q[i] = x
    BY <1>1 DEF In
  <2>2. i \in DOMAIN Append(q, y) /\ Append(q, y)[i] = x
    BY <2>1
  <2> QED
    BY <2>2 DEF In
<1>2. CASE x = y
  <2>1. Len(q) + 1 \in DOMAIN Append(q, y) /\ Append(q, y)[Len(q) + 1] = x
    BY <1>2
  <2> QED
    BY <2>1 DEF In
<1> QED
  BY <1>1, <1>2

LEMMA InTail ==
  ASSUME NEW S, NEW q \in Seq(S), q # <<>>, NEW x, In(x, q), x # Head(q)
  PROVE  In(x, Tail(q))
<1>1. PICK i \in DOMAIN q : q[i] = x
  BY DEF In
<1>2. i # 1
  BY <1>1
<1>3. i - 1 \in DOMAIN Tail(q) /\ Tail(q)[i - 1] = x
  BY <1>1, <1>2
<1> QED
  BY <1>3 DEF In

\* Neither flag operation touches the lock, the reply or the state, and
\* neither withdraws a request for POLLOUT.
LEMMA FlagsOnly ==
  ASSUME NEW r \in ClientData
  PROVE  \A q \in {AfterHandler(r), WantWrite(r), AfterHandler(WantWrite(r))} :
           /\ q.open = r.open /\ q.netLock = r.netLock /\ q.cmdSend = r.cmdSend
           /\ q.netState = r.netState
           /\ PollOut \in r.events => PollOut \in q.events
BY DEF AfterHandler, WantWrite, ClientData

LEMMA WakeFlags ==
  ASSUME NEW r \in ClientData
  PROVE  /\ r.open /\ r.netState = "NEED_SEND" => PollOut \in AfterHandler(r).events
         /\ PollOut \in WantWrite(r).events
         /\ PollOut \in AfterHandler(WantWrite(r)).events
BY DEF AfterHandler, WantWrite, ClientData

LEMMA TokenFrame ==
  ASSUME Token, UNCHANGED <<clients, dataPipe, exitPipe, main>>
  PROVE  Token' /\ Kept
BY DEF Token, LockIsToken, NoLostWakeup, SentOK, HandlerOK, In, Kept

LEMMA TokenAccept ==
  ASSUME TransferInv, NEW s \in Session, Accept(s)
  PROVE  Token' /\ Kept
<1> USE DEF TransferInv
<1> DEFINE r == [FreeClient EXCEPT !.open = TRUE, !.netState = "NEED_SEND", !.netLock = "main",
                                   !.cmdSend = 220]
<1>1. r \in ClientData
  <2>1. /\ "NEED_SEND" \in NetState /\ "main" \in Thread \cup {Free} /\ 220 \in Code
        /\ FreeClient \in ClientData
    BY Values, FreeTypes
  <2> QED
    BY <2>1, OpenRecord, Zenon
<1>2. r.open /\ r.netState = "NEED_SEND" /\ r.netLock = "main" /\ r.cmdSend = 220
  BY FreeTypes DEF ClientData
<1>3. clients' = [clients EXCEPT ![s] = AfterHandler(r)]
  BY DEF Accept
<1> HIDE DEF r
<1>4. /\ clients'[s].open /\ clients'[s].netLock = "main" /\ clients'[s].cmdSend = 220
      /\ PollOut \in clients'[s].events
      /\ \A t \in Session \ {s} : clients'[t] = clients[t]
  BY <1>1, <1>2, <1>3, FlagsOnly, WakeFlags DEF TypeOK
<1>5. UNCHANGED <<dataPipe, exitPipe, main>> /\ main.at = "poll" /\ ~clients[s].open
  BY DEF Accept, AtPoll
<1> QED
  BY <1>4, <1>5 DEF Token, LockIsToken, NoLostWakeup, SentOK, HandlerOK, Kept, Free

LEMMA TokenHandle ==
  ASSUME TransferInv, NEW s \in Session, Handle(s)
  PROVE  Token' /\ Kept
<1> USE DEF TransferInv, FTP_CTRL, FTP_PASV, FTP_PASV_Fails, FTP_REST, FTP_RETR, FTP_STOR, FTP_QUIT
<1>1. main.at = "poll" /\ UNCHANGED <<dataPipe, exitPipe>>
  BY DEF Handle, Recv, AtPoll
<1>2. main'.at = "reply" \/ (main'.at = "hand" /\ main'.cmd \in {"STOR", "REST"})
  <2>1. CASE FTP_CTRL(s) \/ FTP_PASV(s) \/ FTP_PASV_Fails(s) \/ FTP_QUIT(s)
    <3>1. \E cmd, code : ThenReply(s, cmd, code)
      BY <2>1, Zenon
    <3> QED
      BY <3>1 DEF ThenReply
  <2>2. CASE FTP_RETR(s)
    BY <2>2 DEF ThenReply
  <2>3. CASE FTP_REST(s)
    BY <2>3 DEF ThenReply, ThenHand
  <2>4. CASE FTP_STOR(s)
    BY <2>4 DEF ThenReply, ThenHand
  <2> QED
    BY <2>1, <2>2, <2>3, <2>4, Zenon DEF Handle
<1>3. \A t \in Session :
        /\ clients'[t].open = clients[t].open /\ clients'[t].netLock = clients[t].netLock
        /\ clients'[t].cmdSend = clients[t].cmdSend /\ clients'[t].netState = clients[t].netState
        /\ clients'[t].events = clients[t].events
  <2>1. CASE FTP_PASV(s) \/ FTP_PASV_Fails(s)
    <3>1. \E connType, p : clients' = [clients EXCEPT ![s] =
            [clients[s] EXCEPT !.connType = connType, !.pasvPort = p]]
      BY <2>1, Zenon
    <3> QED
      BY <3>1, SlotsTyped DEF TypeOK, ClientData
  <2>2. CASE ~(FTP_PASV(s) \/ FTP_PASV_Fails(s))
    BY <2>2, Zenon DEF Handle
  <2> QED
    BY <2>1, <2>2
<1> HIDE DEF FTP_CTRL, FTP_PASV, FTP_PASV_Fails, FTP_REST, FTP_RETR, FTP_STOR, FTP_QUIT
<1>4. LockIsToken' /\ Kept
  BY <1>3 DEF LockIsToken, Kept
<1>5. NoLostWakeup'
  BY <1>1, <1>3 DEF NoLostWakeup, In
<1>6. SentOK' /\ HandlerOK'
  BY <1>2 DEF SentOK, HandlerOK
<1> QED
  BY <1>4, <1>5, <1>6 DEF Token

\* A step of the main thread that changes the slot s only: what is left to
\* show of the token discipline is what it says of s.
WakeAt(s) ==
  \/ PollOut \in clients[s].events
  \/ In(s, dataPipe)
  \/ In(s, exitPipe) /\ clients[s].netState = "NEED_QUIT"
  \/ main.s = s /\ (main.at = "quit" \/ (main.at = "hand" /\ main.cmd \in {"RETR", "QUIT"}))

LEMMA OneSlot ==
  ASSUME TransferInv, NEW s \in Session, NEW r,
         clients' = [clients EXCEPT ![s] = r],
         main.s = s \/ main.at = "poll",
         \A t \in Session \ {s} : /\ In(t, dataPipe) => In(t, dataPipe')
                                  /\ In(t, exitPipe) => In(t, exitPipe'),
         r.open => (r.cmdSend # 0 <=> r.netLock # Free),
         r.open /\ r.cmdSend # 0 => WakeAt(s)',
         clients[s].open /\ clients[s].cmdSend # 0 /\ r.cmdSend # 0 => r.cmdSend = clients[s].cmdSend,
         SentOK', HandlerOK'
  PROVE  Token' /\ Kept
<1>1. clients'[s] = r /\ \A t \in Session \ {s} : clients'[t] = clients[t]
  BY DEF TransferInv, TypeOK
<1>2. LockIsToken' /\ Kept
  BY <1>1 DEF TransferInv, LockIsToken, Kept
<1>3. NoLostWakeup'
  <2>1. ASSUME NEW t \in Session, clients'[t].open, clients'[t].cmdSend # 0
        PROVE  WakeAt(t)'
    <3>1. CASE t = s
      BY <1>1, <2>1, <3>1
    <3>2. CASE t # s
      BY <1>1, <2>1, <3>2 DEF TransferInv, NoLostWakeup, WakeAt
    <3> QED
      BY <3>1, <3>2
  <2> QED
    BY <2>1 DEF NoLostWakeup, WakeAt
<1> QED
  BY <1>2, <1>3 DEF Token

\* The end of a handler: POLLOUT is requested for what net_state announces.
LEMMA TokenReturn ==
  ASSUME TransferInv, main.at # "poll", NEW r \in ClientData, Return(r),
         UNCHANGED dataPipe,
         \A t \in Session : In(t, exitPipe) => In(t, exitPipe'),
         r.open => (r.cmdSend # 0 <=> r.netLock # Free),
         r.open /\ r.cmdSend # 0 =>
           r.netState = "NEED_SEND" \/ (r.netState = "NEED_QUIT" /\ In(main.s, exitPipe')),
         clients[main.s].open /\ clients[main.s].cmdSend # 0 /\ r.cmdSend # 0
           => r.cmdSend = clients[main.s].cmdSend
  PROVE  Token' /\ Kept
<1> DEFINE q == AfterHandler(r)
<1>0. PICK s \in Session : s = main.s
  BY DEF TransferInv, CountersOK
<1>1. clients' = [clients EXCEPT ![s] = q] /\ main'.at = "poll"
  BY <1>0 DEF Return, MainIdle
<1>2. /\ q.open = r.open /\ q.netLock = r.netLock /\ q.cmdSend = r.cmdSend
      /\ q.netState = r.netState
      /\ r.open /\ r.netState = "NEED_SEND" => PollOut \in q.events
  BY FlagsOnly, WakeFlags
<1>3. SentOK' /\ HandlerOK'
  BY <1>1 DEF SentOK, HandlerOK
<1> HIDE DEF q
<1>4. clients'[s] = q
  BY <1>1 DEF TransferInv, TypeOK
<1>5. q.open /\ q.cmdSend # 0 => WakeAt(s)'
  BY <1>0, <1>2, <1>4 DEF WakeAt
<1> QED
  BY <1>0, <1>1, <1>2, <1>3, <1>5, OneSlot

LEMMA TokenReply ==
  ASSUME TransferInv, Reply
  PROVE  Token' /\ Kept
<1> DEFINE c == IF main.cmd = "QUIT" \/ (main.cmd = "RETR" /\ main.code = 150)
                THEN ChannelOf(main.s) ELSE None
<1>0. PICK s \in Session : s = main.s
  BY DEF TransferInv, CountersOK, Reply
<1> DEFINE r == Respond(s, main.code)
<1>1. /\ main.at = "reply" /\ clients[s].netLock = Free /\ main.code \in Code \ {0}
      /\ UNCHANGED <<dataPipe, exitPipe>>
  BY <1>0 DEF TransferInv, Reply, CountersOK, TypeOK, MainState
<1>2. r \in ClientData
  BY <1>1, RespondType DEF TransferInv
<1>3. r.netLock = "main" /\ r.netState = "NEED_SEND" /\ r.cmdSend = main.code /\ r.open = clients[s].open
  BY SlotsTyped DEF TransferInv, Respond, ClientData
<1>4. clients[s].open => clients[s].cmdSend = 0
  BY <1>1 DEF TransferInv, LockIsToken
<1> HIDE DEF r
<1>5. CASE Return(r)
  BY <1>0, <1>1, <1>2, <1>3, <1>4, <1>5, TokenReturn DEF Free
<1>6. CASE /\ clients' = [clients EXCEPT ![s] = r]
           /\ c # None \/ main.cmd = "QUIT"
           /\ main' = [main EXCEPT !.at = IF c # None THEN "hand" ELSE "quit", !.c = c]
  <2>1. main'.s = s /\ (main'.at = "quit" \/ (main'.at = "hand" /\ main'.cmd \in {"RETR", "QUIT"}))
    BY <1>0, <1>6 DEF TransferInv, TypeOK, MainState
  <2>2. clients'[s] = r
    BY <1>6 DEF TransferInv, TypeOK
  <2>3. WakeAt(s)' /\ SentOK' /\ HandlerOK'
    BY <1>3, <2>1, <2>2 DEF WakeAt, SentOK, HandlerOK
  <2> QED
    BY <1>0, <1>1, <1>3, <1>4, <1>6, <2>3, OneSlot DEF Free
<1>7. \/ Return(r)
      \/ /\ clients' = [clients EXCEPT ![s] = r]
         /\ c # None \/ main.cmd = "QUIT"
         /\ main' = [main EXCEPT !.at = IF c # None THEN "hand" ELSE "quit", !.c = c]
  BY <1>0, Zenon DEF Reply, r
<1> QED
  BY <1>5, <1>6, <1>7, Zenon

LEMMA TokenHandSend ==
  ASSUME TransferInv, HandSend
  PROVE  Token' /\ Kept
<1>1. /\ main.at = "hand" /\ main.cmd = "RETR" /\ Return(clients[main.s])
      /\ UNCHANGED <<dataPipe, exitPipe>>
  BY DEF HandSend, Hand
<1>2. main.s \in Session /\ clients[main.s] \in ClientData
  BY <1>1, SlotsTyped DEF TransferInv, CountersOK
<1>3. clients[main.s].open /\ clients[main.s].cmdSend # 0 => clients[main.s].netState = "NEED_SEND"
  BY <1>1 DEF TransferInv, HandlerOK
<1>4. clients[main.s].open => (clients[main.s].cmdSend # 0 <=> clients[main.s].netLock # Free)
  BY <1>2 DEF TransferInv, LockIsToken
<1> QED
  BY <1>1, <1>2, <1>3, <1>4, TokenReturn

\* The jobs of STOR, REST and QUIT change no control slot.
LEMMA TokenHandOthers ==
  ASSUME TransferInv, HandRecv \/ HandRecvFails \/ HandRest \/ HandQuit
  PROVE  Token' /\ Kept
<1>1. UNCHANGED <<clients, dataPipe, exitPipe>>
  BY DEF HandRecv, HandRecvFails, HandRest, HandQuit, Hand
<1>2. \/ main.at = "hand" /\ main.cmd \in {"STOR", "REST"} /\ main' = [main EXCEPT !.at = "reply"]
      \/ main.at = "hand" /\ main.cmd = "QUIT" /\ main' = [main EXCEPT !.at = "quit"]
  BY DEF HandRecv, HandRecvFails, HandRest, HandQuit, Hand
<1>3. /\ main'.s = main.s
      /\ \/ main.cmd \in {"STOR", "REST"} /\ main'.at = "reply"
         \/ main.cmd = "QUIT" /\ main'.at = "quit"
  BY <1>2 DEF TransferInv, TypeOK, MainState
<1>4. LockIsToken' /\ Kept
  BY <1>1 DEF TransferInv, LockIsToken, Kept
<1>5. NoLostWakeup' /\ SentOK' /\ HandlerOK'
  BY <1>1, <1>2, <1>3 DEF TransferInv, NoLostWakeup, In, SentOK, HandlerOK
<1> QED
  BY <1>4, <1>5 DEF Token

LEMMA TokenQuitStep ==
  ASSUME TransferInv, QuitStep
  PROVE  Token' /\ Kept
<1> DEFINE r == [clients[main.s] EXCEPT !.netState = "NEED_QUIT"]
<1>1. main.at = "quit" /\ main.s \in Session /\ clients[main.s] \in ClientData
      /\ "NEED_QUIT" \in NetState
  BY SlotsTyped, Values DEF TransferInv, CountersOK, QuitStep
<1>2. /\ r \in ClientData /\ r.netState = "NEED_QUIT" /\ r.open = clients[main.s].open
      /\ r.cmdSend = clients[main.s].cmdSend /\ r.netLock = clients[main.s].netLock
  BY <1>1 DEF ClientData
<1>3. Return(r) /\ exitPipe' = Append(exitPipe, main.s) /\ UNCHANGED dataPipe
  BY DEF QuitStep
<1>4. \A t \in Session : In(t, exitPipe) \/ t = main.s => In(t, exitPipe')
  BY <1>1, <1>3, InAppend DEF TransferInv, TypeOK
<1>5. r.open => (r.cmdSend # 0 <=> r.netLock # Free)
  BY <1>1, <1>2 DEF TransferInv, LockIsToken
<1> HIDE DEF r
<1> QED
  BY <1>1, <1>2, <1>3, <1>4, <1>5, TokenReturn

\* A slot that is zeroed holds no reply.
LEMMA TokenClose ==
  ASSUME TransferInv, NEW s \in Session, CloseClient(s), main.s = s \/ main.at = "poll",
         UNCHANGED <<dataPipe, exitPipe>>
  PROVE  Token' /\ Kept
<1>1. clients' = [clients EXCEPT ![s] = FreeClient] /\ main'.at = "poll"
  BY DEF CloseClient, MainIdle
<1>2. ~FreeClient.open /\ FreeClient.cmdSend = 0
  BY DEF FreeClient
<1>3. SentOK' /\ HandlerOK'
  BY <1>1 DEF SentOK, HandlerOK
<1> QED
  BY <1>1, <1>2, <1>3, OneSlot

\* The store of IDLE after net_lock is free: a reply that is there again is
\* announced in the data thread's pipe.
LEMMA TokenSent ==
  ASSUME TransferInv, Sent
  PROVE  Token' /\ Kept
<1>0. PICK s \in Session : s = main.s
  BY DEF TransferInv, CountersOK, Sent
<1> DEFINE r == [clients[s] EXCEPT !.events = {PollIn}, !.netState = "IDLE"]
<1>1. UNCHANGED <<dataPipe, exitPipe>> /\ main.at = "sent"
  BY DEF Sent
<1>2. CASE CloseClient(s)
  BY <1>0, <1>1, <1>2, TokenClose
<1>3. CASE clients' = [clients EXCEPT ![s] = r] /\ main' = MainIdle
  <2>1. clients[s] \in ClientData
    BY SlotsTyped DEF TransferInv
  <2>2. r.open = clients[s].open /\ r.cmdSend = clients[s].cmdSend /\ r.netLock = clients[s].netLock
    BY <2>1 DEF ClientData
  <2> HIDE DEF r
  <2>3. r.open => (r.cmdSend # 0 <=> r.netLock # Free)
    BY <2>2 DEF TransferInv, LockIsToken
  <2>4. r.cmdSend # 0 => WakeAt(s)'
    BY <1>0, <1>1, <2>2 DEF TransferInv, SentOK, WakeAt, In
  <2>5. SentOK' /\ HandlerOK'
    BY <1>3 DEF SentOK, HandlerOK, MainIdle
  <2> QED
    BY <1>0, <1>1, <1>3, <2>2, <2>3, <2>4, <2>5, OneSlot
<1> QED
  BY <1>0, <1>2, <1>3, Zenon DEF Sent

LEMMA TokenWrite ==
  ASSUME TransferInv, NEW s \in Session, Write(s)
  PROVE  Token' /\ Kept
<1> DEFINE r == [clients[s] EXCEPT !.netLock = Free, !.cmdSend = 0]
<1>1. /\ clients' = [clients EXCEPT ![s] = r] /\ UNCHANGED <<dataPipe, exitPipe>>
      /\ main.at = "poll" /\ main' = [MainIdle EXCEPT !.at = "sent", !.s = s]
  BY DEF Write, AtPoll
<1>2. r.netLock = Free /\ r.cmdSend = 0
  BY SlotsTyped DEF TransferInv, ClientData
<1> HIDE DEF r
<1>3. main'.at = "sent" /\ main'.s = s
  BY <1>1 DEF MainIdle
<1>4. clients'[s].cmdSend = 0
  BY <1>1, <1>2 DEF TransferInv, TypeOK
<1>5. SentOK' /\ HandlerOK'
  BY <1>3, <1>4 DEF SentOK, HandlerOK
<1> QED
  BY <1>1, <1>2, <1>5, OneSlot

LEMMA TokenRecvEof ==
  ASSUME TransferInv, NEW s \in Session, RecvEof(s)
  PROVE  Token' /\ Kept
BY TokenClose DEF RecvEof, AtPoll

LEMMA TokenReadDataPipe ==
  ASSUME TransferInv, ReadDataPipe
  PROVE  Token' /\ Kept
<1>1. PICK s \in Session : s = Head(dataPipe)
  BY DEF TransferInv, TypeOK, ReadDataPipe
<1> DEFINE q == AfterHandler(WantWrite(clients[s]))
<1>2. /\ dataPipe' = Tail(dataPipe) /\ dataPipe # <<>> /\ main.at = "poll"
      /\ UNCHANGED <<exitPipe, main>>
      /\ clients' = IF clients[s].open THEN [clients EXCEPT ![s] = q] ELSE clients
  BY <1>1 DEF ReadDataPipe, AtPoll
<1>3. \A t \in Session \ {s} : In(t, dataPipe) => In(t, dataPipe')
  BY <1>1, <1>2, InTail DEF TransferInv, TypeOK
<1>4. /\ clients' = [clients EXCEPT ![s] = clients'[s]]
      /\ clients'[s] = IF clients[s].open THEN q ELSE clients[s]
  BY <1>2 DEF TransferInv, TypeOK
<1>5. /\ q.open = clients[s].open /\ q.netLock = clients[s].netLock
      /\ q.cmdSend = clients[s].cmdSend
      /\ PollOut \in q.events
  BY SlotsTyped, FlagsOnly, WakeFlags DEF TransferInv
<1> HIDE DEF q
<1>6. SentOK' /\ HandlerOK'
  BY <1>2 DEF SentOK, HandlerOK
<1>7. clients'[s].open => (clients'[s].cmdSend # 0 <=> clients'[s].netLock # Free)
  BY <1>4, <1>5 DEF TransferInv, LockIsToken
<1>8. clients'[s].open => WakeAt(s)'
  BY <1>4, <1>5 DEF WakeAt
<1>9. PICK r : r = clients'[s]
  OBVIOUS
<1> QED
  BY <1>2, <1>3, <1>4, <1>5, <1>6, <1>7, <1>8, <1>9, OneSlot

LEMMA TokenReadExitPipe ==
  ASSUME TransferInv, ReadExitPipe
  PROVE  Token' /\ Kept
<1>1. PICK s \in Session : s = Head(exitPipe)
  BY DEF TransferInv, TypeOK, ReadExitPipe
<1> DEFINE q == IF clients[s].netState = "NEED_QUIT"
                THEN WantWrite(clients[s]) ELSE AfterHandler(clients[s])
<1>2. /\ exitPipe' = Tail(exitPipe) /\ exitPipe # <<>> /\ main.at = "poll"
      /\ UNCHANGED <<dataPipe, main>>
      /\ clients' = [clients EXCEPT ![s] = q]
  BY <1>1 DEF ReadExitPipe, AtPoll
<1>3. \A t \in Session \ {s} : In(t, exitPipe) => In(t, exitPipe')
  BY <1>1, <1>2, InTail DEF TransferInv, TypeOK
<1>5. /\ q.open = clients[s].open /\ q.netLock = clients[s].netLock
      /\ q.cmdSend = clients[s].cmdSend
      /\ PollOut \in clients[s].events => PollOut \in q.events
      /\ clients[s].netState = "NEED_QUIT" => PollOut \in q.events
  BY SlotsTyped, FlagsOnly, WakeFlags DEF TransferInv
<1> HIDE DEF q
<1>4. clients'[s] = q
  BY <1>2 DEF TransferInv, TypeOK
<1>6. SentOK' /\ HandlerOK'
  BY <1>2 DEF SentOK, HandlerOK
<1>7. q.open => (q.cmdSend # 0 <=> q.netLock # Free)
  BY <1>5 DEF TransferInv, LockIsToken
<1>8. q.open /\ q.cmdSend # 0 => WakeAt(s)'
  BY <1>2, <1>4, <1>5 DEF TransferInv, NoLostWakeup, WakeAt, In
<1> QED
  BY <1>2, <1>3, <1>5, <1>6, <1>7, <1>8, OneSlot

\* The data thread has net_lock, so the slot it writes holds no reply.
LEMMA TokenCallback ==
  ASSUME TransferInv, Callback
  PROVE  Token' /\ Kept
<1> USE DEF TransferInv
<1> DEFINE s == channels[data.c].ctrl
<1>1. s \in Session \cup {None} /\ UNCHANGED <<exitPipe, main>>
  BY SlotsTyped DEF CountersOK, Callback, PasvData
<1>2. CASE s = None
  <2>1. UNCHANGED <<clients, dataPipe>>
    BY <1>2, ConstantsAssumption DEF Callback
  <2> QED
    BY <1>1, <2>1, TokenFrame DEF Token
<1>3. CASE s # None
  <2>0. PICK t \in Session : t = s
    BY <1>1, <1>3
  <2> DEFINE r == [clients[t] EXCEPT !.netLock = "data", !.connType = "NOT_SPECIFIED",
                                     !.cmdSend = 226, !.netState = "NEED_SEND"]
  <2>1. /\ clients[t].netLock = Free
        /\ clients' = [clients EXCEPT ![t] = r] /\ dataPipe' = Append(dataPipe, t)
    BY <1>3, <2>0 DEF Callback, Complete
  <2>2. /\ r.netLock = "data" /\ r.cmdSend = 226 /\ r.netState = "NEED_SEND"
        /\ r.open = clients[t].open
    BY SlotsTyped DEF ClientData
  <2>3. clients[t].open => clients[t].cmdSend = 0
    BY <2>1 DEF LockIsToken
  <2> HIDE DEF r, s
  <2>4. clients'[t] = r /\ \A u \in Session \ {t} : clients'[u] = clients[u]
    BY <2>1 DEF TypeOK
  <2>5. \A u : In(u, dataPipe) \/ u = t => In(u, dataPipe')
    BY <2>1, InAppend DEF TypeOK
  <2>6. LockIsToken' /\ Kept
    BY <2>2, <2>3, <2>4 DEF LockIsToken, Kept, Free
  <2>7. NoLostWakeup'
    BY <1>1, <2>4, <2>5 DEF NoLostWakeup
  <2>8. SentOK' /\ HandlerOK'
    BY <1>1, <2>2, <2>4, <2>5 DEF SentOK, HandlerOK, CountersOK
  <2> QED
    BY <2>6, <2>7, <2>8 DEF Token
<1> QED
  BY <1>2, <1>3

LEMMA TokenStep ==
  ASSUME TransferInv, [Next]_vars
  PROVE  Token' /\ Kept
<1>1. CASE MainStep
  BY <1>1, TokenAccept, TokenHandle, TokenReply, TokenHandSend, TokenHandOthers, TokenQuitStep,
     TokenSent, TokenWrite, TokenRecvEof, TokenReadDataPipe, TokenReadExitPipe
     DEF MainStep, Continue
<1>2. CASE DataStep
  <2>1. CASE Callback
    BY <2>1, TokenCallback
  <2>2. CASE ~Callback
    <3>1. UNCHANGED <<clients, dataPipe, exitPipe, main>>
      BY <1>2, <2>2 DEF DataStep, ReadCtrlPipe, StoreIdle, AcceptData, ReadData, SendData,
                        Block, CloseStep
    <3> QED
      BY <3>1, TokenFrame DEF TransferInv, Token
  <2> QED
    BY <2>1, <2>2
<1>3. CASE PeerStep \/ UNCHANGED vars
  <2>1. UNCHANGED <<clients, dataPipe, exitPipe, main>>
    BY <1>3 DEF PeerStep, SendCmd, Connect, Drop, Upload, Finish, Abort, CloseData, vars
  <2> QED
    BY <2>1, TokenFrame DEF TransferInv, Token
<1> QED
  BY <1>1, <1>2, <1>3 DEF Next

LEMMA TransferInvInit ==
  ASSUME Init
  PROVE  TransferInv
<1>1. TypeOK /\ CountersOK
  BY TypeInit
<1>2. \A s \in Session : ~clients[s].open
  BY DEF Init, FreeClient
<1>3. main.at = "poll"
  BY DEF Init, MainIdle
<1> QED
  BY <1>1, <1>2, <1>3 DEF TransferInv, LockIsToken, NoLostWakeup, SentOK, HandlerOK

LEMMA Inductive == Spec => []TransferInv
<1>1. Init => TransferInv
  BY TransferInvInit
<1>2. TransferInv /\ [Next]_vars => TransferInv'
  BY TypeStep, TokenStep DEF TransferInv, Token
<1> QED
  BY <1>1, <1>2, PTL DEF Spec

\* net_lock is held exactly while cmd_send holds a reply that is not on the
\* socket, for any number of connections and whatever the clients do.
THEOREM TokenCorrect == Spec => []LockIsToken
<1>1. TransferInv => LockIsToken
  BY DEF TransferInv
<1> QED
  BY <1>1, Inductive, PTL

\* No reply that either thread composed is left without somebody who will ask
\* for POLLOUT, in spite of the unlocked store of IDLE at listener.c:236.
THEOREM WakeupCorrect == Spec => []NoLostWakeup
<1>1. TransferInv => NoLostWakeup
  BY DEF TransferInv
<1> QED
  BY <1>1, Inductive, PTL

\* No step of either thread replaces a reply that still waits in cmd_send.
THEOREM ReplyKept == Spec => ReplyNotOverwritten
<1>1. TransferInv /\ [Next]_vars => [Kept]_vars
  BY TokenStep
<1>2. Spec => [][Kept]_vars
  BY <1>1, Inductive, PTL DEF Spec
<1> QED
  BY <1>2 DEF ReplyNotOverwritten, Kept

-----------------------------------------------------------------------------
(* Polite clients: what holds of the ports, the channels, the jobs of the  *)
(* data thread and the dialogue of each session, and is kept by every step *)
(* of Next when Hazard = {}.                                               *)

\* The passive connection of s, which s may still use: from 227 until its
\* completion, or until s has quit.
Keeps(s) == clients[s].open /\ clients[s].connType = "PASV" /\ clients[s].netState # "NEED_QUIT"
Holds(s) == Keeps(s) /\ ~(main.at = "quit" /\ main.s = s)
Owns(s, c) ==
  Holds(s) /\ channels[c].port # None /\ channels[c].port = clients[s].pasvPort

\* What the two threads are doing for a channel and for a session.
Busy(c)      == channels[c].state \in {"NEED_SEND", "NEED_RECV"}
Serving(c)   == data.at \in {"callback", "close"} /\ data.c = c
Closing(c)   == data.at = "close" /\ data.c = c
Working(c)   == Busy(c) /\ ~Closing(c)
Handling(s)  == main.s = s /\ main.at \in {"reply", "hand", "quit"}
Answering(s) == main.s = s /\ (main.at = "reply" \/ (main.at = "hand" /\ main.cmd \in {"STOR", "REST"}))
Between(s)   == main.s = s /\ main.at = "sent"

\* Ports: no two channels have the same, and no two sessions keep the same.
FreeSlot(c) == channels[c].port = None => channels[c] = FreeChannel /\ peer[c] = NoPeer

PortsOK ==
  /\ \A c, d \in Channel : channels[c].port # None /\ channels[c].port = channels[d].port => c = d
  /\ \A c \in Channel : FreeSlot(c)
  /\ \A s \in Session : Holds(s) => \E c \in Channel : Owns(s, c)
  /\ \A s, t \in Session : Keeps(s) /\ Keeps(t) /\ clients[s].pasvPort = clients[t].pasvPort => s = t

\* A 227 that is still on its way.
Due227(s) ==
  clients[s].cmdSend = 227 \/ (main.at = "reply" /\ main.s = s /\ main.code = 227)

\* A port a client knows and has not used is that of a channel nobody else
\* has and nobody has connected to.
KnowsOK ==
  /\ \A s \in Session : user[s].knows # None =>
       \E c \in Channel : channels[c].port = user[s].knows /\ ~peer[c].conn
  /\ \A s, t \in Session : user[s].knows # None /\ s # t =>
       user[t].knows # user[s].knows /\ (Keeps(t) => clients[t].pasvPort # user[s].knows)
  /\ \A s \in Session : Due227(s) =>
       /\ Holds(s) /\ user[s].knows # clients[s].pasvPort
       /\ \A c \in Channel : Owns(s, c) => ~peer[c].conn

\* The lock of a channel is the data thread's, whose message about a new
\* channel is not lost; what quits or is closed belongs to nobody.
ChannelOK(c) ==
  /\ channels[c].lock = IF Serving(c) THEN "data" ELSE Free
  /\ channels[c].accepted => peer[c].conn
  /\ channels[c].wpipe <=> channels[c].state = "NEED_RECV"
  /\ data.at = "new" /\ data.c = c => channels[c].state = "NEW_CLIENT"
  /\ Serving(c) => Busy(c) /\ channels[c].accepted
  /\ Serving(c) /\ channels[c].state = "NEED_RECV" => peer[c].fin
  /\ channels[c].state = "NEW_CLIENT" => In(c, ctrlPipe) \/ (data.at = "new" /\ data.c = c)
  /\ channels[c].state = "NEED_QUIT" \/ Closing(c) => \A s \in Session : ~Owns(s, c)

ChannelsOK == data.at # "blocked" /\ \A c \in Channel : ChannelOK(c)

\* A session whose 150 is sent or due has its job in a channel ...
Transferring(s) ==
  \/ user[s].stage = "xfer"
  \/ user[s].stage = "wait" /\ clients[s].cmdSend = 150
  \/ user[s].stage = "wait" /\ main.s = s /\ main.at = "reply" /\ main.cmd = "STOR" /\ main.code = 150

Pledged(s) ==
  \/ user[s].stage = "xfer" /\ clients[s].cmdSend = 0
  \/ clients[s].cmdSend = 150 /\ ~(main.at = "hand" /\ main.s = s)
  \/ main.s = s /\ main.at = "reply" /\ main.cmd = "STOR" /\ main.code = 150

\* ... and one that will hand a job over finds its channel idle.
Pre(s) ==
  \/ user[s].inbox # <<>>
  \/ main.s = s /\ main.at = "hand"
  \/ main.s = s /\ main.at = "reply" /\ (main.cmd = "QUIT" \/ (main.cmd = "RETR" /\ main.code = 150))

JobOf(c) == IF channels[c].state = "NEED_SEND" THEN "RETR" ELSE "STOR"

JobOK(c) ==
  Working(c) =>
    /\ channels[c].ctrl \in Session /\ ~channels[c].orphan
    /\ Owns(channels[c].ctrl, c) /\ Transferring(channels[c].ctrl)
    /\ user[channels[c].ctrl].asked = JobOf(c)

OwnerOK(s, c) ==
  Owns(s, c) =>
    /\ peer[c].conn => peer[c].who = s
    /\ peer[c].rx \/ peer[c].fin => user[s].stage = "xfer" /\ user[s].asked = "STOR"
    /\ Pre(s) => channels[c].state = "IDLE"

JobsOK ==
  /\ \A c \in Channel : JobOK(c)
  /\ \A s \in Session : Pledged(s) => \E c \in Channel : Working(c) /\ channels[c].ctrl = s
  /\ \A s \in Session, c \in Channel : OwnerOK(s, c)

\* The dialogue of one session, and where its next reply is.
DialogOK(s) ==
  /\ ~clients[s].open => /\ user[s] = NoUser /\ clients[s].cmdSend = 0
                         /\ clients[s].connType = "NOT_SPECIFIED"
  /\ user[s].gone => Between(s) /\ clients[s].netState = "NEED_QUIT" /\ user[s].stage = "away"
  /\ user[s].stage = "away" => /\ user[s].inbox = <<>> /\ clients[s].cmdSend = 0
                               /\ clients[s].open => user[s].gone
  /\ user[s].stage = "idle" => /\ user[s].inbox = <<>> /\ clients[s].cmdSend = 0
                               /\ ~Handling(s)
  /\ user[s].stage = "xfer" => /\ user[s].inbox = <<>> /\ clients[s].cmdSend \in {0, 226}
                               /\ ~Handling(s) /\ user[s].asked \in {"RETR", "STOR"}
  /\ user[s].stage = "wait" =>
       \/ user[s].inbox = <<user[s].asked>> /\ clients[s].cmdSend = 0 /\ ~Handling(s)
       \/ user[s].inbox = <<>> /\ clients[s].cmdSend = 0 /\ Answering(s)
       \/ user[s].inbox = <<>> /\ clients[s].cmdSend \notin {0, 226} /\ ~Answering(s)
  /\ clients[s].cmdSend = 226 => clients[s].connType = "NOT_SPECIFIED"
  /\ clients[s].cmdSend = 150 => user[s].asked \in {"RETR", "STOR"}
  /\ clients[s].cmdSend = 221 => Handling(s) \/ clients[s].netState = "NEED_QUIT"
  /\ user[s].stage = "wait" /\ clients[s].cmdSend # 0 =>
       (clients[s].cmdSend = 221 <=> user[s].asked = "QUIT")
  /\ clients[s].netState = "NEED_QUIT" => clients[s].cmdSend = 221 \/ user[s].gone
  /\ Between(s) => clients[s].cmdSend \in {0, 226}

\* The command the main thread is at.
MainOK ==
  /\ main.at # "poll" => clients[main.s].open
  /\ main.at \in {"reply", "hand", "quit"} =>
       user[main.s].stage = "wait" /\ user[main.s].asked = main.cmd /\ user[main.s].inbox = <<>>
  /\ main.at = "reply" =>
       /\ main.code \notin {0, 226} /\ (main.code = 221 <=> main.cmd = "QUIT")
       /\ main.code = 150 => main.cmd \in {"RETR", "STOR"}
       /\ main.code = 227 => main.cmd = "PASV"
       /\ main.cmd = "RETR" /\ main.code = 150 => Holds(main.s)
  /\ main.at = "hand" =>
       /\ Owns(main.s, main.c)
       /\ \/ main.cmd = "RETR" /\ clients[main.s].cmdSend = 150
          \/ main.cmd = "STOR" /\ main.code = 150
          \/ main.cmd = "REST" /\ main.code = 350
          \/ main.cmd = "QUIT" /\ clients[main.s].cmdSend = 221
  /\ main.at = "quit" => main.cmd = "QUIT" /\ clients[main.s].cmdSend = 221

\* POLLOUT is requested for a reply, once.
Once(pipe) == \A i, j \in DOMAIN pipe : pipe[i] = pipe[j] => i = j

FlagOK(s) ==
  /\ PollOut \in clients[s].events => clients[s].cmdSend # 0 \/ Between(s)
  /\ Handling(s) => PollOut \notin clients[s].events
  /\ In(s, dataPipe) => /\ clients[s].open /\ clients[s].cmdSend = 226
                        /\ PollOut \notin clients[s].events \/ Between(s)
  /\ In(s, exitPipe) => /\ clients[s].open /\ clients[s].netState = "NEED_QUIT"
                        /\ clients[s].cmdSend = 221 /\ PollOut \notin clients[s].events

FlagsOK ==
  /\ Once(dataPipe) /\ Once(exitPipe)
  /\ \A s \in Session : FlagOK(s)

Polite ==
  /\ PortsOK /\ KnowsOK /\ ChannelsOK /\ JobsOK
  /\ \A s \in Session : DialogOK(s)
  /\ MainOK /\ FlagsOK

PoliteInv == TransferInv /\ Polite
-----------------------------------------------------------------------------
LEMMA SamePorts ==
  ASSUME PortsOK, KnowsOK, UNCHANGED <<clients, user, main>>,
         \A c \in Channel : channels'[c].port = channels[c].port /\ peer'[c].conn = peer[c].conn,
         \A c \in Channel : FreeSlot(c)'
  PROVE  PortsOK' /\ KnowsOK'
<1>1. \A s \in Session : Keeps(s)' = Keeps(s) /\ Holds(s)' = Holds(s) /\ Due227(s)' = Due227(s)
  BY DEF Keeps, Holds, Due227
<1>2. \A s \in Session, c \in Channel : Owns(s, c)' = Owns(s, c)
  BY <1>1 DEF Owns
<1>3. PortsOK'
  BY <1>1, <1>2 DEF PortsOK
<1>4. KnowsOK'
  BY <1>1, <1>2 DEF KnowsOK
<1> QED
  BY <1>3, <1>4

LEMMA SameJobs ==
  ASSUME JobsOK, UNCHANGED <<clients, user, main>>,
         \A c \in Channel :
           /\ channels'[c].port = channels[c].port /\ channels'[c].ctrl = channels[c].ctrl
           /\ channels'[c].orphan = channels[c].orphan
           /\ \/ channels'[c].state = channels[c].state
              \/ channels[c].state = "NEW_CLIENT" /\ channels'[c].state = "IDLE"
           /\ peer'[c].conn = peer[c].conn /\ peer'[c].who = peer[c].who
           /\ peer'[c].rx => peer[c].rx
           /\ peer'[c].fin => peer[c].fin,
         \A c \in Channel : Closing(c)' <=> Closing(c)
  PROVE  JobsOK'
<1>1. \A s \in Session : Holds(s)' = Holds(s) /\ Pre(s)' = Pre(s) /\ Pledged(s)' = Pledged(s)
                         /\ Transferring(s)' = Transferring(s)
  BY DEF Keeps, Holds, Pre, Pledged, Transferring
<1>2. \A s \in Session, c \in Channel : Owns(s, c)' = Owns(s, c)
  BY <1>1 DEF Owns
<1>3. \A c \in Channel : (Working(c)' <=> Working(c)) /\ (Working(c) => JobOf(c)' = JobOf(c))
  BY DEF Working, Busy, JobOf
<1>4. \A c \in Channel : JobOK(c)'
  BY <1>1, <1>2, <1>3 DEF JobsOK, JobOK
<1>5. \A s \in Session, c \in Channel : OwnerOK(s, c)'
  BY <1>1, <1>2 DEF JobsOK, OwnerOK
<1>6. \A s \in Session : Pledged(s)' => \E c \in Channel : Working(c)' /\ channels'[c].ctrl = s
  BY <1>1, <1>3 DEF JobsOK
<1> QED
  BY <1>4, <1>5, <1>6 DEF JobsOK

LEMMA SameDialogs ==
  ASSUME \A s \in Session : DialogOK(s), MainOK, FlagsOK, CountersOK,
         UNCHANGED <<clients, user, main, dataPipe, exitPipe>>,
         \A c \in Channel : channels'[c].port = channels[c].port
  PROVE  (\A s \in Session : DialogOK(s)') /\ MainOK' /\ FlagsOK'
<1>1. \A s \in Session : Handling(s)' = Handling(s) /\ Between(s)' = Between(s)
                         /\ Answering(s)' = Answering(s)
  BY DEF Handling, Between, Answering
<1>2. \A s \in Session, c \in Channel : Owns(s, c)' = Owns(s, c)
  BY DEF Owns, Holds, Keeps
<1>3. \A s \in Session : DialogOK(s)'
  BY <1>1 DEF DialogOK
<1>4. MainOK'
  BY <1>2 DEF MainOK, CountersOK, Holds, Keeps
<1>5. FlagsOK'
  BY <1>1 DEF FlagsOK, FlagOK, Once, In
<1> QED
  BY <1>3, <1>4, <1>5

-----------------------------------------------------------------------------
(* The data thread, but for its completions: control slots, clients and the *)
(* pipes to the main thread stay as they are.                              *)

OtherSteps == UNCHANGED <<clients, dataPipe, exitPipe, main, user>>

\* A channel is none of the step's business.
SameChannel(d) ==
  /\ channels'[d] = channels[d] /\ peer'[d] = peer[d]
  /\ (data'.at = data.at /\ data'.c = data.c) \/ (data'.c # d /\ data.c # d)
     \/ (data.at = "poll" /\ data'.c # d) \/ (data'.at = "poll" /\ data.c # d)
  /\ In(d, ctrlPipe) => In(d, ctrlPipe')

LEMMA OtherChannel ==
  ASSUME NEW d \in Channel, ChannelOK(d), SameChannel(d), UNCHANGED <<clients, main>>
  PROVE  ChannelOK(d)'
<1>1. \A s \in Session : Owns(s, d)' = Owns(s, d)
  BY DEF Owns, Holds, Keeps, SameChannel
<1>2. /\ Serving(d)' <=> Serving(d)
      /\ Closing(d)' <=> Closing(d)
      /\ (data'.at = "new" /\ data'.c = d) <=> (data.at = "new" /\ data.c = d)
  BY DEF Serving, Closing, SameChannel
<1> QED
  BY <1>1, <1>2 DEF ChannelOK, Busy, SameChannel

LEMMA TypedSlots ==
  ASSUME PoliteInv
  PROVE  /\ clients \in [Session -> ClientData] /\ user \in [Session -> UserState]
         /\ channels \in [Channel -> PasvData] /\ peer \in [Channel -> PeerState]
         /\ ctrlPipe \in Seq(Channel) /\ dataPipe \in Seq(Session) /\ exitPipe \in Seq(Session)
         /\ main \in MainState /\ data \in DataState /\ CountersOK
BY DEF PoliteInv, TransferInv, TypeOK

\* A step that leaves a channel's port, job and connection alone.
LEMMA QuietKeeps ==
  ASSUME PoliteInv, OtherSteps, NEW c \in Channel, channels[c].port # None,
         \A d \in Channel : d # c => SameChannel(d),
         channels'[c].port = channels[c].port, channels'[c].ctrl = channels[c].ctrl,
         channels'[c].orphan = channels[c].orphan,
         \/ channels'[c].state = channels[c].state
         \/ channels[c].state = "NEW_CLIENT" /\ channels'[c].state = "IDLE",
         peer'[c].conn = peer[c].conn, peer'[c].who = peer[c].who,
         peer'[c].rx => peer[c].rx, peer'[c].fin => peer[c].fin,
         Closing(c)' <=> Closing(c),
         data'.at # "blocked", ChannelOK(c)'
  PROVE  Polite'
<1>1. /\ PortsOK /\ KnowsOK /\ ChannelsOK /\ JobsOK /\ (\A s \in Session : DialogOK(s))
      /\ MainOK /\ FlagsOK /\ CountersOK
  BY DEF PoliteInv, Polite, TransferInv
<1>2. UNCHANGED <<clients, user, main, dataPipe, exitPipe>>
  BY DEF OtherSteps
<1>3. \A d \in Channel : channels'[d].port = channels[d].port /\ peer'[d].conn = peer[d].conn
  BY DEF SameChannel
<1>4. \A d \in Channel : FreeSlot(d)'
  BY <1>1 DEF PortsOK, FreeSlot, SameChannel
<1>5. PortsOK' /\ KnowsOK'
  BY <1>1, <1>2, <1>3, <1>4, SamePorts
<1>6. \A d \in Channel : Closing(d)' <=> Closing(d)
  BY DEF Closing, SameChannel
<1>7. JobsOK'
  <2>1. \A d \in Channel :
           /\ channels'[d].port = channels[d].port /\ channels'[d].ctrl = channels[d].ctrl
           /\ channels'[d].orphan = channels[d].orphan
           /\ \/ channels'[d].state = channels[d].state
              \/ channels[d].state = "NEW_CLIENT" /\ channels'[d].state = "IDLE"
           /\ peer'[d].conn = peer[d].conn /\ peer'[d].who = peer[d].who
           /\ peer'[d].rx => peer[d].rx
           /\ peer'[d].fin => peer[d].fin
    BY DEF SameChannel
  <2> QED
    BY <1>1, <1>2, <1>6, <2>1, SameJobs
<1>8. (\A s \in Session : DialogOK(s)') /\ MainOK' /\ FlagsOK'
  BY <1>1, <1>2, <1>3, SameDialogs
<1>9. ChannelsOK'
  <2>1. \A d \in Channel : ChannelOK(d)'
    BY <1>1, <1>2, OtherChannel DEF ChannelsOK
  <2> QED
    BY <2>1 DEF ChannelsOK
<1> QED
  BY <1>5, <1>7, <1>8, <1>9 DEF Polite

\* A channel nobody has is closed.
LEMMA ClosePolite ==
  ASSUME PoliteInv, OtherSteps, NEW c \in Channel, CloseChannel(c),
         \A s \in Session : ~Owns(s, c), peer[c].conn, data.at = "poll" \/ data.c = c,
         \A d \in Channel : d # c /\ In(d, ctrlPipe) => In(d, ctrlPipe')
  PROVE  Polite'
<1>1. /\ PortsOK /\ KnowsOK /\ ChannelsOK /\ JobsOK /\ (\A s \in Session : DialogOK(s))
      /\ MainOK /\ FlagsOK /\ CountersOK
  BY DEF PoliteInv, Polite, TransferInv
<1>2. /\ channels'[c] = FreeChannel /\ peer'[c] = NoPeer /\ data' = DataIdle
      /\ \A d \in Channel : d # c => channels'[d] = channels[d] /\ peer'[d] = peer[d]
  BY TypedSlots DEF CloseChannel
<1>3. /\ FreeChannel.port = None /\ FreeChannel.state = "IDLE" /\ FreeChannel.lock = Free
      /\ ~FreeChannel.accepted /\ ~FreeChannel.wpipe /\ ~NoPeer.conn /\ ~NoPeer.rx /\ ~NoPeer.fin
      /\ DataIdle.at = "poll" /\ DataIdle.c = None
  BY DEF FreeChannel, NoPeer, DataIdle
<1>4. /\ \A s \in Session : Keeps(s)' = Keeps(s) /\ Holds(s)' = Holds(s) /\ Due227(s)' = Due227(s)
      /\ \A s \in Session : Pre(s)' = Pre(s) /\ Pledged(s)' = Pledged(s)
                            /\ Transferring(s)' = Transferring(s)
      /\ \A s \in Session : Handling(s)' = Handling(s) /\ Between(s)' = Between(s)
                            /\ Answering(s)' = Answering(s)
  BY DEF OtherSteps, Keeps, Holds, Due227, Pre, Pledged, Transferring, Handling, Between, Answering
<1>5. \A s \in Session, d \in Channel : Owns(s, d)' <=> Owns(s, d)
  BY <1>2, <1>3, <1>4 DEF Owns, OtherSteps
<1>6. ASSUME NEW d \in Channel, d # c
      PROVE  SameChannel(d) /\ (Working(d)' <=> Working(d))
  <2>1. DataIdle.c # d
    BY <1>3, ConstantsAssumption
  <2> QED
    BY <1>2, <1>3, <1>6, <2>1 DEF SameChannel, Working, Busy, Closing
<1>7. ~Working(c)' /\ ~Working(c)
  BY <1>1, <1>2, <1>3 DEF Working, Busy, JobsOK, JobOK
<1>8. PortsOK'
  <2>1. \A d, e \in Channel : channels'[d].port # None /\ channels'[d].port = channels'[e].port => d = e
    BY <1>1, <1>2, <1>3 DEF PortsOK
  <2>2. \A d \in Channel : FreeSlot(d)'
    BY <1>1, <1>2 DEF PortsOK, FreeSlot
  <2>3. \A s \in Session : Holds(s)' => \E d \in Channel : Owns(s, d)'
    BY <1>1, <1>4, <1>5 DEF PortsOK
  <2>4. \A s, t \in Session : Keeps(s)' /\ Keeps(t)' /\ clients'[s].pasvPort = clients'[t].pasvPort => s = t
    BY <1>1, <1>4 DEF PortsOK, OtherSteps
  <2> QED
    BY <2>1, <2>2, <2>3, <2>4 DEF PortsOK
<1>9. KnowsOK'
  <2>1. \A s \in Session : user'[s].knows # None =>
          \E d \in Channel : channels'[d].port = user'[s].knows /\ ~peer'[d].conn
    BY <1>1, <1>2 DEF KnowsOK, OtherSteps
  <2>2. \A s, t \in Session : user'[s].knows # None /\ s # t =>
          user'[t].knows # user'[s].knows /\ (Keeps(t)' => clients'[t].pasvPort # user'[s].knows)
    BY <1>1, <1>4 DEF KnowsOK, OtherSteps
  <2>3. ASSUME NEW s \in Session, Due227(s)
        PROVE  /\ Holds(s)' /\ user'[s].knows # clients'[s].pasvPort
               /\ \A d \in Channel : Owns(s, d)' => ~peer'[d].conn
    BY <1>1, <1>2, <1>4, <1>5, <2>3 DEF KnowsOK, OtherSteps
  <2> QED
    BY <1>4, <2>1, <2>2, <2>3 DEF KnowsOK
<1>10. ChannelsOK'
  <2>1. ChannelOK(c)'
    BY <1>2, <1>3, <1>5, ConstantsAssumption DEF ChannelOK, Serving, Closing, Free
  <2>2. ASSUME NEW d \in Channel, d # c PROVE ChannelOK(d)'
    BY <1>1, <1>6, <2>2, OtherChannel DEF ChannelsOK, OtherSteps
  <2> QED
    BY <1>2, <1>3, <2>1, <2>2 DEF ChannelsOK
<1>11. JobsOK'
  <2>1. ASSUME NEW d \in Channel PROVE JobOK(d)'
    <3>1. CASE d = c
      BY <1>7, <3>1 DEF JobOK
    <3>2. CASE d # c
      BY <1>1, <1>2, <1>4, <1>5, <1>6, <3>2 DEF JobsOK, JobOK, JobOf, OtherSteps
    <3> QED
      BY <3>1, <3>2
  <2>2. \A s \in Session : Pledged(s)' => \E d \in Channel : Working(d)' /\ channels'[d].ctrl = s
    BY <1>1, <1>2, <1>4, <1>6, <1>7 DEF JobsOK
  <2>3. \A s \in Session, d \in Channel : OwnerOK(s, d)'
    BY <1>1, <1>2, <1>4, <1>5 DEF JobsOK, OwnerOK, OtherSteps
  <2> QED
    BY <2>1, <2>2, <2>3 DEF JobsOK
<1>12. \A s \in Session : DialogOK(s)'
  BY <1>1, <1>4 DEF DialogOK, OtherSteps
<1>13. MainOK'
  BY <1>1, <1>4, <1>5 DEF MainOK, OtherSteps, CountersOK
<1>14. FlagsOK'
  BY <1>1, <1>4 DEF FlagsOK, FlagOK, OtherSteps, Once, In
<1> QED
  BY <1>8, <1>9, <1>10, <1>11, <1>12, <1>13, <1>14 DEF Polite

\* What the data thread does with a channel that has a job: its session has
\* asked for it and is in the transfer, and the channel is its own.
LEMMA AtWork ==
  ASSUME PoliteInv, NEW c \in Channel, Busy(c), data.at = "poll"
  PROVE  /\ Working(c) /\ channels[c].ctrl \in Session /\ Owns(channels[c].ctrl, c)
         /\ user[channels[c].ctrl].asked = JobOf(c)
         /\ channels[c].port # None
<1>1. Working(c) /\ JobOK(c)
  BY DEF Working, Closing, PoliteInv, Polite, JobsOK
<1> QED
  BY <1>1 DEF JobOK, Owns

LEMMA ChannelFacts ==
  ASSUME PoliteInv, NEW c \in Channel
  PROVE  /\ ChannelOK(c) /\ FreeSlot(c) /\ channels[c] \in PasvData /\ peer[c] \in PeerState
         /\ channels[c].port = None => /\ channels[c].state = "IDLE" /\ ~channels[c].accepted
                                       /\ ~channels[c].polled
         /\ data.at = "poll" => channels[c].lock = Free /\ ~Serving(c) /\ ~Closing(c)
<1>1. ChannelOK(c) /\ FreeSlot(c) /\ channels[c] \in PasvData /\ peer[c] \in PeerState
  BY TypedSlots DEF PoliteInv, Polite, ChannelsOK, PortsOK
<1>2. channels[c].port = None => /\ channels[c].state = "IDLE" /\ ~channels[c].accepted
                                 /\ ~channels[c].polled
  BY <1>1 DEF FreeSlot, FreeChannel
<1>3. data.at = "poll" => channels[c].lock = Free /\ ~Serving(c) /\ ~Closing(c)
  BY <1>1 DEF ChannelOK, Serving, Closing
<1> QED
  BY <1>1, <1>2, <1>3

LEMMA InRest ==
  ASSUME NEW c \in Channel, ctrlPipe \in Seq(Channel), ctrlPipe # <<>>, ctrlPipe' = Tail(ctrlPipe),
         c # Head(ctrlPipe), In(c, ctrlPipe)
  PROVE  In(c, ctrlPipe')
BY InTail

LEMMA ReadCtrlPipePolite ==
  ASSUME PoliteInv, ReadCtrlPipe
  PROVE  Polite'
<1>1. /\ data.at = "poll" /\ ctrlPipe # <<>> /\ ctrlPipe' = Tail(ctrlPipe) /\ OtherSteps
  BY DEF ReadCtrlPipe, DataAtPoll, OtherSteps
<1>2. PICK c \in Channel : c = Head(ctrlPipe)
  BY <1>1, TypedSlots
<1>3. \A d \in Channel : d # c /\ In(d, ctrlPipe) => In(d, ctrlPipe')
  BY <1>1, <1>2, TypedSlots, InRest
<1>4. \/ /\ channels[c].state = "NEW_CLIENT"
         /\ channels' = [channels EXCEPT ![c].polled = TRUE] /\ data' = [at |-> "new", c |-> c]
         /\ peer' = peer
      \/ /\ channels[c].state # "NEW_CLIENT"
         /\ \/ \E e : channels[c].accepted /\ channels' = [channels EXCEPT ![c].events = e]
            \/ channels' = channels
         /\ data' = data /\ peer' = peer
      \/ channels[c].accepted /\ channels[c].state = "NEED_QUIT" /\ CloseChannel(c)
  BY <1>1, <1>2 DEF ReadCtrlPipe, Serve
<1>5. /\ ChannelOK(c) /\ FreeSlot(c) /\ channels[c] \in PasvData /\ peer[c] \in PeerState
      /\ channels[c].port = None => /\ channels[c].state = "IDLE" /\ ~channels[c].accepted
                                    /\ ~channels[c].polled
      /\ channels[c].lock = Free /\ ~Serving(c) /\ ~Closing(c)
  BY <1>1, ChannelFacts
<1>6. CASE channels[c].state = "NEW_CLIENT" /\ channels' = [channels EXCEPT ![c].polled = TRUE]
           /\ data' = [at |-> "new", c |-> c] /\ peer' = peer
  <2>1. /\ \A d \in Channel : d # c => SameChannel(d)
        /\ channels'[c].port = channels[c].port /\ channels'[c].ctrl = channels[c].ctrl
        /\ channels'[c].orphan = channels[c].orphan /\ channels'[c].state = channels[c].state
        /\ channels'[c].lock = channels[c].lock /\ channels'[c].accepted = channels[c].accepted
        /\ channels'[c].wpipe = channels[c].wpipe
    BY <1>1, <1>3, <1>5, <1>6, TypedSlots DEF SameChannel, PasvData
  <2>2. channels[c].port # None
    BY <1>5, <1>6
  <2>3. ~Closing(c)' /\ ~Serving(c)' /\ data'.at = "new" /\ data'.c = c
    BY <1>6 DEF Closing, Serving
  <2>4. ChannelOK(c)'
    BY <1>5, <1>6, <2>1, <2>3 DEF ChannelOK, Busy
  <2> QED
    BY <1>1, <1>5, <1>6, <2>1, <2>2, <2>3, <2>4, QuietKeeps
<1>7. CASE /\ channels[c].state # "NEW_CLIENT"
           /\ \/ \E e : channels[c].accepted /\ channels' = [channels EXCEPT ![c].events = e]
              \/ channels' = channels
           /\ data' = data /\ peer' = peer
  <2>1. /\ \A d \in Channel : d # c => SameChannel(d)
        /\ channels'[c].port = channels[c].port /\ channels'[c].ctrl = channels[c].ctrl
        /\ channels'[c].orphan = channels[c].orphan /\ channels'[c].state = channels[c].state
        /\ channels'[c].lock = channels[c].lock /\ channels'[c].accepted = channels[c].accepted
        /\ channels'[c].wpipe = channels[c].wpipe
    BY <1>1, <1>3, <1>5, <1>7, TypedSlots DEF SameChannel, PasvData
  <2>3. ~Closing(c)' /\ ~Serving(c)' /\ data'.at = "poll"
    BY <1>1, <1>7 DEF Closing, Serving
  <2>4. ChannelOK(c)'
    <3>1. channels[c].state = "NEED_QUIT" => \A s \in Session : ~Owns(s, c)'
      BY <1>1, <1>5, <2>1 DEF ChannelOK, Owns, Holds, Keeps, OtherSteps
    <3> QED
      BY <1>5, <1>7, <2>1, <2>3, <3>1 DEF ChannelOK, Busy
  <2>5. CASE channels[c].port # None
    BY <1>1, <1>5, <1>7, <2>1, <2>3, <2>4, <2>5, QuietKeeps
  <2>6. CASE channels[c].port = None
    <3>1. channels' = channels
      BY <1>5, <1>7, <2>6
    <3>2. \A d \in Channel : channels'[d].port = channels[d].port /\ peer'[d].conn = peer[d].conn
      BY <1>7, <3>1
    <3>3. /\ PortsOK /\ KnowsOK /\ ChannelsOK /\ JobsOK /\ (\A s \in Session : DialogOK(s))
          /\ MainOK /\ FlagsOK /\ CountersOK
      BY DEF PoliteInv, Polite, TransferInv
    <3>4. UNCHANGED <<clients, user, main, dataPipe, exitPipe>>
      BY <1>1 DEF OtherSteps
    <3>5. PortsOK' /\ KnowsOK' /\ JobsOK'
      BY <1>7, <3>1, <3>3, <3>4 DEF PortsOK, KnowsOK, JobsOK, FreeSlot, Keeps, Holds, Owns, Due227,
         JobOK, OwnerOK, Pledged, Working, Closing, Busy, Transferring, JobOf, Pre
    <3>6. ChannelsOK'
      <4>1. \A d \in Channel : ChannelOK(d)'
        BY <2>1, <2>4, <3>3, <3>4, OtherChannel DEF ChannelsOK
      <4> QED
        BY <2>3, <4>1 DEF ChannelsOK
    <3>7. (\A s \in Session : DialogOK(s)') /\ MainOK' /\ FlagsOK'
      BY <3>2, <3>3, <3>4, SameDialogs
    <3> QED
      BY <3>5, <3>6, <3>7 DEF Polite
  <2> QED
    BY <2>5, <2>6
<1>8. CASE channels[c].accepted /\ channels[c].state = "NEED_QUIT" /\ CloseChannel(c)
  BY <1>1, <1>3, <1>5, <1>8, ClosePolite DEF ChannelOK
<1> QED
  BY <1>4, <1>6, <1>7, <1>8

LEMMA StoreIdlePolite ==
  ASSUME PoliteInv, StoreIdle
  PROVE  Polite'
<1>1. PICK c \in Channel : c = data.c
  BY TypedSlots DEF StoreIdle, CountersOK
<1>2. /\ data.at = "new" /\ channels' = [channels EXCEPT ![c].state = "IDLE"] /\ data' = DataIdle
      /\ ctrlPipe' = ctrlPipe /\ peer' = peer /\ OtherSteps
  BY <1>1 DEF StoreIdle, OtherSteps
<1>3. ChannelOK(c) /\ channels[c].state = "NEW_CLIENT" /\ channels[c].port # None
  BY <1>1, <1>2, ChannelFacts DEF ChannelOK
<1>4. data'.at = "poll" /\ \A d \in Channel : data'.c # d
  BY <1>2, ConstantsAssumption DEF DataIdle
<1>5. /\ \A d \in Channel : d # c => SameChannel(d)
      /\ channels'[c].port = channels[c].port /\ channels'[c].ctrl = channels[c].ctrl
      /\ channels'[c].orphan = channels[c].orphan /\ channels'[c].state = "IDLE"
      /\ channels'[c].lock = channels[c].lock /\ channels'[c].accepted = channels[c].accepted
      /\ channels'[c].wpipe = channels[c].wpipe
  BY <1>1, <1>2, <1>4, TypedSlots DEF SameChannel, PasvData
<1>6. ~Closing(c)' /\ ~Closing(c) /\ ~Serving(c)' /\ ~Serving(c)
  BY <1>2, <1>4 DEF Closing, Serving
<1>7. ChannelOK(c)'
  BY <1>2, <1>3, <1>4, <1>5, <1>6 DEF ChannelOK, Busy
<1> QED
  BY <1>2, <1>3, <1>4, <1>5, <1>6, <1>7, QuietKeeps

LEMMA AcceptDataPolite ==
  ASSUME PoliteInv, NEW c \in Channel, AcceptData(c)
  PROVE  Polite'
<1>1. /\ data.at = "poll" /\ channels[c].polled /\ peer[c].conn
      /\ ctrlPipe' = ctrlPipe /\ peer' = peer /\ data' = data /\ OtherSteps
  BY DEF AcceptData, DataAtPoll, AcceptReady, OtherSteps
<1>2. PICK e : channels' = [channels EXCEPT ![c] = [@ EXCEPT !.accepted = TRUE, !.events = e]]
  BY DEF AcceptData
<1>3. /\ ChannelOK(c) /\ channels[c].port # None /\ ~Serving(c) /\ ~Closing(c)
  BY <1>1, ChannelFacts
<1>5. /\ \A d \in Channel : d # c => SameChannel(d)
      /\ channels'[c].port = channels[c].port /\ channels'[c].ctrl = channels[c].ctrl
      /\ channels'[c].orphan = channels[c].orphan /\ channels'[c].state = channels[c].state
      /\ channels'[c].lock = channels[c].lock /\ channels'[c].wpipe = channels[c].wpipe
  BY <1>1, <1>2, TypedSlots DEF SameChannel, PasvData
<1>6. ~Closing(c)' /\ ~Serving(c)'
  BY <1>1, <1>3 DEF Closing, Serving
<1>7. ChannelOK(c)'
  <2>1. channels[c].state = "NEED_QUIT" => \A s \in Session : ~Owns(s, c)'
    BY <1>1, <1>3, <1>5 DEF ChannelOK, Owns, Holds, Keeps, OtherSteps
  <2> QED
    BY <1>1, <1>3, <1>5, <1>6, <2>1 DEF ChannelOK, Busy
<1> QED
  BY <1>1, <1>3, <1>5, <1>6, <1>7, QuietKeeps

\* A transfer that has come to its end.
LEMMA CallbackReached ==
  ASSUME PoliteInv, NEW c \in Channel, data.at = "poll", ToCallback(c), Busy(c),
         channels[c].accepted, channels[c].state = "NEED_RECV" => peer[c].fin,
         OtherSteps, ctrlPipe' = ctrlPipe
  PROVE  Polite'
<1>1. ChannelOK(c) /\ channels[c].port # None /\ ~Serving(c) /\ ~Closing(c)
  BY ChannelFacts
<1>2. /\ channels' = [channels EXCEPT ![c] = [@ EXCEPT !.lock = "data", !.left = 0]]
      /\ data' = [at |-> "callback", c |-> c] /\ peer' = peer
  BY DEF ToCallback, Serve
<1>3. data'.at = "callback" /\ data'.c = c
  BY <1>2
<1>5. /\ \A d \in Channel : d # c => SameChannel(d)
      /\ channels'[c].port = channels[c].port /\ channels'[c].ctrl = channels[c].ctrl
      /\ channels'[c].orphan = channels[c].orphan /\ channels'[c].state = channels[c].state
      /\ channels'[c].lock = "data" /\ channels'[c].wpipe = channels[c].wpipe
      /\ channels'[c].accepted = channels[c].accepted
  BY <1>2, <1>3, TypedSlots DEF SameChannel, PasvData
<1>6. ~Closing(c)' /\ Serving(c)'
  BY <1>3 DEF Closing, Serving
<1>7. ChannelOK(c)'
  <2>1. channels[c].state # "NEED_QUIT" /\ channels[c].state # "NEW_CLIENT"
    BY DEF Busy
  <2> QED
    BY <1>1, <1>2, <1>3, <1>5, <1>6, <2>1 DEF ChannelOK, Busy
<1> QED
  BY <1>1, <1>2, <1>3, <1>5, <1>6, <1>7, QuietKeeps

LEMMA ReadDataPolite ==
  ASSUME PoliteInv, NEW c \in Channel, ReadData(c)
  PROVE  Polite'
<1>1. /\ data.at = "poll" /\ channels[c].accepted /\ (peer[c].rx \/ peer[c].fin)
      /\ ctrlPipe' = ctrlPipe /\ OtherSteps
  BY DEF ReadData, DataAtPoll, InReady, OtherSteps
<1>2. ChannelOK(c) /\ channels[c].port # None /\ ~Serving(c) /\ ~Closing(c)
  BY <1>1, ChannelFacts
<1>3. CASE channels[c].wpipe
  <2>1. channels[c].state = "NEED_RECV" /\ Busy(c)
    BY <1>2, <1>3 DEF ChannelOK, Busy
  <2>2. CASE peer[c].rx
    <3>1. peer' = [peer EXCEPT ![c].rx = FALSE] /\ UNCHANGED <<channels, data>>
      BY <1>3, <2>1, <2>2 DEF ReadData
    <3>2. peer'[c].conn = peer[c].conn /\ peer'[c].who = peer[c].who /\ ~peer'[c].rx
          /\ peer'[c].fin = peer[c].fin
      BY <3>1, TypedSlots DEF PeerState
    <3>3. \A d \in Channel : d # c => SameChannel(d)
      BY <1>1, <3>1, TypedSlots DEF SameChannel
    <3>4. ChannelOK(c)' /\ (Closing(c)' <=> Closing(c))
      BY <1>1, <1>2, <2>1, <3>1, <3>2 DEF ChannelOK, Serving, Closing, Busy
    <3>5. data'.at # "blocked"
      BY <1>1, <3>1
    <3> QED
      BY <1>1, <1>2, <3>1, <3>2, <3>3, <3>4, <3>5, QuietKeeps
  <2>3. CASE ~peer[c].rx
    <3>1. ToCallback(c)
      BY <1>3, <2>3 DEF ReadData
    <3> QED
      BY <1>1, <2>1, <2>3, <3>1, CallbackReached
  <2> QED
    BY <2>2, <2>3
<1>4. CASE ~channels[c].wpipe
  <2>1. CloseChannel(c)
    BY <1>4 DEF ReadData
  <2>2. \A s \in Session : ~Owns(s, c)
    <3> SUFFICES ASSUME NEW s \in Session, Owns(s, c) PROVE FALSE
      OBVIOUS
    <3>1. user[s].stage = "xfer" /\ user[s].asked = "STOR" /\ OwnerOK(s, c) /\ DialogOK(s)
      BY <1>1 DEF PoliteInv, Polite, JobsOK, OwnerOK
    <3>2. clients[s].cmdSend = 0
      BY <3>1 DEF DialogOK, Owns, Holds, Keeps
    <3>3. PICK d \in Channel : Working(d) /\ channels[d].ctrl = s
      BY <3>1, <3>2 DEF PoliteInv, Polite, JobsOK, Pledged
    <3>4. Owns(s, d) /\ user[s].asked = JobOf(d) /\ Busy(d)
      BY <3>3 DEF PoliteInv, Polite, JobsOK, JobOK, Working
    <3>5. d = c
      BY <3>4 DEF PoliteInv, Polite, PortsOK, Owns
    <3> QED
      BY <1>2, <1>4, <3>1, <3>4, <3>5 DEF JobOf, Busy, ChannelOK
  <2> QED
    BY <1>1, <1>2, <2>1, <2>2, ClosePolite DEF ChannelOK
<1> QED
  BY <1>3, <1>4

LEMMA SendDataPolite ==
  ASSUME PoliteInv, NEW c \in Channel, SendData(c)
  PROVE  Polite'
<1>1. /\ data.at = "poll" /\ channels[c].accepted /\ channels[c].state = "NEED_SEND"
      /\ ctrlPipe' = ctrlPipe /\ OtherSteps
  BY DEF SendData, DataAtPoll, OutReady, OtherSteps
<1>2. /\ ChannelOK(c) /\ channels[c].port # None /\ ~Serving(c) /\ ~Closing(c) /\ Busy(c)
  BY <1>1, ChannelFacts DEF Busy
<1>3. CASE ToCallback(c)
  BY <1>1, <1>2, <1>3, CallbackReached
<1>4. CASE \E n : channels' = [channels EXCEPT ![c] = [@ EXCEPT !.left = n, !.events = {PollOut}]]
               /\ UNCHANGED <<data, peer>>
  <2>1. /\ \A d \in Channel : d # c => SameChannel(d)
        /\ channels'[c].port = channels[c].port /\ channels'[c].ctrl = channels[c].ctrl
        /\ channels'[c].orphan = channels[c].orphan /\ channels'[c].state = channels[c].state
        /\ channels'[c].lock = channels[c].lock /\ channels'[c].wpipe = channels[c].wpipe
        /\ channels'[c].accepted = channels[c].accepted
    BY <1>1, <1>4, TypedSlots DEF SameChannel, PasvData
  <2>2. ~Closing(c)' /\ ~Serving(c)' /\ data'.at = "poll"
    BY <1>1, <1>2, <1>4 DEF Closing, Serving
  <2>3. ChannelOK(c)'
    BY <1>1, <1>2, <1>4, <2>1, <2>2 DEF ChannelOK, Busy
  <2> QED
    BY <1>1, <1>2, <1>4, <2>1, <2>2, <2>3, QuietKeeps
<1>5. ~peer[c].fin
  <2>1. Owns(channels[c].ctrl, c) /\ channels[c].ctrl \in Session
        /\ user[channels[c].ctrl].asked = JobOf(c)
    BY <1>1, <1>2, AtWork
  <2>2. OwnerOK(channels[c].ctrl, c)
    BY <2>1 DEF PoliteInv, Polite, JobsOK
  <2> QED
    BY <1>1, <2>1, <2>2 DEF OwnerOK, JobOf
<1> QED
  BY <1>3, <1>4, <1>5 DEF SendData

\* The locks of the channels are never kept by the main thread.
LEMMA BlockNever ==
  ASSUME PoliteInv, NEW c \in Channel
  PROVE  ~Block(c)
BY ChannelFacts DEF Block, DataAtPoll, Free

LEMMA CloseStepPolite ==
  ASSUME PoliteInv, CloseStep
  PROVE  Polite'
<1>1. PICK c \in Channel : c = data.c
  BY TypedSlots DEF CloseStep, CountersOK
<1>2. CloseChannel(c) /\ data.at = "close" /\ ctrlPipe' = ctrlPipe /\ OtherSteps
  BY <1>1 DEF CloseStep, OtherSteps
<1>3. Serving(c) /\ Closing(c) /\ ChannelOK(c)
  BY <1>1, <1>2, ChannelFacts DEF Serving, Closing
<1> QED
  BY <1>1, <1>2, <1>3, ClosePolite DEF ChannelOK

-----------------------------------------------------------------------------
(* The pipes of sessions hold each of them once.                           *)

LEMMA AppendOnce ==
  ASSUME NEW S, NEW q \in Seq(S), NEW x \in S, Once(q), ~In(x, q)
  PROVE  Once(Append(q, x)) /\ \A y : In(y, Append(q, x)) => In(y, q) \/ y = x
<1> DEFINE r == Append(q, x)
<1>1. /\ r \in Seq(S) /\ Len(r) = Len(q) + 1 /\ r[Len(q) + 1] = x /\ Len(q) \in Nat
      /\ \A i \in 1 .. Len(q) : r[i] = q[i]
  OBVIOUS
<1>2. DOMAIN r = 1 .. Len(q) + 1 /\ DOMAIN q = 1 .. Len(q)
  BY <1>1
<1> HIDE DEF r
<1>3. \A i \in DOMAIN r : (i \in DOMAIN q /\ r[i] = q[i]) \/ (i = Len(q) + 1 /\ r[i] = x)
  BY <1>1, <1>2
<1>4. \A i \in DOMAIN q : q[i] # x
  BY DEF In
<1>5. Once(r)
  BY <1>3, <1>4 DEF Once
<1>6. \A y : In(y, r) => In(y, q) \/ y = x
  BY <1>3 DEF In
<1> QED
  BY <1>5, <1>6 DEF r

LEMMA TailOnce ==
  ASSUME NEW S, NEW q \in Seq(S), q # <<>>, Once(q)
  PROVE  /\ Once(Tail(q)) /\ In(Head(q), q)
         /\ \A y : In(y, Tail(q)) => In(y, q) /\ y # Head(q)
<1> DEFINE r == Tail(q)
<1>1. /\ Len(q) \in Nat /\ Len(q) >= 1 /\ DOMAIN q = 1 .. Len(q)
      /\ DOMAIN r = 1 .. Len(q) - 1 /\ \A i \in 1 .. Len(q) - 1 : r[i] = q[i + 1]
      /\ Head(q) = q[1]
  OBVIOUS
<1> HIDE DEF r
<1>2. \A i \in DOMAIN r : i + 1 \in DOMAIN q /\ i + 1 # 1 /\ r[i] = q[i + 1] /\ i \in Int
  BY <1>1
<1>3. Once(r)
  <2> SUFFICES ASSUME NEW i \in DOMAIN r, NEW j \in DOMAIN r, r[i] = r[j] PROVE i = j
    BY DEF Once
  <2>1. i + 1 = j + 1
    BY <1>2 DEF Once
  <2> QED
    BY <1>2, <2>1
<1>4. 1 \in DOMAIN q
  BY <1>1
<1>5. \A y : In(y, r) => In(y, q) /\ y # Head(q)
  <2> SUFFICES ASSUME NEW i \in DOMAIN r PROVE In(r[i], q) /\ r[i] # Head(q)
    BY DEF In
  <2>1. i + 1 \in DOMAIN q /\ i + 1 # 1 /\ r[i] = q[i + 1]
    BY <1>2
  <2> QED
    BY <1>1, <1>4, <2>1 DEF Once, In
<1>6. In(Head(q), q)
  BY <1>1, <1>4 DEF In
<1> QED
  BY <1>3, <1>5, <1>6 DEF r
-----------------------------------------------------------------------------
(* The completion.                                                         *)

\* The data thread completes for a session that is in the transfer, and only
\* once its 150 is on the socket.
LEMMA AtCallback ==
  ASSUME PoliteInv, data.at = "callback", NEW c \in Channel, c = data.c
  PROVE  /\ ChannelOK(c) /\ Serving(c) /\ Working(c) /\ ~Closing(c)
         /\ channels[c].ctrl \in Session /\ Owns(channels[c].ctrl, c) /\ ~channels[c].orphan
         /\ clients[channels[c].ctrl].netLock = Free =>
              user[channels[c].ctrl].stage = "xfer" /\ clients[channels[c].ctrl].cmdSend = 0
<1> DEFINE s == channels[c].ctrl
<1>1. ChannelOK(c) /\ Serving(c) /\ ~Closing(c) /\ Working(c)
  BY ChannelFacts DEF Serving, Closing, ChannelOK, Working
<1>2. /\ s \in Session /\ Owns(s, c) /\ ~channels[c].orphan /\ Transferring(s)
      /\ user[s].asked = JobOf(c) /\ OwnerOK(s, c) /\ clients[s].open
  BY <1>1 DEF PoliteInv, Polite, JobsOK, JobOK, Owns, Holds, Keeps
<1>3. ASSUME clients[s].netLock = Free PROVE user[s].stage = "xfer" /\ clients[s].cmdSend = 0
  <2>1. clients[s].cmdSend = 0
    BY <1>2, <1>3 DEF PoliteInv, TransferInv, LockIsToken
  <2>2. ASSUME main.s = s, main.at = "reply", main.cmd = "STOR" PROVE user[s].stage = "xfer"
    <3>1. user[s].asked = "STOR"
      BY <2>2 DEF PoliteInv, Polite, MainOK
    <3>2. channels[c].state = "NEED_RECV"
      BY <1>1, <1>2, <3>1 DEF JobOf, Working, Busy
    <3> QED
      BY <1>1, <1>2, <3>2 DEF ChannelOK, OwnerOK
  <2> QED
    BY <1>2, <2>1, <2>2 DEF Transferring
<1> QED
  BY <1>1, <1>2, <1>3

LEMMA CallbackPolite ==
  ASSUME PoliteInv, Callback
  PROVE  Polite'
<1>0. PICK c \in Channel : c = data.c
  BY TypedSlots DEF Callback, CountersOK
<1>1. /\ PortsOK /\ KnowsOK /\ ChannelsOK /\ JobsOK /\ (\A s \in Session : DialogOK(s))
      /\ MainOK /\ FlagsOK /\ CountersOK
  BY DEF PoliteInv, Polite, TransferInv
<1>2. /\ ChannelOK(c) /\ Serving(c) /\ Working(c) /\ ~Closing(c)
      /\ channels[c].ctrl \in Session /\ Owns(channels[c].ctrl, c)
      /\ data.at = "callback"
      /\ clients[channels[c].ctrl].netLock = Free =>
           user[channels[c].ctrl].stage = "xfer" /\ clients[channels[c].ctrl].cmdSend = 0
  BY <1>0, AtCallback DEF Callback
<1>3. PICK s \in Session : s = channels[c].ctrl
  BY <1>2
<1>4. s # None
  BY ConstantsAssumption
<1>5. clients[s].netLock = Free /\ Complete(s) /\ data' = [at |-> "close", c |-> c]
      /\ UNCHANGED <<channels, ctrlPipe, exitPipe, main, user, peer>>
  BY <1>0, <1>3, <1>4 DEF Callback, Serve
<1>6. user[s].stage = "xfer" /\ clients[s].cmdSend = 0 /\ ~Handling(s) /\ DialogOK(s)
  BY <1>1, <1>2, <1>3, <1>5 DEF DialogOK
<1>7. /\ \A t \in Session : t # s => clients'[t] = clients[t]
      /\ clients'[s].open = clients[s].open /\ clients'[s].connType = "NOT_SPECIFIED"
      /\ clients'[s].cmdSend = 226 /\ clients'[s].netState = "NEED_SEND"
      /\ clients'[s].events = clients[s].events
  BY <1>5, TypedSlots DEF Complete, ClientData
<1>8. dataPipe' = Append(dataPipe, s)
  BY <1>5 DEF Complete
<1>9. /\ ~Keeps(s)' /\ ~Holds(s)' /\ ~Due227(s)' /\ ~Pledged(s)'
      /\ \A t \in Session : t # s => /\ Keeps(t)' = Keeps(t) /\ Holds(t)' = Holds(t)
                                     /\ Due227(t)' = Due227(t) /\ Pledged(t)' = Pledged(t)
                                     /\ Transferring(t)' = Transferring(t)
      /\ \A t \in Session : /\ Pre(t)' = Pre(t) /\ Handling(t)' = Handling(t)
                            /\ Answering(t)' = Answering(t) /\ Between(t)' = Between(t)
  BY <1>5, <1>6, <1>7 DEF Keeps, Holds, Due227, Pledged, Transferring, Pre, Handling, Answering, Between
<1>10. /\ \A d \in Channel : ~Owns(s, d)'
       /\ \A t \in Session, d \in Channel : t # s => (Owns(t, d)' <=> Owns(t, d))
  BY <1>5, <1>7, <1>9 DEF Owns
<1>11. /\ data'.at = "close" /\ data'.c = c
       /\ ~Working(c)' /\ Closing(c)' /\ Serving(c)'
       /\ \A d \in Channel : d # c => (Working(d)' <=> Working(d)) /\ SameChannel(d)
  BY <1>0, <1>2, <1>5 DEF Working, Busy, Closing, Serving, SameChannel
<1>12. \A t \in Session : Owns(t, c) => t = s
  BY <1>1, <1>2, <1>3 DEF PortsOK, Owns, Holds
<1>13. PortsOK'
  <2>1. \A d \in Channel : FreeSlot(d)'
    BY <1>1, <1>5 DEF PortsOK, FreeSlot
  <2>2. \A t \in Session : Holds(t)' => \E d \in Channel : Owns(t, d)'
    BY <1>1, <1>9, <1>10 DEF PortsOK
  <2>3. \A t, u \in Session : Keeps(t)' /\ Keeps(u)' /\ clients'[t].pasvPort = clients'[u].pasvPort => t = u
    BY <1>1, <1>7, <1>9 DEF PortsOK
  <2>4. \A d, e \in Channel : channels'[d].port # None /\ channels'[d].port = channels'[e].port => d = e
    BY <1>1, <1>5 DEF PortsOK
  <2> QED
    BY <2>1, <2>2, <2>3, <2>4 DEF PortsOK
<1>14. KnowsOK'
  <2>1. \A t \in Session : user'[t].knows # None =>
          \E d \in Channel : channels'[d].port = user'[t].knows /\ ~peer'[d].conn
    BY <1>1, <1>5 DEF KnowsOK
  <2>2. \A t, u \in Session : user'[t].knows # None /\ t # u =>
          user'[u].knows # user'[t].knows /\ (Keeps(u)' => clients'[u].pasvPort # user'[t].knows)
    BY <1>1, <1>5, <1>7, <1>9 DEF KnowsOK
  <2>3. ASSUME NEW t \in Session, Due227(t)'
        PROVE  /\ Holds(t)' /\ user'[t].knows # clients'[t].pasvPort
               /\ \A d \in Channel : Owns(t, d)' => ~peer'[d].conn
    <3>1. t # s /\ Due227(t)
      BY <1>9, <2>3
    <3> QED
      BY <1>1, <1>5, <1>7, <1>9, <1>10, <3>1 DEF KnowsOK
  <2> QED
    BY <2>1, <2>2, <2>3 DEF KnowsOK
<1>15. ChannelsOK'
  <2>1. ChannelOK(c)'
    BY <1>2, <1>5, <1>10, <1>11, <1>12 DEF ChannelOK, Busy, Working
  <2>2. ASSUME NEW d \in Channel, d # c PROVE ChannelOK(d)'
    <3>1. \A t \in Session : Owns(t, d)' => Owns(t, d)
      BY <1>10
    <3>2. ~Serving(d) /\ ~Serving(d)' /\ ~Closing(d) /\ ~Closing(d)' /\ data.c # d /\ data'.c # d
      BY <1>0, <1>11, <2>2 DEF Serving, Closing
    <3> QED
      BY <1>1, <1>5, <3>1, <3>2 DEF ChannelsOK, ChannelOK, Busy
  <2> QED
    BY <1>11, <2>1, <2>2 DEF ChannelsOK
<1>16. JobsOK'
  <2>1. ASSUME NEW d \in Channel PROVE JobOK(d)'
    <3> SUFFICES ASSUME Working(d)' PROVE JobOK(d)'
      BY DEF JobOK
    <3>1. d # c /\ Working(d)
      BY <1>11
    <3>2. channels[d].ctrl # s
      BY <1>1, <1>2, <1>3, <3>1 DEF JobsOK, JobOK, PortsOK, Owns
    <3> QED
      BY <1>1, <1>5, <1>9, <1>10, <3>1, <3>2 DEF JobsOK, JobOK, JobOf
  <2>2. ASSUME NEW t \in Session, Pledged(t)'
        PROVE  \E d \in Channel : Working(d)' /\ channels'[d].ctrl = t
    <3>1. t # s /\ Pledged(t)
      BY <1>9, <2>2
    <3> QED
      BY <1>1, <1>3, <1>5, <1>11, <3>1 DEF JobsOK
  <2>3. ASSUME NEW t \in Session, NEW d \in Channel PROVE OwnerOK(t, d)'
    BY <1>1, <1>5, <1>9, <1>10 DEF JobsOK, OwnerOK
  <2> QED
    BY <2>1, <2>2, <2>3 DEF JobsOK
<1>17. \A t \in Session : DialogOK(t)'
  <2>1. DialogOK(s)'
    <3>1. /\ clients[s].open /\ ~user[s].gone /\ user[s].inbox = <<>>
          /\ user[s].asked \in {"RETR", "STOR"}
      BY <1>2, <1>3, <1>6, TypedSlots DEF DialogOK, Owns, Holds, Keeps, UserState
    <3>2. /\ user'[s] = user[s] /\ clients'[s].open /\ clients'[s].cmdSend = 226
          /\ clients'[s].netState = "NEED_SEND" /\ clients'[s].connType = "NOT_SPECIFIED"
          /\ ~Handling(s)'
      BY <1>5, <1>6, <1>7, <1>9, <3>1
    <3> QED
      BY <1>6, <3>1, <3>2 DEF DialogOK
  <2>2. ASSUME NEW t \in Session, t # s PROVE DialogOK(t)'
    BY <1>1, <1>5, <1>7, <1>9, <2>2 DEF DialogOK
  <2> QED
    BY <2>1, <2>2
<1>18. MainOK'
  <2>1. main.at \in {"reply", "hand", "quit"} => main.s # s
    BY <1>6 DEF Handling
  <2> QED
    BY <1>1, <1>5, <1>7, <1>9, <1>10, <2>1 DEF MainOK, CountersOK
<1>19. FlagsOK'
  <2>1. ~In(s, dataPipe)
    BY <1>1, <1>6 DEF FlagsOK, FlagOK
  <2>2. Once(dataPipe') /\ \A t : In(t, dataPipe') => In(t, dataPipe) \/ t = s
    BY <1>1, <1>8, <2>1, TypedSlots, AppendOnce DEF FlagsOK, FlagOK
  <2>3. Once(exitPipe') /\ \A t : In(t, exitPipe') => In(t, exitPipe)
    BY <1>1, <1>5 DEF FlagsOK, FlagOK, In, Once
  <2>4. ~In(s, exitPipe)
    BY <1>1, <1>6 DEF FlagsOK, FlagOK
  <2>5. clients[s].open /\ (PollOut \in clients[s].events => Between(s))
    BY <1>1, <1>2, <1>3, <1>6 DEF FlagsOK, FlagOK, Owns, Holds, Keeps
  <2>6. ASSUME NEW t \in Session
        PROVE  /\ PollOut \in clients'[t].events => clients'[t].cmdSend # 0 \/ Between(t)'
               /\ Handling(t)' => PollOut \notin clients'[t].events
               /\ In(t, dataPipe') => /\ clients'[t].open /\ clients'[t].cmdSend = 226
                                      /\ PollOut \notin clients'[t].events \/ Between(t)'
               /\ In(t, exitPipe') => /\ clients'[t].open /\ clients'[t].netState = "NEED_QUIT"
                                      /\ clients'[t].cmdSend = 221 /\ PollOut \notin clients'[t].events
    <3>1. CASE t = s
      BY <1>6, <1>7, <1>9, <2>3, <2>4, <2>5, <3>1
    <3>2. CASE t # s
      BY <1>1, <1>7, <1>9, <2>2, <2>3, <3>2 DEF FlagsOK, FlagOK
    <3> QED
      BY <3>1, <3>2
  <2> QED
    BY <2>2, <2>3, <2>6 DEF FlagsOK, FlagOK
<1> QED
  BY <1>13, <1>14, <1>15, <1>16, <1>17, <1>18, <1>19 DEF Polite

-----------------------------------------------------------------------------
(* The clients.                                                            *)

\* A client that waits for nothing has no job, and its channel, whose message
\* the data thread has read, is idle.
LEMMA IdleChannel ==
  ASSUME PoliteInv, NEW s \in Session, user[s].stage = "idle", ctrlPipe = <<>>, data.at # "new",
         NEW c \in Channel, Owns(s, c)
  PROVE  channels[c].state = "IDLE"
<1>1. ChannelOK(c) /\ channels[c].state \in NetState
  BY ChannelFacts DEF PasvData
<1>2. ~Busy(c)
  <2> SUFFICES ASSUME Busy(c) PROVE FALSE
    OBVIOUS
  <2>1. Working(c) /\ JobOK(c)
    BY <1>1 DEF ChannelOK, Working, PoliteInv, Polite, JobsOK
  <2>2. channels[c].ctrl \in Session /\ Owns(channels[c].ctrl, c) /\ Transferring(channels[c].ctrl)
    BY <2>1 DEF JobOK
  <2>3. channels[c].ctrl = s
    BY <2>2 DEF PoliteInv, Polite, PortsOK, Owns, Holds
  <2> QED
    BY <2>2, <2>3 DEF Transferring
<1>3. ~In(c, ctrlPipe)
  BY DEF In
<1> QED
  BY <1>1, <1>2, <1>3 DEF ChannelOK, Busy, NetState

LEMMA SendCmdPolite ==
  ASSUME PoliteInv, Hazard = {}, NEW s \in Session, NEW cmd \in Used, SendCmd(s, cmd)
  PROVE  Polite'
<1>1. /\ PortsOK /\ KnowsOK /\ ChannelsOK /\ JobsOK /\ (\A t \in Session : DialogOK(t))
      /\ MainOK /\ FlagsOK /\ CountersOK
  BY DEF PoliteInv, Polite, TransferInv
<1>2. /\ user[s].stage = "idle" /\ ctrlPipe = <<>> /\ data.at # "new"
      /\ clients[s].open /\ ~user[s].gone
      /\ UNCHANGED <<clients, channels, ctrlPipe, dataPipe, exitPipe, main, data, peer>>
  BY DEF SendCmd, MaySend
<1>3. /\ user[s].inbox = <<>> /\ clients[s].cmdSend = 0 /\ ~Handling(s) /\ DialogOK(s)
      /\ user[s] \in UserState
  BY <1>1, <1>2, TypedSlots DEF DialogOK
<1>4. /\ \A t \in Session : t # s => user'[t] = user[t]
      /\ user'[s].inbox = <<cmd>> /\ user'[s].asked = cmd /\ user'[s].stage = "wait"
      /\ user'[s].knows = user[s].knows /\ ~user'[s].gone
  <2> DEFINE u == [user[s] EXCEPT !.inbox = Append(user[s].inbox, cmd)]
             v == [u EXCEPT !.asked = cmd, !.stage = "wait"]
  <2>1. u.stage = "idle" /\ u.inbox = <<cmd>> /\ u \in UserState /\ u.knows = user[s].knows
        /\ u.gone = user[s].gone
    <3>1. Append(user[s].inbox, cmd) = <<cmd>> /\ <<cmd>> \in Seq(Cmd)
      BY <1>3, ConstantsAssumption
    <3> QED
      BY <1>2, <1>3, <3>1 DEF UserState
  <2>2. user' = [user EXCEPT ![s] = v]
    BY <2>1 DEF SendCmd
  <2> HIDE DEF u
  <2>3. /\ v.inbox = <<cmd>> /\ v.asked = cmd /\ v.stage = "wait" /\ v.knows = user[s].knows
        /\ ~v.gone
    BY <1>2, <2>1 DEF UserState
  <2> HIDE DEF v
  <2> QED
    BY <2>2, <2>3, TypedSlots
<1>5. \A t \in Session : user'[t].knows = user[t].knows
  BY <1>4
<1>6. \A t \in Session : /\ Keeps(t)' = Keeps(t) /\ Holds(t)' = Holds(t) /\ Due227(t)' = Due227(t)
                         /\ Handling(t)' = Handling(t) /\ Answering(t)' = Answering(t)
                         /\ Between(t)' = Between(t)
  BY <1>2 DEF Keeps, Holds, Due227, Handling, Answering, Between
<1>7. /\ \A t \in Session, d \in Channel : Owns(t, d)' <=> Owns(t, d)
      /\ \A d \in Channel : Working(d)' <=> Working(d)
  BY <1>2, <1>6 DEF Owns, Working, Busy, Closing
<1>8. PortsOK' /\ KnowsOK' /\ ChannelsOK'
  <2>1. PortsOK'
    BY <1>1, <1>2, <1>6, <1>7 DEF PortsOK, FreeSlot
  <2>2. KnowsOK'
    BY <1>1, <1>2, <1>5, <1>6, <1>7 DEF KnowsOK
  <2>3. ChannelsOK'
    BY <1>1, <1>2, <1>7 DEF ChannelsOK, ChannelOK, Busy, Serving, Closing, In
  <2> QED
    BY <2>1, <2>2, <2>3
<1>9. JobsOK'
  <2>1. ~Transferring(s) /\ ~Pledged(s)'
    BY <1>2, <1>3, <1>4 DEF Transferring, Pledged, Handling
  <2>2. \A t \in Session : t # s => /\ Transferring(t)' = Transferring(t) /\ Pledged(t)' = Pledged(t)
                                    /\ Pre(t)' = Pre(t)
    BY <1>2, <1>4 DEF Transferring, Pledged, Pre
  <2>3. ASSUME NEW d \in Channel PROVE JobOK(d)'
    BY <1>1, <1>2, <1>4, <1>7, <2>1, <2>2 DEF JobsOK, JobOK, JobOf
  <2>4. ASSUME NEW t \in Session, Pledged(t)'
        PROVE  \E d \in Channel : Working(d)' /\ channels'[d].ctrl = t
    BY <1>1, <1>2, <1>7, <2>1, <2>2, <2>4 DEF JobsOK
  <2>5. ASSUME NEW t \in Session, NEW d \in Channel PROVE OwnerOK(t, d)'
    <3> SUFFICES ASSUME Owns(t, d) PROVE OwnerOK(t, d)'
      BY <1>7 DEF OwnerOK
    <3>1. CASE t = s
      <4>1. channels[d].state = "IDLE"
        BY <1>2, <3>1, IdleChannel
      <4>2. OwnerOK(s, d) /\ user[s].stage # "xfer"
        BY <1>1, <1>2 DEF JobsOK
      <4> QED
        BY <1>2, <3>1, <4>1, <4>2 DEF OwnerOK
    <3>2. CASE t # s
      BY <1>1, <1>2, <1>4, <1>7, <2>2, <3>2 DEF JobsOK, OwnerOK
    <3> QED
      BY <3>1, <3>2
  <2> QED
    BY <2>3, <2>4, <2>5 DEF JobsOK
<1>10. \A t \in Session : DialogOK(t)'
  <2>1. DialogOK(s)'
    BY <1>2, <1>3, <1>4, <1>6 DEF DialogOK
  <2>2. ASSUME NEW t \in Session, t # s PROVE DialogOK(t)'
    BY <1>1, <1>2, <1>4, <1>6, <2>2 DEF DialogOK
  <2> QED
    BY <2>1, <2>2
<1>11. MainOK'
  <2>1. main.at \in {"reply", "hand", "quit"} => main.s # s
    BY <1>3 DEF Handling
  <2> QED
    BY <1>1, <1>2, <1>4, <1>6, <1>7, <2>1 DEF MainOK, CountersOK
<1>12. FlagsOK'
  BY <1>1, <1>2, <1>6 DEF FlagsOK, FlagOK, Once, In
<1> QED
  BY <1>8, <1>9, <1>10, <1>11, <1>12 DEF Polite

\* What the peers do with a data connection.
LEMMA PeerKeeps ==
  ASSUME PoliteInv, UNCHANGED <<clients, channels, ctrlPipe, dataPipe, exitPipe, main, data>>,
         \A t \in Session : /\ user'[t].stage = user[t].stage /\ user'[t].asked = user[t].asked
                            /\ user'[t].inbox = user[t].inbox /\ user'[t].gone = user[t].gone
                            /\ user'[t].heard = user[t].heard,
         \A t \in Session : ~clients[t].open => user'[t] = user[t],
         \A d \in Channel : /\ peer[d].conn => peer'[d].conn
                            /\ peer[d].fin => peer'[d].fin
                            /\ channels[d].port = None => peer'[d] = peer[d],
         \A t \in Session, d \in Channel : OwnerOK(t, d)',
         KnowsOK'
  PROVE  Polite'
<1>1. /\ PortsOK /\ ChannelsOK /\ JobsOK /\ (\A t \in Session : DialogOK(t))
      /\ MainOK /\ FlagsOK /\ CountersOK
  BY DEF PoliteInv, Polite, TransferInv
<1>6. \A t \in Session : /\ Keeps(t)' = Keeps(t) /\ Holds(t)' = Holds(t)
                         /\ Handling(t)' = Handling(t) /\ Answering(t)' = Answering(t)
                         /\ Between(t)' = Between(t) /\ Transferring(t)' = Transferring(t)
                         /\ Pledged(t)' = Pledged(t)
  BY DEF Keeps, Holds, Handling, Answering, Between, Transferring, Pledged
<1>7. /\ \A t \in Session, d \in Channel : Owns(t, d)' <=> Owns(t, d)
      /\ \A d \in Channel : Working(d)' <=> Working(d)
  BY <1>6 DEF Owns, Working, Busy, Closing
<1>8. PortsOK'
  BY <1>1, <1>6, <1>7 DEF PortsOK, FreeSlot
<1>9. ChannelsOK'
  BY <1>1, <1>7 DEF ChannelsOK, ChannelOK, Busy, Serving, Closing, In
<1>10. JobsOK'
  <2>1. \A d \in Channel : JobOK(d)'
    BY <1>1, <1>6, <1>7 DEF JobsOK, JobOK, JobOf
  <2>2. \A t \in Session : Pledged(t)' => \E d \in Channel : Working(d)' /\ channels'[d].ctrl = t
    BY <1>1, <1>6, <1>7 DEF JobsOK
  <2> QED
    BY <2>1, <2>2 DEF JobsOK
<1>11. \A t \in Session : DialogOK(t)'
  BY <1>1, <1>6 DEF DialogOK
<1>12. MainOK'
  BY <1>1, <1>6, <1>7 DEF MainOK, CountersOK
<1>13. FlagsOK'
  BY <1>1, <1>6 DEF FlagsOK, FlagOK, Once, In
<1> QED
  BY <1>8, <1>9, <1>10, <1>11, <1>12, <1>13 DEF Polite

LEMMA ConnectPolite ==
  ASSUME PoliteInv, NEW s \in Session, Connect(s)
  PROVE  Polite'
<1>1. PortsOK /\ KnowsOK /\ JobsOK /\ \A t \in Session : DialogOK(t)
  BY DEF PoliteInv, Polite
<1>2. PICK c \in Channel :
        /\ channels[c].port = user[s].knows /\ user[s].knows # None /\ ~peer[c].conn
        /\ peer' = [peer EXCEPT ![c] = [@ EXCEPT !.conn = TRUE, !.who = s]]
  BY DEF Connect
<1>3. /\ user' = [user EXCEPT ![s].knows = None]
      /\ UNCHANGED <<clients, channels, ctrlPipe, dataPipe, exitPipe, main, data>>
  BY DEF Connect
<1>4. /\ \A d \in Channel : d # c => peer'[d] = peer[d]
      /\ peer'[c].conn /\ peer'[c].who = s /\ peer'[c].rx = peer[c].rx /\ peer'[c].fin = peer[c].fin
  BY <1>2, TypedSlots DEF PeerState
<1>5. /\ \A t \in Session : t # s => user'[t] = user[t]
      /\ user'[s].knows = None
      /\ user'[s].stage = user[s].stage /\ user'[s].asked = user[s].asked
      /\ user'[s].inbox = user[s].inbox /\ user'[s].gone = user[s].gone
      /\ user'[s].heard = user[s].heard
  BY <1>3, TypedSlots DEF UserState
<1>6. \A t \in Session : /\ Keeps(t)' = Keeps(t) /\ Holds(t)' = Holds(t) /\ Due227(t)' = Due227(t)
                         /\ Pre(t)' = Pre(t)
  BY <1>3, <1>5 DEF Keeps, Holds, Due227, Pre
<1>7. \A t \in Session, d \in Channel : Owns(t, d)' <=> Owns(t, d)
  BY <1>3, <1>6 DEF Owns
<1>8. \A t \in Session : Owns(t, c) => t = s
  BY <1>1, <1>2 DEF KnowsOK, Owns, Holds
<1>9. KnowsOK'
  <2>1. ASSUME NEW t \in Session, user'[t].knows # None
        PROVE  \E d \in Channel : channels'[d].port = user'[t].knows /\ ~peer'[d].conn
    <3>1. t # s /\ user'[t] = user[t]
      BY <1>5, <2>1
    <3>2. PICK d \in Channel : channels[d].port = user[t].knows /\ ~peer[d].conn
      BY <1>1, <2>1, <3>1 DEF KnowsOK
    <3>3. d # c
      BY <1>1, <1>2, <2>1, <3>1, <3>2 DEF KnowsOK
    <3> QED
      BY <1>3, <1>4, <3>1, <3>2, <3>3
  <2>2. \A t, u \in Session : user'[t].knows # None /\ t # u =>
          user'[u].knows # user'[t].knows /\ (Keeps(u)' => clients'[u].pasvPort # user'[t].knows)
    BY <1>1, <1>3, <1>5, <1>6 DEF KnowsOK
  <2>3. ASSUME NEW t \in Session, Due227(t)
        PROVE  /\ Holds(t)' /\ user'[t].knows # clients'[t].pasvPort
               /\ \A d \in Channel : Owns(t, d)' => ~peer'[d].conn
    <3>1. /\ Holds(t) /\ user[t].knows # clients[t].pasvPort
          /\ \A d \in Channel : Owns(t, d) => ~peer[d].conn
      BY <1>1, <2>3 DEF KnowsOK
    <3>2. ~Owns(t, c)
      BY <1>2, <1>8, <3>1 DEF Owns
    <3>3. clients[t].pasvPort # None
      BY <1>1, <3>1 DEF PortsOK, Owns
    <3> QED
      BY <1>3, <1>4, <1>5, <1>6, <1>7, <3>1, <3>2, <3>3
  <2> QED
    BY <1>6, <2>1, <2>2, <2>3 DEF KnowsOK
<1>10. \A t \in Session, d \in Channel : OwnerOK(t, d)'
  <2> SUFFICES ASSUME NEW t \in Session, NEW d \in Channel, Owns(t, d) PROVE OwnerOK(t, d)'
    BY <1>7 DEF OwnerOK
  <2>1. OwnerOK(t, d)
    BY <1>1 DEF JobsOK
  <2> QED
    BY <1>3, <1>4, <1>5, <1>6, <1>8, <2>1 DEF OwnerOK
<1>11. \A t \in Session : ~clients[t].open => user'[t] = user[t]
  <2>1. clients[s].open
    BY <1>1, <1>2 DEF DialogOK, NoUser
  <2> QED
    BY <1>5, <2>1
<1>12. \A d \in Channel : /\ peer[d].conn => peer'[d].conn
                          /\ peer[d].fin => peer'[d].fin
                          /\ channels[d].port = None => peer'[d] = peer[d]
  BY <1>2, <1>4
<1> QED
  BY <1>3, <1>5, <1>9, <1>10, <1>11, <1>12, PeerKeeps

LEMMA UploadPolite ==
  ASSUME PoliteInv, Hazard = {}, NEW c \in Channel, Upload(c) \/ Finish(c)
  PROVE  Polite'
<1>1. PortsOK /\ KnowsOK /\ JobsOK
  BY DEF PoliteInv, Polite
<1>2. /\ peer[c].conn /\ user[peer[c].who].asked = "STOR" /\ user[peer[c].who].stage = "xfer"
      /\ UNCHANGED <<clients, channels, ctrlPipe, dataPipe, exitPipe, main, data, user>>
      /\ peer' = [peer EXCEPT ![c].rx = TRUE] \/ peer' = [peer EXCEPT ![c].fin = TRUE]
  BY DEF Upload, Finish, CloseData, MayUpload
<1>3. /\ \A d \in Channel : d # c => peer'[d] = peer[d]
      /\ peer'[c].conn = peer[c].conn /\ peer'[c].who = peer[c].who /\ (peer[c].fin => peer'[c].fin)
  BY <1>2, TypedSlots DEF PeerState
<1>4. channels[c].port # None
  BY <1>1, <1>2 DEF PortsOK, FreeSlot, NoPeer
<1>5. \A t \in Session, d \in Channel : OwnerOK(t, d)'
  <2> SUFFICES ASSUME NEW t \in Session, NEW d \in Channel PROVE OwnerOK(t, d)'
    OBVIOUS
  <2>1. OwnerOK(t, d) /\ Owns(t, d)' = Owns(t, d) /\ Pre(t)' = Pre(t)
    BY <1>1, <1>2 DEF JobsOK, Owns, Holds, Keeps, Pre
  <2> QED
    BY <1>2, <1>3, <2>1 DEF OwnerOK
<1>6. KnowsOK'
  <2>1. \A d \in Channel : peer'[d].conn = peer[d].conn
    BY <1>3
  <2> QED
    BY <1>1, <1>2, <2>1 DEF KnowsOK, Due227, Owns, Holds, Keeps
<1> QED
  BY <1>2, <1>3, <1>4, <1>5, <1>6, PeerKeeps

-----------------------------------------------------------------------------
(* The main thread.  A step is about one session; the others are where they *)
(* were.                                                                    *)

OtherSessions(s) == \A t \in Session : t # s => clients'[t] = clients[t] /\ user'[t] = user[t]
MainFor(s) == (main.s = s \/ main.at = "poll") /\ (main'.s = s \/ main'.at = "poll")

LEMMA Elsewhere ==
  ASSUME NEW s \in Session, NEW t \in Session, t # s, OtherSessions(s), MainFor(s)
  PROVE  /\ clients'[t] = clients[t] /\ user'[t] = user[t]
         /\ Keeps(t)' <=> Keeps(t)
         /\ Holds(t)' <=> Holds(t)
         /\ Due227(t)' <=> Due227(t)
         /\ Transferring(t)' <=> Transferring(t)
         /\ Pledged(t)' <=> Pledged(t)
         /\ Pre(t)' <=> Pre(t)
         /\ DialogOK(t) => DialogOK(t)'
         /\ ~Handling(t)' /\ ~Between(t)' /\ ~Handling(t) /\ ~Between(t)
<1>1. clients'[t] = clients[t] /\ user'[t] = user[t]
  BY DEF OtherSessions
<1>2. /\ main.s = t => main.at = "poll"
      /\ main'.s = t => main'.at = "poll"
  BY DEF MainFor
<1>3. /\ Keeps(t)' <=> Keeps(t)
      /\ Holds(t)' <=> Holds(t)
      /\ Due227(t)' <=> Due227(t)
      /\ Transferring(t)' <=> Transferring(t)
      /\ Pledged(t)' <=> Pledged(t)
      /\ Pre(t)' <=> Pre(t)
  BY <1>1, <1>2 DEF Keeps, Holds, Due227, Transferring, Pledged, Pre
<1>4. /\ ~Handling(t)' /\ ~Between(t)' /\ ~Handling(t) /\ ~Between(t)
      /\ ~Answering(t)' /\ ~Answering(t)
  BY <1>2 DEF Handling, Between, Answering
<1>5. DialogOK(t) => DialogOK(t)'
  BY <1>1, <1>4 DEF DialogOK
<1> QED
  BY <1>1, <1>3, <1>4, <1>5

\* What a step of the main thread that hands no job over has to keep.
QuietMain(s) ==
  /\ OtherSessions(s) /\ MainFor(s)
  /\ UNCHANGED <<ctrlPipe, peer, data>>
  /\ \A c \in Channel :
       /\ channels'[c] = channels[c] \/ channels'[c] = [channels[c] EXCEPT !.orphan = TRUE]
       /\ channels'[c] = channels[c] \/ (channels[c].ctrl = s /\ ~Holds(s))

PortsKept(s) ==
  /\ Keeps(s)' => Keeps(s) /\ clients'[s].pasvPort = clients[s].pasvPort
  /\ Holds(s)' => Holds(s)

LEMMA QuietChannels ==
  ASSUME PoliteInv, NEW s \in Session, QuietMain(s)
  PROVE  /\ \A c \in Channel :
              /\ channels'[c].port = channels[c].port /\ channels'[c].state = channels[c].state
              /\ channels'[c].lock = channels[c].lock /\ channels'[c].accepted = channels[c].accepted
              /\ channels'[c].wpipe = channels[c].wpipe /\ channels'[c].ctrl = channels[c].ctrl
              /\ Working(c)' <=> Working(c)
              /\ Serving(c)' <=> Serving(c)
              /\ Closing(c)' <=> Closing(c)
              /\ JobOf(c)' = JobOf(c)
              /\ channels'[c].orphan = channels[c].orphan \/ (channels[c].ctrl = s /\ ~Holds(s))
         /\ \A t \in Session, c \in Channel : t # s => (Owns(t, c)' <=> Owns(t, c))
         /\ PortsKept(s) => \A c \in Channel : Owns(s, c)' => Owns(s, c)
<1>1. \A c \in Channel :
              /\ channels'[c].port = channels[c].port /\ channels'[c].state = channels[c].state
              /\ channels'[c].lock = channels[c].lock /\ channels'[c].accepted = channels[c].accepted
              /\ channels'[c].wpipe = channels[c].wpipe /\ channels'[c].ctrl = channels[c].ctrl
              /\ channels'[c].orphan = channels[c].orphan \/ (channels[c].ctrl = s /\ ~Holds(s))
  <2> SUFFICES ASSUME NEW c \in Channel
               PROVE  /\ channels'[c].port = channels[c].port /\ channels'[c].state = channels[c].state
                      /\ channels'[c].lock = channels[c].lock /\ channels'[c].accepted = channels[c].accepted
                      /\ channels'[c].wpipe = channels[c].wpipe /\ channels'[c].ctrl = channels[c].ctrl
                      /\ channels'[c].orphan = channels[c].orphan \/ (channels[c].ctrl = s /\ ~Holds(s))
    OBVIOUS
  <2>1. channels[c] \in PasvData
    BY TypedSlots
  <2> QED
    BY <2>1 DEF QuietMain, PasvData
<1>2. \A c \in Channel : /\ Working(c)' <=> Working(c)
                         /\ Serving(c)' <=> Serving(c)
                         /\ Closing(c)' <=> Closing(c)
                         /\ JobOf(c)' = JobOf(c)
  BY <1>1 DEF QuietMain, Working, Serving, Closing, Busy, JobOf
<1>3. \A t \in Session, c \in Channel : t # s => (Owns(t, c)' <=> Owns(t, c))
  BY <1>1, Elsewhere DEF QuietMain, Owns
<1>4. PortsKept(s) => \A c \in Channel : Owns(s, c)' => Owns(s, c)
  BY <1>1 DEF PortsKept, Owns, Holds
<1> QED
  BY <1>1, <1>2, <1>3, <1>4

KnowsKept(s) ==
  /\ user'[s].knows = user[s].knows \/ user'[s].knows = None
     \/ (Due227(s) /\ user'[s].knows = clients[s].pasvPort)
  /\ Due227(s)' => /\ Due227(s) /\ Holds(s)' /\ clients'[s].pasvPort = clients[s].pasvPort
                   /\ user'[s].knows \in {user[s].knows, None}

JobsKept(s) ==
  /\ Transferring(s) /\ Holds(s) => /\ Transferring(s)' /\ Holds(s)'
                                    /\ clients'[s].pasvPort = clients[s].pasvPort
                                    /\ user'[s].asked = user[s].asked
  /\ Pledged(s)' => Pledged(s)
  /\ Holds(s)' /\ user[s].stage = "xfer" => user'[s].stage = "xfer" /\ user'[s].asked = user[s].asked
  /\ Holds(s)' /\ Pre(s)' => Pre(s)

LEMMA QuietPorts ==
  ASSUME PoliteInv, NEW s \in Session, QuietMain(s), PortsKept(s)
  PROVE  PortsOK'
<1>1. PortsOK
  BY DEF PoliteInv, Polite
<1>2. /\ \A c \in Channel : channels'[c].port = channels[c].port
      /\ \A t \in Session, c \in Channel : t # s => (Owns(t, c)' <=> Owns(t, c))
  BY QuietChannels
<1>3. \A t \in Session : t # s => /\ clients'[t] = clients[t]
                                  /\ Keeps(t)' <=> Keeps(t)
                                  /\ Holds(t)' <=> Holds(t)
  BY Elsewhere DEF QuietMain
<1>4. \A c, d \in Channel : channels'[c].port # None /\ channels'[c].port = channels'[d].port => c = d
  BY <1>1, <1>2 DEF PortsOK
<1>5. \A c \in Channel : FreeSlot(c)'
  <2> SUFFICES ASSUME NEW c \in Channel, channels[c].port = None
               PROVE  channels'[c] = FreeChannel /\ peer'[c] = NoPeer
    BY <1>2 DEF FreeSlot
  <2>1. channels[c] = FreeChannel /\ peer[c] = NoPeer
    BY <1>1 DEF PortsOK, FreeSlot
  <2>2. channels[c].ctrl # s
    BY <2>1, ConstantsAssumption DEF FreeChannel
  <2> QED
    BY <2>1, <2>2 DEF QuietMain
<1>6. ASSUME NEW t \in Session, Holds(t)' PROVE \E c \in Channel : Owns(t, c)'
  <2>1. CASE t # s
    BY <1>1, <1>2, <1>3, <1>6, <2>1 DEF PortsOK
  <2>2. CASE t = s
    <3>1. Holds(s) /\ clients'[s].pasvPort = clients[s].pasvPort
      BY <1>6, <2>2 DEF PortsKept, Holds
    <3>2. PICK c \in Channel : Owns(s, c)
      BY <1>1, <3>1 DEF PortsOK
    <3> QED
      BY <1>2, <1>6, <2>2, <3>1, <3>2 DEF Owns
  <2> QED
    BY <2>1, <2>2
<1>7. \A t, u \in Session : Keeps(t)' /\ Keeps(u)' /\ clients'[t].pasvPort = clients'[u].pasvPort => t = u
  BY <1>1, <1>3 DEF PortsOK, PortsKept
<1> QED
  BY <1>4, <1>5, <1>6, <1>7 DEF PortsOK

LEMMA QuietKnows ==
  ASSUME PoliteInv, NEW s \in Session, QuietMain(s), PortsKept(s), KnowsKept(s)
  PROVE  KnowsOK'
<1>1. PortsOK /\ KnowsOK /\ peer' = peer
  BY DEF PoliteInv, Polite, QuietMain
<1>2. /\ \A c \in Channel : channels'[c].port = channels[c].port
      /\ \A t \in Session, c \in Channel : Owns(t, c)' => Owns(t, c)
  BY QuietChannels
<1>3. \A t \in Session : t # s => /\ clients'[t] = clients[t] /\ user'[t] = user[t]
                                  /\ Keeps(t)' <=> Keeps(t)
                                  /\ Holds(t)' <=> Holds(t)
                                  /\ Due227(t)' <=> Due227(t)
  BY Elsewhere DEF QuietMain
<1>4. CASE user'[s].knows \in {user[s].knows, None}
  <2>1. \A t \in Session : user'[t].knows \in {user[t].knows, None}
    BY <1>3, <1>4
  <2>2. \A t \in Session : user'[t].knows # None =>
          \E c \in Channel : channels'[c].port = user'[t].knows /\ ~peer'[c].conn
    BY <1>1, <1>2, <2>1 DEF KnowsOK
  <2>3. \A t \in Session : Keeps(t)' => Keeps(t) /\ clients'[t].pasvPort = clients[t].pasvPort
    BY <1>3 DEF PortsKept
  <2>4. ASSUME NEW t \in Session, NEW u \in Session, user'[t].knows # None, t # u
        PROVE  user'[u].knows # user'[t].knows /\ (Keeps(u)' => clients'[u].pasvPort # user'[t].knows)
    <3>1. user'[t].knows = user[t].knows
      BY <2>1, <2>4
    <3>2. user[u].knows # user[t].knows /\ (Keeps(u) => clients[u].pasvPort # user[t].knows)
      BY <1>1, <2>4, <3>1 DEF KnowsOK
    <3> QED
      BY <2>1, <2>3, <2>4, <3>1, <3>2
  <2>5. ASSUME NEW t \in Session, Due227(t)'
        PROVE  /\ Holds(t)' /\ user'[t].knows # clients'[t].pasvPort
               /\ \A c \in Channel : Owns(t, c)' => ~peer'[c].conn
    <3>1. /\ Due227(t) /\ Holds(t)' /\ clients'[t].pasvPort = clients[t].pasvPort
      BY <1>1, <1>3, <2>5 DEF KnowsKept, KnowsOK
    <3>2. /\ Holds(t) /\ user[t].knows # clients[t].pasvPort
          /\ \A c \in Channel : Owns(t, c) => ~peer[c].conn
      BY <1>1, <3>1 DEF KnowsOK
    <3>3. clients[t].pasvPort # None
      BY <1>1, <3>2 DEF PortsOK, Owns
    <3> QED
      BY <1>1, <1>2, <2>1, <3>1, <3>2, <3>3
  <2> QED
    BY <2>2, <2>4, <2>5 DEF KnowsOK
<1>5. CASE user'[s].knows \notin {user[s].knows, None}
  <2>1. Due227(s) /\ user'[s].knows = clients[s].pasvPort /\ ~Due227(s)'
    BY <1>5 DEF KnowsKept
  <2>2. Holds(s) /\ \A c \in Channel : Owns(s, c) => ~peer[c].conn
    BY <1>1, <2>1 DEF KnowsOK
  <2>3. PICK c \in Channel : Owns(s, c)
    BY <1>1, <2>2 DEF PortsOK
  <2>4. ASSUME NEW t \in Session, user'[t].knows # None
        PROVE  \E d \in Channel : channels'[d].port = user'[t].knows /\ ~peer'[d].conn
    <3>1. CASE t = s
      BY <1>1, <1>2, <2>1, <2>2, <2>3, <3>1 DEF Owns
    <3>2. CASE t # s
      BY <1>1, <1>2, <1>3, <2>4, <3>2 DEF KnowsOK
    <3> QED
      BY <3>1, <3>2
  <2>5. \A t \in Session : t # s => user[t].knows # clients[s].pasvPort
    BY <1>1, <2>2, <2>3 DEF KnowsOK, Holds, Owns
  <2>6. \A t \in Session : t # s /\ Keeps(t) => clients[t].pasvPort # clients[s].pasvPort
    BY <1>1, <2>2 DEF PortsOK, Holds
  <2>7. ASSUME NEW t \in Session, NEW u \in Session, user'[t].knows # None, t # u
        PROVE  user'[u].knows # user'[t].knows /\ (Keeps(u)' => clients'[u].pasvPort # user'[t].knows)
    <3>1. CASE t = s
      BY <1>3, <2>1, <2>5, <2>6, <2>7, <3>1
    <3>2. CASE u = s
      <4>1. Keeps(s)' => Keeps(s) /\ clients'[s].pasvPort = clients[s].pasvPort
        BY DEF PortsKept
      <4>2. user'[t] = user[t]
        BY <1>3, <2>7, <3>2
      <4>3. Keeps(s) => clients[s].pasvPort # user[t].knows
        BY <1>1, <2>7, <3>2, <4>2 DEF KnowsOK
      <4> QED
        BY <2>1, <2>5, <2>7, <3>2, <4>1, <4>2, <4>3
    <3>3. CASE t # s /\ u # s
      BY <1>1, <1>3, <2>7, <3>3 DEF KnowsOK
    <3> QED
      BY <3>1, <3>2, <3>3
  <2>8. ASSUME NEW t \in Session, Due227(t)'
        PROVE  /\ Holds(t)' /\ user'[t].knows # clients'[t].pasvPort
               /\ \A d \in Channel : Owns(t, d)' => ~peer'[d].conn
    <3>1. t # s
      BY <2>1, <2>8
    <3> QED
      BY <1>1, <1>2, <1>3, <2>8, <3>1 DEF KnowsOK
  <2> QED
    BY <2>4, <2>7, <2>8 DEF KnowsOK
<1> QED
  BY <1>4, <1>5

LEMMA QuietJobs ==
  ASSUME PoliteInv, NEW s \in Session, QuietMain(s), PortsKept(s), JobsKept(s)
  PROVE  ChannelsOK' /\ JobsOK'
<1>1. PortsOK /\ ChannelsOK /\ JobsOK /\ UNCHANGED <<peer, data, ctrlPipe>>
  BY DEF PoliteInv, Polite, QuietMain
<1>2. /\ \A c \in Channel :
              /\ channels'[c].port = channels[c].port /\ channels'[c].state = channels[c].state
              /\ channels'[c].lock = channels[c].lock /\ channels'[c].accepted = channels[c].accepted
              /\ channels'[c].wpipe = channels[c].wpipe /\ channels'[c].ctrl = channels[c].ctrl
              /\ Working(c)' <=> Working(c)
              /\ Serving(c)' <=> Serving(c)
              /\ Closing(c)' <=> Closing(c)
              /\ JobOf(c)' = JobOf(c)
              /\ channels'[c].orphan = channels[c].orphan \/ (channels[c].ctrl = s /\ ~Holds(s))
      /\ \A t \in Session, c \in Channel : Owns(t, c)' => Owns(t, c)
      /\ \A t \in Session, c \in Channel : t # s => (Owns(t, c)' <=> Owns(t, c))
  BY QuietChannels
<1>3. \A t \in Session : t # s => /\ clients'[t] = clients[t] /\ user'[t] = user[t]
                                  /\ Transferring(t)' <=> Transferring(t)
                                  /\ Pledged(t)' <=> Pledged(t)
                                  /\ Pre(t)' <=> Pre(t)
  BY Elsewhere DEF QuietMain
<1>4. ChannelsOK'
  <2>1. ASSUME NEW c \in Channel PROVE ChannelOK(c)'
    BY <1>1, <1>2 DEF ChannelsOK, ChannelOK, Busy
  <2> QED
    BY <1>1, <2>1 DEF ChannelsOK
<1>5. ASSUME NEW c \in Channel PROVE JobOK(c)'
  <2> SUFFICES ASSUME Working(c) PROVE JobOK(c)'
    BY <1>2 DEF JobOK
  <2>1. /\ channels[c].ctrl \in Session /\ ~channels[c].orphan
        /\ Owns(channels[c].ctrl, c) /\ Transferring(channels[c].ctrl)
        /\ user[channels[c].ctrl].asked = JobOf(c)
    BY <1>1 DEF JobsOK, JobOK
  <2>2. CASE channels[c].ctrl = s
    <3>1. /\ Transferring(s)' /\ Holds(s)' /\ clients'[s].pasvPort = clients[s].pasvPort
          /\ user'[s].asked = user[s].asked /\ Holds(s)
      BY <2>1, <2>2 DEF JobsKept, Owns
    <3> QED
      BY <1>2, <2>1, <2>2, <3>1 DEF JobOK, Owns
  <2>3. CASE channels[c].ctrl # s
    BY <1>2, <1>3, <2>1, <2>3 DEF JobOK
  <2> QED
    BY <2>2, <2>3
<1>6. ASSUME NEW t \in Session, Pledged(t)'
      PROVE  \E c \in Channel : Working(c)' /\ channels'[c].ctrl = t
  <2>1. Pledged(t)
    BY <1>3, <1>6 DEF JobsKept
  <2> QED
    BY <1>1, <1>2, <2>1 DEF JobsOK
<1>7. ASSUME NEW t \in Session, NEW c \in Channel PROVE OwnerOK(t, c)'
  <2> SUFFICES ASSUME Owns(t, c)' PROVE OwnerOK(t, c)'
    BY DEF OwnerOK
  <2>1. OwnerOK(t, c) /\ Owns(t, c) /\ Holds(t)'
    BY <1>1, <1>2 DEF JobsOK, Owns
  <2>2. /\ user[t].stage = "xfer" => user'[t].stage = "xfer" /\ user'[t].asked = user[t].asked
        /\ Pre(t)' => Pre(t)
    BY <1>3, <2>1 DEF JobsKept
  <2> QED
    BY <1>1, <1>2, <2>1, <2>2 DEF OwnerOK
<1> QED
  BY <1>4, <1>5, <1>6, <1>7 DEF JobsOK

LEMMA QuietMainPolite ==
  ASSUME PoliteInv, NEW s \in Session, QuietMain(s), PortsKept(s), KnowsKept(s), JobsKept(s),
         DialogOK(s)', MainOK', FlagOK(s)', Once(dataPipe'), Once(exitPipe'),
         \A t \in Session : t # s => /\ In(t, dataPipe') => In(t, dataPipe)
                                     /\ In(t, exitPipe') => In(t, exitPipe)
  PROVE  Polite'
<1>1. PortsOK' /\ KnowsOK' /\ ChannelsOK' /\ JobsOK'
  BY QuietPorts, QuietKnows, QuietJobs
<1>2. ASSUME NEW t \in Session PROVE DialogOK(t)' /\ FlagOK(t)'
  <2>1. DialogOK(t) /\ FlagOK(t)
    BY DEF PoliteInv, Polite, FlagsOK
  <2>2. CASE t # s
    <3>1. /\ clients'[t] = clients[t] /\ DialogOK(t)' /\ ~Handling(t)' /\ ~Between(t)'
          /\ ~Handling(t) /\ ~Between(t)
      BY <2>1, <2>2, Elsewhere DEF QuietMain
    <3> QED
      BY <2>1, <2>2, <3>1 DEF FlagOK
  <2> QED
    BY <2>2
<1> QED
  BY <1>1, <1>2 DEF Polite, FlagsOK

-----------------------------------------------------------------------------
(* The handlers.                                                           *)

\* A client's next command: nothing else is on its way for this client.
LEMMA AtRecv ==
  ASSUME PoliteInv, NEW s \in Session, NEW cmd, Recv(s, cmd)
  PROVE  /\ main.at = "poll" /\ clients[s].open /\ user[s].stage = "wait"
         /\ user[s].asked = cmd /\ user[s].inbox = <<cmd>> /\ clients[s].cmdSend = 0
         /\ ~user[s].gone /\ clients[s].netState # "NEED_QUIT" /\ PollOut \notin clients[s].events
         /\ OtherSessions(s) <=> \A t \in Session : t # s => clients'[t] = clients[t]
         /\ user'[s].inbox = <<>> /\ user'[s].stage = "wait" /\ user'[s].asked = cmd
         /\ ~user'[s].gone /\ user'[s].knows = user[s].knows
         /\ UNCHANGED <<dataPipe, exitPipe, data, peer>>
<1>1. /\ main.at = "poll" /\ clients[s].open /\ user[s].inbox # <<>> /\ Head(user[s].inbox) = cmd
      /\ user' = [user EXCEPT ![s].inbox = Tail(@)]
      /\ UNCHANGED <<dataPipe, exitPipe, data, peer>>
  BY DEF Recv, AtPoll
<1>2. DialogOK(s) /\ FlagOK(s) /\ user[s] \in UserState /\ ~Answering(s) /\ ~Between(s) /\ ~Handling(s)
  BY <1>1, TypedSlots DEF PoliteInv, Polite, FlagsOK, Answering, Between, Handling
<1>3. ~user[s].gone /\ user[s].stage = "wait"
  BY <1>1, <1>2 DEF DialogOK, UserState
<1>4. user[s].inbox = <<user[s].asked>> /\ clients[s].cmdSend = 0
  BY <1>1, <1>2, <1>3 DEF DialogOK
<1>5. clients[s].netState # "NEED_QUIT" /\ PollOut \notin clients[s].events
  BY <1>2, <1>3, <1>4 DEF DialogOK, FlagOK
<1>6. user[s].asked = cmd /\ Tail(user[s].inbox) = <<>>
  BY <1>1, <1>4
<1>7. /\ user'[s].inbox = <<>> /\ user'[s].stage = "wait" /\ user'[s].asked = cmd
      /\ ~user'[s].gone /\ user'[s].knows = user[s].knows
      /\ \A t \in Session : t # s => user'[t] = user[t]
  BY <1>1, <1>2, <1>3, <1>6, TypedSlots DEF UserState
<1> QED
  BY <1>1, <1>3, <1>4, <1>5, <1>6, <1>7 DEF OtherSessions

\* What a handler that changes no channel leaves to its reply, or to the hand-over.
LEMMA RecvPolite ==
  ASSUME PoliteInv, NEW s \in Session, NEW cmd, Recv(s, cmd), UNCHANGED <<channels, ctrlPipe>>,
         main'.s = s, main'.at \in {"reply", "hand"}, main'.cmd = cmd,
         main'.at = "hand" => cmd \in {"STOR", "REST"},
         \A t \in Session : t # s => clients'[t] = clients[t],
         clients'[s].open, clients'[s].cmdSend = 0, clients'[s].netState = clients[s].netState,
         clients'[s].events = clients[s].events,
         PortsKept(s),
         ~Due227(s)', ~Pledged(s)', MainOK'
  PROVE  Polite'
<1>1. /\ main.at = "poll" /\ clients[s].open /\ user[s].stage = "wait"
      /\ user[s].asked = cmd /\ user[s].inbox = <<cmd>> /\ clients[s].cmdSend = 0
      /\ ~user[s].gone /\ clients[s].netState # "NEED_QUIT" /\ PollOut \notin clients[s].events
      /\ OtherSessions(s)
      /\ user'[s].inbox = <<>> /\ user'[s].stage = "wait" /\ user'[s].asked = cmd
      /\ ~user'[s].gone /\ user'[s].knows = user[s].knows
      /\ UNCHANGED <<dataPipe, exitPipe, data, peer>>
  BY AtRecv
<1>2. QuietMain(s)
  BY <1>1 DEF QuietMain, MainFor
<1>3. KnowsKept(s)
  BY <1>1 DEF KnowsKept
<1>4. JobsKept(s)
  BY <1>1 DEF JobsKept, Transferring, Pre
<1>5. DialogOK(s)'
  BY <1>1 DEF DialogOK, Answering, Between
<1>6. /\ FlagOK(s)' /\ Once(dataPipe') /\ Once(exitPipe')
      /\ \A t \in Session : t # s => /\ In(t, dataPipe') => In(t, dataPipe)
                                     /\ In(t, exitPipe') => In(t, exitPipe)
  <2>1. FlagOK(s) /\ Once(dataPipe) /\ Once(exitPipe)
    BY DEF PoliteInv, Polite, FlagsOK
  <2> QED
    BY <1>1, <2>1 DEF FlagOK, Once, In
<1> QED
  BY <1>2, <1>3, <1>4, <1>5, <1>6, QuietMainPolite

LEMMA ChannelOfOwns ==
  ASSUME PoliteInv, NEW s \in Session, Holds(s)
  PROVE  ChannelOf(s) \in Channel /\ Owns(s, ChannelOf(s)) /\ ChannelOf(s) # None
<1>1. PICK d \in Channel : Owns(s, d)
  BY DEF PoliteInv, Polite, PortsOK
<1>2. clients[s].connType = "PASV" /\ channels[d].port = clients[s].pasvPort /\ clients[s].pasvPort # None
  BY <1>1 DEF Owns, Holds, Keeps
<1>3. ChannelOf(s) = CHOOSE c \in Channel : channels[c].port = clients[s].pasvPort
  BY <1>2 DEF ChannelOf
<1>4. ChannelOf(s) \in Channel /\ channels[ChannelOf(s)].port = clients[s].pasvPort
  BY <1>2, <1>3
<1> QED
  BY <1>2, <1>4, ConstantsAssumption DEF Owns

\* A handler that leaves the control slot alone.
LEMMA PlainRecvPolite ==
  ASSUME PoliteInv, NEW s \in Session, NEW cmd, Recv(s, cmd), UNCHANGED <<clients, channels, ctrlPipe>>,
         main'.s = s, main'.cmd = cmd, cmd # "PASV",
         \/ /\ main'.at = "reply" /\ main'.code \notin {0, 226, 227}
            /\ main'.code = 221 <=> cmd = "QUIT"
            /\ main'.code = 150 => cmd = "RETR" /\ clients[s].connType = "PASV"
         \/ /\ main'.at = "hand" /\ Owns(s, main'.c)
            /\ (cmd = "STOR" /\ main'.code = 150) \/ (cmd = "REST" /\ main'.code = 350)
  PROVE  Polite'
<1>1. /\ main.at = "poll" /\ clients[s].open /\ user[s].stage = "wait"
      /\ clients[s].cmdSend = 0 /\ ~user[s].gone /\ clients[s].netState # "NEED_QUIT"
      /\ user'[s].inbox = <<>> /\ user'[s].stage = "wait" /\ user'[s].asked = cmd
  BY AtRecv
<1>2. /\ Holds(s)' <=> Holds(s)
      /\ Keeps(s)' <=> Keeps(s)
      /\ Holds(s) <=> clients[s].connType = "PASV"
      /\ PortsKept(s)
  BY <1>1 DEF Holds, Keeps, PortsKept
<1>3. ~Due227(s)' /\ ~Pledged(s)'
  BY <1>1 DEF Due227, Pledged
<1>4. MainOK'
  <2>1. Owns(s, main'.c) => Owns(main.s, main.c)'
    BY <1>2 DEF Owns
  <2> QED
    BY <1>1, <1>2, <2>1 DEF MainOK
<1>5. /\ main'.at \in {"reply", "hand"} /\ (main'.at = "hand" => cmd \in {"STOR", "REST"})
      /\ \A t \in Session : t # s => clients'[t] = clients[t]
      /\ clients'[s].open /\ clients'[s].cmdSend = 0 /\ clients'[s].netState = clients[s].netState
      /\ clients'[s].events = clients[s].events
  BY <1>1
<1> QED
  BY <1>2, <1>3, <1>4, <1>5, RecvPolite

LEMMA HandlersPolite ==
  ASSUME PoliteInv, NEW s \in Session,
         FTP_CTRL(s) \/ FTP_REST(s) \/ FTP_RETR(s) \/ FTP_STOR(s) \/ FTP_QUIT(s)
  PROVE  Polite'
<1>1. ASSUME NEW cmd, Recv(s, cmd), clients[s].connType = "PASV"
      PROVE  ChannelOf(s) # None /\ Owns(s, ChannelOf(s))
  <2>1. Holds(s)
    BY <1>1, AtRecv DEF Holds, Keeps
  <2> QED
    BY <2>1, ChannelOfOwns
<1>2. CASE FTP_CTRL(s)
  <2>1. /\ Recv(s, "CTRL") /\ UNCHANGED <<clients, channels, ctrlPipe>>
        /\ main'.at = "reply" /\ main'.s = s /\ main'.cmd = "CTRL" /\ main'.code = 200
    BY <1>2 DEF FTP_CTRL, ThenReply
  <2> QED
    BY <2>1, PlainRecvPolite
<1>3. CASE FTP_REST(s)
  <2>1. /\ Recv(s, "REST") /\ UNCHANGED <<clients, channels, ctrlPipe>>
        /\ IF clients[s].connType = "PASV" THEN ThenHand(s, "REST", 350) ELSE ThenReply(s, "REST", 434)
    BY <1>3 DEF FTP_REST
  <2>2. CASE clients[s].connType = "PASV"
    <3>1. /\ main'.at = "hand" /\ main'.s = s /\ main'.cmd = "REST" /\ main'.code = 350
          /\ main'.c = ChannelOf(s) /\ Owns(s, ChannelOf(s))
      BY <1>1, <2>1, <2>2 DEF ThenHand
    <3> QED
      BY <2>1, <3>1, PlainRecvPolite
  <2>3. CASE clients[s].connType # "PASV"
    <3>1. /\ main'.at = "reply" /\ main'.s = s /\ main'.cmd = "REST" /\ main'.code = 434
      BY <2>1, <2>3 DEF ThenReply
    <3> QED
      BY <2>1, <3>1, PlainRecvPolite
  <2> QED
    BY <2>2, <2>3
<1>4. CASE FTP_RETR(s)
  <2>1. /\ Recv(s, "RETR") /\ UNCHANGED <<clients, channels, ctrlPipe>>
        /\ main'.at = "reply" /\ main'.s = s /\ main'.cmd = "RETR"
        /\ main'.code = 550 \/ (main'.code = 150 /\ clients[s].connType = "PASV")
    BY <1>4 DEF FTP_RETR, ThenReply
  <2> QED
    BY <2>1, PlainRecvPolite
<1>5. CASE FTP_STOR(s)
  <2>1. /\ Recv(s, "STOR") /\ UNCHANGED <<clients, channels, ctrlPipe>>
        /\ \/ clients[s].connType = "PASV" /\ ThenHand(s, "STOR", 150)
           \/ ThenReply(s, "STOR", 550)
    BY <1>5 DEF FTP_STOR
  <2>2. CASE clients[s].connType = "PASV" /\ ThenHand(s, "STOR", 150)
    <3>1. /\ main'.at = "hand" /\ main'.s = s /\ main'.cmd = "STOR" /\ main'.code = 150
          /\ main'.c = ChannelOf(s) /\ Owns(s, ChannelOf(s))
      BY <1>1, <2>1, <2>2 DEF ThenHand
    <3> QED
      BY <2>1, <3>1, PlainRecvPolite
  <2>3. CASE ThenReply(s, "STOR", 550)
    <3>1. /\ main'.at = "reply" /\ main'.s = s /\ main'.cmd = "STOR" /\ main'.code = 550
      BY <2>3 DEF ThenReply
    <3> QED
      BY <2>1, <3>1, PlainRecvPolite
  <2> QED
    BY <2>1, <2>2, <2>3
<1>6. CASE FTP_QUIT(s)
  <2>1. /\ Recv(s, "QUIT") /\ UNCHANGED <<clients, channels, ctrlPipe>>
        /\ main'.at = "reply" /\ main'.s = s /\ main'.cmd = "QUIT" /\ main'.code = 221
    BY <1>6 DEF FTP_QUIT, ThenReply
  <2> QED
    BY <2>1, PlainRecvPolite
<1> QED
  BY <1>2, <1>3, <1>4, <1>5, <1>6

LEMMA PasvFailsPolite ==
  ASSUME PoliteInv, NEW s \in Session, FTP_PASV_Fails(s)
  PROVE  Polite'
<1>1. PICK p : /\ Recv(s, "PASV") /\ UNCHANGED <<channels, ctrlPipe>>
               /\ clients' = [clients EXCEPT ![s] = [@ EXCEPT !.connType = "NOT_SPECIFIED", !.pasvPort = p]]
               /\ main'.at = "reply" /\ main'.s = s /\ main'.cmd = "PASV" /\ main'.code = 434
  BY DEF FTP_PASV_Fails, ThenReply
<1>2. /\ clients[s].open /\ clients[s].cmdSend = 0
      /\ user'[s].inbox = <<>> /\ user'[s].stage = "wait" /\ user'[s].asked = "PASV"
  BY <1>1, AtRecv
<1>3. /\ \A t \in Session : t # s => clients'[t] = clients[t]
      /\ clients'[s].open /\ clients'[s].cmdSend = 0 /\ clients'[s].netState = clients[s].netState
      /\ clients'[s].events = clients[s].events /\ clients'[s].connType = "NOT_SPECIFIED"
  BY <1>1, <1>2, TypedSlots DEF ClientData
<1>4. PortsKept(s) /\ ~Due227(s)' /\ ~Pledged(s)'
  BY <1>1, <1>2, <1>3 DEF PortsKept, Holds, Keeps, Due227, Pledged
<1>5. MainOK'
  BY <1>1, <1>2, <1>3 DEF MainOK
<1> QED
  BY <1>1, <1>3, <1>4, <1>5, RecvPolite

\* A new port for s.
LEMMA PasvPolite ==
  ASSUME PoliteInv, NEW s \in Session, FTP_PASV(s)
  PROVE  Polite'
<1>1. /\ PortsOK /\ KnowsOK /\ ChannelsOK /\ JobsOK /\ (\A t \in Session : DialogOK(t))
      /\ MainOK /\ FlagsOK /\ CountersOK
  BY DEF PoliteInv, Polite, TransferInv
<1>2. PICK c \in Channel, p \in Port \ UsedPorts :
        /\ channels[c].port = None
        /\ channels' = [channels EXCEPT ![c] = [@ EXCEPT !.port = p, !.state = "NEW_CLIENT",
                                                          !.left = 0, !.wpipe = FALSE, !.lock = Free]]
        /\ ctrlPipe' = Append(ctrlPipe, c)
        /\ clients' = [clients EXCEPT ![s] = [@ EXCEPT !.connType = "PASV", !.pasvPort = p]]
  BY DEF FTP_PASV
<1>3. /\ Recv(s, "PASV")
      /\ main'.at = "reply" /\ main'.s = s /\ main'.cmd = "PASV" /\ main'.code = 227
  BY DEF FTP_PASV, ThenReply
<1>4. /\ main.at = "poll" /\ clients[s].open /\ user[s].stage = "wait" /\ user[s].inbox # <<>>
      /\ clients[s].cmdSend = 0 /\ clients[s].netState # "NEED_QUIT"
      /\ ~user[s].gone /\ PollOut \notin clients[s].events
      /\ OtherSessions(s) <=> \A t \in Session : t # s => clients'[t] = clients[t]
      /\ user'[s].inbox = <<>> /\ user'[s].stage = "wait" /\ user'[s].asked = "PASV"
      /\ ~user'[s].gone /\ user'[s].knows = user[s].knows
      /\ UNCHANGED <<dataPipe, exitPipe, data, peer>>
  <2>1. user[s].inbox = <<"PASV">>
    BY <1>3, AtRecv
  <2>2. user[s].inbox # <<>>
    BY <2>1
  <2>3. /\ main.at = "poll" /\ clients[s].open /\ user[s].stage = "wait"
        /\ clients[s].cmdSend = 0 /\ clients[s].netState # "NEED_QUIT"
        /\ ~user[s].gone /\ PollOut \notin clients[s].events
        /\ OtherSessions(s) <=> \A t \in Session : t # s => clients'[t] = clients[t]
        /\ user'[s].inbox = <<>> /\ user'[s].stage = "wait" /\ user'[s].asked = "PASV"
        /\ ~user'[s].gone /\ user'[s].knows = user[s].knows
        /\ UNCHANGED <<dataPipe, exitPipe, data, peer>>
    BY <1>3, AtRecv
  <2> QED
    BY <2>2, <2>3
<1>5. /\ \A t \in Session : t # s => clients'[t] = clients[t]
      /\ clients'[s].open /\ clients'[s].cmdSend = 0 /\ clients'[s].netState = clients[s].netState
      /\ clients'[s].events = clients[s].events /\ clients'[s].connType = "PASV"
      /\ clients'[s].pasvPort = p
  BY <1>2, <1>4, TypedSlots DEF ClientData
<1>6. channels[c] = FreeChannel /\ peer[c] = NoPeer
  BY <1>1, <1>2 DEF PortsOK, FreeSlot
<1>7. /\ \A d \in Channel : d # c => channels'[d] = channels[d]
      /\ channels'[c].port = p /\ channels'[c].state = "NEW_CLIENT" /\ channels'[c].lock = Free
      /\ ~channels'[c].wpipe /\ ~channels'[c].accepted
      /\ channels[c].state = "IDLE" /\ ~peer[c].conn /\ ~peer[c].rx /\ ~peer[c].fin
  <2>1. channels[c] \in PasvData /\ ~channels[c].accepted /\ channels[c].state = "IDLE"
        /\ ~peer[c].conn /\ ~peer[c].rx /\ ~peer[c].fin
    <3>1. FreeChannel.state = "IDLE" /\ ~FreeChannel.accepted
      BY DEF FreeChannel
    <3>2. ~NoPeer.conn /\ ~NoPeer.rx /\ ~NoPeer.fin
      BY DEF NoPeer
    <3> QED
      BY <1>6, <3>1, <3>2, TypedSlots
  <2> QED
    BY <1>2, <2>1, TypedSlots DEF PasvData
<1>8. p # None /\ \A d \in Channel : channels[d].port # p
  BY <1>2, ConstantsAssumption DEF UsedPorts
<1>9. /\ \A d \in Channel : d # c => (In(d, ctrlPipe) => In(d, ctrlPipe'))
      /\ In(c, ctrlPipe')
  <2>1. ctrlPipe \in Seq(Channel)
    BY TypedSlots
  <2>2. /\ Len(Append(ctrlPipe, c)) = Len(ctrlPipe) + 1 /\ Len(ctrlPipe) \in Nat
        /\ \A i \in 1..Len(ctrlPipe) : Append(ctrlPipe, c)[i] = ctrlPipe[i]
        /\ Append(ctrlPipe, c)[Len(ctrlPipe) + 1] = c
        /\ DOMAIN ctrlPipe = 1..Len(ctrlPipe)
        /\ DOMAIN Append(ctrlPipe, c) = 1..(Len(ctrlPipe) + 1)
    BY <2>1
  <2> QED
    BY <1>2, <2>2 DEF In
<1>10. \A t \in Session : t # s => /\ clients'[t] = clients[t] /\ user'[t] = user[t]
                                   /\ Keeps(t)' <=> Keeps(t)
                                   /\ Holds(t)' <=> Holds(t)
                                   /\ Due227(t)' <=> Due227(t)
                                   /\ Transferring(t)' <=> Transferring(t)
                                   /\ Pledged(t)' <=> Pledged(t)
                                   /\ Pre(t)' <=> Pre(t)
                                   /\ DialogOK(t)'
                                   /\ ~Handling(t)' /\ ~Between(t)' /\ ~Handling(t) /\ ~Between(t)
  BY <1>1, <1>3, <1>4, <1>5, Elsewhere DEF MainFor
<1>11. /\ Keeps(s)' /\ Holds(s)' /\ ~Pledged(s)' /\ ~Pre(s)' /\ ~Transferring(s)
       /\ \A t \in Session : Keeps(t) => Holds(t)
  BY <1>3, <1>4, <1>5 DEF Keeps, Holds, Pledged, Pre, Transferring
<1>12. /\ Owns(s, c)' /\ \A d \in Channel : d # c => ~Owns(s, d)'
       /\ \A t \in Session : t # s => ~Owns(t, c)'
       /\ \A t \in Session, d \in Channel : t # s /\ d # c => (Owns(t, d)' <=> Owns(t, d))
  <2>1. Owns(s, c)' /\ \A d \in Channel : d # c => ~Owns(s, d)'
    BY <1>5, <1>7, <1>8, <1>11 DEF Owns
  <2>2. ASSUME NEW t \in Session, t # s PROVE ~Owns(t, c)'
    <3> SUFFICES ASSUME Holds(t), clients[t].pasvPort = p PROVE FALSE
      BY <1>7, <1>10, <2>2 DEF Owns
    <3> QED
      BY <1>1, <1>8 DEF PortsOK, Owns
  <2>3. \A t \in Session, d \in Channel : t # s /\ d # c => (Owns(t, d)' <=> Owns(t, d))
    BY <1>7, <1>10 DEF Owns
  <2> QED
    BY <2>1, <2>2, <2>3
<1>13. PortsOK'
  <2>1. \A d, e \in Channel : channels'[d].port # None /\ channels'[d].port = channels'[e].port => d = e
    BY <1>1, <1>7, <1>8 DEF PortsOK
  <2>2. \A d \in Channel : FreeSlot(d)'
    BY <1>1, <1>4, <1>7, <1>8 DEF PortsOK, FreeSlot
  <2>3. ASSUME NEW t \in Session, t # s, Holds(t)' PROVE \E d \in Channel : Owns(t, d)'
    <3>1. PICK d \in Channel : Owns(t, d)
      BY <1>1, <1>10, <2>3 DEF PortsOK
    <3>2. d # c
      BY <1>2, <3>1 DEF Owns
    <3> QED
      BY <1>12, <2>3, <3>1, <3>2
  <2>4. \A t \in Session : t # s /\ Keeps(t) => clients[t].pasvPort # p
    BY <1>1, <1>8, <1>11 DEF PortsOK, Owns
  <2>5. \A t, u \in Session : Keeps(t)' /\ Keeps(u)' /\ clients'[t].pasvPort = clients'[u].pasvPort => t = u
    BY <1>1, <1>5, <1>10, <2>4 DEF PortsOK
  <2> QED
    BY <1>12, <2>1, <2>2, <2>3, <2>5 DEF PortsOK
<1>14. KnowsOK'
  <2>1. \A t \in Session : user'[t].knows = user[t].knows
    BY <1>4, <1>10
  <2>2. ASSUME NEW t \in Session, user'[t].knows # None
        PROVE  /\ \E d \in Channel : channels'[d].port = user'[t].knows /\ ~peer'[d].conn
               /\ user[t].knows # p
    <3>1. PICK d \in Channel : channels[d].port = user[t].knows /\ ~peer[d].conn
      BY <1>1, <2>1, <2>2 DEF KnowsOK
    <3> QED
      BY <1>2, <1>4, <1>7, <1>8, <2>1, <2>2, <3>1
  <2>3. \A t, u \in Session : user'[t].knows # None /\ t # u =>
          user'[u].knows # user'[t].knows /\ (Keeps(u)' => clients'[u].pasvPort # user'[t].knows)
    BY <1>1, <1>5, <1>10, <2>1, <2>2 DEF KnowsOK
  <2>4. user[s].knows # p
    BY <1>8, <2>1, <2>2
  <2>5. ASSUME NEW t \in Session, Due227(t)'
        PROVE  /\ Holds(t)' /\ user'[t].knows # clients'[t].pasvPort
               /\ \A d \in Channel : Owns(t, d)' => ~peer'[d].conn
    <3>1. CASE t = s
      BY <1>4, <1>5, <1>7, <1>11, <1>12, <2>1, <2>4, <3>1
    <3>2. CASE t # s
      BY <1>1, <1>4, <1>7, <1>10, <1>12, <2>1, <2>5, <3>2 DEF KnowsOK
    <3> QED
      BY <3>1, <3>2
  <2> QED
    BY <2>2, <2>3, <2>5 DEF KnowsOK
<1>15. /\ \A d \in Channel : (Serving(d)' <=> Serving(d)) /\ (Closing(d)' <=> Closing(d))
       /\ \A d \in Channel : d # c => (Working(d)' <=> Working(d))
       /\ ~Working(c)' /\ ~Busy(c)'
  BY <1>4, <1>7 DEF Serving, Closing, Working, Busy
<1>16. ChannelsOK'
  <2>1. ChannelOK(c)'
    <3>1. ~Serving(c) /\ ~Closing(c)
      BY <1>1, <1>7 DEF ChannelsOK, ChannelOK, Busy, Serving, Closing
    <3>2. ~(data.at = "new" /\ data.c = c)
      BY <1>1, <1>7 DEF ChannelsOK, ChannelOK
    <3> QED
      BY <1>4, <1>7, <1>9, <1>15, <3>1, <3>2 DEF ChannelOK
  <2>2. ASSUME NEW d \in Channel, d # c PROVE ChannelOK(d)'
    BY <1>1, <1>4, <1>7, <1>9, <1>12, <1>15, <2>2 DEF ChannelsOK, ChannelOK, Busy
  <2> QED
    BY <1>1, <1>4, <2>1, <2>2 DEF ChannelsOK
<1>17. JobsOK'
  <2>1. ASSUME NEW d \in Channel, d # c, Working(d) PROVE JobOK(d)'
    <3>1. JobOK(d) /\ channels[d].ctrl # s
      BY <1>1, <1>11, <2>1 DEF JobsOK, JobOK
    <3> QED
      BY <1>7, <1>10, <1>12, <2>1, <3>1 DEF JobOK, JobOf
  <2>2. \A d \in Channel : JobOK(d)'
    BY <1>15, <2>1 DEF JobOK
  <2>3. ASSUME NEW t \in Session, Pledged(t)'
        PROVE  \E d \in Channel : Working(d)' /\ channels'[d].ctrl = t
    <3>1. t # s /\ Pledged(t)
      BY <1>10, <1>11, <2>3
    <3>2. PICK d \in Channel : Working(d) /\ channels[d].ctrl = t
      BY <1>1, <3>1 DEF JobsOK
    <3>3. d # c
      BY <1>7, <3>2 DEF Working, Busy
    <3> QED
      BY <1>7, <1>15, <3>2, <3>3
  <2>4. ASSUME NEW t \in Session, NEW d \in Channel, Owns(t, d)' PROVE OwnerOK(t, d)'
    <3>1. CASE t = s
      BY <1>4, <1>7, <1>11, <1>12, <2>4, <3>1 DEF OwnerOK
    <3>2. CASE t # s
      <4>1. d # c /\ Owns(t, d) /\ OwnerOK(t, d)
        BY <1>1, <1>12, <2>4, <3>2 DEF JobsOK
      <4> QED
        BY <1>4, <1>7, <1>10, <3>2, <4>1 DEF OwnerOK
    <3> QED
      BY <3>1, <3>2
  <2>5. \A t \in Session, d \in Channel : OwnerOK(t, d)'
    BY <2>4 DEF OwnerOK
  <2> QED
    BY <2>2, <2>3, <2>5 DEF JobsOK
<1>18. \A t \in Session : DialogOK(t)'
  <2>1. DialogOK(s)'
    BY <1>3, <1>4, <1>5 DEF DialogOK, Answering, Between
  <2> QED
    BY <1>10, <2>1
<1>19. MainOK'
  BY <1>3, <1>4, <1>5 DEF MainOK
<1>20. FlagsOK'
  <2>1. ASSUME NEW t \in Session PROVE FlagOK(t)'
    <3>1. FlagOK(t)
      BY <1>1 DEF FlagsOK
    <3>2. CASE t = s
      BY <1>4, <1>5, <3>1, <3>2 DEF FlagOK, In, Between
    <3>3. CASE t # s
      BY <1>4, <1>10, <3>1, <3>3 DEF FlagOK, In
    <3> QED
      BY <3>2, <3>3
  <2> QED
    BY <1>1, <1>4, <2>1 DEF FlagsOK, Once
<1> QED
  BY <1>13, <1>14, <1>16, <1>17, <1>18, <1>19, <1>20 DEF Polite

LEMMA AcceptPolite ==
  ASSUME PoliteInv, NEW s \in Session, Accept(s)
  PROVE  Polite'
<1>1. /\ main.at = "poll" /\ ~clients[s].open
      /\ user' = [user EXCEPT ![s] = [NoUser EXCEPT !.stage = "wait"]]
      /\ UNCHANGED <<channels, ctrlPipe, dataPipe, exitPipe, main, data, peer>>
  BY DEF Accept, AtPoll
<1>2. /\ \A t \in Session : t # s => clients'[t] = clients[t]
      /\ clients'[s].open /\ clients'[s].cmdSend = 220 /\ clients'[s].connType = "NOT_SPECIFIED"
      /\ clients'[s].netState = "NEED_SEND"
  <2> DEFINE r == [FreeClient EXCEPT !.open = TRUE, !.netState = "NEED_SEND", !.netLock = "main",
                                     !.cmdSend = 220]
  <2>1. r.open /\ r.cmdSend = 220 /\ r.connType = "NOT_SPECIFIED" /\ r.netState = "NEED_SEND"
    BY DEF FreeClient
  <2>2. clients' = [clients EXCEPT ![s] = [r EXCEPT !.events = {PollOut}]]
    BY <2>1 DEF Accept, AfterHandler
  <2>3. r \in [open: BOOLEAN, netState: NetState, netLock: Thread \cup {Free}, cmdSend: Code,
              connType: {"NOT_SPECIFIED", "PASV"}, pasvPort: Port \cup {None},
              events: SUBSET {PollIn, PollOut}]
    BY DEF FreeClient, NetState, Thread, Free, Code
  <2> HIDE DEF r
  <2>4. [r EXCEPT !.events = {PollOut}].open /\ [r EXCEPT !.events = {PollOut}].cmdSend = 220
        /\ [r EXCEPT !.events = {PollOut}].connType = "NOT_SPECIFIED"
        /\ [r EXCEPT !.events = {PollOut}].netState = "NEED_SEND"
    BY <2>1, <2>3
  <2> QED
    BY <2>2, <2>4, TypedSlots
<1>3. /\ \A t \in Session : t # s => user'[t] = user[t]
      /\ user'[s].inbox = <<>> /\ user'[s].stage = "wait" /\ ~user'[s].gone
      /\ user'[s].knows = None /\ user'[s].asked = "NONE"
  <2>1. /\ [NoUser EXCEPT !.stage = "wait"].asked = "NONE"
        /\ [NoUser EXCEPT !.stage = "wait"].inbox = <<>>
        /\ [NoUser EXCEPT !.stage = "wait"].stage = "wait"
        /\ ~[NoUser EXCEPT !.stage = "wait"].gone /\ [NoUser EXCEPT !.stage = "wait"].knows = None
    BY DEF NoUser
  <2> QED
    BY <1>1, <2>1, TypedSlots
<1>4. QuietMain(s)
  BY <1>1, <1>2, <1>3 DEF QuietMain, OtherSessions, MainFor
<1>5. PortsKept(s) /\ KnowsKept(s)
  BY <1>1, <1>2, <1>3 DEF PortsKept, KnowsKept, Keeps, Holds, Due227
<1>6. JobsKept(s)
  BY <1>1, <1>2, <1>3 DEF JobsKept, Keeps, Holds, Pledged
<1>7. DialogOK(s)' /\ MainOK'
  BY <1>1, <1>2, <1>3 DEF DialogOK, MainOK, Answering, Between, Handling
<1>8. FlagOK(s)' /\ Once(dataPipe') /\ Once(exitPipe')
  <2>1. FlagOK(s) /\ Once(dataPipe) /\ Once(exitPipe)
    BY DEF PoliteInv, Polite, FlagsOK
  <2>2. ~In(s, dataPipe') /\ ~In(s, exitPipe')
    BY <1>1, <2>1 DEF FlagOK, In
  <2> QED
    BY <1>1, <1>2, <2>1, <2>2 DEF FlagOK, Once, Handling
<1>9. \A t \in Session : t # s => /\ In(t, dataPipe') => In(t, dataPipe)
                                  /\ In(t, exitPipe') => In(t, exitPipe)
  BY <1>1 DEF In
<1> QED
  BY <1>4, <1>5, <1>6, <1>7, <1>8, <1>9, QuietMainPolite

\* The reply of a handler, when net_lock is free.
LEMMA ReplyPolite ==
  ASSUME PoliteInv, Reply
  PROVE  Polite'
<1>0. PICK s \in Session : s = main.s
  BY TypedSlots DEF Reply, CountersOK
<1>1. /\ main.at = "reply" /\ clients[s].netLock = Free
      /\ UNCHANGED <<channels, ctrlPipe, dataPipe, exitPipe, data, user, peer>>
  BY <1>0 DEF Reply
<1>2. /\ DialogOK(s) /\ FlagOK(s) /\ MainOK /\ clients[s].open /\ clients[s].cmdSend = 0
      /\ Handling(s) /\ ~Between(s) /\ user[s] \in UserState
  BY <1>0, <1>1, TypedSlots
     DEF PoliteInv, Polite, FlagsOK, MainOK, Handling, Between, TransferInv, LockIsToken
<1>3. /\ user[s].stage = "wait" /\ user[s].asked = main.cmd /\ user[s].inbox = <<>>
      /\ main.code \notin {0, 226} /\ (main.code = 221 <=> main.cmd = "QUIT")
      /\ main.code = 150 => main.cmd \in {"RETR", "STOR"}
      /\ main.code = 227 => main.cmd = "PASV"
      /\ main.cmd = "RETR" /\ main.code = 150 => Holds(s)
      /\ ~user[s].gone /\ clients[s].netState # "NEED_QUIT" /\ PollOut \notin clients[s].events
  BY <1>0, <1>1, <1>2 DEF MainOK, DialogOK, FlagOK
<1>4. PICK r : /\ r = Respond(s, main.code) \/ r = AfterHandler(Respond(s, main.code))
               /\ clients' = [clients EXCEPT ![s] = r]
               /\ \/ /\ main'.at = "hand" /\ main'.s = s /\ main'.cmd = main.cmd /\ main'.code = main.code
                     /\ main'.c = ChannelOf(s) /\ ChannelOf(s) # None
                     /\ main.cmd = "QUIT" \/ (main.cmd = "RETR" /\ main.code = 150)
                     /\ r = Respond(s, main.code)
                  \/ /\ main'.at = "quit" /\ main'.s = s /\ main.cmd = "QUIT" /\ main'.cmd = main.cmd
                     /\ r = Respond(s, main.code)
                  \/ main'.at = "poll" /\ main.cmd # "QUIT"
                     /\ ~(main.cmd = "RETR" /\ main.code = 150)
  <2> DEFINE c == IF main.cmd = "QUIT" \/ (main.cmd = "RETR" /\ main.code = 150) THEN ChannelOf(s) ELSE None
  <2>1. \/ /\ c # None \/ main.cmd = "QUIT"
           /\ clients' = [clients EXCEPT ![s] = Respond(s, main.code)]
           /\ main' = [main EXCEPT !.at = IF c # None THEN "hand" ELSE "quit", !.c = c]
        \/ /\ c = None /\ main.cmd # "QUIT"
           /\ clients' = [clients EXCEPT ![s] = AfterHandler(Respond(s, main.code))]
           /\ main' = MainIdle
    BY <1>0 DEF Reply, Return
  <2>2. CASE c # None
    <3>1. /\ c = ChannelOf(s)
          /\ main.cmd = "QUIT" \/ (main.cmd = "RETR" /\ main.code = 150)
      BY <2>2
    <3>2. /\ clients' = [clients EXCEPT ![s] = Respond(s, main.code)]
          /\ main' = [main EXCEPT !.at = "hand", !.c = c]
      BY <2>1, <2>2
    <3> HIDE DEF c
    <3>3. /\ main'.at = "hand" /\ main'.s = s /\ main'.cmd = main.cmd /\ main'.code = main.code
          /\ main'.c = c
      BY <1>0, <3>2, TypedSlots DEF MainState
    <3> QED
      BY <2>2, <3>1, <3>2, <3>3
  <2>3. CASE c = None /\ main.cmd = "QUIT"
    <3>2. /\ clients' = [clients EXCEPT ![s] = Respond(s, main.code)]
          /\ main' = [main EXCEPT !.at = "quit", !.c = c]
      BY <2>1, <2>3
    <3> HIDE DEF c
    <3>3. main'.at = "quit" /\ main'.s = s /\ main'.cmd = main.cmd
      BY <1>0, <3>2, TypedSlots DEF MainState
    <3> QED
      BY <2>3, <3>2, <3>3
  <2>4. CASE c = None /\ main.cmd # "QUIT"
    <3>1. ~(main.cmd = "RETR" /\ main.code = 150)
      <4>1. ASSUME main.cmd = "RETR", main.code = 150 PROVE FALSE
        <5>1. Holds(s) /\ c = ChannelOf(s)
          BY <1>3, <4>1
        <5> QED
          BY <2>4, <5>1, ChannelOfOwns
      <4> QED
        BY <4>1
    <3>2. clients' = [clients EXCEPT ![s] = AfterHandler(Respond(s, main.code))] /\ main' = MainIdle
      BY <2>1, <2>4
    <3> QED
      BY <2>4, <3>1, <3>2 DEF MainIdle
  <2> QED
    BY <2>2, <2>3, <2>4
<1>5. /\ r.open /\ r.cmdSend = main.code /\ r.netState = "NEED_SEND"
      /\ r.connType = clients[s].connType /\ r.pasvPort = clients[s].pasvPort
      /\ r = Respond(s, main.code) => r.events = clients[s].events
  <2>1. Respond(s, main.code) \in
             [open: BOOLEAN, netState: NetState, netLock: Thread \cup {Free}, cmdSend: Code,
              connType: {"NOT_SPECIFIED", "PASV"}, pasvPort: Port \cup {None},
              events: SUBSET {PollIn, PollOut}]
        /\ Respond(s, main.code).open /\ Respond(s, main.code).cmdSend = main.code
        /\ Respond(s, main.code).netState = "NEED_SEND"
        /\ Respond(s, main.code).connType = clients[s].connType
        /\ Respond(s, main.code).pasvPort = clients[s].pasvPort
        /\ Respond(s, main.code).events = clients[s].events
    <3>1. clients[s] \in ClientData /\ main.code \in Code
      BY TypedSlots DEF MainState
    <3> QED
      BY <1>2, <3>1 DEF Respond, ClientData, NetState, Thread
  <2> QED
    BY <1>4, <2>1 DEF AfterHandler
<1>6. /\ \A t \in Session : t # s => clients'[t] = clients[t]
      /\ clients'[s] = r
  BY <1>4, TypedSlots
<1>7. QuietMain(s)
  BY <1>0, <1>1, <1>4, <1>6 DEF QuietMain, OtherSessions, MainFor
<1>8. /\ Keeps(s)' <=> Keeps(s)
      /\ main'.at # "quit" => (Holds(s)' <=> Holds(s))
      /\ PortsKept(s)
  <2>1. Keeps(s)' <=> Keeps(s)
    BY <1>1, <1>2, <1>3, <1>5, <1>6 DEF Keeps
  <2>2. main.at # "quit"
    BY <1>1
  <2> QED
    BY <1>5, <1>6, <2>1, <2>2 DEF Holds, PortsKept
<1>9. KnowsKept(s)
  <2>1. ASSUME Due227(s)' PROVE Due227(s) /\ Holds(s)'
    <3>1. main.code = 227
      BY <1>4, <1>5, <1>6, <2>1 DEF Due227
    <3>2. Due227(s) /\ main'.at # "quit"
      BY <1>0, <1>1, <1>3, <1>4, <3>1 DEF Due227
    <3> QED
      BY <1>8, <3>2 DEF PoliteInv, Polite, KnowsOK
  <2> QED
    BY <1>1, <1>5, <1>6, <2>1 DEF KnowsKept
<1>10. JobsKept(s)
  <2>1. Transferring(s) => main.cmd = "STOR" /\ main.code = 150
    BY <1>2, <1>3 DEF Transferring
  <2>2. Transferring(s) => main'.at = "poll" /\ Transferring(s)'
    BY <1>1, <1>3, <1>4, <1>5, <1>6, <2>1 DEF Transferring
  <2>3. Pledged(s)' => Pledged(s)
    <3>1. ASSUME Pledged(s)' PROVE main.cmd = "STOR" /\ main.code = 150
      BY <1>1, <1>3, <1>4, <1>5, <1>6, <3>1 DEF Pledged
    <3> QED
      BY <1>0, <1>1, <3>1 DEF Pledged
  <2>4. Pre(s)' => Pre(s)
    BY <1>0, <1>1, <1>3, <1>4 DEF Pre
  <2> QED
    BY <1>1, <1>5, <1>6, <1>8, <2>2, <2>3, <2>4 DEF JobsKept
<1>11. DialogOK(s)'
  <2>1. ~Answering(s)' /\ ~Between(s)'
    BY <1>4 DEF Answering, Between
  <2>2. main.code = 221 => Handling(s)'
    BY <1>3, <1>4 DEF Handling
  <2> QED
    BY <1>1, <1>3, <1>5, <1>6, <2>1, <2>2 DEF DialogOK
<1>12. MainOK'
  <2>1. CASE main'.at = "hand"
    <3>1. Owns(s, main'.c)
      <4>1. Holds(s)
        <5>1. CASE main.cmd = "RETR" /\ main.code = 150
          BY <1>3, <5>1
        <5>2. CASE main.cmd = "QUIT"
          <6>1. ChannelOf(s) # None
            BY <1>4, <2>1
          <6>2. clients[s].connType = "PASV"
            BY <6>1 DEF ChannelOf
          <6> QED
            BY <1>1, <1>2, <1>3, <6>2 DEF Holds, Keeps
        <5> QED
          BY <1>4, <2>1, <5>1, <5>2
      <4> QED
        BY <1>4, <2>1, <4>1, ChannelOfOwns
    <3>2. Owns(main.s, main.c)'
      BY <1>1, <1>4, <1>5, <1>6, <1>8, <2>1, <3>1 DEF Owns
    <3> QED
      BY <1>1, <1>3, <1>4, <1>5, <1>6, <2>1, <3>2 DEF MainOK
  <2>2. CASE main'.at # "hand"
    BY <1>1, <1>3, <1>4, <1>5, <1>6, <2>2 DEF MainOK
  <2> QED
    BY <2>1, <2>2
<1>13. FlagOK(s)' /\ Once(dataPipe') /\ Once(exitPipe')
  <2>1. Once(dataPipe) /\ Once(exitPipe)
    BY DEF PoliteInv, Polite, FlagsOK
  <2>2. ~In(s, dataPipe') /\ ~In(s, exitPipe')
    BY <1>1, <1>2 DEF FlagOK, In
  <2>3. Handling(s)' => PollOut \notin clients'[s].events
    BY <1>3, <1>4, <1>5, <1>6 DEF Handling
  <2> QED
    BY <1>1, <1>3, <1>5, <1>6, <2>1, <2>2, <2>3 DEF FlagOK, Once
<1>14. \A t \in Session : t # s => /\ In(t, dataPipe') => In(t, dataPipe)
                                   /\ In(t, exitPipe') => In(t, exitPipe)
  BY <1>1 DEF In
<1> QED
  BY <1>7, <1>8, <1>9, <1>10, <1>11, <1>12, <1>13, <1>14, QuietMainPolite

\* REST has set the offset.
LEMMA HandRestPolite ==
  ASSUME PoliteInv, HandRest
  PROVE  Polite'
<1>0. PICK s \in Session : s = main.s
  BY TypedSlots DEF HandRest, CountersOK
<1>1. /\ main.at = "hand" /\ main.cmd = "REST"
      /\ UNCHANGED <<clients, channels, ctrlPipe, dataPipe, exitPipe, data, user, peer>>
      /\ main'.at = "reply" /\ main'.s = s /\ main'.cmd = "REST" /\ main'.code = main.code
  <2>1. main.at = "hand" /\ main.cmd = "REST" /\ main' = [main EXCEPT !.at = "reply"]
        /\ UNCHANGED <<clients, channels, ctrlPipe, dataPipe, exitPipe, data, user, peer>>
    BY DEF HandRest
  <2> QED
    BY <1>0, <2>1, TypedSlots DEF MainState
<1>2. /\ DialogOK(s) /\ FlagOK(s) /\ MainOK
  BY <1>0 DEF PoliteInv, Polite, FlagsOK
<1>3. /\ main.code = 350 /\ clients[s].open /\ user[s].stage = "wait" /\ user[s].asked = "REST"
      /\ user[s].inbox = <<>> /\ Answering(s) /\ Handling(s)
  BY <1>0, <1>1, <1>2 DEF MainOK, Answering, Handling
<1>4. QuietMain(s)
  BY <1>0, <1>1 DEF QuietMain, OtherSessions, MainFor
<1>5. PortsKept(s)
  BY <1>1 DEF PortsKept, Keeps, Holds
<1>6. clients[s].cmdSend \in {0, 226} /\ KnowsKept(s)
  <2>1. clients[s].cmdSend \in {0, 226}
    BY <1>2, <1>3 DEF DialogOK
  <2> QED
    BY <1>1, <1>3, <2>1 DEF KnowsKept, Due227
<1>7. JobsKept(s)
  BY <1>0, <1>1, <1>3, <1>6 DEF JobsKept, Keeps, Holds, Pledged, Transferring, Pre
<1>8. DialogOK(s)' /\ MainOK'
  <2>1. Answering(s)' /\ Handling(s)' /\ ~Between(s)' /\ ~Between(s)
    BY <1>1 DEF Answering, Handling, Between
  <2>2. DialogOK(s)'
    BY <1>1, <1>2, <1>3, <2>1 DEF DialogOK
  <2> QED
    BY <1>1, <1>3, <2>2 DEF MainOK
<1>9. FlagOK(s)' /\ Once(dataPipe') /\ Once(exitPipe')
  <2>1. Once(dataPipe) /\ Once(exitPipe)
    BY DEF PoliteInv, Polite, FlagsOK
  <2>2. ~Between(s)' /\ ~Between(s)
    BY <1>1 DEF Between
  <2> QED
    BY <1>1, <1>2, <1>3, <2>1, <2>2 DEF FlagOK, Once, In
<1>10. \A t \in Session : t # s => /\ In(t, dataPipe') => In(t, dataPipe)
                                   /\ In(t, exitPipe') => In(t, exitPipe)
  BY <1>1 DEF In
<1> QED
  BY <1>4, <1>5, <1>6, <1>7, <1>8, <1>9, <1>10, QuietMainPolite

\* The session quits: it is due in the exit pipe, once.
LEMMA QuitStepPolite ==
  ASSUME PoliteInv, QuitStep
  PROVE  Polite'
<1>0. PICK s \in Session : s = main.s
  BY TypedSlots DEF QuitStep, CountersOK
<1>1. /\ main.at = "quit" /\ exitPipe' = Append(exitPipe, s)
      /\ clients' = [clients EXCEPT ![s] = AfterHandler([clients[s] EXCEPT !.netState = "NEED_QUIT"])]
      /\ main' = MainIdle
      /\ UNCHANGED <<channels, ctrlPipe, dataPipe, data, user, peer>>
  BY <1>0 DEF QuitStep, Return
<1>2. /\ DialogOK(s) /\ FlagOK(s) /\ MainOK /\ Once(dataPipe) /\ Once(exitPipe)
  BY <1>0 DEF PoliteInv, Polite, FlagsOK
<1>3. /\ clients[s].open /\ user[s].stage = "wait" /\ user[s].asked = "QUIT"
      /\ user[s].inbox = <<>> /\ clients[s].cmdSend = 221 /\ Handling(s) /\ ~Between(s)
      /\ clients[s].netState = "NEED_SEND" /\ PollOut \notin clients[s].events
      /\ ~In(s, dataPipe) /\ ~In(s, exitPipe) /\ ~user[s].gone
  <2>1. /\ clients[s].open /\ user[s].stage = "wait" /\ user[s].asked = "QUIT"
        /\ user[s].inbox = <<>> /\ clients[s].cmdSend = 221 /\ Handling(s) /\ ~Between(s)
    BY <1>0, <1>1, <1>2 DEF MainOK, Handling, Between
  <2>2. clients[s].netState = "NEED_SEND"
    BY <1>0, <1>1, <2>1 DEF PoliteInv, TransferInv, HandlerOK
  <2> QED
    BY <1>2, <2>1, <2>2 DEF FlagOK, DialogOK
<1>4. /\ clients'[s].open /\ clients'[s].cmdSend = 221 /\ clients'[s].netState = "NEED_QUIT"
      /\ clients'[s].connType = clients[s].connType /\ clients'[s].pasvPort = clients[s].pasvPort
      /\ clients'[s].events = clients[s].events
      /\ \A t \in Session : t # s => clients'[t] = clients[t]
  <2> DEFINE r == [clients[s] EXCEPT !.netState = "NEED_QUIT"]
  <2>1. /\ r.open /\ r.cmdSend = 221 /\ r.netState = "NEED_QUIT"
        /\ r.connType = clients[s].connType /\ r.pasvPort = clients[s].pasvPort
        /\ r.events = clients[s].events
    BY <1>3, TypedSlots DEF ClientData
  <2>2. AfterHandler(r) = r
    BY <2>1 DEF AfterHandler
  <2> HIDE DEF r
  <2> QED
    BY <1>1, <2>1, <2>2, TypedSlots DEF r
<1>5. main'.at = "poll" /\ ~Handling(s)' /\ ~Between(s)' /\ ~Answering(s)' /\ ~Answering(s)
  BY <1>1 DEF MainIdle, Handling, Between, Answering
<1>6. QuietMain(s)
  BY <1>0, <1>1, <1>4, <1>5 DEF QuietMain, OtherSessions, MainFor
<1>7. PortsKept(s) /\ KnowsKept(s)
  BY <1>1, <1>4, <1>5 DEF PortsKept, KnowsKept, Keeps, Holds, Due227
<1>8. JobsKept(s)
  BY <1>0, <1>1, <1>3, <1>4, <1>5 DEF JobsKept, Keeps, Holds, Pledged, Transferring, Pre
<1>9. DialogOK(s)' /\ MainOK'
  <2>1. DialogOK(s)'
    BY <1>1, <1>3, <1>4, <1>5 DEF DialogOK
  <2> QED
    BY <1>5, <2>1 DEF MainOK
<1>10. /\ Once(exitPipe') /\ \A t : In(t, exitPipe') => In(t, exitPipe) \/ t = s
  BY <1>1, <1>2, <1>3, TypedSlots, AppendOnce
<1>11. Once(dataPipe') /\ \A t : In(t, dataPipe') => In(t, dataPipe)
  BY <1>1, <1>2 DEF Once, In
<1>12. FlagOK(s)'
  BY <1>3, <1>4, <1>5, <1>11 DEF FlagOK
<1> QED
  BY <1>6, <1>7, <1>8, <1>9, <1>10, <1>11, <1>12, QuietMainPolite

\* The two threads' messages for a control slot only change its poll events.
LEMMA EventsPolite ==
  ASSUME PoliteInv, NEW s \in Session, main.at = "poll",
         UNCHANGED <<channels, ctrlPipe, main, data, user, peer>>,
         \A t \in Session : t # s => clients'[t] = clients[t],
         clients'[s].open = clients[s].open, clients'[s].netState = clients[s].netState,
         clients'[s].cmdSend = clients[s].cmdSend, clients'[s].connType = clients[s].connType,
         clients'[s].pasvPort = clients[s].pasvPort,
         clients[s].open, clients[s].cmdSend # 0,
         Once(dataPipe'), Once(exitPipe'), ~In(s, dataPipe'), ~In(s, exitPipe'),
         \A t \in Session : t # s => /\ In(t, dataPipe') => In(t, dataPipe)
                                     /\ In(t, exitPipe') => In(t, exitPipe)
  PROVE  Polite'
<1>1. QuietMain(s)
  BY DEF QuietMain, OtherSessions, MainFor
<1>2. PortsKept(s) /\ KnowsKept(s)
  <2>1. (Keeps(s)' <=> Keeps(s)) /\ (Holds(s)' <=> Holds(s)) /\ (Due227(s)' <=> Due227(s))
    BY DEF Keeps, Holds, Due227
  <2>2. Due227(s) => Holds(s)
    BY DEF PoliteInv, Polite, KnowsOK
  <2> QED
    BY <2>1, <2>2 DEF PortsKept, KnowsKept
<1>3. JobsKept(s)
  BY DEF JobsKept, Keeps, Holds, Pledged, Transferring, Pre
<1>4. DialogOK(s)' /\ MainOK' /\ ~Handling(s)'
  <2>1. DialogOK(s) /\ ~Handling(s) /\ ~Handling(s)' /\ ~Between(s) /\ ~Between(s)'
        /\ ~Answering(s) /\ ~Answering(s)'
    BY DEF PoliteInv, Polite, Handling, Between, Answering
  <2> QED
    BY <2>1 DEF DialogOK, MainOK
<1>5. FlagOK(s)'
  BY <1>4 DEF FlagOK
<1> QED
  BY <1>1, <1>2, <1>3, <1>4, <1>5, QuietMainPolite

LEMMA ReadDataPipePolite ==
  ASSUME PoliteInv, ReadDataPipe
  PROVE  Polite'
<1>1. PICK s \in Session : s = Head(dataPipe)
  BY TypedSlots DEF ReadDataPipe
<1>2. /\ main.at = "poll" /\ dataPipe # <<>> /\ dataPipe' = Tail(dataPipe)
      /\ clients' = IF clients[s].open
                  THEN [clients EXCEPT ![s] = AfterHandler(WantWrite(clients[s]))] ELSE clients
      /\ UNCHANGED <<channels, ctrlPipe, exitPipe, main, data, user, peer>>
  BY <1>1 DEF ReadDataPipe, AtPoll
<1>3. /\ Once(dataPipe') /\ In(s, dataPipe) /\ ~In(s, dataPipe')
      /\ \A t : In(t, dataPipe') => In(t, dataPipe)
  BY <1>1, <1>2, TypedSlots, TailOnce DEF PoliteInv, Polite, FlagsOK
<1>4. clients[s].open /\ clients[s].cmdSend = 226 /\ ~In(s, exitPipe)
  BY <1>3 DEF PoliteInv, Polite, FlagsOK, FlagOK
<1>5. /\ \A t \in Session : t # s => clients'[t] = clients[t]
      /\ clients'[s].open = clients[s].open /\ clients'[s].netState = clients[s].netState
      /\ clients'[s].cmdSend = clients[s].cmdSend /\ clients'[s].connType = clients[s].connType
      /\ clients'[s].pasvPort = clients[s].pasvPort
  <2> DEFINE r == AfterHandler(WantWrite(clients[s]))
  <2>1. /\ r.open = clients[s].open /\ r.netState = clients[s].netState
        /\ r.cmdSend = clients[s].cmdSend /\ r.connType = clients[s].connType
        /\ r.pasvPort = clients[s].pasvPort
    BY TypedSlots DEF AfterHandler, WantWrite, ClientData
  <2>2. clients' = [clients EXCEPT ![s] = r]
    BY <1>2, <1>4
  <2> HIDE DEF r
  <2> QED
    BY <2>1, <2>2, TypedSlots
<1>6. Once(exitPipe') /\ ~In(s, exitPipe') /\ \A t : In(t, exitPipe') => In(t, exitPipe)
  BY <1>2, <1>4 DEF PoliteInv, Polite, FlagsOK, Once, In
<1>7. /\ UNCHANGED <<channels, ctrlPipe, main, data, user, peer>>
      /\ clients[s].cmdSend # 0
      /\ \A t \in Session : t # s => /\ In(t, dataPipe') => In(t, dataPipe)
                                     /\ In(t, exitPipe') => In(t, exitPipe)
  BY <1>2, <1>3, <1>4, <1>6
<1> QED
  BY <1>2, <1>3, <1>4, <1>5, <1>6, <1>7, EventsPolite

LEMMA ReadExitPipePolite ==
  ASSUME PoliteInv, ReadExitPipe
  PROVE  Polite'
<1>1. PICK s \in Session : s = Head(exitPipe)
  BY TypedSlots DEF ReadExitPipe
<1>2. /\ main.at = "poll" /\ exitPipe # <<>> /\ exitPipe' = Tail(exitPipe)
      /\ clients' = [clients EXCEPT ![s] =
            IF @.netState = "NEED_QUIT" THEN WantWrite(@) ELSE AfterHandler(@)]
      /\ UNCHANGED <<channels, ctrlPipe, dataPipe, main, data, user, peer>>
  BY <1>1 DEF ReadExitPipe, AtPoll
<1>3. /\ Once(exitPipe') /\ In(s, exitPipe) /\ ~In(s, exitPipe')
      /\ \A t : In(t, exitPipe') => In(t, exitPipe)
  BY <1>1, <1>2, TypedSlots, TailOnce DEF PoliteInv, Polite, FlagsOK
<1>4. /\ clients[s].open /\ clients[s].cmdSend = 221 /\ clients[s].netState = "NEED_QUIT"
      /\ ~In(s, dataPipe)
  BY <1>3 DEF PoliteInv, Polite, FlagsOK, FlagOK
<1>5. /\ \A t \in Session : t # s => clients'[t] = clients[t]
      /\ clients'[s].open = clients[s].open /\ clients'[s].netState = clients[s].netState
      /\ clients'[s].cmdSend = clients[s].cmdSend /\ clients'[s].connType = clients[s].connType
      /\ clients'[s].pasvPort = clients[s].pasvPort
  <2> DEFINE r == WantWrite(clients[s])
  <2>1. /\ r.open = clients[s].open /\ r.netState = clients[s].netState
        /\ r.cmdSend = clients[s].cmdSend /\ r.connType = clients[s].connType
        /\ r.pasvPort = clients[s].pasvPort
    BY TypedSlots DEF WantWrite, ClientData
  <2>2. clients' = [clients EXCEPT ![s] = r]
    BY <1>2, <1>4, TypedSlots
  <2> HIDE DEF r
  <2> QED
    BY <2>1, <2>2, TypedSlots
<1>6. Once(dataPipe') /\ ~In(s, dataPipe') /\ \A t : In(t, dataPipe') => In(t, dataPipe)
  BY <1>2, <1>4 DEF PoliteInv, Polite, FlagsOK, Once, In
<1>7. /\ UNCHANGED <<channels, ctrlPipe, main, data, user, peer>>
      /\ clients[s].cmdSend # 0
      /\ \A t \in Session : t # s => /\ In(t, dataPipe') => In(t, dataPipe)
                                     /\ In(t, exitPipe') => In(t, exitPipe)
  BY <1>2, <1>3, <1>4, <1>6
<1> QED
  BY <1>2, <1>3, <1>4, <1>5, <1>6, <1>7, EventsPolite

LEMMA WritePolite ==
  ASSUME PoliteInv, NEW s \in Session, Write(s)
  PROVE  Polite'
<1> DEFINE code == clients[s].cmdSend
<1>1. /\ main.at = "poll" /\ clients[s].open /\ PollOut \in clients[s].events
      /\ clients' = [clients EXCEPT ![s] = [@ EXCEPT !.netLock = Free, !.cmdSend = 0]]
      /\ main' = [MainIdle EXCEPT !.at = "sent", !.s = s]
      /\ UNCHANGED <<channels, ctrlPipe, dataPipe, exitPipe, data, peer>>
  BY DEF Write, AtPoll
<1>2. /\ DialogOK(s) /\ FlagOK(s) /\ Once(dataPipe) /\ Once(exitPipe) /\ user[s] \in UserState
      /\ ~Handling(s) /\ ~Between(s) /\ ~Answering(s)
  BY <1>1, TypedSlots DEF PoliteInv, Polite, FlagsOK, Handling, Between, Answering
<1>3. /\ ~user[s].gone /\ code # 0 /\ user[s].inbox = <<>> /\ user[s].stage \in {"wait", "xfer"}
      /\ user[s].stage = "xfer" => code = 226
      /\ user[s].stage = "wait" => code # 226
      /\ code = 226 => clients[s].connType = "NOT_SPECIFIED"
      /\ code = 150 => user[s].asked \in {"RETR", "STOR"}
      /\ code = 221 <=> clients[s].netState = "NEED_QUIT"
  <2>1. ~user[s].gone /\ code # 0
    BY <1>1, <1>2 DEF DialogOK, FlagOK
  <2>2. user[s].stage \in {"wait", "xfer"}
    BY <1>2, <2>1 DEF DialogOK, UserState
  <2> QED
    BY <1>2, <2>1, <2>2 DEF DialogOK
<1>4. /\ main'.at = "sent" /\ main'.s = s
      /\ Between(s)' /\ ~Handling(s)' /\ ~Answering(s)'
  <2>1. main'.at = "sent" /\ main'.s = s
    BY <1>1 DEF MainIdle
  <2> QED
    BY <2>1 DEF Between, Handling, Answering
<1>5. /\ \A t \in Session : t # s => clients'[t] = clients[t]
      /\ clients'[s].open /\ clients'[s].cmdSend = 0 /\ clients'[s].netState = clients[s].netState
      /\ clients'[s].connType = clients[s].connType /\ clients'[s].pasvPort = clients[s].pasvPort
      /\ clients'[s].events = clients[s].events
  BY <1>1, TypedSlots DEF ClientData
<1>6. /\ \A t \in Session : t # s => user'[t] = user[t]
      /\ user'[s] = Hear(user[s], code, clients[s].pasvPort)
  <2>1. user' = [user EXCEPT ![s] = Hear(user[s], code, clients[s].pasvPort)]
    BY <1>3, TypedSlots DEF Write
  <2> QED
    BY <2>1, TypedSlots
<1>7. /\ user'[s].inbox = <<>>
      /\ user'[s].stage = NextStage(user[s], code)
      /\ user'[s].stage = "xfer" => user'[s].asked = user[s].asked
      /\ user'[s].gone <=> code = 221
      /\ user'[s].knows = IF code = 227 THEN clients[s].pasvPort
                          ELSE IF code \in {226, 434} THEN None ELSE user[s].knows
  <2> DEFINE stage == NextStage(user[s], code)
             asked == IF NextStage(user[s], code) = "xfer" THEN user[s].asked ELSE "NONE"
             gone  == IF code = 221 THEN TRUE ELSE user[s].gone
             knows == IF code = 227 THEN clients[s].pasvPort
                      ELSE IF code \in {226, 434} THEN None ELSE user[s].knows
             heard == Kind(code)
  <2>1. user'[s] = [user[s] EXCEPT !.stage = stage, !.asked = asked, !.heard = heard,
                                   !.gone = gone, !.knows = knows]
    BY <1>6 DEF Hear
  <2>2. /\ stage = NextStage(user[s], code)
        /\ stage = "xfer" => asked = user[s].asked
        /\ gone <=> code = 221
        /\ knows = IF code = 227 THEN clients[s].pasvPort
                   ELSE IF code \in {226, 434} THEN None ELSE user[s].knows
    BY <1>3
  <2> HIDE DEF stage, asked, gone, knows, heard
  <2>3. /\ user'[s].inbox = user[s].inbox /\ user'[s].stage = stage /\ user'[s].asked = asked
        /\ user'[s].gone = gone /\ user'[s].knows = knows
    BY <1>2, <2>1 DEF UserState
  <2> QED
    BY <1>3, <2>2, <2>3
<1>8. /\ user'[s].stage = "away" <=> code = 221
      /\ user'[s].stage = "xfer" <=> (code = 150 /\ user[s].stage = "wait")
      /\ user'[s].stage \in {"away", "xfer", "idle"}
  BY <1>7 DEF NextStage
<1> HIDE DEF code
<1>9. QuietMain(s)
  BY <1>1, <1>4, <1>5, <1>6 DEF QuietMain, OtherSessions, MainFor
<1>10. /\ Keeps(s)' <=> Keeps(s)
       /\ Holds(s)' <=> Holds(s)
       /\ PortsKept(s)
  BY <1>1, <1>4, <1>5 DEF Keeps, Holds, PortsKept
<1>11. KnowsKept(s)
  BY <1>4, <1>5, <1>7 DEF KnowsKept, Due227, code
<1>12. JobsKept(s)
  <2>1. Holds(s) => user[s].stage # "xfer" /\ code # 226
    BY <1>3 DEF Holds, Keeps
  <2>2. Transferring(s) /\ Holds(s) => Transferring(s)' /\ user'[s].asked = user[s].asked
    BY <1>1, <1>3, <1>7, <1>8, <2>1 DEF Transferring, code
  <2>3. Pledged(s)' => Pledged(s)
    BY <1>1, <1>4, <1>5, <1>8 DEF Pledged, code
  <2>4. ~Pre(s)'
    BY <1>4, <1>7 DEF Pre
  <2> QED
    BY <1>5, <1>10, <2>1, <2>2, <2>3, <2>4 DEF JobsKept
<1>13. DialogOK(s)' /\ MainOK'
  <2>1. user'[s].stage = "xfer" => user'[s].asked \in {"RETR", "STOR"}
    BY <1>3, <1>7, <1>8
  <2>2. DialogOK(s)'
    BY <1>3, <1>4, <1>5, <1>7, <1>8, <2>1 DEF DialogOK
  <2> QED
    BY <1>4, <1>5, <2>2 DEF MainOK
<1>14. FlagOK(s)' /\ Once(dataPipe') /\ Once(exitPipe')
  <2>1. ~In(s, dataPipe') /\ ~In(s, exitPipe')
    BY <1>1, <1>2 DEF FlagOK, In
  <2> QED
    BY <1>1, <1>2, <1>4, <2>1 DEF FlagOK, Once
<1>15. \A t \in Session : t # s => /\ In(t, dataPipe') => In(t, dataPipe)
                                   /\ In(t, exitPipe') => In(t, exitPipe)
  BY <1>1 DEF In
<1> QED
  BY <1>9, <1>10, <1>11, <1>12, <1>13, <1>14, <1>15, QuietMainPolite

\* The end of the poll loop's turn, or of the connection.
LEMMA SentPolite ==
  ASSUME PoliteInv, Sent
  PROVE  Polite'
<1>0. PICK s \in Session : s = main.s
  BY TypedSlots DEF Sent, CountersOK
<1>1. /\ main.at = "sent" /\ UNCHANGED <<ctrlPipe, dataPipe, exitPipe, data, peer>>
  BY DEF Sent
<1>2. /\ DialogOK(s) /\ FlagOK(s) /\ Once(dataPipe) /\ Once(exitPipe)
      /\ clients[s].open /\ Between(s) /\ ~Handling(s) /\ ~Answering(s)
  BY <1>0, <1>1 DEF PoliteInv, Polite, FlagsOK, MainOK, Between, Handling, Answering
<1>3. /\ clients[s].cmdSend \in {0, 226}
      /\ clients[s].netState = "NEED_QUIT" <=> user[s].gone
      /\ user[s].gone => clients[s].cmdSend = 0
  BY <1>2 DEF DialogOK
<1>4. \A t \in Session : t # s => /\ In(t, dataPipe') => In(t, dataPipe)
                                  /\ In(t, exitPipe') => In(t, exitPipe)
  BY <1>1 DEF In
<1>5. Once(dataPipe') /\ Once(exitPipe')
  BY <1>1, <1>2 DEF Once
<1>6. MainIdle.at = "poll"
  BY DEF MainIdle
<1>7. CASE clients[s].netState = "NEED_QUIT"
  <2>1. /\ clients' = [clients EXCEPT ![s] = FreeClient] /\ user' = [user EXCEPT ![s] = NoUser]
        /\ channels' = [c \in Channel |->
             IF channels[c].ctrl = s THEN [channels[c] EXCEPT !.orphan = TRUE] ELSE channels[c]]
        /\ main' = MainIdle
    BY <1>0, <1>7 DEF Sent, CloseClient
  <2>2. /\ \A t \in Session : t # s => clients'[t] = clients[t] /\ user'[t] = user[t]
        /\ clients'[s] = FreeClient /\ user'[s] = NoUser /\ main'.at = "poll"
    BY <1>6, <2>1, TypedSlots
  <2>3. /\ ~FreeClient.open /\ FreeClient.cmdSend = 0 /\ FreeClient.events = {}
        /\ FreeClient.connType = "NOT_SPECIFIED" /\ FreeClient.netState = "IDLE"
        /\ NoUser.inbox = <<>> /\ NoUser.stage = "away" /\ NoUser.knows = None /\ ~NoUser.gone
    BY DEF FreeClient, NoUser
  <2>4. ~Holds(s) /\ ~Keeps(s)
    BY <1>7 DEF Holds, Keeps
  <2>5. QuietMain(s)
    <3>1. OtherSessions(s) /\ MainFor(s)
      BY <1>0, <2>2 DEF OtherSessions, MainFor
    <3> QED
      BY <1>1, <2>1, <2>4, <3>1 DEF QuietMain
  <2>6. PortsKept(s) /\ KnowsKept(s)
    BY <2>2, <2>3 DEF PortsKept, KnowsKept, Keeps, Holds, Due227
  <2>7. JobsKept(s)
    BY <2>2, <2>3, <2>4 DEF JobsKept, Keeps, Holds, Pledged
  <2>8. DialogOK(s)' /\ MainOK' /\ ~Handling(s)'
    BY <2>2, <2>3 DEF DialogOK, MainOK, Handling, Between
  <2>9. FlagOK(s)'
    <3>1. ~In(s, dataPipe') /\ ~In(s, exitPipe')
      BY <1>1, <1>2, <1>3, <1>7 DEF FlagOK, In
    <3> QED
      BY <2>2, <2>3, <2>8, <3>1 DEF FlagOK
  <2> QED
    BY <1>4, <1>5, <2>5, <2>6, <2>7, <2>8, <2>9, QuietMainPolite
<1>8. CASE clients[s].netState # "NEED_QUIT"
  <2>1. /\ clients' = [clients EXCEPT ![s] = [@ EXCEPT !.events = {PollIn}, !.netState = "IDLE"]]
        /\ main' = MainIdle /\ UNCHANGED <<channels, user>>
    BY <1>0, <1>8 DEF Sent
  <2>2. /\ \A t \in Session : t # s => clients'[t] = clients[t]
        /\ clients'[s].open /\ clients'[s].cmdSend = clients[s].cmdSend
        /\ clients'[s].netState = "IDLE" /\ clients'[s].events = {PollIn}
        /\ clients'[s].connType = clients[s].connType /\ clients'[s].pasvPort = clients[s].pasvPort
        /\ main'.at = "poll"
    BY <1>2, <1>6, <2>1, TypedSlots DEF ClientData
  <2>3. ~Handling(s)' /\ ~Between(s)' /\ ~Answering(s)'
    BY <2>2 DEF Handling, Between, Answering
  <2>4. QuietMain(s)
    BY <1>0, <1>1, <2>1, <2>2 DEF QuietMain, OtherSessions, MainFor
  <2>5. PortsKept(s) /\ KnowsKept(s)
    BY <1>1, <1>3, <1>8, <2>1, <2>2 DEF PortsKept, KnowsKept, Keeps, Holds, Due227
  <2>6. JobsKept(s)
    BY <1>1, <1>3, <1>8, <2>1, <2>2 DEF JobsKept, Keeps, Holds, Pledged, Transferring, Pre
  <2>7. DialogOK(s)' /\ MainOK'
    <3>1. DialogOK(s)'
      BY <1>2, <1>3, <1>8, <2>1, <2>2, <2>3 DEF DialogOK
    <3> QED
      BY <2>2, <3>1 DEF MainOK
  <2>8. FlagOK(s)'
    <3>1. PollOut \notin clients'[s].events
      BY <2>2 DEF PollOut, PollIn
    <3>2. In(s, dataPipe') => clients[s].cmdSend = 226
      BY <1>1, <1>2 DEF FlagOK, In
    <3>3. ~In(s, exitPipe')
      BY <1>1, <1>2, <1>3 DEF FlagOK, In
    <3> QED
      BY <2>2, <3>1, <3>2, <3>3 DEF FlagOK
  <2> QED
    BY <1>4, <1>5, <2>4, <2>5, <2>6, <2>7, <2>8, QuietMainPolite
<1> QED
  BY <1>7, <1>8

-----------------------------------------------------------------------------
(* A job is handed over.                                                   *)

\* The channel a handler is at is its session's, and idle.
LEMMA AtHand ==
  ASSUME PoliteInv, main.at = "hand", NEW s \in Session, s = main.s, NEW c \in Channel, c = main.c
  PROVE  /\ Owns(s, c) /\ Holds(s) /\ channels[c].port # None /\ channels[c].state = "IDLE"
         /\ ~channels[c].wpipe /\ ~Serving(c) /\ ~Closing(c) /\ ~Working(c)
         /\ ~(data.at = "new" /\ data.c = c)
         /\ ~peer[c].rx /\ ~peer[c].fin /\ (peer[c].conn => peer[c].who = s)
         /\ clients[s].open /\ user[s].stage = "wait" /\ user[s].asked = main.cmd
         /\ user[s].inbox = <<>> /\ ~user[s].gone /\ Handling(s) /\ ~Between(s)
         /\ PollOut \notin clients[s].events /\ ~In(s, dataPipe) /\ ~In(s, exitPipe)
         /\ clients[s].netState # "NEED_QUIT" /\ \A t \in Session : Owns(t, c) => t = s
<1>1. /\ PortsOK /\ JobsOK /\ MainOK /\ DialogOK(s) /\ FlagOK(s) /\ ChannelOK(c)
  BY DEF PoliteInv, Polite, ChannelsOK, FlagsOK
<1>2. /\ Owns(s, c) /\ Holds(s) /\ Pre(s) /\ OwnerOK(s, c) /\ channels[c].port # None
      /\ clients[s].open /\ user[s].stage = "wait" /\ user[s].asked = main.cmd
      /\ user[s].inbox = <<>> /\ Handling(s) /\ ~Between(s)
  BY <1>1 DEF MainOK, JobsOK, Pre, Owns, Handling, Between
<1>3. channels[c].state = "IDLE" /\ ~peer[c].rx /\ ~peer[c].fin /\ (peer[c].conn => peer[c].who = s)
  BY <1>2 DEF OwnerOK
<1>4. /\ ~channels[c].wpipe /\ ~Serving(c) /\ ~Closing(c) /\ ~Working(c)
      /\ ~(data.at = "new" /\ data.c = c)
  BY <1>1, <1>3 DEF ChannelOK, Busy, Serving, Closing, Working
<1>5. /\ ~user[s].gone /\ PollOut \notin clients[s].events /\ ~In(s, dataPipe) /\ ~In(s, exitPipe)
      /\ clients[s].netState # "NEED_QUIT"
  BY <1>1, <1>2 DEF DialogOK, FlagOK, Holds, Keeps
<1>6. \A t \in Session : Owns(t, c) => t = s
  BY <1>1, <1>2 DEF PortsOK, Owns, Holds
<1> QED
  BY <1>2, <1>3, <1>4, <1>5, <1>6

LEMMA HandPolite ==
  ASSUME PoliteInv, main.at = "hand", NEW s \in Session, s = main.s, NEW c \in Channel, c = main.c,
         ctrlPipe' = Append(ctrlPipe, c), UNCHANGED <<dataPipe, exitPipe, data, user, peer>>,
         \A d \in Channel : d # c => channels'[d] = channels[d],
         channels'[c].port = channels[c].port, channels'[c].lock = channels[c].lock,
         channels'[c].accepted = channels[c].accepted,
         \A t \in Session : t # s => clients'[t] = clients[t],
         clients'[s].open, clients'[s].connType = clients[s].connType,
         clients'[s].pasvPort = clients[s].pasvPort, clients'[s].netState = clients[s].netState,
         clients'[s].cmdSend = clients[s].cmdSend,
         main'.s = s \/ main'.at = "poll", ~Due227(s)', ~Pre(s)',
         \/ /\ channels'[c].ctrl = s /\ ~channels'[c].orphan
            /\ channels'[c].state \in {"NEED_SEND", "NEED_RECV"}
            /\ channels'[c].wpipe <=> channels'[c].state = "NEED_RECV"
            /\ JobOf(c)' = main.cmd /\ Transferring(s)' /\ main'.at # "quit"
         \/ /\ channels'[c].state = "NEED_QUIT" /\ channels'[c].wpipe = channels[c].wpipe
            /\ main'.at = "quit" /\ main'.s = s /\ ~Pledged(s)',
         DialogOK(s)', MainOK',
         clients'[s].cmdSend # 0 \/ PollOut \notin clients'[s].events,
         Handling(s)' => clients'[s].events = clients[s].events
  PROVE  Polite'
<1>1. /\ PortsOK /\ KnowsOK /\ ChannelsOK /\ JobsOK /\ (\A t \in Session : DialogOK(t))
      /\ MainOK /\ FlagsOK /\ CountersOK
  BY DEF PoliteInv, Polite, TransferInv
<1>2. /\ Owns(s, c) /\ Holds(s) /\ channels[c].port # None /\ channels[c].state = "IDLE"
      /\ ~channels[c].wpipe /\ ~Serving(c) /\ ~Closing(c) /\ ~Working(c)
      /\ ~(data.at = "new" /\ data.c = c)
      /\ ~peer[c].rx /\ ~peer[c].fin /\ (peer[c].conn => peer[c].who = s)
      /\ clients[s].open /\ user[s].stage = "wait" /\ user[s].asked = main.cmd
      /\ user[s].inbox = <<>> /\ ~user[s].gone /\ Handling(s) /\ ~Between(s)
      /\ PollOut \notin clients[s].events /\ ~In(s, dataPipe) /\ ~In(s, exitPipe)
      /\ clients[s].netState # "NEED_QUIT" /\ \A t \in Session : Owns(t, c) => t = s
  BY AtHand
<1>3. \A t \in Session : t # s => /\ clients'[t] = clients[t] /\ user'[t] = user[t]
                                  /\ Keeps(t)' <=> Keeps(t)
                                  /\ Holds(t)' <=> Holds(t)
                                  /\ Due227(t)' <=> Due227(t)
                                  /\ Transferring(t)' <=> Transferring(t)
                                  /\ Pledged(t)' <=> Pledged(t)
                                  /\ Pre(t)' <=> Pre(t)
                                  /\ DialogOK(t)'
                                  /\ ~Handling(t)' /\ ~Between(t)' /\ ~Handling(t) /\ ~Between(t)
  <2>1. OtherSessions(s) /\ MainFor(s)
    BY DEF OtherSessions, MainFor
  <2> QED
    BY <1>1, <2>1, Elsewhere
<1>4. /\ Keeps(s)' /\ Keeps(s)
      /\ main'.at = "quit" /\ main'.s = s => ~Holds(s)'
      /\ main'.at # "quit" => Holds(s)'
  BY <1>2 DEF Keeps, Holds
<1>5. /\ \A d \in Channel : channels'[d].port = channels[d].port
      /\ \A t \in Session, d \in Channel : t # s => (Owns(t, d)' <=> Owns(t, d))
      /\ \A d \in Channel : d # c => ~Owns(s, d) /\ ~Owns(s, d)'
      /\ Holds(s)' => Owns(s, c)'
  <2>1. \A d \in Channel : channels'[d].port = channels[d].port
    OBVIOUS
  <2>2. \A t \in Session, d \in Channel : t # s => (Owns(t, d)' <=> Owns(t, d))
    BY <1>3, <2>1 DEF Owns
  <2>3. \A d \in Channel : d # c => channels[d].port # channels[c].port
    BY <1>1, <1>2 DEF PortsOK
  <2> QED
    BY <1>2, <2>1, <2>2, <2>3 DEF Owns
<1>6. \A d \in Channel : /\ Serving(d)' <=> Serving(d)
                         /\ Closing(d)' <=> Closing(d)
                         /\ d # c => (Working(d)' <=> Working(d))
  BY DEF Serving, Closing, Working, Busy
<1>7. PortsOK'
  <2>1. \A d \in Channel : FreeSlot(d)'
    BY <1>1, <1>2, <1>5 DEF PortsOK, FreeSlot
  <2>2. \A t \in Session : Holds(t)' => \E d \in Channel : Owns(t, d)'
    BY <1>1, <1>3, <1>5 DEF PortsOK
  <2>3. \A t, u \in Session : Keeps(t)' /\ Keeps(u)' /\ clients'[t].pasvPort = clients'[u].pasvPort => t = u
    BY <1>1, <1>3, <1>4 DEF PortsOK
  <2>4. \A d, e \in Channel : channels'[d].port # None /\ channels'[d].port = channels'[e].port => d = e
    BY <1>1, <1>5 DEF PortsOK
  <2> QED
    BY <2>1, <2>2, <2>3, <2>4 DEF PortsOK
<1>8. KnowsOK'
  <2>1. \A t \in Session : user'[t].knows # None =>
          \E d \in Channel : channels'[d].port = user'[t].knows /\ ~peer'[d].conn
    BY <1>1, <1>5 DEF KnowsOK
  <2>2. \A t, u \in Session : user'[t].knows # None /\ t # u =>
          user'[u].knows # user'[t].knows /\ (Keeps(u)' => clients'[u].pasvPort # user'[t].knows)
    BY <1>1, <1>3, <1>4 DEF KnowsOK
  <2>3. ASSUME NEW t \in Session, Due227(t)'
        PROVE  /\ Holds(t)' /\ user'[t].knows # clients'[t].pasvPort
               /\ \A d \in Channel : Owns(t, d)' => ~peer'[d].conn
    <3>1. t # s /\ Due227(t)
      BY <1>3, <2>3
    <3> QED
      BY <1>1, <1>3, <1>5, <3>1 DEF KnowsOK
  <2> QED
    BY <2>1, <2>2, <2>3 DEF KnowsOK
<1>9. \A d \in Channel : In(d, ctrlPipe) => In(d, ctrlPipe')
  BY TypedSlots, InAppend
<1>10. ChannelsOK'
  <2>1. ChannelOK(c)'
    <3>1. channels[c].lock = Free /\ (channels[c].accepted => peer[c].conn)
      BY <1>1, <1>2 DEF ChannelsOK, ChannelOK
    <3>2. channels'[c].state = "NEED_QUIT" => \A t \in Session : ~Owns(t, c)'
      BY <1>2, <1>4, <1>5 DEF Owns
    <3>3. channels'[c].wpipe <=> channels'[c].state = "NEED_RECV"
      BY <1>2
    <3>4. ~Serving(c)' /\ ~Closing(c)' /\ channels'[c].state # "NEW_CLIENT"
      BY <1>2, <1>6
    <3> QED
      BY <1>2, <3>1, <3>2, <3>3, <3>4 DEF ChannelOK
  <2>2. ASSUME NEW d \in Channel, d # c PROVE ChannelOK(d)'
    BY <1>1, <1>5, <1>6, <1>9, <2>2 DEF ChannelsOK, ChannelOK, Busy
  <2> QED
    BY <1>1, <2>1, <2>2 DEF ChannelsOK
<1>11. JobsOK'
  <2>1. JobOK(c)'
    <3>1. CASE channels'[c].state = "NEED_QUIT"
      BY <3>1 DEF JobOK, Working, Busy
    <3>2. CASE channels'[c].state # "NEED_QUIT"
      BY <1>2, <1>4, <1>5, <3>2 DEF JobOK
    <3> QED
      BY <3>1, <3>2
  <2>2. ASSUME NEW d \in Channel, d # c, Working(d) PROVE JobOK(d)'
    <3>1. JobOK(d) /\ channels[d].ctrl # s
      BY <1>1, <1>5, <2>2 DEF JobsOK, JobOK
    <3> QED
      BY <1>3, <1>5, <2>2, <3>1 DEF JobOK, JobOf
  <2>3. \A d \in Channel : JobOK(d)'
    BY <1>6, <2>1, <2>2 DEF JobOK
  <2>4. ASSUME NEW t \in Session, Pledged(t)'
        PROVE  \E d \in Channel : Working(d)' /\ channels'[d].ctrl = t
    <3>1. CASE t = s
      <4>1. Working(c)' /\ channels'[c].ctrl = s
        BY <1>2, <1>6, <2>4, <3>1 DEF Working, Busy
      <4> QED
        BY <3>1, <4>1
    <3>2. CASE t # s
      <4>1. PICK d \in Channel : Working(d) /\ channels[d].ctrl = t
        BY <1>1, <1>3, <2>4, <3>2 DEF JobsOK
      <4>2. d # c
        BY <1>2, <4>1
      <4> QED
        BY <1>6, <4>1, <4>2
    <3> QED
      BY <3>1, <3>2
  <2>5. ASSUME NEW t \in Session, NEW d \in Channel, Owns(t, d)' PROVE OwnerOK(t, d)'
    <3>1. CASE t = s
      BY <1>2, <1>5, <2>5, <3>1 DEF OwnerOK
    <3>2. CASE t # s
      <4>1. d # c /\ Owns(t, d) /\ OwnerOK(t, d)
        BY <1>1, <1>2, <1>5, <2>5, <3>2 DEF JobsOK
      <4> QED
        BY <1>3, <3>2, <4>1 DEF OwnerOK
    <3> QED
      BY <3>1, <3>2
  <2>6. \A t \in Session, d \in Channel : OwnerOK(t, d)'
    BY <2>5 DEF OwnerOK
  <2> QED
    BY <2>3, <2>4, <2>6 DEF JobsOK
<1>12. FlagsOK'
  <2>1. ASSUME NEW t \in Session PROVE FlagOK(t)'
    <3>1. FlagOK(t)
      BY <1>1 DEF FlagsOK
    <3>2. CASE t = s
      BY <1>2, <3>2 DEF FlagOK, In
    <3>3. CASE t # s
      BY <1>3, <3>1, <3>3 DEF FlagOK, In
    <3> QED
      BY <3>2, <3>3
  <2> QED
    BY <1>1, <2>1 DEF FlagsOK, Once
<1>13. \A t \in Session : DialogOK(t)'
  BY <1>3
<1> QED
  BY <1>7, <1>8, <1>10, <1>11, <1>12, <1>13 DEF Polite

LEMMA HandSendPolite ==
  ASSUME PoliteInv, HandSend
  PROVE  Polite'
<1>0. PICK s \in Session, c \in Channel : s = main.s /\ c = main.c /\ main.at = "hand"
  <2>1. main.at = "hand"
    BY DEF HandSend, Hand
  <2> QED
    BY <2>1, TypedSlots DEF CountersOK
<1>1. /\ Owns(s, c) /\ Holds(s) /\ channels[c].port # None /\ channels[c].state = "IDLE"
      /\ ~channels[c].wpipe /\ ~Serving(c) /\ ~Closing(c) /\ ~Working(c)
      /\ clients[s].open /\ user[s].stage = "wait" /\ user[s].asked = main.cmd
      /\ user[s].inbox = <<>> /\ ~user[s].gone /\ Handling(s) /\ ~Between(s)
      /\ PollOut \notin clients[s].events /\ clients[s].netState # "NEED_QUIT"
  BY <1>0, AtHand
<1>2. /\ main.cmd = "RETR" /\ clients[s].cmdSend = 150 /\ clients[s].netState = "NEED_SEND"
  <2>1. main.cmd = "RETR"
    BY DEF HandSend
  <2>2. clients[s].cmdSend = 150
    BY <1>0, <2>1 DEF PoliteInv, Polite, MainOK
  <2> QED
    BY <1>0, <1>1, <2>1, <2>2 DEF PoliteInv, TransferInv, HandlerOK
<1>3. PICK n : /\ channels' = [channels EXCEPT ![c] = Job("NEED_SEND", n, channels[c].wpipe)]
               /\ ctrlPipe' = Append(ctrlPipe, c)
               /\ UNCHANGED <<dataPipe, exitPipe, data, user, peer>>
  BY <1>0, <1>1 DEF HandSend, Hand
<1>4. /\ \A d \in Channel : d # c => channels'[d] = channels[d]
      /\ channels'[c].port = channels[c].port /\ channels'[c].lock = channels[c].lock
      /\ channels'[c].accepted = channels[c].accepted /\ channels'[c].ctrl = s
      /\ ~channels'[c].orphan /\ channels'[c].state = "NEED_SEND" /\ ~channels'[c].wpipe
  BY <1>0, <1>1, <1>3, TypedSlots DEF Job, PasvData
<1>5. clients' = [clients EXCEPT ![s] = AfterHandler(clients[s])] /\ main' = MainIdle
  BY <1>0 DEF HandSend, Return
<1>6. /\ \A t \in Session : t # s => clients'[t] = clients[t]
      /\ clients'[s].open /\ clients'[s].connType = clients[s].connType
      /\ clients'[s].pasvPort = clients[s].pasvPort /\ clients'[s].netState = clients[s].netState
      /\ clients'[s].cmdSend = clients[s].cmdSend
  <2> DEFINE r == AfterHandler(clients[s])
  <2>1. /\ r.open /\ r.connType = clients[s].connType
        /\ r.pasvPort = clients[s].pasvPort /\ r.netState = clients[s].netState
        /\ r.cmdSend = clients[s].cmdSend
    BY <1>1, TypedSlots DEF AfterHandler, ClientData
  <2> HIDE DEF r
  <2> QED
    BY <1>5, <2>1, TypedSlots DEF r
<1>7. main'.at = "poll" /\ ~Handling(s)' /\ ~Between(s)' /\ ~Answering(s)'
  BY <1>5 DEF MainIdle, Handling, Between, Answering
<1>8. ~Due227(s)' /\ ~Pre(s)' /\ Transferring(s)' /\ JobOf(c)' = main.cmd
  BY <1>1, <1>2, <1>3, <1>4, <1>6, <1>7 DEF Due227, Pre, Transferring, JobOf
<1>9. DialogOK(s)' /\ MainOK'
  <2>1. DialogOK(s)'
    BY <1>1, <1>2, <1>3, <1>6, <1>7 DEF DialogOK
  <2> QED
    BY <1>7, <2>1 DEF MainOK
<1> QED
  BY <1>0, <1>2, <1>3, <1>4, <1>6, <1>7, <1>8, <1>9, HandPolite

LEMMA HandRecvPolite ==
  ASSUME PoliteInv, HandRecv
  PROVE  Polite'
<1>0. PICK s \in Session, c \in Channel : s = main.s /\ c = main.c /\ main.at = "hand"
  <2>1. main.at = "hand"
    BY DEF HandRecv, Hand
  <2> QED
    BY <2>1, TypedSlots DEF CountersOK
<1>1. /\ Owns(s, c) /\ Holds(s) /\ channels[c].port # None /\ channels[c].state = "IDLE"
      /\ ~channels[c].wpipe /\ ~Serving(c) /\ ~Closing(c) /\ ~Working(c)
      /\ clients[s].open /\ user[s].stage = "wait" /\ user[s].asked = main.cmd
      /\ user[s].inbox = <<>> /\ ~user[s].gone /\ Handling(s) /\ ~Between(s)
      /\ PollOut \notin clients[s].events /\ clients[s].netState # "NEED_QUIT"
  BY <1>0, AtHand
<1>2. main.cmd = "STOR" /\ main.code = 150 /\ clients[s].cmdSend = 0
  <2>1. main.cmd = "STOR"
    BY DEF HandRecv
  <2>2. main.code = 150 /\ Answering(s) /\ DialogOK(s)
    BY <1>0, <2>1 DEF PoliteInv, Polite, MainOK, Answering
  <2>3. clients[s].cmdSend \in {0, 226}
    BY <1>1, <2>2 DEF DialogOK
  <2>4. clients[s].cmdSend # 226
    BY <1>1, <2>2 DEF DialogOK, Holds, Keeps
  <2> QED
    BY <2>1, <2>2, <2>3, <2>4
<1>3. /\ channels' = [channels EXCEPT ![c] = Job("NEED_RECV", 0, TRUE)]
      /\ ctrlPipe' = Append(ctrlPipe, c)
      /\ UNCHANGED <<clients, dataPipe, exitPipe, data, user, peer>>
  BY <1>0, <1>1 DEF HandRecv, Hand
<1>4. /\ \A d \in Channel : d # c => channels'[d] = channels[d]
      /\ channels'[c].port = channels[c].port /\ channels'[c].lock = channels[c].lock
      /\ channels'[c].accepted = channels[c].accepted /\ channels'[c].ctrl = s
      /\ ~channels'[c].orphan /\ channels'[c].state = "NEED_RECV" /\ channels'[c].wpipe
  BY <1>0, <1>1, <1>3, TypedSlots DEF Job, PasvData
<1>5. /\ main'.at = "reply" /\ main'.s = s /\ main'.cmd = "STOR" /\ main'.code = 150
  <2>1. main' = [main EXCEPT !.at = "reply"]
    BY DEF HandRecv
  <2> QED
    BY <1>0, <1>2, <2>1, TypedSlots DEF MainState
<1>6. ~Between(s)' /\ Answering(s)' /\ Handling(s)'
  BY <1>5 DEF Handling, Between, Answering
<1>7. ~Due227(s)' /\ ~Pre(s)' /\ Transferring(s)' /\ JobOf(c)' = main.cmd
  <2>1. ~Due227(s)' /\ ~Pre(s)'
    BY <1>1, <1>2, <1>3, <1>5 DEF Due227, Pre
  <2>2. Transferring(s)'
    BY <1>1, <1>3, <1>5 DEF Transferring
  <2>3. JobOf(c)' = main.cmd
    BY <1>2, <1>4 DEF JobOf
  <2> QED
    BY <2>1, <2>2, <2>3
<1>8. DialogOK(s)' /\ MainOK'
  <2>1. DialogOK(s)'
    BY <1>1, <1>2, <1>3, <1>6 DEF DialogOK
  <2> QED
    BY <1>1, <1>2, <1>3, <1>5, <2>1 DEF MainOK
<1> QED
  BY <1>0, <1>1, <1>2, <1>3, <1>4, <1>5, <1>6, <1>7, <1>8, HandPolite

LEMMA HandQuitPolite ==
  ASSUME PoliteInv, HandQuit
  PROVE  Polite'
<1>0. PICK s \in Session, c \in Channel : s = main.s /\ c = main.c /\ main.at = "hand"
  <2>1. main.at = "hand"
    BY DEF HandQuit, Hand
  <2> QED
    BY <2>1, TypedSlots DEF CountersOK
<1>1. /\ Owns(s, c) /\ Holds(s) /\ channels[c].port # None /\ channels[c].state = "IDLE"
      /\ ~channels[c].wpipe /\ ~Serving(c) /\ ~Closing(c) /\ ~Working(c)
      /\ clients[s].open /\ user[s].stage = "wait" /\ user[s].asked = main.cmd
      /\ user[s].inbox = <<>> /\ ~user[s].gone /\ Handling(s) /\ ~Between(s)
      /\ PollOut \notin clients[s].events /\ clients[s].netState # "NEED_QUIT"
  BY <1>0, AtHand
<1>2. main.cmd = "QUIT" /\ clients[s].cmdSend = 221
  <2>1. main.cmd = "QUIT"
    BY DEF HandQuit
  <2> QED
    BY <1>0, <2>1 DEF PoliteInv, Polite, MainOK
<1>3. /\ channels' = [channels EXCEPT ![c] = [channels[c] EXCEPT !.state = "NEED_QUIT"]]
      /\ ctrlPipe' = Append(ctrlPipe, c)
      /\ UNCHANGED <<clients, dataPipe, exitPipe, data, user, peer>>
  BY <1>0, <1>1 DEF HandQuit, Hand
<1>4. /\ \A d \in Channel : d # c => channels'[d] = channels[d]
      /\ channels'[c].port = channels[c].port /\ channels'[c].lock = channels[c].lock
      /\ channels'[c].accepted = channels[c].accepted
      /\ channels'[c].state = "NEED_QUIT" /\ channels'[c].wpipe = channels[c].wpipe
  BY <1>3, TypedSlots DEF PasvData
<1>5. main'.at = "quit" /\ main'.s = s /\ main'.cmd = "QUIT"
  <2>1. main' = [main EXCEPT !.at = "quit"]
    BY DEF HandQuit
  <2> QED
    BY <1>0, <1>2, <2>1, TypedSlots DEF MainState
<1>6. ~Between(s)' /\ ~Answering(s)' /\ Handling(s)'
  BY <1>5 DEF Handling, Between, Answering
<1>7. ~Due227(s)' /\ ~Pre(s)' /\ ~Pledged(s)'
  BY <1>1, <1>2, <1>3, <1>5 DEF Due227, Pre, Pledged
<1>8. DialogOK(s)' /\ MainOK'
  <2>1. DialogOK(s)'
    BY <1>1, <1>2, <1>3, <1>6 DEF DialogOK
  <2> QED
    BY <1>1, <1>2, <1>3, <1>5, <2>1 DEF MainOK
<1> QED
  BY <1>0, <1>1, <1>2, <1>3, <1>4, <1>5, <1>6, <1>7, <1>8, HandPolite

-----------------------------------------------------------------------------
(* Polite clients leave the invariant true.                                *)

LEMMA PoliteInit ==
  ASSUME Init
  PROVE  PoliteInv
<1>1. TransferInv
  BY TransferInvInit
<1>2. /\ ~FreeClient.open /\ FreeClient.cmdSend = 0 /\ FreeClient.connType = "NOT_SPECIFIED"
      /\ FreeClient.netState = "IDLE" /\ FreeClient.events = {}
  BY DEF FreeClient
<1>3. /\ FreeChannel.port = None /\ FreeChannel.lock = Free /\ FreeChannel.state = "IDLE"
      /\ ~FreeChannel.accepted /\ ~FreeChannel.wpipe
  BY DEF FreeChannel
<1>4. /\ NoUser.inbox = <<>> /\ NoUser.stage = "away" /\ NoUser.knows = None /\ ~NoUser.gone
  BY DEF NoUser
<1>5. /\ main.at = "poll" /\ data.at = "poll" /\ dataPipe = <<>> /\ exitPipe = <<>>
      /\ \A s \in Session : clients[s] = FreeClient /\ user[s] = NoUser
      /\ \A c \in Channel : channels[c] = FreeChannel /\ peer[c] = NoPeer
  BY DEF Init, MainIdle, DataIdle
<1>6. /\ \A s \in Session : /\ ~Keeps(s) /\ ~Holds(s) /\ ~Due227(s) /\ ~Pledged(s)
                            /\ ~Handling(s) /\ ~Between(s)
      /\ \A s \in Session, c \in Channel : ~Owns(s, c)
      /\ \A c \in Channel : ~Busy(c) /\ ~Serving(c) /\ ~Closing(c) /\ ~Working(c)
  BY <1>2, <1>3, <1>4, <1>5
     DEF Keeps, Holds, Due227, Pledged, Handling, Between, Owns, Busy, Serving, Closing, Working
<1>7. PortsOK /\ KnowsOK
  BY <1>3, <1>4, <1>5, <1>6 DEF PortsOK, KnowsOK, FreeSlot
<1>8. ChannelsOK /\ JobsOK
  BY <1>3, <1>5, <1>6 DEF ChannelsOK, ChannelOK, JobsOK, JobOK, OwnerOK
<1>9. (\A s \in Session : DialogOK(s)) /\ MainOK
  BY <1>2, <1>4, <1>5, <1>6 DEF DialogOK, MainOK
<1>10. FlagsOK
  BY <1>2, <1>5, <1>6 DEF FlagsOK, FlagOK, Once, In
<1> QED
  BY <1>1, <1>7, <1>8, <1>9, <1>10 DEF PoliteInv, Polite

\* A client that has hung up is between its last reply and the end of its
\* connection, where the main thread reads nothing.
LEMMA EofNever ==
  ASSUME PoliteInv, NEW s \in Session, RecvEof(s)
  PROVE  FALSE
BY DEF RecvEof, AtPoll, PoliteInv, Polite, DialogOK, Between

LEMMA PoliteKept ==
  ASSUME PoliteInv, Hazard = {}, [Next]_vars
  PROVE  Polite'
<1>1. CASE MainStep
  <2>1. ASSUME NEW s \in Session, Handle(s) PROVE Polite'
    BY <2>1, HandlersPolite, PasvPolite, PasvFailsPolite DEF Handle
  <2>2. CASE Continue
    <3>1. ~HandRecvFails
      BY DEF HandRecvFails
    <3> QED
      BY <2>2, <3>1, ReplyPolite, HandSendPolite, HandRecvPolite, HandRestPolite, HandQuitPolite,
         QuitStepPolite, SentPolite DEF Continue
  <2> QED
    BY <1>1, <2>1, <2>2, AcceptPolite, WritePolite, EofNever, ReadDataPipePolite, ReadExitPipePolite
       DEF MainStep
<1>2. CASE DataStep
  BY <1>2, ReadCtrlPipePolite, StoreIdlePolite, AcceptDataPolite, ReadDataPolite, SendDataPolite,
     BlockNever, CallbackPolite, CloseStepPolite DEF DataStep
<1>3. CASE PeerStep
  <2>1. \A s \in Session : ~Drop(s)
    BY DEF Drop
  <2>2. \A c \in Channel : ~Abort(c)
    BY DEF Abort
  <2> QED
    BY <1>3, <2>1, <2>2, SendCmdPolite, ConnectPolite, UploadPolite DEF PeerStep
<1>4. CASE UNCHANGED vars
  <2>1. /\ PortsOK /\ KnowsOK /\ ChannelsOK /\ JobsOK /\ (\A s \in Session : DialogOK(s))
        /\ MainOK /\ FlagsOK /\ CountersOK
    BY DEF PoliteInv, Polite, TransferInv
  <2>2. UNCHANGED <<clients, channels, ctrlPipe, dataPipe, exitPipe, main, data, user, peer>>
    BY <1>4 DEF vars
  <2>3. /\ \A s \in Session, c \in Channel : Owns(s, c)' <=> Owns(s, c)
        /\ \A c \in Channel : FreeSlot(c)' <=> FreeSlot(c)
        /\ \A c \in Channel : Serving(c)' <=> Serving(c)
        /\ \A c \in Channel : Closing(c)' <=> Closing(c)
    BY <2>2 DEF Owns, Holds, Keeps, FreeSlot, Serving, Closing
  <2>4. PortsOK' /\ KnowsOK'
    BY <2>1, <2>2, <2>3, SamePorts DEF PortsOK
  <2>5. JobsOK'
    BY <2>1, <2>2, <2>3, SameJobs
  <2>6. (\A s \in Session : DialogOK(s)') /\ MainOK' /\ FlagsOK'
    BY <2>1, <2>2, SameDialogs
  <2>7. ChannelsOK'
    BY <2>1, <2>2, <2>3 DEF ChannelsOK, ChannelOK, Busy, In
  <2> QED
    BY <2>4, <2>5, <2>6, <2>7 DEF Polite
<1> QED
  BY <1>1, <1>2, <1>3, <1>4 DEF Next

LEMMA PoliteStep ==
  ASSUME PoliteInv, Hazard = {}, [Next]_vars
  PROVE  PoliteInv'
<1>1. TransferInv'
  BY TypeStep, TokenStep DEF PoliteInv, TransferInv, Token
<1> QED
  BY <1>1, PoliteKept DEF PoliteInv

LEMMA PoliteInductive ==
  ASSUME Hazard = {}
  PROVE  Spec => []PoliteInv
<1>1. Init => PoliteInv
  BY PoliteInit
<1>2. PoliteInv /\ [Next]_vars => PoliteInv'
  BY PoliteStep
<1> QED
  BY <1>1, <1>2, PTL DEF Spec

-----------------------------------------------------------------------------
(* What polite clients get.                                                *)

\* A session's job is in one channel, its own.
LEMMA OneJob ==
  ASSUME PoliteInv, NEW s \in Session, NEW c \in Channel, Working(c), channels[c].ctrl = s
  PROVE  /\ Holds(s) /\ Transferring(s)
         /\ \A d \in Channel : Working(d) /\ channels[d].ctrl = s => d = c
<1>1. \A d \in Channel : Working(d) /\ channels[d].ctrl = s => Owns(s, d) /\ Transferring(s)
  BY DEF PoliteInv, Polite, JobsOK, JobOK
<1> QED
  BY <1>1 DEF PoliteInv, Polite, PortsOK, Owns

\* Polite clients (Hazard = {}): every reply that a client is owed is in exactly
\* one place of the server, and no reply is anywhere that nobody is owed.
THEOREM OneReply ==
  ASSUME Hazard = {}
  PROVE  Spec => []OneReplyEach
<1>1. ASSUME PoliteInv PROVE OneReplyEach
  <2> SUFFICES ASSUME NEW s \in Session, clients[s].open, ~user[s].gone
               PROVE  /\ user[s].stage = "wait" => Cardinality(FirstReply(s)) = 1
                      /\ user[s].stage = "xfer" => FirstReply(s) = {} /\ Cardinality(FinalReply(s)) = 1
                      /\ user[s].stage = "idle" => FirstReply(s) = {} /\ FinalReply(s) = {}
    BY DEF OneReplyEach
  <2>1. DialogOK(s)
    BY <1>1 DEF PoliteInv, Polite
  <2> DEFINE inbox   == {<<"inbox", i>> : i \in DOMAIN user[s].inbox}
             handler == {x \in {<<"handler">>} : main.s = s /\ (main.at = "reply" \/
                                  (main.at = "hand" /\ main.cmd \in {"STOR", "REST"}))}
             pending == {x \in {<<"cmd_send">>} : clients[s].cmdSend \notin {0, 226}}
             hand    == {<<"handler">> : x \in {y \in {main} : y.s = s /\ y.at = "hand" /\ y.cmd = "RETR"}}
             jobs    == {<<"job", c>> : c \in {d \in Channel : /\ channels[d].ctrl = s
                                               /\ channels[d].state \in {"NEED_SEND", "NEED_RECV"}
                                               /\ ~(data.at = "close" /\ data.c = d)}}
             ended   == {x \in {<<"cmd_send">>} : clients[s].cmdSend = 226}
  <2>2. FirstReply(s) = inbox \cup handler \cup pending /\ FinalReply(s) = hand \cup jobs \cup ended
    BY Zenon DEF FirstReply, FinalReply
  <2>3. /\ user[s].inbox = <<>> => inbox = {}
        /\ \A x : user[s].inbox = <<x>> => inbox = {<<"inbox", 1>>}
    <3>1. ASSUME user[s].inbox = <<>> PROVE inbox = {}
      BY <3>1
    <3>2. ASSUME NEW x, user[s].inbox = <<x>> PROVE inbox = {<<"inbox", 1>>}
      <4>1. DOMAIN user[s].inbox = {1}
        BY <3>2
      <4> QED
        BY <4>1, Zenon
    <3> QED
      BY <3>1, <3>2
  <2>4. handler = IF Answering(s) THEN {<<"handler">>} ELSE {}
    BY DEF Answering
  <2>5. /\ clients[s].cmdSend \in {0, 226} => pending = {}
        /\ clients[s].cmdSend \notin {0, 226} => pending = {<<"cmd_send">>}
        /\ clients[s].cmdSend = 226 => ended = {<<"cmd_send">>}
        /\ clients[s].cmdSend # 226 => ended = {}
    OBVIOUS
  <2>6. /\ ~Handling(s) => hand = {} /\ ~Answering(s)
    BY DEF Handling, Answering
  <2>7. jobs = {<<"job", c>> : c \in {d \in Channel : channels[d].ctrl = s /\ Working(d)}}
    BY DEF Working, Busy, Closing
  <2> HIDE DEF inbox, handler, pending, hand, jobs, ended
  <2>8. CASE user[s].stage = "wait"
    <3>1. \/ FirstReply(s) = {<<"inbox", 1>>}
          \/ FirstReply(s) = {<<"handler">>}
          \/ FirstReply(s) = {<<"cmd_send">>}
      BY <2>1, <2>2, <2>3, <2>4, <2>5, <2>6, <2>8 DEF DialogOK
    <3> QED
      BY <2>8, <3>1, FS_Singleton
  <2>9. CASE user[s].stage = "xfer"
    <3>1. FirstReply(s) = {} /\ hand = {} /\ clients[s].cmdSend \in {0, 226}
      BY <2>1, <2>2, <2>3, <2>4, <2>5, <2>6, <2>9 DEF DialogOK
    <3>2. CASE clients[s].cmdSend = 0
      <4>1. PICK c \in Channel : Working(c) /\ channels[c].ctrl = s
        BY <1>1, <2>9, <3>2 DEF PoliteInv, Polite, JobsOK, Pledged
      <4>2. {d \in Channel : channels[d].ctrl = s /\ Working(d)} = {c}
        BY <1>1, <4>1, OneJob
      <4>3. jobs = {<<"job", c>>}
        BY <2>7, <4>2, Zenon
      <4>4. FinalReply(s) = {<<"job", c>>}
        BY <2>2, <2>5, <3>1, <3>2, <4>3
      <4>5. Cardinality(FinalReply(s)) = 1
        BY <4>4, FS_Singleton
      <4> QED
        BY <2>9, <3>1, <4>5
    <3>3. CASE clients[s].cmdSend = 226
      <4>1. ~Holds(s)
        BY <2>1, <3>3 DEF DialogOK, Holds, Keeps
      <4>2. {d \in Channel : channels[d].ctrl = s /\ Working(d)} = {}
        BY <1>1, <4>1, OneJob
      <4>3. jobs = {}
        BY <2>7, <4>2, Zenon
      <4>4. FinalReply(s) = {<<"cmd_send">>}
        BY <2>2, <2>5, <3>1, <3>3, <4>3
      <4>5. Cardinality(FinalReply(s)) = 1
        BY <4>4, FS_Singleton
      <4> QED
        BY <2>9, <3>1, <4>5
    <3> QED
      BY <3>1, <3>2, <3>3
  <2>10. CASE user[s].stage = "idle"
    <3>1. FirstReply(s) = {} /\ hand = {} /\ clients[s].cmdSend = 0 /\ ~Handling(s)
      BY <2>1, <2>2, <2>3, <2>4, <2>5, <2>6, <2>10 DEF DialogOK
    <3>2. ~Transferring(s)
      BY <2>10 DEF Transferring
    <3>3. {d \in Channel : channels[d].ctrl = s /\ Working(d)} = {}
      BY <1>1, <3>2, OneJob
    <3>4. jobs = {}
      BY <2>7, <3>3, Zenon
    <3> QED
      BY <2>2, <2>5, <2>10, <3>1, <3>4
  <2> QED
    BY <2>8, <2>9, <2>10
<1> QED
  BY <1>1, PoliteInductive, PTL

\* Polite clients: a completion waits in cmd_send only when its client has had
\* its 150, although the data thread writes it and not the handler.
THEOREM CompletionLast ==
  ASSUME Hazard = {}
  PROVE  Spec => []CompletionAfter150
<1>1. ASSUME PoliteInv PROVE CompletionAfter150
  <2> SUFFICES ASSUME NEW s \in Session, clients[s].cmdSend = 226 PROVE user[s].stage = "xfer"
    BY DEF CompletionAfter150
  <2>1. user[s].stage \in {"away", "wait", "xfer", "idle"} /\ DialogOK(s)
    BY <1>1, TypedSlots DEF PoliteInv, Polite, UserState
  <2> QED
    BY <2>1 DEF DialogOK
<1> QED
  BY <1>1, PoliteInductive, PTL

\* Polite clients: POLLOUT is asked for what has not been sent, so that
\* send_data_client never sends a buffer for the second time.
THEOREM RepliesSentOnce ==
  ASSUME Hazard = {}
  PROVE  Spec => []NoRepeatedReply
<1>1. ASSUME PoliteInv PROVE NoRepeatedReply
  BY <1>1 DEF PoliteInv, Polite, FlagsOK, FlagOK, NoRepeatedReply, Between
<1> QED
  BY <1>1, PoliteInductive, PTL

\* Polite clients: a completion goes to the connection whose transfer has ended,
\* although the callback has only the pointer to its slot.
THEOREM CompletionsDelivered ==
  ASSUME Hazard = {}
  PROVE  Spec => []NoMisdelivery
<1>1. ASSUME PoliteInv PROVE NoMisdelivery
  <2> SUFFICES ASSUME data.at = "callback"
               PROVE  clients[channels[data.c].ctrl].open /\ ~channels[data.c].orphan
    BY DEF NoMisdelivery
  <2>1. PICK c \in Channel : c = data.c
    BY <1>1, TypedSlots DEF CountersOK
  <2>2. channels[c].ctrl \in Session /\ Owns(channels[c].ctrl, c) /\ ~channels[c].orphan
    BY <1>1, <2>1, AtCallback
  <2> QED
    BY <2>1, <2>2 DEF Owns, Holds, Keeps
<1> QED
  BY <1>1, PoliteInductive, PTL

\* Polite clients: the ports that sessions remember lead them to different
\* channels, although a session keeps its port when its channel is gone.
THEOREM ChannelsApart ==
  ASSUME Hazard = {}
  PROVE  Spec => []NoSharedChannel
<1>1. ASSUME PoliteInv PROVE NoSharedChannel
  <2> SUFFICES ASSUME NEW s \in Session, NEW t \in Session, s # t, ChannelOf(s) # None,
                      clients[s].netState # "NEED_QUIT", clients[t].netState # "NEED_QUIT",
                      ChannelOf(s) = ChannelOf(t)
               PROVE  FALSE
    BY DEF NoSharedChannel
  <2>1. ASSUME NEW u \in {s, t}
        PROVE  Keeps(u) /\ channels[ChannelOf(u)].port = clients[u].pasvPort
    <3>1. /\ clients[u].connType = "PASV" /\ clients[u].netState # "NEED_QUIT" /\ DialogOK(u)
          /\ \E c \in Channel : channels[c].port = clients[u].pasvPort
          /\ ChannelOf(u) = CHOOSE c \in Channel : channels[c].port = clients[u].pasvPort
      BY <1>1 DEF ChannelOf, PoliteInv, Polite
    <3>2. channels[ChannelOf(u)].port = clients[u].pasvPort
      BY <3>1
    <3> QED
      BY <3>1, <3>2 DEF Keeps, DialogOK
  <2> QED
    BY <1>1, <2>1 DEF PoliteInv, Polite, PortsOK
<1> QED
  BY <1>1, PoliteInductive, PTL

\* Polite clients: when a handler has its reply to compose, net_lock is free, so
\* that the poll loop never waits for a lock that only the poll loop releases.
THEOREM PollLoopFree ==
  ASSUME Hazard = {}
  PROVE  Spec => []ServerNotBlocked
<1>1. ASSUME PoliteInv PROVE ServerNotBlocked
  <2> SUFFICES ASSUME main.at = "reply" PROVE clients[main.s].netLock = Free
    BY DEF ServerNotBlocked
  <2>1. PICK s \in Session : s = main.s
    BY <1>1, TypedSlots DEF CountersOK
  <2>2. DialogOK(s) /\ MainOK /\ Answering(s) /\ Handling(s)
    BY <1>1, <2>1 DEF PoliteInv, Polite, Answering, Handling
  <2>3. clients[s].open /\ user[s].stage = "wait"
    BY <2>1, <2>2 DEF MainOK
  <2>4. clients[s].cmdSend = 0
    BY <2>2, <2>3 DEF DialogOK
  <2> QED
    BY <1>1, <2>1, <2>3, <2>4 DEF PoliteInv, TransferInv, LockIsToken
<1> QED
  BY <1>1, PoliteInductive, PTL

-----------------------------------------------------------------------------
(* The threads together keep the dialogue of FtpDialogue.                  *)

Said(s) == [stage |-> user[s].stage, asked |-> user[s].asked, heard |-> user[s].heard]

\* What the client of s sees after a step that is about no other session.
Says(s, stage, asked, heard) ==
  /\ \A t \in Session : t # s => user'[t] = user[t]
  /\ user'[s].stage = stage /\ user'[s].asked = asked /\ user'[s].heard = heard

LEMMA Moves ==
  ASSUME NEW s \in Session
  PROVE  /\ user[s].stage = "away" /\ Says(s, "wait", "NONE", "none") => Dialogue!Greet(s)
         /\ \A cmd : user[s].stage = "idle" /\ Says(s, "wait", cmd, user[s].heard)
                      => Dialogue!Ask(s, cmd)
         /\ user[s].stage = "xfer" /\ Says(s, "idle", "NONE", "completion")
                      => Dialogue!Complete(s)
         /\ user[s].stage = "wait" /\ user[s].asked \in {"RETR", "STOR"}
              /\ Says(s, "xfer", user[s].asked, "interim") => Dialogue!Interim(s)
         /\ user[s].stage = "wait" /\ user[s].asked = "QUIT"
              /\ Says(s, "away", "NONE", "bye") => Dialogue!Bye(s)
         /\ user[s].stage = "wait" /\ user[s].asked # "QUIT"
              /\ Says(s, "idle", "NONE", "answer") => Dialogue!Answer(s)
         /\ Says(s, "away", "NONE", "none") => Dialogue!Leave(s)
<1>1. ASSUME user[s].stage = "away", Says(s, "wait", "NONE", "none")
      PROVE  Dialogue!Greet(s)
  BY <1>1 DEF Says, Dialogue!Greet, Dialogue!Becomes
<1>2. ASSUME NEW cmd, user[s].stage = "idle", Says(s, "wait", cmd, user[s].heard)
      PROVE  Dialogue!Ask(s, cmd)
  BY <1>2 DEF Says, Dialogue!Ask, Dialogue!Becomes
<1>3. ASSUME user[s].stage = "xfer", Says(s, "idle", "NONE", "completion")
      PROVE  Dialogue!Complete(s)
  BY <1>3 DEF Says, Dialogue!Complete, Dialogue!Becomes
<1>4. ASSUME user[s].stage = "wait", user[s].asked \in {"RETR", "STOR"},
             Says(s, "xfer", user[s].asked, "interim")
      PROVE  Dialogue!Interim(s)
  BY <1>4 DEF Says, Dialogue!Interim, Dialogue!Becomes
<1>5. ASSUME user[s].stage = "wait", user[s].asked = "QUIT", Says(s, "away", "NONE", "bye")
      PROVE  Dialogue!Bye(s)
  BY <1>5 DEF Says, Dialogue!Bye, Dialogue!Becomes
<1>6. ASSUME user[s].stage = "wait", user[s].asked # "QUIT", Says(s, "idle", "NONE", "answer")
      PROVE  Dialogue!Answer(s)
  BY <1>6 DEF Says, Dialogue!Answer, Dialogue!Becomes
<1>7. ASSUME Says(s, "away", "NONE", "none")
      PROVE  Dialogue!Leave(s)
  BY <1>7 DEF Says, Dialogue!Leave, Dialogue!Becomes
<1> QED
  BY <1>1, <1>2, <1>3, <1>4, <1>5, <1>6, <1>7

LEMMA NothingSaid ==
  ASSUME \A s \in Session : /\ user'[s].stage = user[s].stage
                            /\ user'[s].asked = user[s].asked
                            /\ user'[s].heard = user[s].heard
  PROVE  UNCHANGED Dialogue!vars
BY DEF Dialogue!vars

\* What Write makes the client of s hear: the reply that was due.
LEMMA WriteSays ==
  ASSUME PoliteInv, NEW s \in Session, Write(s)
  PROVE  Dialogue!Served(s)
<1> DEFINE code  == clients[s].cmdSend
           stage == NextStage(user[s], code)
           asked == IF stage = "xfer" THEN user[s].asked ELSE "NONE"
<1>1. /\ main.at = "poll" /\ clients[s].open /\ PollOut \in clients[s].events
  BY DEF Write, AtPoll
<1>2. /\ DialogOK(s) /\ FlagOK(s) /\ user[s] \in UserState
      /\ ~Handling(s) /\ ~Between(s) /\ ~Answering(s)
  BY <1>1, TypedSlots DEF PoliteInv, Polite, FlagsOK, Handling, Between, Answering
<1>3. ~user[s].gone /\ code # 0 /\ user[s].stage \in {"wait", "xfer"}
  <2>1. ~user[s].gone /\ code # 0
    BY <1>1, <1>2 DEF DialogOK, FlagOK
  <2> QED
    BY <1>2, <2>1 DEF DialogOK, UserState
<1>4. /\ user[s].stage = "xfer" => code = 226
      /\ user[s].stage = "wait" => code # 226 /\ (code = 221 <=> user[s].asked = "QUIT")
      /\ code = 150 => user[s].asked \in {"RETR", "STOR"}
  BY <1>2, <1>3 DEF DialogOK
<1>5. /\ \A t \in Session : t # s => user'[t] = user[t]
      /\ user'[s] = Hear(user[s], code, clients[s].pasvPort)
  <2>1. user' = [user EXCEPT ![s] = Hear(user[s], code, clients[s].pasvPort)]
    BY <1>3, TypedSlots DEF Write
  <2> QED
    BY <2>1, TypedSlots
<1>6. user'[s].stage = stage /\ user'[s].asked = asked /\ user'[s].heard = Kind(code)
  <2> DEFINE heard == Kind(code)
             gone  == IF code = 221 THEN TRUE ELSE user[s].gone
             knows == IF code = 227 THEN clients[s].pasvPort
                      ELSE IF code \in {226, 434} THEN None ELSE user[s].knows
  <2>1. user'[s] = [user[s] EXCEPT !.stage = stage, !.asked = asked, !.heard = heard,
                                   !.gone = gone, !.knows = knows]
    BY <1>5 DEF Hear
  <2> HIDE DEF stage, asked, heard, gone, knows
  <2>2. user'[s].stage = stage /\ user'[s].asked = asked /\ user'[s].heard = heard
    BY <1>2, <2>1 DEF UserState
  <2> QED
    BY <2>2 DEF heard
<1>7. Says(s, stage, asked, Kind(code))
  BY <1>5, <1>6 DEF Says
<1>8. CASE code = 226
  <2>1. user[s].stage = "xfer" /\ stage = "idle" /\ asked = "NONE" /\ Kind(code) = "completion"
    BY <1>3, <1>4, <1>8 DEF NextStage, Kind
  <2> HIDE DEF stage, asked, code
  <2>2. Says(s, "idle", "NONE", "completion")
    BY <1>7, <2>1
  <2>3. Dialogue!Complete(s)
    BY <2>1, <2>2, Moves
  <2> QED
    BY <2>3 DEF Dialogue!Served
<1>9. CASE code = 221
  <2>1. user[s].stage = "wait" /\ user[s].asked = "QUIT"
        /\ stage = "away" /\ asked = "NONE" /\ Kind(code) = "bye"
    BY <1>3, <1>4, <1>9 DEF NextStage, Kind
  <2> HIDE DEF stage, asked, code
  <2>2. Says(s, "away", "NONE", "bye")
    BY <1>7, <2>1
  <2>3. Dialogue!Bye(s)
    BY <2>1, <2>2, Moves
  <2> QED
    BY <2>3 DEF Dialogue!Served
<1>10. CASE code = 150
  <2>1. user[s].stage = "wait" /\ user[s].asked \in {"RETR", "STOR"}
        /\ stage = "xfer" /\ asked = user[s].asked /\ Kind(code) = "interim"
    BY <1>3, <1>4, <1>10 DEF NextStage, Kind
  <2> HIDE DEF stage, asked, code
  <2>2. Says(s, "xfer", user[s].asked, "interim")
    BY <1>7, <2>1
  <2>3. Dialogue!Interim(s)
    BY <2>1, <2>2, Moves
  <2> QED
    BY <2>3 DEF Dialogue!Served
<1>11. CASE code \notin {226, 221, 150}
  <2>1. user[s].stage = "wait" /\ user[s].asked # "QUIT"
        /\ stage = "idle" /\ asked = "NONE" /\ Kind(code) = "answer"
    BY <1>3, <1>4, <1>11 DEF NextStage, Kind
  <2> HIDE DEF stage, asked, code
  <2>2. Says(s, "idle", "NONE", "answer")
    BY <1>7, <2>1
  <2>3. Dialogue!Answer(s)
    BY <2>1, <2>2, Moves
  <2> QED
    BY <2>3 DEF Dialogue!Served
<1> QED
  BY <1>8, <1>9, <1>10, <1>11

\* A connection is accepted, and its greeting composed.
LEMMA AcceptSays ==
  ASSUME PoliteInv, NEW s \in Session, Accept(s)
  PROVE  Dialogue!Next
<1>1. /\ user[s].stage = "away" /\ user' = [user EXCEPT ![s] = [NoUser EXCEPT !.stage = "wait"]]
  BY DEF Accept
<1>2. /\ [NoUser EXCEPT !.stage = "wait"].stage = "wait"
      /\ [NoUser EXCEPT !.stage = "wait"].asked = "NONE"
      /\ [NoUser EXCEPT !.stage = "wait"].heard = "none"
  BY DEF NoUser
<1>3. /\ \A t \in Session : t # s => user'[t] = user[t]
      /\ user'[s].stage = "wait" /\ user'[s].asked = "NONE" /\ user'[s].heard = "none"
  BY <1>1, <1>2, TypedSlots
<1>4. Says(s, "wait", "NONE", "none")
  BY <1>3 DEF Says
<1>5. Dialogue!Greet(s)
  BY <1>1, <1>4, Moves
<1> QED
  BY <1>5 DEF Dialogue!Next

\* A polite client asks when it has had all there was to hear.
LEMMA SendCmdSays ==
  ASSUME PoliteInv, Hazard = {}, NEW s \in Session, NEW cmd \in Used, SendCmd(s, cmd)
  PROVE  Dialogue!Next
<1> DEFINE u == [user[s] EXCEPT !.inbox = Append(user[s].inbox, cmd)]
           v == [u EXCEPT !.asked = cmd, !.stage = "wait"]
<1>0. user[s].stage = "idle" /\ user[s] \in UserState
  BY TypedSlots DEF SendCmd, MaySend
<1>1. u.stage = "idle" /\ u \in UserState /\ u.heard = user[s].heard
  <2>1. Append(user[s].inbox, cmd) \in Seq(Cmd)
    BY <1>0, ConstantsAssumption DEF UserState
  <2> QED
    BY <1>0, <2>1 DEF UserState
<1>2. user' = [user EXCEPT ![s] = v]
  BY <1>1 DEF SendCmd
<1> HIDE DEF u
<1>3. v.asked = cmd /\ v.stage = "wait" /\ v.heard = user[s].heard
  BY <1>1 DEF UserState
<1> HIDE DEF v
<1>4. /\ \A t \in Session : t # s => user'[t] = user[t]
      /\ user'[s].stage = "wait" /\ user'[s].asked = cmd /\ user'[s].heard = user[s].heard
  BY <1>2, <1>3, TypedSlots
<1>5. Says(s, "wait", cmd, user[s].heard)
  BY <1>4 DEF Says
<1>6. Dialogue!Ask(s, cmd)
  BY <1>0, <1>5, Moves
<1> QED
  BY <1>6, ConstantsAssumption DEF Dialogue!Next

\* The end of a connection, from either side of it.
LEMMA CloseSays ==
  ASSUME PoliteInv, Sent
  PROVE  Dialogue!Next \/ UNCHANGED Dialogue!vars
<1>0. PICK s \in Session : s = main.s
  BY TypedSlots DEF PoliteInv, Sent, TransferInv, CountersOK
<1>1. CASE clients[s].netState = "NEED_QUIT"
  <2>1. user' = [user EXCEPT ![s] = NoUser]
    BY <1>0, <1>1 DEF Sent, CloseClient
  <2>2. NoUser.stage = "away" /\ NoUser.asked = "NONE" /\ NoUser.heard = "none"
    BY DEF NoUser
  <2>3. Says(s, "away", "NONE", "none")
    BY <2>1, <2>2, TypedSlots DEF Says
  <2>4. Dialogue!Leave(s)
    BY <2>3, Moves
  <2> QED
    BY <2>4 DEF Dialogue!Next
<1>2. CASE clients[s].netState # "NEED_QUIT"
  <2>1. user' = user
    BY <1>0, <1>2 DEF Sent
  <2> QED
    BY <2>1, NothingSaid
<1> QED
  BY <1>1, <1>2

\* A handler takes a command from the socket, and says nothing yet.
LEMMA HandlersSayNothing ==
  ASSUME PoliteInv, NEW s \in Session, Handle(s)
  PROVE  UNCHANGED Dialogue!vars
<1>1. user' = [user EXCEPT ![s].inbox = Tail(@)]
  BY DEF Handle, FTP_CTRL, FTP_PASV, FTP_PASV_Fails, FTP_REST, FTP_RETR, FTP_STOR, FTP_QUIT, Recv
<1>2. /\ user'[s] = [user[s] EXCEPT !.inbox = Tail(user[s].inbox)]
      /\ \A t \in Session : t # s => user'[t] = user[t]
  BY <1>1, TypedSlots
<1>3. user'[s].stage = user[s].stage /\ user'[s].asked = user[s].asked /\ user'[s].heard = user[s].heard
  BY <1>2, TypedSlots DEF UserState
<1> QED
  BY <1>2, <1>3, NothingSaid

LEMMA ConnectSaysNothing ==
  ASSUME PoliteInv, NEW s \in Session, Connect(s)
  PROVE  UNCHANGED Dialogue!vars
<1>1. /\ user'[s] = [user[s] EXCEPT !.knows = None]
      /\ \A t \in Session : t # s => user'[t] = user[t]
  BY TypedSlots DEF Connect
<1>2. user'[s].stage = user[s].stage /\ user'[s].asked = user[s].asked /\ user'[s].heard = user[s].heard
  BY <1>1, TypedSlots DEF UserState
<1> QED
  BY <1>1, <1>2, NothingSaid

LEMMA StepRefines ==
  ASSUME PoliteInv, Hazard = {}, [Next]_vars
  PROVE  [Dialogue!Next]_(Dialogue!vars)
<1>1. CASE user' = user
  BY <1>1, NothingSaid
<1>2. CASE \E s \in Session : Accept(s)
  <2>1. PICK s \in Session : Accept(s)
    BY <1>2
  <2> QED
    BY <2>1, AcceptSays
<1>3. CASE \E s \in Session, cmd \in Used : SendCmd(s, cmd)
  BY <1>3, SendCmdSays
<1>4. CASE \E s \in Session : Handle(s)
  BY <1>4, HandlersSayNothing
<1>5. CASE \E s \in Session : Write(s)
  BY <1>5, WriteSays DEF Dialogue!Next
<1>6. CASE Sent
  BY <1>6, CloseSays
<1>7. CASE \E s \in Session : Connect(s)
  BY <1>7, ConnectSaysNothing
<1> QED
  <2>1. \A s \in Session : ~RecvEof(s)
    BY EofNever
  <2>2. \A s \in Session : ~Drop(s)
    BY DEF Drop
  <2>3. CASE MainStep
    <3>1. CASE Reply \/ HandSend \/ HandRecv \/ HandRecvFails \/ HandRest \/ HandQuit \/ QuitStep
               \/ ReadDataPipe \/ ReadExitPipe
      <4>1. user' = user
        BY <3>1 DEF Reply, HandSend, HandRecv, HandRecvFails, HandRest, HandQuit, QuitStep, Hand,
                    ReadDataPipe, ReadExitPipe
      <4> QED
        BY <1>1, <4>1
    <3> QED
      BY <2>1, <2>3, <3>1, <1>2, <1>4, <1>5, <1>6 DEF MainStep, Continue
  <2>4. CASE DataStep
    <3>1. user' = user
      BY <2>4 DEF DataStep, ReadCtrlPipe, StoreIdle, AcceptData, ReadData, SendData, Block,
                  Callback, CloseStep
    <3> QED
      BY <1>1, <3>1
  <2>5. CASE PeerStep
    <3>1. CASE \E c \in Channel : Upload(c) \/ Finish(c) \/ Abort(c)
      <4>1. user' = user
        BY <3>1 DEF Upload, Finish, Abort, CloseData
      <4> QED
        BY <1>1, <4>1
    <3> QED
      BY <2>2, <2>5, <3>1, <1>3, <1>7 DEF PeerStep
  <2>6. CASE UNCHANGED vars
    BY <1>1, <2>6 DEF vars
  <2> QED
    BY <2>3, <2>4, <2>5, <2>6 DEF Next

\* With polite clients the main thread, the data thread, their locks and their
\* pipes never show: every connection sees the sequential server of FtpDialogue,
\* one answer to a command or an interim reply and one completion, in its order.
THEOREM DialogueKept ==
  ASSUME Hazard = {}
  PROVE  Spec => Dialogue!Init /\ [][Dialogue!Next]_(Dialogue!vars)
<1>1. Init => Dialogue!Init
  BY DEF Init, NoUser, Dialogue!Init, Dialogue!Nobody
<1>2. PoliteInv /\ [Next]_vars => [Dialogue!Next]_(Dialogue!vars)
  BY StepRefines
<1> QED
  BY <1>1, <1>2, PoliteInductive, PTL DEF Spec
=============================================================================
