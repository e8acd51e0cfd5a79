-------------------------- MODULE FtpClientProofs --------------------------
(***************************************************************************)
(* Proofs about FtpClient for any number of channels and ports and with a  *)
(* control connection that may be lost at any time: as long as the client  *)
(* has not left a transfer without its completion, it takes each reply for *)
(* the reply to its command, looks for the data connection where the       *)
(* server has it, and keeps the dialogue that Transfer is promised.        *)
(***************************************************************************)
EXTENDS FtpClient, TLAPS

\* What is there to be named: the channel of a mode, and that of a transfer.
Named ==
  /\ server.conn_type # "NOT_SPECIFIED" => server.chan \in Chan
  /\ client.at = "move" => client.data \in Chan

\* The replies a command can have.
Answers(cmd) ==
  CASE cmd = "NONE" -> {"greeting"} [] cmd = "CTRL" -> {"done"} [] cmd = "QUIT" -> {"221"}
    [] cmd = "PASV" -> {"227", "refused"} [] cmd = "PORT" -> {"200", "refused"}
    [] cmd \in DataCmd -> {"150", "refused"}

IsFinal(r) == r.code = "226" /\ r.turn = client.turn

\* The server owes the completion of the transfer the client is in.
Owes == server.owes /\ server.turn = client.turn

\* Nothing is on its way to the client or from it.
Quiet == replies = <<>> /\ (server.closed \/ (requests = <<>> /\ ~server.owes))

\* The command has not been handled.
Asked ==
  /\ replies = <<>>
  /\ server.closed \/
       (/\ Len(requests) = 1 /\ ~server.owes
        /\ requests[1].cmd = client.cmd /\ requests[1].turn = client.turn
        /\ client.cmd = "PORT" => requests[1].addr = client.sockDataPort)

\* Its reply is on its way, with 150 perhaps the completion, too.
Answered1 ==
  /\ Len(replies) \in {1, 2} /\ (server.closed \/ requests = <<>>)
  /\ replies[1].code \in Answers(client.cmd) /\ replies[1].turn = client.turn
  /\ client.cmd = "QUIT" => server.closed
  /\ replies[1].code # "150" => Len(replies) = 1 /\ (server.closed \/ ~server.owes)
  /\ replies[1].code = "150" =>
       \/ Len(replies) = 1 /\ (server.closed \/ Owes)
       \/ Len(replies) = 2 /\ IsFinal(replies[2]) /\ (server.closed \/ ~server.owes)

\* The completion is due, or on its way.
Completes ==
  /\ server.closed \/ requests = <<>>
  /\ \/ replies = <<>> /\ (server.closed \/ Owes)
     \/ Len(replies) = 1 /\ IsFinal(replies[1]) /\ (server.closed \/ ~server.owes)

Talk ==
  /\ client.at = "start" => Quiet /\ ~server.closed /\ server.heard = "none"
  /\ client.at \in {"prompt", "ended"} => Quiet
  /\ client.at = "reply" => Asked \/ Answered1
  /\ client.at \in {"open", "move", "final"} => Completes

\* The thread waits for the reply to PASV or PORT.
Changes(cmd) == client.at = "reply" /\ client.cmd = cmd

\* 150 is there, and the client has not gone for the data connection yet.
Promised == \/ client.at = "open"
            \/ client.at = "reply" /\ replies # <<>> /\ replies[1].code = "150"

\* Between transfers conn_type is what the client takes it for, and the channel
\* is there for the next one.
Mode ==
  ~server.closed /\ ~server.owes /\ client.at # "ended" =>
    /\ server.conn_type = "PASV" =>
         /\ channel[server.chan].open /\ channel[server.chan].kind = "PASV"
         /\ channel[server.chan].conn = "none"
         /\ IF Changes("PASV") /\ replies # <<>>
            THEN replies[1].code = "227" /\ replies[1].port = server.chan
            ELSE ~(Changes("PORT") /\ replies # <<>>) /\ client.transMode = "PASV"
                 /\ client.pasvDataPort = server.chan
    /\ server.conn_type = "PORT" /\ ~(Changes("PORT") /\ replies = <<>>) =>
         /\ channel[server.chan].open /\ channel[server.chan].kind = "PORT"
         /\ channel[server.chan].conn = "queued" /\ channel[server.chan].to = client.sockDataPort
         /\ IF Changes("PORT") THEN replies[1].code = "200"
            ELSE ~(Changes("PASV") /\ replies # <<>>) /\ client.transMode = "PORT"
    /\ Promised \/ client.at \in {"move", "final"} \/ (Changes("NONE") /\ replies # <<>>) =>
         server.conn_type = "NOT_SPECIFIED"
    /\ Changes("PASV") /\ replies # <<>> /\ server.conn_type = "NOT_SPECIFIED" =>
         replies[1].code = "refused"
    /\ Changes("PORT") /\ replies # <<>> /\ server.conn_type = "NOT_SPECIFIED" =>
         replies[1].code = "refused"

\* Only the channel of the transfer has a job.
OneJob ==
  ~server.closed => \A c \in Chan : channel[c].open /\ channel[c].job # "NONE" =>
                                      server.owes /\ c = server.chan

\* Where the client goes for the data connection the server has it.
Place ==
  Promised =>
    /\ server.chan \in Chan /\ client.transMode = channel[server.chan].kind
    /\ client.transMode = "PASV" =>
         /\ client.pasvDataPort = server.chan /\ channel[server.chan].open
         /\ channel[server.chan].conn = "none"
    /\ client.transMode = "PORT" =>
         channel[server.chan].to = client.sockDataPort /\ channel[server.chan].conn = "queued"

Step == ~skipped => Talk /\ Mode /\ OneJob /\ Place

Inv == TypeOK /\ Named /\ Step

----------------------------------------------------------------------------
(* Channels and sequences. *)

\* What freeing a channel leaves of it.
LEMMA FreedParts ==
  ASSUME NEW ch \in Channel
  PROVE  /\ NoChannel \in Channel /\ Freed(ch) \in Channel
         /\ Freed(ch) = NoChannel \/ Freed(ch) = ch
         /\ ch.open => Freed(ch) = ch
         /\ ch.conn = "queued" => Freed(ch) = ch
  BY ClientAssumption DEF Channel, NoChannel, Freed

\* The client closes its end: the server's end stays as it is.
LEMMA LeftParts ==
  ASSUME NEW ch \in Channel
  PROVE  /\ Left(ch) \in Channel
         /\ Left(ch).open = ch.open
         /\ ch.open => Left(ch) = [ch EXCEPT !.conn = "over"]
  <1> DEFINE cut == [ch EXCEPT !.conn = "over"]
  <1>1. cut \in Channel /\ cut.open = ch.open
    BY DEF Channel
  <1>2. Left(ch) = Freed(cut)
    BY DEF Left
  <1> HIDE DEF cut
  <1>3. Freed(cut) \in Channel /\ (cut.open => Freed(cut) = cut)
        /\ (Freed(cut) = NoChannel \/ Freed(cut) = cut)
    BY <1>1, FreedParts
  <1>4. cut.open \in BOOLEAN /\ NoChannel.open = FALSE
    BY <1>1 DEF Channel, NoChannel
  <1>5. CASE Freed(cut) = cut
    BY <1>1, <1>2, <1>3, <1>5 DEF cut
  <1>6. CASE Freed(cut) = NoChannel /\ Freed(cut) # cut
    <2>1. cut.open = FALSE
      BY <1>3, <1>4, <1>6
    <2> QED
      BY <1>1, <1>2, <1>3, <1>4, <1>6, <2>1
  <1> QED
    BY <1>3, <1>5, <1>6

\* The server closes its end: a connection in the client's queue stays there.
LEMMA ClosedParts ==
  ASSUME NEW ch \in Channel
  PROVE  /\ Closed(ch) \in Channel /\ ~Closed(ch).open
         /\ ch.conn = "queued" => Closed(ch).conn = "queued" /\ Closed(ch).to = ch.to
                                  /\ Closed(ch).kind = ch.kind
  <1> DEFINE cut == [ch EXCEPT !.open = FALSE, !.job = "NONE"]
  <1>1. /\ cut \in Channel /\ ~cut.open /\ cut.conn = ch.conn /\ cut.to = ch.to
        /\ cut.kind = ch.kind
    BY DEF Channel
  <1>2. Closed(ch) = Freed(cut)
    BY DEF Closed
  <1> HIDE DEF cut
  <1>3. Freed(cut) \in Channel /\ (cut.conn = "queued" => Freed(cut) = cut)
        /\ (Freed(cut) = NoChannel \/ Freed(cut) = cut)
    BY <1>1, FreedParts
  <1>4. ~NoChannel.open
    BY DEF NoChannel
  <1> QED
    BY <1>1, <1>2, <1>3, <1>4

\* A message is added at the end of what is on its way.
LEMMA Sent ==
  ASSUME NEW T, NEW s \in Seq(T), NEW e \in T
  PROVE  /\ Append(s, e) \in Seq(T) /\ Len(Append(s, e)) = Len(s) + 1
         /\ Append(s, e)[Len(s) + 1] = e /\ Append(s, e) # <<>>
         /\ \A i \in 1..Len(s) : Append(s, e)[i] = s[i]
  OBVIOUS

\* The first message is taken.
LEMMA Taken ==
  ASSUME NEW T, NEW s \in Seq(T), s # <<>>
  PROVE  /\ Tail(s) \in Seq(T) /\ Len(Tail(s)) = Len(s) - 1 /\ Head(s) = s[1] /\ s[1] \in T
         /\ Len(s) >= 1
         /\ Len(s) = 1 => Tail(s) = <<>>
         /\ Len(s) = 2 => Tail(s)[1] = s[2]
  OBVIOUS

LEMMA NoMessage ==
  ASSUME NEW T, NEW s \in Seq(T)
  PROVE  /\ Len(s) \in Nat
         /\ Len(s) = 0 <=> s = <<>>
  OBVIOUS

----------------------------------------------------------------------------
(* Types. *)

\* Closing a listening socket.
LEMMA UnlistenParts ==
  ASSUME TypeOK, NEW l
  PROVE  /\ Unlisten(l) \in [Chan -> Channel]
         /\ \A c \in Chan :
              /\ channel[c] \in Channel /\ Unlisten(l)[c].open = channel[c].open
              /\ ~(channel[c].conn = "queued" /\ channel[c].to = l) =>
                   Unlisten(l)[c] = channel[c]
              /\ channel[c].open => Unlisten(l)[c].job = channel[c].job
  <1>1. \A c \in Chan : channel[c] \in Channel
    BY DEF TypeOK
  <1>2. \A c \in Chan :
          /\ Unlisten(l)[c] \in Channel /\ Unlisten(l)[c].open = channel[c].open
          /\ channel[c].open => Unlisten(l)[c].job = channel[c].job
    <2>1. TAKE c \in Chan
    <2>2. CASE channel[c].conn = "queued" /\ channel[c].to = l
      <3>1. Unlisten(l)[c] = Left(channel[c])
        BY <2>2 DEF Unlisten
      <3>2. [channel[c] EXCEPT !.conn = "over"].job = channel[c].job
        BY <1>1 DEF Channel
      <3> QED
        BY <1>1, <3>1, <3>2, LeftParts
    <2>3. CASE ~(channel[c].conn = "queued" /\ channel[c].to = l)
      BY <1>1, <2>3 DEF Unlisten
    <2> QED
      BY <2>2, <2>3
  <1>3. Unlisten(l) = [c \in Chan |-> Unlisten(l)[c]]
    BY DEF Unlisten
  <1>4. \A c \in Chan : ~(channel[c].conn = "queued" /\ channel[c].to = l) =>
                          Unlisten(l)[c] = channel[c]
    BY DEF Unlisten
  <1> QED
    BY <1>1, <1>2, <1>3, <1>4

\* A command is sent by a client in any state.
LEMMA AskTypes ==
  ASSUME TypeOK, NEW cmd \in Cmd \cup {"NONE"}, NEW addr \in Lsock \cup {None},
         NEW state \in ClientState, Ask(cmd, addr, state)
  PROVE  client' \in ClientState /\ requests' \in Seq(Request)
  <1> DEFINE e == [cmd |-> cmd, addr |-> addr, turn |-> ~state.turn]
  <1>1. e \in Request
    BY DEF Request, ClientState
  <1>2. requests \in Seq(Request) /\ requests' = Append(requests, e)
    BY DEF TypeOK, Ask
  <1> HIDE DEF e
  <1>3. requests' \in Seq(Request)
    BY <1>1, <1>2, Sent
  <1>4. client' = [state EXCEPT !.at = "reply", !.cmd = cmd, !.turn = ~@]
    BY DEF Ask
  <1>5. client' \in ClientState
    BY <1>4 DEF ClientState
  <1> QED
    BY <1>3, <1>5

LEMMA PromptTypes ==
  ASSUME NEW state \in ClientState
  PROVE  /\ AtPrompt(state) \in ClientState
         /\ AtPrompt(state).at = "prompt" /\ AtPrompt(state).cmd = "NONE"
         /\ AtPrompt(state).transMode = state.transMode
         /\ AtPrompt(state).sockDataPort = state.sockDataPort
         /\ AtPrompt(state).pasvDataPort = state.pasvDataPort
         /\ AtPrompt(state).turn = state.turn
  BY DEF ClientState, AtPrompt

\* What a client with client's cmd, turn and addresses becomes: at the prompt
\* again, or on its way into a transfer.
Keeps(state) ==
  /\ state.transMode = client.transMode /\ state.sockDataPort = client.sockDataPort
  /\ state.pasvDataPort = client.pasvDataPort

\* What each command makes of its reply.
LEMMA HeardParts ==
  ASSUME TypeOK, NEW r \in Reply
  PROVE  /\ Heard(r) \in ClientState /\ Heard(r).turn = client.turn
         /\ client.cmd = "NONE" =>
              /\ Heard(r).at = "prompt" /\ Heard(r).transMode = "PASV"
              /\ Heard(r).sockDataPort = client.sockDataPort
              /\ Heard(r).pasvDataPort = client.pasvDataPort
         /\ client.cmd = "CTRL" => Heard(r).at = "prompt" /\ Keeps(Heard(r))
         /\ client.cmd = "QUIT" => Heard(r).at = "ended"
         /\ client.cmd = "PASV" /\ r.code = "227" =>
              /\ Heard(r).at = "prompt" /\ Heard(r).transMode = "PASV"
              /\ Heard(r).sockDataPort = client.sockDataPort /\ Heard(r).pasvDataPort = r.port
         /\ client.cmd = "PASV" /\ r.code # "227" => Heard(r).at = "prompt" /\ Keeps(Heard(r))
         /\ client.cmd = "PORT" /\ r.code = "200" =>
              /\ Heard(r).at = "prompt" /\ Heard(r).transMode = "PORT"
              /\ Heard(r).sockDataPort = client.sockDataPort
              /\ Heard(r).pasvDataPort = client.pasvDataPort
         /\ client.cmd = "PORT" /\ r.code # "200" =>
              /\ Heard(r).at = "prompt" /\ Heard(r).transMode = client.transMode
              /\ Heard(r).pasvDataPort = client.pasvDataPort
         /\ client.cmd \in DataCmd /\ r.code = "150" =>
              Heard(r).at = "open" /\ Heard(r).cmd = client.cmd /\ Keeps(Heard(r))
         /\ client.cmd \in DataCmd /\ r.code # "150" => Heard(r).at = "prompt" /\ Keeps(Heard(r))
  <1> DEFINE p == AtPrompt(client)
             pasv == [p EXCEPT !.transMode = "PASV"]
             dial == [p EXCEPT !.transMode = "PASV", !.pasvDataPort = r.port]
             port == [p EXCEPT !.transMode = "PORT"]
             lost == [p EXCEPT !.sockDataPort = None]
             over == [client EXCEPT !.at = "ended", !.sockDataPort = None]
             open == [client EXCEPT !.at = "open"]
  <1>1. client \in ClientState /\ client.cmd \in Cmd \cup {"NONE"} /\ r.port \in Chan \cup {None}
    BY DEF TypeOK, ClientState, Reply
  <1>2. p \in ClientState /\ p.at = "prompt" /\ Keeps(p) /\ p.turn = client.turn
    BY <1>1, PromptTypes DEF Keeps
  <1>3. /\ pasv \in ClientState /\ dial \in ClientState /\ port \in ClientState
        /\ lost \in ClientState
        /\ pasv.at = p.at /\ dial.at = p.at /\ port.at = p.at /\ lost.at = p.at
        /\ pasv.turn = p.turn /\ dial.turn = p.turn /\ port.turn = p.turn /\ lost.turn = p.turn
        /\ pasv.transMode = "PASV" /\ dial.transMode = "PASV" /\ port.transMode = "PORT"
        /\ lost.transMode = p.transMode
        /\ pasv.sockDataPort = p.sockDataPort /\ dial.sockDataPort = p.sockDataPort
        /\ port.sockDataPort = p.sockDataPort
        /\ pasv.pasvDataPort = p.pasvDataPort /\ dial.pasvDataPort = r.port
        /\ port.pasvDataPort = p.pasvDataPort /\ lost.pasvDataPort = p.pasvDataPort
    <2> HIDE DEF p
    <2> QED
      BY <1>1, <1>2 DEF ClientState
  <1>4. /\ over \in ClientState /\ over.at = "ended" /\ over.turn = client.turn
        /\ open \in ClientState /\ open.at = "open" /\ open.turn = client.turn
        /\ open.cmd = client.cmd /\ Keeps(open)
    BY <1>1 DEF ClientState, Keeps
  <1>5. Heard(r) =
          CASE client.cmd = "NONE" -> pasv
            [] client.cmd = "CTRL" -> p
            [] client.cmd = "QUIT" -> over
            [] client.cmd = "PASV" -> IF r.code = "227" THEN dial ELSE p
            [] client.cmd = "PORT" -> IF r.code = "200" THEN port ELSE lost
            [] client.cmd \in DataCmd -> IF r.code = "150" THEN open ELSE p
    BY DEF Heard
  <1>6. \/ client.cmd = "NONE" \/ client.cmd = "CTRL" \/ client.cmd = "QUIT"
        \/ client.cmd = "PASV" \/ client.cmd = "PORT" \/ client.cmd \in DataCmd
    BY <1>1 DEF Cmd
  <1>7. "NONE" \notin DataCmd /\ "CTRL" \notin DataCmd /\ "QUIT" \notin DataCmd
        /\ "PASV" \notin DataCmd /\ "PORT" \notin DataCmd
    BY DEF DataCmd
  <1> HIDE DEF p, pasv, dial, port, lost, over, open
  <1>8. CASE client.cmd = "NONE"
    BY <1>2, <1>3, <1>5, <1>7, <1>8 DEF Keeps
  <1>9. CASE client.cmd = "CTRL"
    BY <1>2, <1>5, <1>7, <1>9 DEF Keeps
  <1>10. CASE client.cmd = "QUIT"
    BY <1>4, <1>5, <1>7, <1>10
  <1>11. CASE client.cmd = "PASV"
    BY <1>2, <1>3, <1>5, <1>7, <1>11 DEF Keeps
  <1>12. CASE client.cmd = "PORT"
    BY <1>2, <1>3, <1>5, <1>7, <1>12 DEF Keeps
  <1>13. CASE client.cmd \in DataCmd
    BY <1>2, <1>4, <1>5, <1>7, <1>13 DEF Keeps
  <1> QED
    BY <1>6, <1>8, <1>9, <1>10, <1>11, <1>12, <1>13

\* The request that a handler takes and the reply that it sends.
LEMMA HandleTypes ==
  ASSUME TypeOK, NEW cmd, Handle(cmd)
  PROVE  /\ requests # <<>> /\ Head(requests) \in Request /\ Head(requests).cmd = cmd
         /\ requests' \in Seq(Request) /\ ~server.closed
  <1>1. requests \in Seq(Request) /\ requests # <<>> /\ requests' = Tail(requests)
    BY DEF TypeOK, Handle
  <1> QED
    BY <1>1, Taken DEF Handle

LEMMA SayTypes ==
  ASSUME TypeOK, Head(requests) \in Request, NEW code \in Code, NEW port \in Chan \cup {None},
         Say(code, port)
  PROVE  replies' \in Seq(Reply)
  <1> DEFINE e == [code |-> code, port |-> port, turn |-> Head(requests).turn]
  <1>1. e \in Reply
    BY DEF Reply, Request
  <1>2. replies \in Seq(Reply) /\ replies' = Append(replies, e)
    BY DEF TypeOK, Say
  <1> HIDE DEF e
  <1> QED
    BY <1>1, <1>2, Sent

\* The steps of the client and the user.
LEMMA ClientKeepsTypes ==
  ASSUME TypeOK, Named, ClientStep \/ UserStep
  PROVE  TypeOK' /\ Named'
  <1> USE DEF TypeOK, Named
  <1>0. client \in ClientState /\ server \in ServerState /\ channel \in [Chan -> Channel]
        /\ replies \in Seq(Reply)
    OBVIOUS
  <1>1. CASE ConnectToServer
    <2>1. client' \in ClientState /\ requests' \in Seq(Request)
      BY <1>0, <1>1, AskTypes DEF ConnectToServer
    <2>2. client'.at = "reply"
      BY <1>0, <1>1 DEF ConnectToServer, Ask, ClientState
    <2> QED
      BY <1>1, <2>1, <2>2 DEF ConnectToServer
  <1>2. ASSUME NEW cmd \in Cmd, RouteCommand(cmd)
        PROVE  TypeOK' /\ Named'
    <2>1. client' \in ClientState /\ requests' \in Seq(Request)
      BY <1>0, <1>2, AskTypes DEF RouteCommand
    <2>2. client'.at = "reply"
      BY <1>0, <1>2 DEF RouteCommand, Ask, ClientState
    <2> QED
      BY <1>2, <2>1, <2>2 DEF RouteCommand
  <1>3. CASE EnterPortMode
    <2>1. PICK l \in Lsock \ {client.sockDataPort} :
            Ask("PORT", l, [client EXCEPT !.sockDataPort = l])
      BY <1>3 DEF EnterPortMode
    <2>2. [client EXCEPT !.sockDataPort = l] \in ClientState
      BY <1>0, <2>1 DEF ClientState
    <2>3. "PORT" \in Cmd \cup {"NONE"}
      BY DEF Cmd
    <2>4. client' \in ClientState /\ requests' \in Seq(Request)
      BY <2>1, <2>2, <2>3, AskTypes
    <2>5. client'.at = "reply"
      BY <2>1, <2>2, <1>0 DEF Ask, ClientState
    <2>6. channel' \in [Chan -> Channel]
      BY <1>3, UnlistenParts DEF EnterPortMode
    <2> QED
      BY <1>3, <2>4, <2>5, <2>6 DEF EnterPortMode
  <1>4. CASE EndOfInput
    <2>1. client' \in ClientState /\ client'.at = "ended"
      BY <1>0, <1>4 DEF EndOfInput, ClientState
    <2>2. channel' \in [Chan -> Channel]
      BY <1>4, UnlistenParts DEF EndOfInput
    <2> QED
      BY <1>4, <2>1, <2>2 DEF EndOfInput
  <1>5. CASE RxReply
    <2>1. Head(replies) \in Reply /\ replies' \in Seq(Reply)
      BY <1>0, <1>5, Taken DEF RxReply
    <2>2. client' = Heard(Head(replies)) /\ client' \in ClientState
      BY <1>5, <2>1, HeardParts DEF RxReply
    <2>3. channel' \in [Chan -> Channel]
      BY <1>0, <1>5, UnlistenParts DEF RxReply
    <2>4. client'.at # "move"
      <3>1. client.cmd \in Cmd \cup {"NONE"}
        BY <1>0 DEF ClientState
      <3> QED
        BY <2>1, <2>2, <3>1, HeardParts DEF Cmd
    <2> QED
      BY <1>5, <2>1, <2>2, <2>3, <2>4 DEF RxReply
  <1>6. CASE RxFinal
    <2>1. replies' \in Seq(Reply)
      BY <1>0, <1>6, Taken DEF RxFinal
    <2>2. client' \in ClientState /\ client'.at = "prompt"
      BY <1>0, <1>6, PromptTypes DEF RxFinal
    <2> QED
      BY <1>6, <2>1, <2>2 DEF RxFinal
  <1>7. CASE RxNothing
    <2>1. channel' \in [Chan -> Channel]
      BY <1>0, <1>7, UnlistenParts DEF RxNothing
    <2>2. client' \in ClientState /\ client'.at # "move"
      <3>1. AtPrompt(client) \in ClientState /\ AtPrompt(client).at = "prompt"
        BY <1>0, PromptTypes
      <3>2. /\ [client EXCEPT !.at = "ended"] \in ClientState
            /\ [client EXCEPT !.at = "ended"].at = "ended"
        BY <1>0 DEF ClientState
      <3> DEFINE q == AtPrompt(client)
      <3>3. q = AtPrompt(client)
        OBVIOUS
      <3> HIDE DEF q
      <3>4. [q EXCEPT !.sockDataPort = None] \in ClientState
            /\ [q EXCEPT !.sockDataPort = None].at = "prompt"
        BY <3>1, <3>3 DEF ClientState
      <3> QED
        BY <1>7, <3>1, <3>2, <3>3, <3>4 DEF RxNothing
    <2> QED
      BY <1>7, <2>1, <2>2 DEF RxNothing
  <1>8. CASE DataChannelInit
    <2>1. PICK c \in Reachable : /\ client' = [client EXCEPT !.at = "move", !.data = c]
                                 /\ channel' = [channel EXCEPT ![c].conn = "up"]
      BY <1>8 DEF DataChannelInit
    <2>2. c \in Chan
      BY DEF Reachable
    <2>3. client' \in ClientState /\ client'.data = c
      BY <1>0, <2>1, <2>2 DEF ClientState
    <2>4. channel' \in [Chan -> Channel]
      BY <1>0, <2>1, <2>2 DEF Channel
    <2> QED
      BY <1>8, <2>2, <2>3, <2>4 DEF DataChannelInit
  <1>9. CASE DataChannelInitFails
    <2>1. client' \in ClientState /\ client'.at = "prompt"
      BY <1>0, <1>9, PromptTypes DEF DataChannelInitFails
    <2> QED
      BY <1>9, <2>1 DEF DataChannelInitFails
  <1>10. CASE Moved \/ GiveUp
    <2>1. client.data \in Chan /\ channel' = Hangup
      BY <1>10 DEF Moved, GiveUp
    <2>2. channel' = [channel EXCEPT ![client.data] = Left(channel[client.data])]
      BY <1>0, <2>1 DEF Hangup
    <2>3. Left(channel[client.data]) \in Channel
      BY <1>0, <2>1, LeftParts
    <2>4. channel' \in [Chan -> Channel]
      BY <1>0, <2>1, <2>2, <2>3
    <2>5. client' \in ClientState /\ client'.at # "move"
      <3>1. AtPrompt(client) \in ClientState /\ AtPrompt(client).at = "prompt"
        BY <1>0, PromptTypes
      <3>2. /\ [client EXCEPT !.at = "final", !.data = None] \in ClientState
            /\ [client EXCEPT !.at = "final", !.data = None].at = "final"
        BY <1>0 DEF ClientState
      <3> QED
        BY <1>10, <3>1, <3>2 DEF Moved, GiveUp
    <2>6. UNCHANGED <<requests, replies, server>> /\ skipped' \in BOOLEAN
      BY <1>10 DEF Moved, GiveUp
    <2> QED
      BY <2>4, <2>5, <2>6
  <1> QED
    BY <1>1, <1>2, <1>3, <1>4, <1>5, <1>6, <1>7, <1>8, <1>9, <1>10 DEF ClientStep, UserStep

\* What FTP_PASV and FTP_PORT make of a free channel.
LEMMA PasvTakes ==
  ASSUME TypeOK, FTP_PASV
  PROVE  \E c \in Chan :
           /\ Say("227", c) /\ Answered("PASV", c) /\ channel' \in [Chan -> Channel]
           /\ channel[c] = NoChannel
           /\ channel'[c].kind = "PASV" /\ channel'[c].open /\ channel'[c].conn = "none"
           /\ channel'[c].job = "NONE"
           /\ \A d \in Chan \ {c} : channel'[d] = channel[d]
  <1>1. PICK c \in Free :
          /\ channel' = [channel EXCEPT ![c] = [NoChannel EXCEPT !.kind = "PASV", !.open = TRUE]]
          /\ Say("227", c) /\ Answered("PASV", c)
    BY DEF FTP_PASV
  <1> DEFINE ch == [NoChannel EXCEPT !.kind = "PASV", !.open = TRUE]
  <1>2. ch \in Channel /\ ch.kind = "PASV" /\ ch.open /\ ch.conn = "none" /\ ch.job = "NONE"
    BY DEF NoChannel, Channel
  <1>3. c \in Chan /\ channel[c] = NoChannel /\ channel' = [channel EXCEPT ![c] = ch]
    BY <1>1 DEF Free
  <1> HIDE DEF ch
  <1>4. channel \in [Chan -> Channel]
    BY DEF TypeOK
  <1>5. channel' \in [Chan -> Channel] /\ channel'[c] = ch
        /\ \A d \in Chan \ {c} : channel'[d] = channel[d]
    BY <1>2, <1>3, <1>4
  <1> QED
    BY <1>1, <1>2, <1>3, <1>5

LEMMA PortTakes ==
  ASSUME TypeOK, FTP_PORT
  PROVE  \E c \in Chan :
           /\ Say("200", None) /\ Answered("PORT", c) /\ channel' \in [Chan -> Channel]
           /\ channel[c] = NoChannel
           /\ channel'[c].kind = "PORT" /\ channel'[c].open
           /\ channel'[c].to = Head(requests).addr /\ channel'[c].job = "NONE"
           /\ client.sockDataPort = Head(requests).addr => channel'[c].conn = "queued"
           /\ \A d \in Chan \ {c} : channel'[d] = channel[d]
  <1> DEFINE conn == IF client.sockDataPort = Head(requests).addr THEN "queued" ELSE "over"
             ch == [NoChannel EXCEPT !.kind = "PORT", !.open = TRUE, !.to = Head(requests).addr,
                                     !.conn = conn]
  <1>1. PICK c \in Free : /\ channel' = [channel EXCEPT ![c] = ch]
                          /\ Say("200", None) /\ Answered("PORT", c)
    BY DEF FTP_PORT
  <1>2. Head(requests).addr \in Lsock \cup {None}
    BY HandleTypes DEF FTP_PORT, Request
  <1>3. /\ conn \in {"queued", "over"}
        /\ (client.sockDataPort = Head(requests).addr => conn = "queued")
    OBVIOUS
  <1> HIDE DEF conn
  <1>4. /\ ch \in Channel /\ ch.kind = "PORT" /\ ch.open /\ ch.to = Head(requests).addr
        /\ ch.conn = conn /\ ch.job = "NONE"
    BY <1>2, <1>3 DEF NoChannel, Channel
  <1> HIDE DEF ch
  <1>5. c \in Chan /\ channel[c] = NoChannel
    BY <1>1 DEF Free
  <1>6. channel \in [Chan -> Channel]
    BY DEF TypeOK
  <1>7. channel' \in [Chan -> Channel] /\ channel'[c] = ch
        /\ \A d \in Chan \ {c} : channel'[d] = channel[d]
    BY <1>1, <1>4, <1>5, <1>6
  <1> QED
    BY <1>1, <1>3, <1>4, <1>5, <1>7

\* A channel is closed, the others stay.
LEMMA CloseTypes ==
  ASSUME TypeOK, NEW c \in Chan, channel' = [channel EXCEPT ![c] = Closed(@)]
  PROVE  /\ channel' \in [Chan -> Channel] /\ channel[c] \in Channel
         /\ channel'[c] = Closed(channel[c]) /\ ~channel'[c].open
         /\ \A d \in Chan \ {c} : channel'[d] = channel[d]
  <1>1. channel \in [Chan -> Channel] /\ channel[c] \in Channel
    BY DEF TypeOK
  <1>2. channel' = [channel EXCEPT ![c] = Closed(channel[c])]
    BY <1>1
  <1>3. Closed(channel[c]) \in Channel /\ ~Closed(channel[c]).open
    BY <1>1, ClosedParts
  <1> QED
    BY <1>1, <1>2, <1>3

\* The job of a transfer is given to the channel, if it is there.
LEMMA DataTypes ==
  ASSUME TypeOK, Named, NEW cmd \in DataCmd, FTP_DATA(cmd)
  PROVE  /\ server.chan \in Chan /\ channel' \in [Chan -> Channel]
         /\ channel[server.chan] \in Channel
         /\ channel'[server.chan].kind = channel[server.chan].kind
         /\ channel'[server.chan].open = channel[server.chan].open
         /\ channel'[server.chan].conn = channel[server.chan].conn
         /\ channel'[server.chan].to = channel[server.chan].to
         /\ \A d \in Chan \ {server.chan} : channel'[d] = channel[d]
  <1>1. server.chan \in Chan
    BY DEF Named, FTP_DATA
  <1>2. channel \in [Chan -> Channel] /\ channel[server.chan] \in Channel
    BY <1>1 DEF TypeOK
  <1> DEFINE ch == [channel[server.chan] EXCEPT !.job = cmd]
  <1>3. /\ ch \in Channel /\ ch.kind = channel[server.chan].kind
        /\ ch.open = channel[server.chan].open /\ ch.conn = channel[server.chan].conn
        /\ ch.to = channel[server.chan].to
    <2>1. channel[server.chan] \in Channel
      BY <1>2
    <2> QED
      BY <2>1 DEF Channel
  <1>4. channel' = [channel EXCEPT ![server.chan] = ch] \/ channel' = channel
    BY <1>1, <1>2 DEF FTP_DATA
  <1> HIDE DEF ch
  <1> QED
    BY <1>1, <1>2, <1>3, <1>4

\* The handlers, and the rest of the server.
LEMMA ServerKeepsTypes ==
  ASSUME TypeOK, Named, Handler \/ (\E c \in Chan : Complete(c) \/ Abandon(c)) \/ Close
  PROVE  TypeOK' /\ Named'
  <1>0. server \in ServerState /\ channel \in [Chan -> Channel] /\ client \in ClientState
        /\ replies \in Seq(Reply) /\ requests \in Seq(Request) /\ skipped \in BOOLEAN
    BY DEF TypeOK
  <1>1. ASSUME NEW cmd, Handle(cmd), NEW code \in Code, NEW port \in Chan \cup {None},
               Say(code, port)
        PROVE  /\ client' \in ClientState /\ requests' \in Seq(Request)
               /\ replies' \in Seq(Reply) /\ skipped' \in BOOLEAN
               /\ (client'.at = "move" => client'.data \in Chan)
               /\ ~server.closed
    BY <1>0, <1>1, HandleTypes, SayTypes DEF Handle, Named
  <1>2. ASSUME NEW mode \in {"NOT_SPECIFIED", "PASV", "PORT"}, NEW chan \in Chan \cup {None},
               Answered(mode, chan), mode # "NOT_SPECIFIED" => chan \in Chan
        PROVE  /\ server' \in ServerState
               /\ (server'.conn_type # "NOT_SPECIFIED" => server'.chan \in Chan)
    BY <1>0, <1>2 DEF ServerState, Answered
  <1>3. CASE Greet
    <2>1. server' \in ServerState /\ (server'.conn_type # "NOT_SPECIFIED" => server'.chan \in Chan)
      BY <1>2, <1>3 DEF Greet
    <2> QED
      BY <1>0, <1>1, <1>3, <2>1 DEF Greet, TypeOK, Named, Code
  <1>4. CASE FTP_CTRL
    <2>1. server' \in ServerState /\ (server'.conn_type # "NOT_SPECIFIED" => server'.chan \in Chan)
      BY <1>0, <1>2, <1>4 DEF FTP_CTRL, ServerState, Named
    <2> QED
      BY <1>0, <1>1, <1>4, <2>1 DEF FTP_CTRL, TypeOK, Named, Code
  <1>5. CASE FTP_PASV
    <2>1. PICK c \in Chan :
            Say("227", c) /\ Answered("PASV", c) /\ channel' \in [Chan -> Channel]
      BY <1>5, PasvTakes
    <2>2. server' \in ServerState /\ (server'.conn_type # "NOT_SPECIFIED" => server'.chan \in Chan)
      BY <1>2, <2>1
    <2> QED
      BY <1>1, <1>5, <2>1, <2>2 DEF FTP_PASV, TypeOK, Named, Code
  <1>6. CASE FTP_PORT
    <2>1. PICK c \in Chan :
            Say("200", None) /\ Answered("PORT", c) /\ channel' \in [Chan -> Channel]
      BY <1>6, PortTakes
    <2>2. server' \in ServerState /\ (server'.conn_type # "NOT_SPECIFIED" => server'.chan \in Chan)
      BY <1>2, <2>1
    <2> QED
      BY <1>1, <1>6, <2>1, <2>2 DEF FTP_PORT, TypeOK, Named, Code
  <1>7. CASE NoChannelLeft
    <2>1. server' \in ServerState /\ (server'.conn_type # "NOT_SPECIFIED" => server'.chan \in Chan)
      BY <1>0, <1>2, <1>7 DEF NoChannelLeft, ServerState
    <2> QED
      BY <1>0, <1>1, <1>7, <2>1 DEF NoChannelLeft, TypeOK, Named, Code
  <1>8. CASE Refuse
    <2>1. server' \in ServerState /\ (server'.conn_type # "NOT_SPECIFIED" => server'.chan \in Chan)
      BY <1>0, <1>2, <1>8 DEF Refuse, ServerState, Named
    <2> QED
      BY <1>0, <1>1, <1>8, <2>1 DEF Refuse, TypeOK, Named, Code
  <1>9. ASSUME NEW cmd \in DataCmd, FTP_DATA(cmd)
        PROVE  TypeOK' /\ Named'
    <2>1. channel' \in [Chan -> Channel]
      BY <1>9, DataTypes
    <2>2. Head(requests).turn \in BOOLEAN
      BY <1>9, HandleTypes DEF FTP_DATA, Request
    <2>3. server' \in ServerState /\ (server'.conn_type # "NOT_SPECIFIED" => server'.chan \in Chan)
      BY <1>0, <1>9, <2>2 DEF FTP_DATA, ServerState, Named
    <2> QED
      BY <1>1, <1>9, <2>1, <2>3 DEF FTP_DATA, TypeOK, Named, Code
  <1>10. CASE FTP_QUIT
    <2>1. server' \in ServerState /\ (server'.conn_type # "NOT_SPECIFIED" => server'.chan \in Chan)
      BY <1>0, <1>10 DEF FTP_QUIT, ServerState, Named
    <2>2. channel' \in [Chan -> Channel]
      BY <1>0, <1>10, CloseTypes DEF FTP_QUIT, Named
    <2> QED
      BY <1>1, <1>10, <2>1, <2>2 DEF FTP_QUIT, TypeOK, Named, Code
  <1>11. ASSUME NEW c \in Chan, Complete(c)
         PROVE  TypeOK' /\ Named'
    <2>1. channel' \in [Chan -> Channel]
      BY <1>11, CloseTypes DEF Complete
    <2>2. /\ server' \in ServerState /\ replies' \in Seq(Reply)
          /\ (server'.conn_type # "NOT_SPECIFIED" => server'.chan \in Chan)
      <3>1. CASE server.closed
        BY <1>0, <1>11, <3>1 DEF Complete, Named
      <3>2. CASE ~server.closed
        <4> DEFINE e == [code |-> "226", port |-> None, turn |-> server.turn]
        <4>1. e \in Reply
          BY <1>0 DEF Reply, Code, ServerState
        <4>2. replies' = Append(replies, e)
          BY <1>11, <3>2 DEF Complete
        <4> HIDE DEF e
        <4>3. replies' \in Seq(Reply)
          BY <1>0, <4>1, <4>2, Sent
        <4>4. server' \in ServerState /\ server'.conn_type = "NOT_SPECIFIED"
          BY <1>0, <1>11, <3>2 DEF Complete, ServerState
        <4> QED
          BY <4>3, <4>4
      <3> QED
        BY <3>1, <3>2
    <2> QED
      BY <1>0, <1>11, <2>1, <2>2 DEF Complete, TypeOK, Named
  <1>12. ASSUME NEW c \in Chan, Abandon(c)
         PROVE  TypeOK' /\ Named'
    <2>1. channel' \in [Chan -> Channel]
      BY <1>12, CloseTypes DEF Abandon
    <2> QED
      BY <1>0, <1>12, <2>1 DEF Abandon, TypeOK, Named
  <1>13. CASE Close
    <2>1. /\ server' \in ServerState /\ server'.conn_type = server.conn_type
          /\ server'.chan = server.chan
      BY <1>0, <1>13 DEF Close, ServerState
    <2> QED
      BY <1>0, <1>13, <2>1 DEF Close, TypeOK, Named
  <1> QED
    BY <1>3, <1>4, <1>5, <1>6, <1>7, <1>8, <1>9, <1>10, <1>11, <1>12, <1>13 DEF Handler

----------------------------------------------------------------------------
(* The dialogue. *)

\* What TypeOK says, part by part.
LEMMA Types ==
  ASSUME TypeOK
  PROVE  /\ client \in ClientState /\ server \in ServerState
         /\ replies \in Seq(Reply) /\ requests \in Seq(Request)
         /\ Len(replies) \in Nat /\ Len(requests) \in Nat
         /\ (Len(replies) = 0) <=> (replies = <<>>)
         /\ (Len(requests) = 0) <=> (requests = <<>>)
         /\ \A c \in Chan : channel[c] \in Channel
  BY NoMessage DEF TypeOK

\* A handler runs for the command whose reply the client waits for.
LEMMA HandlerSees ==
  ASSUME Inv, ~skipped, NEW cmd, Handle(cmd)
  PROVE  /\ client.at = "reply" /\ client.cmd = cmd /\ replies = <<>>
         /\ requests' = <<>> /\ client' = client /\ skipped' = skipped
         /\ Head(requests).turn = client.turn
         /\ cmd = "PORT" => Head(requests).addr = client.sockDataPort
         /\ ~server.closed /\ ~server.owes
  <1>1. requests # <<>> /\ Head(requests).cmd = cmd /\ ~server.closed
        /\ requests' = Tail(requests) /\ client' = client /\ skipped' = skipped
    BY DEF Handle
  <1>2. client \in ClientState /\ requests \in Seq(Request)
    BY DEF Inv, TypeOK
  <1>3. Talk
    BY DEF Inv, Step
  <1>4. client.at = "reply" /\ Asked
    BY <1>1, <1>2, <1>3 DEF Talk, Quiet, Completes, Answered1, ClientState
  <1>5. /\ replies = <<>> /\ Len(requests) = 1 /\ ~server.owes
        /\ requests[1].cmd = client.cmd /\ requests[1].turn = client.turn
        /\ (client.cmd = "PORT" => requests[1].addr = client.sockDataPort)
    BY <1>1, <1>4 DEF Asked
  <1>6. Head(requests) = requests[1] /\ Tail(requests) = <<>>
    BY <1>1, <1>2, <1>5, Taken
  <1> QED
    BY <1>1, <1>4, <1>5, <1>6

\* It sends the only message that is on its way then.
LEMMA HandlerSays ==
  ASSUME Inv, ~skipped, NEW cmd, Handle(cmd), NEW code, NEW port, Say(code, port)
  PROVE  /\ replies' # <<>> /\ Len(replies') = 1
         /\ replies'[1].code = code /\ replies'[1].port = port
         /\ replies'[1].turn = client.turn
  <1> DEFINE e == [code |-> code, port |-> port, turn |-> Head(requests).turn]
  <1>1. replies = <<>> /\ Head(requests).turn = client.turn
    BY HandlerSees
  <1>2. e.code = code /\ e.port = port /\ e.turn = client.turn
    BY <1>1
  <1>3. replies' = Append(<<>>, e)
    BY <1>1 DEF Say
  <1> HIDE DEF e
  <1>4. Append(<<>>, e) = <<e>>
    OBVIOUS
  <1> QED
    BY <1>2, <1>3, <1>4

\* The only reply of a command leaves the dialogue where the client expects it.
LEMMA OnlyReply ==
  ASSUME Inv, ~skipped, NEW cmd, Handle(cmd), NEW code, NEW port, Say(code, port),
         code \in Answers(cmd), code # "150",
         cmd = "QUIT" => server'.closed, server'.owes = server.owes
  PROVE  Talk' /\ Place' /\ ~Promised'
  <1>1. client.at = "reply" /\ client.cmd = cmd /\ client' = client /\ requests' = <<>>
        /\ ~server.owes
    BY HandlerSees
  <1>2. /\ replies' # <<>> /\ Len(replies') = 1
        /\ replies'[1].code = code /\ replies'[1].turn = client.turn
    BY HandlerSays
  <1>3. Answered1'
    BY <1>1, <1>2 DEF Answered1
  <1>4. ~Promised'
    BY <1>1, <1>2 DEF Promised
  <1> QED
    BY <1>1, <1>3, <1>4 DEF Talk, Place

\* There is no job between two transfers.
LEMMA NoJob ==
  ASSUME Inv, ~skipped, ~server.closed, ~server.owes
  PROVE  \A c \in Chan : channel[c].open => channel[c].job = "NONE"
  BY DEF Inv, Step, OneJob

\* The handlers keep the dialogue.
LEMMA HandlerKeeps ==
  ASSUME Inv, ~skipped, Handler
  PROVE  (Talk /\ Mode /\ OneJob /\ Place)'
  <1>0. /\ TypeOK /\ Named /\ Talk /\ Mode /\ OneJob /\ Place
        /\ client \in ClientState /\ server \in ServerState
    BY Types DEF Inv, Step
  <1>1. CASE Greet
    <2>1. /\ Handle("NONE") /\ Say("greeting", None) /\ channel' = channel
          /\ server'.conn_type = "NOT_SPECIFIED" /\ server'.closed = server.closed
          /\ server'.owes = server.owes
      BY <1>0, <1>1 DEF Greet, Answered, ServerState
    <2>2. "greeting" \in Answers("NONE") /\ "greeting" # "150"
      BY DEF Answers, DataCmd
    <2>3. Talk' /\ Place' /\ ~Promised'
      BY <2>1, <2>2, OnlyReply
    <2>4. client.at = "reply" /\ client.cmd = "NONE" /\ client' = client /\ ~server.owes
          /\ ~server.closed
      BY <2>1, HandlerSees
    <2>5. Mode'
      BY <2>1, <2>3, <2>4 DEF Mode, Changes
    <2>6. OneJob'
      BY <2>1, <2>4, NoJob DEF OneJob
    <2> QED
      BY <2>3, <2>5, <2>6
  <1>2. CASE FTP_CTRL
    <2>1. /\ Handle("CTRL") /\ Say("done", None) /\ channel' = channel
          /\ server'.conn_type = server.conn_type /\ server'.chan = server.chan
          /\ server'.closed = server.closed /\ server'.owes = server.owes
      BY <1>0, <1>2 DEF FTP_CTRL, Answered, ServerState
    <2>2. "done" \in Answers("CTRL") /\ "done" # "150"
      BY DEF Answers, DataCmd
    <2>3. Talk' /\ Place' /\ ~Promised'
      BY <2>1, <2>2, OnlyReply
    <2>4. client.at = "reply" /\ client.cmd = "CTRL" /\ client' = client /\ ~server.owes
          /\ ~server.closed
      BY <2>1, HandlerSees
    <2>5. Mode'
      BY <1>0, <2>1, <2>3, <2>4 DEF Mode, Changes
    <2>6. OneJob'
      BY <2>1, <2>4, NoJob DEF OneJob
    <2> QED
      BY <2>3, <2>5, <2>6
  <1>3. CASE FTP_PASV
    <2>0. PICK c \in Chan :
            /\ Say("227", c) /\ Answered("PASV", c)
            /\ channel'[c].kind = "PASV" /\ channel'[c].open /\ channel'[c].conn = "none"
            /\ channel'[c].job = "NONE"
            /\ \A d \in Chan \ {c} : channel'[d] = channel[d]
      BY <1>0, <1>3, PasvTakes
    <2>1. /\ Handle("PASV") /\ server'.conn_type = "PASV" /\ server'.chan = c
          /\ server'.closed = server.closed /\ server'.owes = server.owes
      BY <1>0, <1>3, <2>0 DEF FTP_PASV, Answered, ServerState
    <2>2. "227" \in Answers("PASV") /\ "227" # "150"
      BY DEF Answers, DataCmd
    <2>3. Talk' /\ Place' /\ ~Promised'
      BY <2>0, <2>1, <2>2, OnlyReply
    <2>4. client.at = "reply" /\ client.cmd = "PASV" /\ client' = client /\ ~server.owes
          /\ ~server.closed
      BY <2>1, HandlerSees
    <2>5. replies' # <<>> /\ replies'[1].code = "227" /\ replies'[1].port = c
      BY <2>0, <2>1, HandlerSays
    <2>6. Mode'
      BY <2>0, <2>1, <2>3, <2>4, <2>5 DEF Mode, Changes
    <2>7. OneJob'
      BY <2>0, <2>1, <2>4, NoJob DEF OneJob
    <2> QED
      BY <2>3, <2>6, <2>7
  <1>4. CASE FTP_PORT
    <2>0. PICK c \in Chan :
            /\ Say("200", None) /\ Answered("PORT", c)
            /\ channel'[c].kind = "PORT" /\ channel'[c].open
            /\ channel'[c].to = Head(requests).addr /\ channel'[c].job = "NONE"
            /\ (client.sockDataPort = Head(requests).addr => channel'[c].conn = "queued")
            /\ \A d \in Chan \ {c} : channel'[d] = channel[d]
      BY <1>0, <1>4, PortTakes
    <2>1. /\ Handle("PORT") /\ server'.conn_type = "PORT" /\ server'.chan = c
          /\ server'.closed = server.closed /\ server'.owes = server.owes
      BY <1>0, <1>4, <2>0 DEF FTP_PORT, Answered, ServerState
    <2>2. "200" \in Answers("PORT") /\ "200" # "150"
      BY DEF Answers, DataCmd
    <2>3. Talk' /\ Place' /\ ~Promised'
      BY <2>0, <2>1, <2>2, OnlyReply
    <2>4. client.at = "reply" /\ client.cmd = "PORT" /\ client' = client /\ ~server.owes
          /\ ~server.closed /\ Head(requests).addr = client.sockDataPort
      BY <2>1, HandlerSees
    <2>5. replies' # <<>> /\ replies'[1].code = "200"
      BY <2>0, <2>1, HandlerSays
    <2>6. Mode'
      BY <2>0, <2>1, <2>3, <2>4, <2>5 DEF Mode, Changes
    <2>7. OneJob'
      BY <2>0, <2>1, <2>4, NoJob DEF OneJob
    <2> QED
      BY <2>3, <2>6, <2>7
  <1>5. CASE NoChannelLeft
    <2>0. PICK cmd \in {"PASV", "PORT"} : Handle(cmd)
      BY <1>5 DEF NoChannelLeft
    <2>1. /\ Say("refused", None) /\ channel' = channel
          /\ server'.conn_type = "NOT_SPECIFIED" /\ server'.chan = server.chan
          /\ server'.closed = server.closed /\ server'.owes = server.owes
      BY <1>0, <1>5 DEF NoChannelLeft, Answered, ServerState
    <2>2. "refused" \in Answers(cmd) /\ "refused" # "150" /\ cmd # "QUIT"
      BY <2>0 DEF Answers
    <2>3. Talk' /\ Place' /\ ~Promised'
      BY <2>0, <2>1, <2>2, OnlyReply
    <2>4. client.at = "reply" /\ client.cmd = cmd /\ client' = client /\ ~server.owes
          /\ ~server.closed
      BY <2>0, HandlerSees
    <2>5. replies' # <<>> /\ replies'[1].code = "refused"
      BY <2>0, <2>1, HandlerSays
    <2>6. Mode'
      BY <2>0, <2>1, <2>3, <2>4, <2>5 DEF Mode, Changes
    <2>7. OneJob'
      BY <2>1, <2>4, NoJob DEF OneJob
    <2> QED
      BY <2>3, <2>6, <2>7
  <1>6. CASE Refuse
    <2>0. PICK cmd \in DataCmd : Handle(cmd)
      BY <1>6 DEF Refuse
    <2>1. /\ Say("refused", None) /\ channel' = channel
          /\ server'.conn_type = server.conn_type /\ server'.chan = server.chan
          /\ server'.closed = server.closed /\ server'.owes = server.owes
      BY <1>0, <1>6 DEF Refuse, Answered, ServerState
    <2>2. "refused" \in Answers(cmd) /\ "refused" # "150"
          /\ cmd \notin {"QUIT", "NONE", "PASV", "PORT"}
      BY <2>0 DEF Answers, DataCmd
    <2>3. Talk' /\ Place' /\ ~Promised'
      BY <2>0, <2>1, <2>2, OnlyReply
    <2>4. client.at = "reply" /\ client.cmd = cmd /\ client' = client /\ ~server.owes
          /\ ~server.closed
      BY <2>0, HandlerSees
    <2>6. Mode'
      BY <1>0, <2>1, <2>2, <2>3, <2>4 DEF Mode, Changes
    <2>7. OneJob'
      BY <2>1, <2>4, NoJob DEF OneJob
    <2> QED
      BY <2>3, <2>6, <2>7
  <1>7. ASSUME NEW cmd \in DataCmd, FTP_DATA(cmd)
        PROVE  (Talk /\ Mode /\ OneJob /\ Place)'
    <2>1. /\ Handle(cmd) /\ Say("150", None) /\ server.conn_type # "NOT_SPECIFIED"
          /\ server'.conn_type = server.conn_type /\ server'.chan = server.chan
          /\ server'.closed = server.closed /\ server'.owes /\ server'.turn = Head(requests).turn
      BY <1>0, <1>7 DEF FTP_DATA, ServerState
    <2>2. /\ client.at = "reply" /\ client.cmd = cmd /\ client' = client /\ ~server.owes
          /\ ~server.closed /\ requests' = <<>> /\ Head(requests).turn = client.turn
          /\ replies = <<>>
      BY <2>1, HandlerSees
    <2>3. /\ replies' # <<>> /\ Len(replies') = 1 /\ replies'[1].code = "150"
          /\ replies'[1].turn = client.turn
      BY <2>1, HandlerSays
    <2>4. cmd \notin {"QUIT", "NONE", "PASV", "PORT", "CTRL"} /\ "150" \in Answers(cmd)
      BY DEF DataCmd, Answers
    <2>5. Answered1'
      BY <2>1, <2>2, <2>3, <2>4 DEF Answered1, Owes
    <2>6. Talk'
      BY <2>2, <2>5 DEF Talk
    <2>7. Mode'
      BY <2>1 DEF Mode
    <2>8. /\ server.chan \in Chan
          /\ channel'[server.chan].kind = channel[server.chan].kind
          /\ channel'[server.chan].open = channel[server.chan].open
          /\ channel'[server.chan].conn = channel[server.chan].conn
          /\ channel'[server.chan].to = channel[server.chan].to
          /\ \A d \in Chan \ {server.chan} : channel'[d] = channel[d]
      BY <1>0, <1>7, DataTypes
    <2>9. OneJob'
      BY <2>1, <2>2, <2>8, NoJob DEF OneJob
    <2>10. ~Changes("PASV") /\ ~Changes("PORT")
      BY <2>2, <2>4 DEF Changes
    <2>11. CASE server.conn_type = "PASV"
      <3>1. /\ channel[server.chan].open /\ channel[server.chan].kind = "PASV"
            /\ channel[server.chan].conn = "none" /\ client.transMode = "PASV"
            /\ client.pasvDataPort = server.chan
        BY <1>0, <2>2, <2>10, <2>11 DEF Mode
      <3> QED
        BY <2>1, <2>2, <2>6, <2>7, <2>8, <2>9, <3>1 DEF Place
    <2>12. CASE server.conn_type = "PORT"
      <3>1. /\ channel[server.chan].kind = "PORT" /\ channel[server.chan].conn = "queued"
            /\ channel[server.chan].to = client.sockDataPort /\ client.transMode = "PORT"
        BY <1>0, <2>2, <2>10, <2>12 DEF Mode
      <3> QED
        BY <2>1, <2>2, <2>6, <2>7, <2>8, <2>9, <3>1 DEF Place
    <2> QED
      BY <1>0, <2>1, <2>11, <2>12 DEF ServerState
  <1>8. CASE FTP_QUIT
    <2>1. /\ Handle("QUIT") /\ Say("221", None) /\ server'.closed /\ server'.owes = server.owes
      BY <1>0, <1>8 DEF FTP_QUIT, ServerState
    <2>2. "221" \in Answers("QUIT") /\ "221" # "150"
      BY DEF Answers, DataCmd
    <2>3. Talk' /\ Place' /\ ~Promised'
      BY <2>1, <2>2, OnlyReply
    <2> QED
      BY <2>1, <2>3 DEF Mode, OneJob
  <1> QED
    BY <1>1, <1>2, <1>3, <1>4, <1>5, <1>6, <1>7, <1>8 DEF Handler

\* A transfer ends, with its completion for a client that is still there.
LEMMA CompleteKeeps ==
  ASSUME Inv, ~skipped, NEW c \in Chan, Complete(c)
  PROVE  (Talk /\ Mode /\ OneJob /\ Place)'
  <1>0. /\ TypeOK /\ Talk /\ Mode /\ OneJob /\ Place
        /\ client \in ClientState /\ server \in ServerState /\ replies \in Seq(Reply)
    BY Types DEF Inv, Step
  <1>1. /\ channel[c] \in Channel /\ channel'[c] = Closed(channel[c]) /\ ~channel'[c].open
        /\ \A d \in Chan \ {c} : channel'[d] = channel[d]
    BY <1>0, CloseTypes DEF Complete
  <1>2. /\ channel[c].conn = "queued" =>
             channel'[c].conn = "queued" /\ channel'[c].to = channel[c].to
             /\ channel'[c].kind = channel[c].kind
    BY <1>1, ClosedParts
  <1>3. /\ channel[c].open /\ channel[c].job # "NONE" /\ channel[c].conn # "none"
        /\ client' = client /\ requests' = requests
    BY DEF Complete
  <1>4. OneJob'
    <2>1. CASE server.closed
      BY <1>3, <2>1 DEF Complete, OneJob
    <2>2. CASE ~server.closed
      BY <1>0, <1>1, <1>3, <2>2 DEF OneJob
    <2> QED
      BY <2>1, <2>2
  \* Where the client goes, a connection waits for it as before.
  <1>5. ASSUME Promised
        PROVE  /\ server.chan \in Chan /\ client.transMode = channel'[server.chan].kind
               /\ (client.transMode = "PASV" =>
                     /\ client.pasvDataPort = server.chan /\ channel'[server.chan].open
                     /\ channel'[server.chan].conn = "none")
               /\ (client.transMode = "PORT" =>
                     channel'[server.chan].to = client.sockDataPort
                     /\ channel'[server.chan].conn = "queued")
    <2>1. client.transMode \in {"PASV", "PORT"}
      BY <1>0 DEF ClientState
    <2> QED
      BY <1>0, <1>1, <1>2, <1>3, <1>5, <2>1 DEF Place
  <1>6. CASE server.closed
    <2>1. server' = server /\ replies' = replies
      BY <1>6 DEF Complete
    <2>2. Talk'
      BY <1>0, <1>3, <1>6, <2>1
         DEF Talk, Quiet, Asked, Answered1, Completes, Owes, IsFinal
    <2>3. Mode'
      BY <1>6, <2>1 DEF Mode
    <2>4. Promised' => Promised
      BY <1>3, <2>1 DEF Promised
    <2>5. Place'
      BY <1>3, <1>5, <2>1, <2>4 DEF Place
    <2> QED
      BY <1>4, <2>2, <2>3, <2>5
  <1>7. CASE ~server.closed
    <2> DEFINE e == [code |-> "226", port |-> None, turn |-> server.turn]
    <2>1. /\ replies' = Append(replies, e) /\ server'.conn_type = "NOT_SPECIFIED"
          /\ ~server'.owes /\ ~server'.closed /\ server'.chan = server.chan
      BY <1>0, <1>7 DEF Complete, ServerState
    <2>2. e \in Reply /\ e.code = "226" /\ e.turn = server.turn
      BY <1>0 DEF Reply, Code, ServerState
    <2> HIDE DEF e
    <2>3. server.owes
      BY <1>0, <1>3, <1>7 DEF OneJob
    <2>4. /\ Len(replies') = Len(replies) + 1 /\ replies'[Len(replies) + 1] = e
          /\ replies' # <<>> /\ (Len(replies) = 1 => replies'[1] = replies[1])
      BY <1>0, <2>1, <2>2, Sent
    <2>5. client.at \notin {"start", "prompt", "ended"}
      BY <1>0, <1>7, <2>3 DEF Talk, Quiet
    <2>6. Len(replies) \in Nat /\ ((Len(replies) = 0) <=> (replies = <<>>))
      BY <1>0, Types
    <2>7. CASE client.at = "reply"
      <3>1. Answered1
        BY <1>0, <1>7, <2>3, <2>7 DEF Talk, Asked
      <3>2. /\ replies[1].code = "150" /\ Len(replies) = 1 /\ server.turn = client.turn
            /\ requests = <<>> /\ "150" \in Answers(client.cmd) /\ replies[1].turn = client.turn
        BY <1>7, <2>3, <3>1 DEF Answered1, Owes
      <3>3. client.cmd \in DataCmd
        BY <1>0, <3>2 DEF Answers, ClientState, Cmd
      <3>4. client.cmd \notin {"QUIT", "NONE", "PASV", "PORT"}
        BY <3>3 DEF DataCmd
      <3>5. /\ Len(replies') = 2 /\ replies'[1].code = "150" /\ replies'[2].code = "226"
            /\ replies'[1].turn = client.turn /\ replies'[2].turn = client.turn
        BY <2>2, <2>4, <3>2
      <3>6. Answered1'
        BY <1>3, <2>1, <3>2, <3>4, <3>5 DEF Answered1, IsFinal
      <3>7. Talk'
        BY <1>3, <2>7, <3>6 DEF Talk
      <3>8. Mode'
        BY <1>3, <2>1, <3>4 DEF Mode, Changes
      <3>9. Promised
        BY <2>6, <2>7, <3>2 DEF Promised
      <3> QED
        BY <1>3, <1>4, <1>5, <2>1, <3>7, <3>8, <3>9 DEF Place
    <2>8. CASE client.at \in {"open", "move", "final"}
      <3>1. replies = <<>> /\ server.turn = client.turn /\ requests = <<>>
        BY <1>0, <1>7, <2>3, <2>8 DEF Talk, Completes, Owes
      <3>2. Len(replies') = 1 /\ replies'[1].code = "226" /\ replies'[1].turn = client.turn
        BY <2>2, <2>4, <2>6, <3>1
      <3>3. Completes'
        BY <1>3, <2>1, <3>1, <3>2 DEF Completes, IsFinal
      <3>4. Talk'
        BY <1>3, <2>8, <3>3 DEF Talk
      <3>5. Mode'
        BY <1>3, <2>1, <2>8 DEF Mode, Changes
      <3>6. Promised' => Promised
        BY <1>3, <2>8 DEF Promised
      <3> QED
        BY <1>3, <1>4, <1>5, <2>1, <3>4, <3>5, <3>6 DEF Place
    <2> QED
      BY <1>0, <2>5, <2>7, <2>8 DEF ClientState
  <1> QED
    BY <1>6, <1>7

\* Nobody is told when a channel is closed like this.  The one the client is to
\* go to keeps its connection in the client's queue.
LEMMA AbandonKeeps ==
  ASSUME Inv, ~skipped, NEW c \in Chan, Abandon(c)
  PROVE  (Talk /\ Mode /\ OneJob /\ Place)'
  <1>0. /\ TypeOK /\ Talk /\ Mode /\ OneJob /\ Place
        /\ client \in ClientState /\ server \in ServerState
    BY Types DEF Inv, Step
  <1>1. /\ channel[c] \in Channel /\ ~channel'[c].open
        /\ \A d \in Chan \ {c} : channel'[d] = channel[d]
    BY <1>0, CloseTypes DEF Abandon
  <1>2. /\ client' = client /\ requests' = requests /\ replies' = replies /\ server' = server
        /\ channel[c].open /\ channel[c].conn # "none"
        /\ channel[c].job # "NONE" \/ channel[c].conn = "over"
    BY DEF Abandon
  <1>3. Talk'
    BY <1>0, <1>2 DEF Talk, Quiet, Asked, Answered1, Completes, Owes, IsFinal
  <1>4. OneJob'
    BY <1>0, <1>1, <1>2 DEF OneJob
  <1>5. server.conn_type # "NOT_SPECIFIED" => server.chan \in Chan
    BY DEF Inv, Named
  <1>6. Mode'
    <2>1. CASE channel[c].job # "NONE"
      <3>1. server.closed \/ server.owes
        BY <1>0, <1>2, <2>1 DEF OneJob
      <3> QED
        BY <1>2, <3>1 DEF Mode
    <2>2. CASE channel[c].conn = "over"
      BY <1>0, <1>1, <1>2, <1>5, <2>2 DEF Mode, Changes, Promised
    <2> QED
      BY <1>2, <2>1, <2>2
  <1>7. Place'
    <2>1. client.transMode \in {"PASV", "PORT"}
      BY <1>0 DEF ClientState
    <2>2. channel'[c] = Closed(channel[c])
      BY <1>0 DEF Abandon, TypeOK
    <2>3. channel[c].conn = "queued" =>
            /\ channel'[c].conn = "queued" /\ channel'[c].to = channel[c].to
            /\ channel'[c].kind = channel[c].kind
      BY <1>1, <2>2, ClosedParts
    <2> QED
      BY <1>0, <1>1, <1>2, <2>1, <2>3 DEF Place, Promised
  <1> QED
    BY <1>3, <1>4, <1>6, <1>7

\* The server is gone: what was on its way stays there.
LEMMA CloseKeeps ==
  ASSUME Inv, ~skipped, Close
  PROVE  (Talk /\ Mode /\ OneJob /\ Place)'
  <1>0. /\ TypeOK /\ Talk /\ Mode /\ OneJob /\ Place
        /\ client \in ClientState /\ server \in ServerState
    BY Types DEF Inv, Step
  <1>1. /\ client' = client /\ requests' = requests /\ replies' = replies /\ channel' = channel
        /\ client.at # "start" /\ server'.closed /\ server'.chan = server.chan
    BY <1>0 DEF Close, ServerState
  <1>2. Talk'
    BY <1>0, <1>1 DEF Talk, Quiet, Asked, Answered1, Completes, Owes, IsFinal
  <1>3. Mode' /\ OneJob'
    BY <1>1 DEF Mode, OneJob
  <1>4. Place'
    BY <1>0, <1>1 DEF Place, Promised
  <1> QED
    BY <1>2, <1>3, <1>4

\* A command goes out to a server that has nothing more to say.
LEMMA AskKeeps ==
  ASSUME Inv, ~skipped, client.at \in {"start", "prompt"},
         NEW cmd \in Cmd \cup {"NONE"}, NEW addr \in Lsock \cup {None},
         NEW state \in ClientState, Ask(cmd, addr, state),
         cmd = "PORT" => addr = state.sockDataPort,
         replies' = replies, server' = server
  PROVE  /\ Talk' /\ replies' = <<>> /\ ~Promised'
         /\ client'.at = "reply" /\ client'.cmd = cmd /\ client'.transMode = state.transMode
         /\ client'.sockDataPort = state.sockDataPort
         /\ client'.pasvDataPort = state.pasvDataPort
  <1>1. Talk /\ requests \in Seq(Request)
    BY Types DEF Inv, Step
  <1>2. replies = <<>> /\ (server.closed \/ (requests = <<>> /\ ~server.owes))
    BY <1>1 DEF Talk, Quiet
  <1>3. client' = [state EXCEPT !.at = "reply", !.cmd = cmd, !.turn = ~@]
    BY DEF Ask
  <1>4. /\ client'.at = "reply" /\ client'.cmd = cmd /\ client'.turn = ~state.turn
        /\ client'.transMode = state.transMode /\ client'.sockDataPort = state.sockDataPort
        /\ client'.pasvDataPort = state.pasvDataPort
    BY <1>3 DEF ClientState
  <1> DEFINE e == [cmd |-> cmd, addr |-> addr, turn |-> ~state.turn]
  <1>5. e.cmd = cmd /\ e.addr = addr /\ e.turn = ~state.turn
    OBVIOUS
  <1>6. requests' = Append(requests, e)
    BY DEF Ask
  <1> HIDE DEF e
  <1>7. requests = <<>> => Len(requests') = 1 /\ requests'[1] = e
    <2>1. Append(<<>>, e) = <<e>>
      OBVIOUS
    <2> QED
      BY <1>6, <2>1
  <1>8. Asked'
    BY <1>2, <1>4, <1>5, <1>7 DEF Asked
  <1> QED
    BY <1>2, <1>4, <1>8 DEF Talk, Promised

\* What the user does.
LEMMA UserKeeps ==
  ASSUME Inv, ~skipped, UserStep
  PROVE  (Talk /\ Mode /\ OneJob /\ Place)'
  <1>0. /\ TypeOK /\ Talk /\ Mode /\ OneJob /\ Place
        /\ client \in ClientState /\ server \in ServerState
    BY Types DEF Inv, Step
  <1>1. server.conn_type # "NOT_SPECIFIED" => server.chan \in Chan
    BY DEF Inv, Named
  <1>2. ASSUME NEW cmd \in (Cmd \cup {"NONE"}) \ {"PORT"}, client.at \in {"start", "prompt"},
               Ask(cmd, None, client), UNCHANGED <<replies, server, channel, skipped>>
        PROVE  (Talk /\ Mode /\ OneJob /\ Place)'
    <2>1. /\ Talk' /\ replies' = <<>> /\ ~Promised'
          /\ client'.at = "reply" /\ client'.cmd = cmd /\ client'.transMode = client.transMode
          /\ client'.sockDataPort = client.sockDataPort
          /\ client'.pasvDataPort = client.pasvDataPort
      BY <1>0, <1>2, AskKeeps
    <2>2. Mode'
      BY <1>0, <1>2, <2>1 DEF Mode, Changes
    <2> QED
      BY <1>0, <1>2, <2>1, <2>2 DEF OneJob, Place
  <1>3. CASE ConnectToServer
    BY <1>2, <1>3 DEF ConnectToServer
  <1>4. ASSUME NEW cmd \in Cmd, RouteCommand(cmd)
        PROVE  (Talk /\ Mode /\ OneJob /\ Place)'
    BY <1>2, <1>4 DEF RouteCommand, Prompted
  <1>5. CASE EnterPortMode \/ EndOfInput
    <2>1. channel' = Unlisten(client.sockDataPort) /\ server' = server
      BY <1>5 DEF EnterPortMode, EndOfInput
    <2>2. \A c \in Chan :
            /\ channel[c] \in Channel /\ channel'[c].open = channel[c].open
            /\ ~(channel[c].conn = "queued" /\ channel[c].to = client.sockDataPort) =>
                 channel'[c] = channel[c]
            /\ channel[c].open => channel'[c].job = channel[c].job
      BY <1>0, <2>1, UnlistenParts
    <2>3. OneJob'
      BY <1>0, <2>1, <2>2 DEF OneJob
    <2>4. CASE EndOfInput
      <3>1. /\ client.at = "prompt" /\ client'.at = "ended" /\ server' = server
            /\ requests' = requests /\ replies' = replies
        BY <1>0, <2>4 DEF EndOfInput, ClientState
      <3>2. Talk'
        BY <1>0, <3>1 DEF Talk, Quiet
      <3> QED
        BY <2>3, <3>1, <3>2 DEF Mode, Place, Promised
    <2>5. CASE EnterPortMode
      <3>1. PICK l \in Lsock \ {client.sockDataPort} :
              Ask("PORT", l, [client EXCEPT !.sockDataPort = l])
        BY <2>5 DEF EnterPortMode
      <3> DEFINE state == [client EXCEPT !.sockDataPort = l]
      <3>2. /\ state \in ClientState /\ state.sockDataPort = l
            /\ state.transMode = client.transMode /\ state.pasvDataPort = client.pasvDataPort
        BY <1>0, <3>1 DEF ClientState
      <3> HIDE DEF state
      <3>3. Ask("PORT", l, state)
        BY <3>1 DEF state
      <3>4. client.at = "prompt" /\ server' = server /\ replies' = replies
        BY <2>5 DEF EnterPortMode, Prompted
      <3>5. "PORT" \in Cmd \cup {"NONE"} /\ l \in Lsock \cup {None}
        BY <3>1 DEF Cmd
      <3>6. /\ Talk' /\ replies' = <<>> /\ ~Promised'
            /\ client'.at = "reply" /\ client'.cmd = "PORT" /\ client'.transMode = client.transMode
            /\ client'.pasvDataPort = client.pasvDataPort
        BY <3>2, <3>3, <3>4, <3>5, AskKeeps
      <3>7. Mode'
        BY <1>0, <1>1, <2>2, <3>4, <3>6 DEF Mode, Changes
      <3> QED
        BY <2>3, <3>4, <3>6, <3>7 DEF Place
    <2> QED
      BY <1>5, <2>4, <2>5
  <1>6. "NONE" # "PORT"
    OBVIOUS
  <1> QED
    BY <1>3, <1>4, <1>5 DEF UserStep

\* The client takes the reply to its command.
LEMMA RxReplyKeeps ==
  ASSUME Inv, ~skipped, RxReply
  PROVE  (Talk /\ Mode /\ OneJob /\ Place)'
  <1>0. /\ TypeOK /\ Talk /\ Mode /\ OneJob /\ Place
        /\ client \in ClientState /\ server \in ServerState /\ replies \in Seq(Reply)
    BY Types DEF Inv, Step
  <1>1. /\ client.at = "reply" /\ replies # <<>> /\ server' = server /\ requests' = requests
        /\ client' = Heard(Head(replies)) /\ replies' = Tail(replies)
    BY DEF RxReply
  <1>2. /\ Head(replies) = replies[1] /\ replies[1] \in Reply
        /\ (Len(replies) = 1 => replies' = <<>>)
        /\ (Len(replies) = 2 => Len(replies') = 1 /\ replies'[1] = replies[2])
    BY <1>0, <1>1, Taken
  <1> DEFINE r == replies[1]
  <1>3. r \in Reply /\ client' = Heard(r)
    BY <1>1, <1>2
  <1>4. Answered1
    BY <1>0, <1>1 DEF Talk, Asked
  <1>5. /\ r.code \in Answers(client.cmd) /\ r.turn = client.turn
        /\ (server.closed \/ requests = <<>>)
        /\ (client.cmd = "QUIT" => server.closed)
        /\ (r.code # "150" => Len(replies) = 1 /\ (server.closed \/ ~server.owes))
        /\ (r.code = "150" =>
              \/ Len(replies) = 1 /\ (server.closed \/ Owes)
              \/ Len(replies) = 2 /\ IsFinal(replies[2]) /\ (server.closed \/ ~server.owes))
    BY <1>4 DEF Answered1
  <1> HIDE DEF r
  <1>6. /\ client.cmd \in {"NONE", "CTRL", "QUIT", "PASV", "PORT"} \/ client.cmd \in DataCmd
        /\ "NONE" \notin DataCmd /\ "CTRL" \notin DataCmd /\ "QUIT" \notin DataCmd
        /\ "PASV" \notin DataCmd /\ "PORT" \notin DataCmd
    BY <1>0 DEF ClientState, Cmd, DataCmd
  <1>7. client.cmd \notin DataCmd => r.code # "150"
    BY <1>5, <1>6 DEF Answers
  \* Only a PORT that has been refused closes a socket, and none was connected to.
  <1>8. channel' = channel \/ (channel' = Unlisten(client.sockDataPort)
                               /\ client'.sockDataPort # client.sockDataPort)
    BY DEF RxReply
  <1>9. \A c \in Chan :
          /\ channel[c] \in Channel /\ channel'[c].open = channel[c].open
          /\ ~(channel[c].conn = "queued" /\ channel[c].to = client.sockDataPort) =>
               channel'[c] = channel[c]
          /\ channel[c].open => channel'[c].job = channel[c].job
    BY <1>0, <1>8, Types, UnlistenParts
  <1>10. OneJob'
    BY <1>0, <1>1, <1>9 DEF OneJob
  <1>11. server.conn_type # "NOT_SPECIFIED" => server.chan \in Chan
    BY DEF Inv, Named
  <1>12. \A st \in {"prompt", "ended"} : client'.at = st /\ r.code # "150" => Talk' /\ Place'
    <2>1. ASSUME NEW st \in {"prompt", "ended"}, client'.at = st, r.code # "150"
          PROVE  Talk' /\ Place'
      <3>1. Quiet'
        BY <1>1, <1>2, <1>5, <2>1 DEF Quiet
      <3> QED
        BY <2>1, <3>1 DEF Talk, Place, Promised
    <2> QED
      BY <2>1
  <1>13. CASE client.cmd = "NONE"
    <2>1. client'.at = "prompt" /\ client'.transMode = "PASV"
          /\ client'.sockDataPort = client.sockDataPort
          /\ client'.pasvDataPort = client.pasvDataPort
      BY <1>0, <1>3, <1>13, HeardParts
    <2>2. Mode'
      BY <1>0, <1>1, <1>13, <2>1 DEF Mode, Changes, Promised
    <2> QED
      BY <1>6, <1>7, <1>10, <1>12, <1>13, <2>1, <2>2
  <1>14. CASE client.cmd = "QUIT"
    <2>1. client'.at = "ended"
      BY <1>0, <1>3, <1>14, HeardParts
    <2>2. Mode'
      BY <2>1 DEF Mode
    <2> QED
      BY <1>6, <1>7, <1>10, <1>12, <1>14, <2>1, <2>2
  <1>15. CASE client.cmd = "CTRL" \/ (client.cmd \in DataCmd /\ r.code # "150")
    <2>1. client'.at = "prompt" /\ client'.transMode = client.transMode
          /\ client'.sockDataPort = client.sockDataPort
          /\ client'.pasvDataPort = client.pasvDataPort
      BY <1>0, <1>3, <1>15, HeardParts DEF Keeps
    <2>2. channel' = channel
      BY <1>8, <2>1
    <2>3. Mode'
      BY <1>0, <1>1, <1>6, <1>15, <2>1, <2>2 DEF Mode, Changes, Promised
    <2> QED
      BY <1>6, <1>7, <1>10, <1>12, <1>15, <2>1, <2>3
  <1>16. CASE client.cmd = "PASV"
    <2>1. client'.at = "prompt" /\ client'.sockDataPort = client.sockDataPort
          /\ (r.code = "227" => client'.transMode = "PASV" /\ client'.pasvDataPort = r.port)
          /\ (r.code # "227" => client'.transMode = client.transMode
                                /\ client'.pasvDataPort = client.pasvDataPort)
      BY <1>0, <1>3, <1>16, HeardParts DEF Keeps
    <2>2. channel' = channel
      BY <1>8, <2>1
    <2>3. Mode'
      BY <1>0, <1>1, <1>6, <1>16, <2>1, <2>2 DEF Mode, Changes, Promised, r
    <2> QED
      BY <1>6, <1>7, <1>10, <1>12, <1>16, <2>1, <2>3
  <1>17. CASE client.cmd = "PORT"
    <2>1. client'.at = "prompt" /\ client'.pasvDataPort = client.pasvDataPort
          /\ (r.code = "200" => client'.transMode = "PORT"
                                /\ client'.sockDataPort = client.sockDataPort)
          /\ (r.code # "200" => client'.transMode = client.transMode)
      BY <1>0, <1>3, <1>17, HeardParts
    <2>2. r.code = "200" => channel' = channel
      BY <1>8, <2>1
    <2>3. Mode'
      BY <1>0, <1>1, <1>6, <1>17, <2>1, <2>2 DEF Mode, Changes, Promised, r
    <2> QED
      BY <1>6, <1>7, <1>10, <1>12, <1>17, <2>1, <2>3
  <1>18. CASE client.cmd \in DataCmd /\ r.code = "150"
    <2>1. client'.at = "open" /\ client'.cmd = client.cmd /\ client'.turn = client.turn
          /\ client'.transMode = client.transMode /\ client'.sockDataPort = client.sockDataPort
          /\ client'.pasvDataPort = client.pasvDataPort
      BY <1>0, <1>3, <1>18, HeardParts DEF Keeps
    <2>2. channel' = channel
      BY <1>8, <2>1
    <2>3. Completes'
      <3>1. CASE Len(replies) = 1 /\ (server.closed \/ Owes)
        BY <1>1, <1>2, <1>5, <2>1, <3>1 DEF Completes, Owes
      <3>2. CASE Len(replies) = 2 /\ IsFinal(replies[2]) /\ (server.closed \/ ~server.owes)
        BY <1>1, <1>2, <1>5, <2>1, <3>2 DEF Completes, IsFinal
      <3> QED
        BY <1>5, <1>18, <3>1, <3>2
    <2>4. Promised
      BY <1>1, <1>18 DEF Promised, r
    <2>5. Talk'
      BY <2>1, <2>3 DEF Talk
    <2>6. Mode'
      <3>1. ~server.closed /\ ~server.owes => server.conn_type = "NOT_SPECIFIED"
        BY <1>0, <1>1, <2>4 DEF Mode
      <3> QED
        BY <1>1, <2>1, <3>1 DEF Mode, Changes
    <2>7. Place'
      BY <1>0, <1>1, <2>1, <2>2, <2>4 DEF Place
    <2> QED
      BY <1>10, <2>5, <2>6, <2>7
  <1> QED
    BY <1>6, <1>13, <1>14, <1>15, <1>16, <1>17, <1>18

\* The other steps of the client.
LEMMA ClientKeeps ==
  ASSUME Inv, ~skipped, ClientStep, ~skipped'
  PROVE  (Talk /\ Mode /\ OneJob /\ Place)'
  <1>0. /\ TypeOK /\ Talk /\ Mode /\ OneJob /\ Place
        /\ client \in ClientState /\ server \in ServerState /\ replies \in Seq(Reply)
    BY Types DEF Inv, Step
  <1>1. CASE RxReply
    BY <1>1, RxReplyKeeps
  <1>2. CASE RxFinal
    <2>1. /\ client'.at = "prompt" /\ client'.transMode = client.transMode
          /\ client'.sockDataPort = client.sockDataPort
          /\ client'.pasvDataPort = client.pasvDataPort
      BY <1>0, <1>2, PromptTypes DEF RxFinal
    <2>2. /\ client.at = "final" /\ replies # <<>> /\ requests' = requests /\ server' = server
          /\ channel' = channel /\ replies' = Tail(replies)
      BY <1>2 DEF RxFinal
    <2>3. Len(replies) = 1 => replies' = <<>>
      BY <1>0, <2>2, Taken
    <2>4. Talk'
      BY <1>0, <2>1, <2>2, <2>3 DEF Talk, Completes, Quiet
    <2>5. Mode'
      <3>1. ~server.closed /\ ~server.owes => server.conn_type = "NOT_SPECIFIED"
        BY <1>0, <2>2 DEF Mode
      <3> QED
        BY <2>1, <2>2, <3>1 DEF Mode, Changes, Promised
    <2> QED
      BY <1>0, <2>1, <2>2, <2>4, <2>5 DEF OneJob, Place, Promised
  <1>3. CASE RxNothing
    <2>1. /\ requests' = requests /\ replies' = replies /\ server' = server
          /\ replies = <<>> /\ server.closed
      BY <1>3 DEF RxNothing
    <2>2. client'.at \in {"prompt", "ended"}
      <3> DEFINE q == AtPrompt(client)
      <3>1. q \in ClientState /\ q.at = "prompt"
        BY <1>0, PromptTypes
      <3>2. [client EXCEPT !.at = "ended"].at = "ended"
        BY <1>0 DEF ClientState
      <3>3. \/ client' = [client EXCEPT !.at = "ended"] \/ client' = q
            \/ client' = [q EXCEPT !.sockDataPort = None]
        BY <1>3 DEF RxNothing
      <3> HIDE DEF q
      <3>4. [q EXCEPT !.sockDataPort = None].at = "prompt"
        BY <3>1 DEF ClientState
      <3> QED
        BY <3>1, <3>2, <3>3, <3>4
    <2> QED
      BY <2>1, <2>2 DEF Talk, Quiet, Mode, OneJob, Place, Promised
  <1>4. CASE DataChannelInit
    <2>1. PICK c \in Chan : /\ client' = [client EXCEPT !.at = "move", !.data = c]
                            /\ channel' = [channel EXCEPT ![c].conn = "up"]
      BY <1>4 DEF DataChannelInit, Reachable
    <2>2. /\ client'.at = "move" /\ client'.turn = client.turn
      BY <1>0, <2>1 DEF ClientState
    <2>3. /\ client.at = "open" /\ requests' = requests /\ replies' = replies
          /\ server' = server
      BY <1>4 DEF DataChannelInit
    <2>4. \A d \in Chan : channel'[d].open = channel[d].open /\ channel'[d].job = channel[d].job
      <3> DEFINE ch == [channel[c] EXCEPT !.conn = "up"]
      <3>1. channel \in [Chan -> Channel] /\ channel[c] \in Channel
        BY <1>0 DEF TypeOK
      <3>2. ch.open = channel[c].open /\ ch.job = channel[c].job
        BY <3>1 DEF Channel
      <3>3. channel' = [channel EXCEPT ![c] = ch]
        BY <2>1, <3>1
      <3> HIDE DEF ch
      <3> QED
        BY <3>1, <3>2, <3>3
    <2>5. Talk'
      BY <1>0, <2>2, <2>3 DEF Talk, Completes, Owes, IsFinal
    <2>6. Mode'
      <3>1. ~server.closed /\ ~server.owes => server.conn_type = "NOT_SPECIFIED"
        BY <1>0, <2>3 DEF Mode, Promised
      <3> QED
        BY <2>2, <2>3, <3>1 DEF Mode, Changes
    <2>7. OneJob'
      BY <1>0, <2>3, <2>4 DEF OneJob
    <2> QED
      BY <2>2, <2>5, <2>6, <2>7 DEF Place, Promised
  <1>5. CASE Moved
    <2>1. /\ client'.at = "final" /\ client'.turn = client.turn
      BY <1>0, <1>5 DEF Moved, ClientState
    <2>2. /\ client.at = "move" /\ requests' = requests /\ replies' = replies
          /\ server' = server /\ channel' = Hangup /\ client.data \in Chan
      BY <1>5 DEF Moved, Inv, Named
    <2>3. Talk'
      BY <1>0, <2>1, <2>2 DEF Talk, Completes, Owes, IsFinal
    <2>4. Mode'
      <3>1. ~server.closed /\ ~server.owes => server.conn_type = "NOT_SPECIFIED"
        BY <1>0, <2>2 DEF Mode
      <3> QED
        BY <2>1, <2>2, <3>1 DEF Mode, Changes
    <2>5. \A d \in Chan : channel'[d].open =>
                            channel[d].open /\ channel'[d].job = channel[d].job
      <3>1. channel \in [Chan -> Channel] /\ channel[client.data] \in Channel
        BY <1>0, <2>2 DEF TypeOK
      <3>2. channel' = [channel EXCEPT ![client.data] = Left(channel[client.data])]
        BY <2>2, <3>1 DEF Hangup
      <3>3. channel'[client.data] = Left(channel[client.data])
            /\ \A d \in Chan \ {client.data} : channel'[d] = channel[d]
        BY <2>2, <3>1, <3>2
      <3>4. [channel[client.data] EXCEPT !.conn = "over"].job = channel[client.data].job
        BY <3>1 DEF Channel
      <3> QED
        BY <3>1, <3>3, <3>4, LeftParts
    <2>6. OneJob'
      BY <1>0, <2>2, <2>5 DEF OneJob
    <2> QED
      BY <2>1, <2>3, <2>4, <2>6 DEF Place, Promised
  <1>6. ~DataChannelInitFails /\ ~GiveUp
    BY DEF DataChannelInitFails, GiveUp
  <1> QED
    BY <1>1, <1>2, <1>3, <1>4, <1>5, <1>6 DEF ClientStep

----------------------------------------------------------------------------
(* The theorems. *)

\* Init establishes the invariant, and every step keeps it.
LEMMA InvInit == Init => Inv
  <1> SUFFICES ASSUME Init PROVE Inv
    OBVIOUS
  <1>1. TypeOK
    <2>1. client \in ClientState /\ server \in ServerState
      BY DEF Init, ClientState, ServerState
    <2>2. NoChannel \in Channel
      BY DEF NoChannel, Channel
    <2>3. requests \in Seq(Request) /\ replies \in Seq(Reply)
      BY DEF Init
    <2>4. channel \in [Chan -> Channel] /\ skipped \in BOOLEAN
      BY <2>2 DEF Init
    <2> QED
      BY <2>1, <2>3, <2>4 DEF TypeOK
  <1>2. Named
    BY DEF Named, Init
  <1>3. Talk /\ Mode /\ Place
    BY DEF Init, Talk, Quiet, Mode, Place, Promised, Changes
  <1>4. OneJob
    BY DEF Init, OneJob, NoChannel
  <1> QED
    BY <1>1, <1>2, <1>3, <1>4 DEF Inv, Step

LEMMA InvStep == Inv /\ [Next]_vars => Inv'
  <1> SUFFICES ASSUME Inv, [Next]_vars PROVE Inv'
    OBVIOUS
  <1>1. CASE UNCHANGED vars
    BY <1>1 DEF vars, Inv, TypeOK, Named, Step, Talk, Quiet, Asked, Answered1, Completes, Owes,
                IsFinal, Mode, Changes, OneJob, Place, Promised
  <1>2. CASE Next
    <2>1. TypeOK' /\ Named'
      BY <1>2, ClientKeepsTypes, ServerKeepsTypes DEF Next, Inv
    <2>2. ASSUME ~skipped'
          PROVE  (Talk /\ Mode /\ OneJob /\ Place)'
      <3>1. ~skipped
        BY <1>2, <2>2 DEF Next, ClientStep, UserStep, Handler, RxReply, RxFinal, RxNothing,
             DataChannelInit, DataChannelInitFails, Moved, GiveUp, ConnectToServer, RouteCommand,
             EnterPortMode, EndOfInput, Greet, FTP_CTRL, FTP_PASV, FTP_PORT, NoChannelLeft, Refuse,
             FTP_DATA, FTP_QUIT, Handle, Complete, Abandon, Close
      <3> QED
        BY <1>2, <2>2, <3>1, ClientKeeps, UserKeeps, HandlerKeeps, CompleteKeeps, AbandonKeeps,
           CloseKeeps DEF Next
    <2>3. Step'
      BY <2>2 DEF Step
    <2> QED
      BY <2>1, <2>3 DEF Inv
  <1> QED
    BY <1>1, <1>2

LEMMA Invariance == Spec => []Inv
  BY InvInit, InvStep, PTL DEF Spec

\* Every variable keeps its type, whatever the client leaves unread.
THEOREM ClientTypes == Spec => []TypeOK
  <1>1. Inv => TypeOK
    BY DEF Inv
  <1> QED
    BY <1>1, Invariance, PTL

\* The reply the client takes was composed for its command, and the one it
\* takes for the completion is one, over any number of commands, refusals and
\* transfers that it has not left half-way.
THEOREM RepliesBelong == Spec => []ReplyBelongs
  <1>1. Inv => ReplyBelongs
    <2> SUFFICES ASSUME Inv, ~skipped, client.at \in {"reply", "final"}, replies # <<>>
                 PROVE  /\ Head(replies).turn = client.turn
                        /\ (client.at = "final") <=> (Head(replies).code = "226")
      BY DEF ReplyBelongs
    <2>1. Talk /\ replies \in Seq(Reply) /\ client \in ClientState /\ Head(replies) = replies[1]
      BY Types, Taken DEF Inv, Step
    <2>2. CASE client.at = "reply"
      <3>1. Answered1
        BY <2>1, <2>2 DEF Talk, Asked
      <3>2. replies[1].turn = client.turn /\ replies[1].code \in Answers(client.cmd)
        BY <3>1 DEF Answered1
      <3>3. client.cmd \in Cmd \cup {"NONE"}
        BY <2>1 DEF ClientState
      <3>4. replies[1].code # "226"
        BY <3>2, <3>3 DEF Answers, Cmd, DataCmd
      <3> QED
        BY <2>1, <2>2, <3>2, <3>4
    <2>3. CASE client.at = "final"
      BY <2>1, <2>3 DEF Talk, Completes, IsFinal
    <2> QED
      BY <2>2, <2>3
  <1> QED
    BY <1>1, Invariance, PTL

\* After 150 the client and the server mean the same data connection, although
\* transMode and conn_type are changed by different commands and refusals.
THEOREM TheSamePlace == Spec => []SamePlace
  <1>1. Inv => SamePlace
    <2> SUFFICES ASSUME Inv, ~skipped, client.at = "open"
                 PROVE  /\ client.transMode = channel[server.chan].kind
                        /\ client.transMode = "PASV" => client.pasvDataPort = server.chan
                        /\ server.chan \in Reachable
      BY DEF SamePlace
    <2>1. Place /\ client.transMode \in {"PASV", "PORT"}
      BY Types DEF Inv, Step, ClientState
    <2>2. Promised
      BY DEF Promised
    <2> QED
      BY <2>1, <2>2 DEF Place, Reachable
  <1> QED
    BY <1>1, Invariance, PTL

----------------------------------------------------------------------------
(* The refinement of FtpDialogue. *)

\* A change of the only dialogue there is.
LEMMA OneDialogue ==
  ASSUME NEW stage, NEW asked, NEW heard,
         Dialogue' = [stage |-> stage, asked |-> asked, heard |-> heard]
  PROVE  D!Becomes("me", stage, asked, heard)
  BY DEF D!Becomes

\* What the dialogue looks like while a command is handled.
LEMMA Waiting ==
  ASSUME Inv, ~skipped, NEW cmd, Handle(cmd)
  PROVE  Dialogue = [stage |-> "wait", asked |-> cmd, heard |-> server.heard]
  <1>1. client.at = "reply" /\ client.cmd = cmd /\ ~server.closed /\ requests # <<>>
    BY HandlerSees DEF Handle
  <1> QED
    BY <1>1 DEF Dialogue

\* The dialogue after the only reply to a command.
LEMMA Replied ==
  ASSUME Inv, ~skipped, NEW cmd, Handle(cmd), cmd # "QUIT",
         NEW mode, NEW chan, Answered(mode, chan)
  PROVE  D!Answer("me")
  <1>1. /\ client.at = "reply" /\ ~server.closed /\ requests' = <<>> /\ client' = client
        /\ ~server.owes /\ skipped' = skipped
    BY HandlerSees
  <1>2. server \in ServerState
    BY Types DEF Inv
  <1>3. ~server'.closed /\ ~server'.owes /\ server'.heard = "answer"
    BY <1>1, <1>2 DEF Answered, ServerState
  <1>4. Dialogue' = [stage |-> "idle", asked |-> "NONE", heard |-> "answer"]
    BY <1>1, <1>3 DEF Dialogue
  <1>5. Dialogue.stage = "wait" /\ Dialogue.asked = cmd
    BY Waiting
  <1> QED
    BY <1>4, <1>5, OneDialogue DEF D!Answer

\* Nothing the dialogue is made of has changed.
LEMMA NothingSaid ==
  ASSUME Dialogue' = Dialogue
  PROVE  UNCHANGED D!vars
  BY DEF D!vars

\* A handler answers, promises a completion or says good-bye.
LEMMA HandlerRefines ==
  ASSUME Inv, ~skipped, Handler
  PROVE  D!Next
  <1>0. server \in ServerState /\ client \in ClientState
    BY Types DEF Inv
  <1>1. CASE Greet \/ FTP_CTRL \/ FTP_PASV \/ FTP_PORT \/ NoChannelLeft \/ Refuse
    <2>1. PICK cmd \in Cmd \cup {"NONE"} : Handle(cmd) /\ cmd # "QUIT"
      BY <1>1 DEF Greet, FTP_CTRL, FTP_PASV, FTP_PORT, NoChannelLeft, Refuse, Cmd, DataCmd
    <2>2. PICK mode, chan : Answered(mode, chan)
      BY <1>1 DEF Greet, FTP_CTRL, FTP_PASV, FTP_PORT, NoChannelLeft, Refuse
    <2>3. D!Answer("me")
      BY <2>1, <2>2, Replied
    <2> QED
      BY <2>3 DEF D!Next, D!Served
  <1>2. ASSUME NEW cmd \in DataCmd, FTP_DATA(cmd)
        PROVE  D!Next
    <2>1. Handle(cmd) /\ server'.owes /\ server'.closed = server.closed /\ server'.heard = "interim"
      BY <1>0, <1>2 DEF FTP_DATA, ServerState
    <2>2. /\ client.at = "reply" /\ ~server.closed /\ requests' = <<>> /\ client' = client
          /\ client.cmd = cmd /\ skipped' = skipped
      BY <2>1, HandlerSees
    <2>3. Dialogue' = [stage |-> "xfer", asked |-> cmd, heard |-> "interim"]
      BY <2>1, <2>2 DEF Dialogue
    <2>4. Dialogue.stage = "wait" /\ Dialogue.asked = cmd
      BY <2>1, Waiting
    <2>5. D!Interim("me")
      BY <1>2, <2>3, <2>4, OneDialogue DEF D!Interim
    <2> QED
      BY <2>5 DEF D!Next, D!Served
  <1>3. CASE FTP_QUIT
    <2>1. Handle("QUIT") /\ server'.closed /\ server'.heard = "bye"
      BY <1>0, <1>3 DEF FTP_QUIT, ServerState
    <2>2. Dialogue' = [stage |-> "away", asked |-> "NONE", heard |-> "bye"]
      BY <2>1 DEF Dialogue
    <2>3. Dialogue.stage = "wait" /\ Dialogue.asked = "QUIT"
      BY <2>1, Waiting
    <2>4. D!Bye("me")
      BY <2>2, <2>3, OneDialogue DEF D!Bye
    <2> QED
      BY <2>4 DEF D!Next, D!Served
  <1> QED
    BY <1>1, <1>2, <1>3 DEF Handler

\* A command is asked only of a server that has nothing more to say.
LEMMA UserRefines ==
  ASSUME Inv, ~skipped, UserStep
  PROVE  D!Next \/ UNCHANGED D!vars
  <1>0. /\ Talk /\ client \in ClientState /\ requests \in Seq(Request) /\ Named
    BY Types DEF Inv, Step
  <1>1. ASSUME NEW cmd \in Cmd \cup {"NONE"}, NEW addr, NEW state \in ClientState,
               Ask(cmd, addr, state)
        PROVE  client'.at = "reply" /\ client'.cmd = cmd /\ requests' # <<>>
    BY <1>0, <1>1 DEF Ask, ClientState
  <1>2. CASE ConnectToServer
    <2>1. /\ Ask("NONE", None, client) /\ client.at = "start" /\ server' = server
          /\ skipped' = skipped
      BY <1>2 DEF ConnectToServer
    <2>2. server.heard = "none" /\ ~server.closed
      BY <1>0, <2>1 DEF Talk
    <2>3. client'.at = "reply" /\ client'.cmd = "NONE" /\ requests' # <<>>
      BY <1>0, <1>1, <2>1
    <2>4. Dialogue' = [stage |-> "wait", asked |-> "NONE", heard |-> "none"]
      BY <2>1, <2>2, <2>3 DEF Dialogue
    <2>5. Dialogue.stage = "away"
      BY <2>1 DEF Dialogue
    <2>6. D!Greet("me")
      BY <2>4, <2>5, OneDialogue DEF D!Greet
    <2> QED
      BY <2>6 DEF D!Next
  <1>3. ASSUME NEW cmd \in Cmd, NEW addr, NEW state \in ClientState, client.at = "prompt",
               Ask(cmd, addr, state), server' = server, skipped' = skipped
        PROVE  D!Next \/ UNCHANGED D!vars
    <2>1. client'.at = "reply" /\ client'.cmd = cmd /\ requests' # <<>>
      BY <1>1, <1>3
    <2>2. CASE server.closed
      <3>1. Dialogue' = Dialogue
        BY <1>3, <2>2 DEF Dialogue
      <3> QED
        BY <3>1, NothingSaid
    <2>3. CASE ~server.closed
      <3>1. requests = <<>> /\ ~server.owes
        BY <1>0, <1>3, <2>3 DEF Talk, Quiet
      <3>2. Dialogue.stage = "idle" /\ Dialogue.heard = server.heard
        BY <1>3, <2>3, <3>1 DEF Dialogue
      <3>3. Dialogue' = [stage |-> "wait", asked |-> cmd, heard |-> server.heard]
        BY <1>3, <2>1, <2>3 DEF Dialogue
      <3>4. D!Ask("me", cmd)
        BY <3>2, <3>3, OneDialogue DEF D!Ask
      <3> QED
        BY <3>4 DEF D!Next
    <2> QED
      BY <2>2, <2>3
  <1>4. ASSUME NEW cmd \in Cmd, RouteCommand(cmd)
        PROVE  D!Next \/ UNCHANGED D!vars
    BY <1>0, <1>3, <1>4 DEF RouteCommand, Prompted
  <1>5. CASE EnterPortMode
    <2>1. PICK l \in Lsock \ {client.sockDataPort} :
            Ask("PORT", l, [client EXCEPT !.sockDataPort = l])
      BY <1>5 DEF EnterPortMode
    <2>2. [client EXCEPT !.sockDataPort = l] \in ClientState
      BY <1>0, <2>1 DEF ClientState
    <2>3. "PORT" \in Cmd
      BY DEF Cmd
    <2> QED
      BY <1>3, <1>5, <2>1, <2>2, <2>3 DEF EnterPortMode, Prompted
  <1>6. CASE EndOfInput
    <2>1. /\ client.at = "prompt" /\ client'.at = "ended" /\ client'.cmd = client.cmd
          /\ server' = server /\ requests' = requests /\ skipped' = skipped
      BY <1>0, <1>6 DEF EndOfInput, ClientState
    <2>2. Dialogue' = Dialogue
      BY <2>1 DEF Dialogue
    <2> QED
      BY <2>2, NothingSaid
  <1> QED
    BY <1>2, <1>4, <1>5, <1>6 DEF UserStep

\* What the client does with a reply is no part of the dialogue.
LEMMA ClientRefines ==
  ASSUME Inv, ~skipped, ClientStep, ~skipped'
  PROVE  UNCHANGED D!vars
  <1>0. /\ TypeOK /\ Talk /\ client \in ClientState /\ replies \in Seq(Reply)
    BY Types DEF Inv, Step
  <1>1. server' = server /\ requests' = requests /\ skipped' = skipped
    BY DEF ClientStep, RxReply, RxFinal, RxNothing, DataChannelInit, DataChannelInitFails,
           Moved, GiveUp
  <1>2. client'.at # "start" /\ client.at # "start"
    <2>1. CASE RxReply
      <3>1. Head(replies) \in Reply /\ client' = Heard(Head(replies)) /\ client.at = "reply"
        BY <1>0, <2>1, Taken DEF RxReply
      <3>2. client.cmd \in {"NONE", "CTRL", "QUIT", "PASV", "PORT"} \/ client.cmd \in DataCmd
        BY <1>0 DEF ClientState, Cmd
      <3> QED
        BY <1>0, <3>1, <3>2, HeardParts
    <2>2. CASE RxFinal
      BY <1>0, <2>2, PromptTypes DEF RxFinal
    <2>3. CASE RxNothing
      <3> DEFINE q == AtPrompt(client)
      <3>1. q \in ClientState /\ q.at = "prompt"
        BY <1>0, PromptTypes
      <3>2. [client EXCEPT !.at = "ended"].at = "ended"
        BY <1>0 DEF ClientState
      <3>3. \/ client' = [client EXCEPT !.at = "ended"] \/ client' = q
            \/ client' = [q EXCEPT !.sockDataPort = None]
        BY <2>3 DEF RxNothing
      <3> HIDE DEF q
      <3>4. [q EXCEPT !.sockDataPort = None].at = "prompt"
        BY <3>1 DEF ClientState
      <3> QED
        BY <2>3, <3>1, <3>2, <3>3, <3>4 DEF RxNothing
    <2>4. CASE DataChannelInit
      BY <1>0, <2>4 DEF DataChannelInit, ClientState
    <2>5. CASE Moved
      BY <1>0, <2>5 DEF Moved, ClientState
    <2> QED
      BY <2>1, <2>2, <2>3, <2>4, <2>5 DEF ClientStep, DataChannelInitFails, GiveUp
  <1>3. \/ server.closed \/ (requests = <<>> /\ ~server.owes) \/ client'.cmd = client.cmd
    <2>1. CASE RxReply
      <3>1. Head(replies) = replies[1] /\ replies[1] \in Reply /\ client' = Heard(replies[1])
            /\ client.at = "reply" /\ replies # <<>>
        BY <1>0, <2>1, Taken DEF RxReply
      <3>2. Answered1
        BY <1>0, <3>1 DEF Talk, Asked
      <3>3. CASE replies[1].code # "150"
        BY <3>2, <3>3 DEF Answered1
      <3>4. CASE replies[1].code = "150"
        <4>1. "150" \in Answers(client.cmd) /\ client.cmd \in Cmd \cup {"NONE"}
          BY <1>0, <3>2, <3>4 DEF Answered1, ClientState
        <4>2. client.cmd \in DataCmd
          BY <4>1 DEF Answers, Cmd
        <4> QED
          BY <1>0, <3>1, <3>4, <4>2, HeardParts
      <3> QED
        BY <3>3, <3>4
    <2>2. CASE RxFinal
      BY <1>0, <2>2 DEF RxFinal, Talk, Completes
    <2>3. CASE RxNothing
      BY <2>3 DEF RxNothing
    <2>4. CASE DataChannelInit
      BY <1>0, <2>4 DEF DataChannelInit, ClientState
    <2>5. CASE Moved
      BY <1>0, <2>5 DEF Moved, ClientState
    <2> QED
      BY <2>1, <2>2, <2>3, <2>4, <2>5 DEF ClientStep, DataChannelInitFails, GiveUp
  <1>4. Dialogue' = Dialogue
    BY <1>1, <1>2, <1>3 DEF Dialogue
  <1> QED
    BY <1>4, NothingSaid

\* A completion for the client that waits for it; nothing for one that has gone.
LEMMA ServerRefines ==
  ASSUME Inv, ~skipped, (\E c \in Chan : Complete(c) \/ Abandon(c)) \/ Close
  PROVE  D!Next \/ UNCHANGED D!vars
  <1>0. /\ Talk /\ OneJob /\ client \in ClientState /\ server \in ServerState
    BY Types DEF Inv, Step
  <1>1. ASSUME NEW c \in Chan, Complete(c)
        PROVE  D!Next \/ UNCHANGED D!vars
    <2>1. client' = client /\ requests' = requests /\ skipped' = skipped
          /\ channel[c].open /\ channel[c].job # "NONE"
      BY <1>1 DEF Complete
    <2>2. CASE server.closed
      <3>1. Dialogue' = Dialogue
        BY <1>1, <2>1, <2>2 DEF Complete, Dialogue
      <3> QED
        BY <3>1, NothingSaid
    <2>3. CASE ~server.closed
      <3>1. server.owes
        BY <1>0, <2>1, <2>3 DEF OneJob
      <3>2. client.at # "start" /\ requests = <<>>
        BY <1>0, <2>3, <3>1
           DEF Talk, Quiet, Asked, Answered1, Completes, ClientState
      <3>3. ~server'.owes /\ ~server'.closed /\ server'.heard = "completion"
        BY <1>0, <1>1, <2>3 DEF Complete, ServerState
      <3>4. Dialogue.stage = "xfer"
        BY <2>3, <3>1, <3>2 DEF Dialogue
      <3>5. Dialogue' = [stage |-> "idle", asked |-> "NONE", heard |-> "completion"]
        BY <2>1, <3>2, <3>3 DEF Dialogue
      <3>6. D!Complete("me")
        BY <3>4, <3>5, OneDialogue DEF D!Complete
      <3> QED
        BY <3>6 DEF D!Next, D!Served
    <2> QED
      BY <2>2, <2>3
  <1>2. ASSUME NEW c \in Chan, Abandon(c)
        PROVE  UNCHANGED D!vars
    <2>1. Dialogue' = Dialogue
      BY <1>2 DEF Abandon, Dialogue
    <2> QED
      BY <2>1, NothingSaid
  <1>3. CASE Close
    <2>1. server'.closed /\ server'.heard = "none"
      BY <1>0, <1>3 DEF Close, ServerState
    <2>2. Dialogue' = [stage |-> "away", asked |-> "NONE", heard |-> "none"]
      BY <2>1 DEF Dialogue
    <2>3. D!Leave("me")
      BY <2>2, OneDialogue DEF D!Leave
    <2> QED
      BY <2>3 DEF D!Next
  <1> QED
    BY <1>1, <1>2, <1>3

\* The headless client is one of the clients that FtpDialogue is written for,
\* until it leaves a transfer half-way: it sends a command only when it has had
\* all the replies to the last one.
THEOREM TheClientKeepsDialogue == Spec => KeepsDialogue
  <1>1. Init => D!Init
    BY DEF Init, D!Init, D!Nobody, Dialogue
  <1>2. Inv /\ [Next]_vars => [D!Next \/ skipped']_(D!vars)
    <2> SUFFICES ASSUME Inv, [Next]_vars, ~skipped'
                 PROVE  D!Next \/ UNCHANGED D!vars
      OBVIOUS
    <2>1. CASE UNCHANGED vars
      <3>1. Dialogue' = Dialogue
        BY <2>1 DEF vars, Dialogue
      <3> QED
        BY <3>1, NothingSaid
    <2>2. CASE Next
      <3>1. ~skipped
        BY <2>2 DEF Next, ClientStep, UserStep, Handler, RxReply, RxFinal, RxNothing,
             DataChannelInit, DataChannelInitFails, Moved, GiveUp, ConnectToServer, RouteCommand,
             EnterPortMode, EndOfInput, Greet, FTP_CTRL, FTP_PASV, FTP_PORT, NoChannelLeft, Refuse,
             FTP_DATA, FTP_QUIT, Handle, Complete, Abandon, Close
      <3> QED
        BY <2>2, <3>1, ClientRefines, UserRefines, HandlerRefines, ServerRefines DEF Next
    <2> QED
      BY <2>1, <2>2
  <1> QED
    BY <1>1, <1>2, Invariance, PTL DEF Spec, KeepsDialogue
=============================================================================
