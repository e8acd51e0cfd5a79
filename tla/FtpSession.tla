----------------------------- MODULE FtpSession -----------------------------
(***************************************************************************)
(* The FTP state machine of ftp.c: what every command does to its session, *)
(* to the directory tree all sessions share and to the next transfer.  The *)
(* main thread runs one handler at a time, so a handler is one action; the *)
(* replies and the locks on their way are in Transfer.  A file is a        *)
(* sequence of chunks, numbered as the uploading client numbers them.      *)
(***************************************************************************)
EXTENDS PathOps, TLC

CONSTANTS
  Session,   \* the control connections
  Inode,     \* the files the disk has room for
  None,      \* no inode
  Root,      \* service_root, as a path of PathOps
  DirArgs,   \* the arguments of CWD, MKD and RMD
  FileArgs,  \* the arguments of RETR and STOR
  Used,      \* the commands the client of each session sends
  MaxDepth,  \* bound: components of what the clients create
  MaxText,   \* bound: components in the text of cwd
  MaxLen     \* bound: chunks in a file

Commands == {"USER", "PASS", "PWD", "CWD", "CDUP", "TYPE", "SYST", "QUIT", "PASV", "PORT",
             "REST", "LIST", "MKD", "RMD", "RETR", "STOR", "APPE"}

ASSUME SessionAssumption ==
  /\ None \notin Inode
  /\ Root \in Path /\ Root # <<>>
  /\ DirArgs \subseteq PathArgument /\ FileArgs \subseteq PathArgument
  /\ Used \in [Session -> SUBSET Commands]
  /\ MaxDepth \in Nat /\ MaxText \in Nat
  /\ MaxLen \in Nat

VARIABLES
  dirs,     \* the directories that exist, each as the Real of its paths
  files,    \* the name of a file, as the Real of its paths -> inode
  content,  \* inode -> chunks; 0 is a hole
  sess,     \* struct client_data, with the data slot its conn_type points to
  remote    \* what the client of each session remembers

vars == <<dirs, files, content, sess, remote>>
-----------------------------------------------------------------------------
FtpState == {"NEED_USERNAME", "NEED_PASSWORD", "LOGGED_IN"}
ConnType == {"NOT_SPECIFIED", "PORT", "PASV"}

\* lost: the data thread has closed the connection without a word.  path: the
\* text of the path to open, and of an upload, which is open, the file.
NoJob == [kind |-> "none", path |-> <<>>, ino |-> None, at |-> 0, len |-> 0]

\* rest: send_offset of the slot; code: the last reply; cmd: to what command
Fresh == [state |-> "NEED_USERNAME", cwd |-> Root, type |-> "ASCII", conn |-> "NOT_SPECIFIED",
          rest |-> 0, job |-> NoJob, code |-> 220, cmd |-> "NONE"]

\* of, copy: the file it downloads and what it has of it; dirty: somebody has
\* stored that file since, or it has asked for a part; sent: chunks of the file
\* it uploads; resume: for what REST was accepted: to go on with a RETR or a
\* STOR, or any other offset ("part").
Stranger == [of |-> <<>>, copy |-> <<>>, dirty |-> FALSE, sent |-> 0, resume |-> "no"]

Init ==
  /\ dirs = {Real(p) : p \in Prefixes(Root)}
  /\ files = << >>
  /\ content = [i \in Inode |-> <<>>]
  /\ sess = [s \in Session |-> Fresh]
  /\ remote = [s \in Session |-> Stranger]
-----------------------------------------------------------------------------
(* The tree, as the handlers see it.                                       *)

\* Every directory a path names on its way exists.
Reach(path) == \A p \in Prefixes(path) : Real(p) \in dirs

\* The file a path leads to, for open, access and stat
FileAt(path) ==
  IF path # <<>> /\ Reach(Front(path)) /\ Real(path) \in DOMAIN files THEN files[Real(path)] ELSE None

IsDir(path)  == path # <<>> /\ Reach(path)             \* fs_directory_exists
Exists(path) == IsDir(path) \/ FileAt(path) # None     \* fs_file_exists

\* What system("mkdir -p") makes: all directories on the way, until one of
\* them is a file.
Made(path, names) ==
  {Real(p) : p \in {q \in Prefixes(path) : \A b \in Prefixes(q) : Real(b) \notin names}}

MakeDirs(path) == dirs' = dirs \cup Made(path, DOMAIN files)
CanMake(path)  == path # <<>> /\ \A p \in Prefixes(path) : Real(p) \notin DOMAIN files

\* system("rm -rf") refuses "/" and what ends in "." or "..".
CanErase(path) ==
  /\ Real(path) # <<>>
  /\ \E n \in 1 .. Len(path) :
       path[n] \notin {"", ".", ".."} /\ \A m \in n + 1 .. Len(path) : path[m] = ""

EraseTree(path) ==
  /\ dirs' = {d \in dirs : ~IsPrefix(Real(path), d)}
  /\ files' = [f \in {g \in DOMAIN files : ~IsPrefix(Real(path), g)} |-> files[f]]

\* Making the path would go beyond the bound.
Deep(path) == \E p \in Prefixes(path) : Len(Real(p)) > MaxDepth

\* The path CWD, MKD and RMD work on, and the one RETR and STOR work on.
Target(s, arg) ==
  CASE arg = RootArg              -> Root
    [] arg # RootArg /\ arg.abs   -> Join(Root, arg)
    [] arg = UpArg                -> Backward(sess[s].cwd)
    [] OTHER                      -> Join(sess[s].cwd, arg)

FileTarget(s, arg) == Join(IF arg.abs THEN Root ELSE sess[s].cwd, arg)

\* strstr(argument, "../"), which RETR and STOR look for and CWD does not
GoesUp(arg) == \E n \in 1 .. Len(arg.segs) - 1 : arg.segs[n] = ".."
-----------------------------------------------------------------------------
(* One action per command.                                                 *)

\* The client sends a command when it is not in a transfer.
May(s, cmd) == cmd \in Used[s] /\ sess[s].job.kind = "none"

Answer(s, cmd, r, code) == sess' = [sess EXCEPT ![s] = [r EXCEPT !.cmd = cmd, !.code = code]]

Only(s, cmd, code) == Answer(s, cmd, sess[s], code) /\ UNCHANGED <<dirs, files, content, remote>>

LoggedIn(s) == sess[s].state = "LOGGED_IN"

\* "State machine failed": a command out of place, or with an argument too
\* many or too few, does nothing.  (The clients send USER and PASS with at least
\* one argument and no empty line: the code copies from NULL otherwise.)
Unhandled(s, cmd) ==
  /\ May(s, cmd)
  /\ LoggedIn(s) /\ cmd \in {"RETR", "STOR", "APPE"} => sess[s].conn # "NOT_SPECIFIED"
  /\ Only(s, "NONE", 504)

FTP_USER(s) ==
  /\ May(s, "USER")
  /\ sess[s].state = "NEED_USERNAME"
  /\ \/ Only(s, "USER", 430)
     \/ /\ Answer(s, "USER", [sess[s] EXCEPT !.state = "NEED_PASSWORD"], 331)
        /\ UNCHANGED <<dirs, files, content, remote>>

FTP_PASS(s) ==
  /\ May(s, "PASS")
  /\ sess[s].state = "NEED_PASSWORD"
  /\ Answer(s, "PASS", [sess[s] EXCEPT !.state = "LOGGED_IN"], 230)
  /\ UNCHANGED <<dirs, files, content, remote>>

FTP_PWD(s)  == May(s, "PWD") /\ LoggedIn(s) /\ Only(s, "PWD", 257)
FTP_SYST(s) == May(s, "SYST") /\ LoggedIn(s) /\ Only(s, "SYST", 215)

FTP_TYPE(s) ==
  /\ May(s, "TYPE")
  /\ LoggedIn(s)
  /\ \E type \in {"ASCII", "BINARY"} : Answer(s, "TYPE", [sess[s] EXCEPT !.type = type], 200)
  /\ UNCHANGED <<dirs, files, content, remote>>

\* Mutant: the directory need not be inside service_root.
ChangeDir_Anywhere(s, cmd, path) ==
  /\ \/ IsDir(path) /\ Answer(s, cmd, [sess[s] EXCEPT !.cwd = path], 250)
     \/ ~IsDir(path) /\ Answer(s, cmd, sess[s], 550)
  /\ UNCHANGED <<dirs, files, content, remote>>

\* CWD and CDUP, with the directory they go to
ChangeDir(s, cmd, path) ==
  LET may == IsDir(path) /\ Allows(Root, path) IN
  /\ \/ may /\ Answer(s, cmd, [sess[s] EXCEPT !.cwd = path], 250)
     \/ ~may /\ Answer(s, cmd, sess[s], 550)
  /\ UNCHANGED <<dirs, files, content, remote>>

FTP_CWD(s, arg) ==
  /\ May(s, "CWD") /\ LoggedIn(s)
  /\ Len(Target(s, arg)) <= MaxText
  /\ ChangeDir(s, "CWD", Target(s, arg))

FTP_CDUP(s)     == May(s, "CDUP") /\ LoggedIn(s) /\ ChangeDir(s, "CDUP", Backward(sess[s].cwd))

\* The connection ends; the next one in the slot starts afresh.
FTP_QUIT(s) ==
  /\ May(s, "QUIT")
  /\ LoggedIn(s)
  /\ sess' = [sess EXCEPT ![s] = Fresh]
  /\ remote' = [remote EXCEPT ![s].resume = "no"]
  /\ UNCHANGED <<dirs, files, content>>

\* Mutant: who has not logged in may open a data connection.
Open_Anybody(s, cmd, conn, code) ==
  /\ May(s, cmd)
  /\ Answer(s, cmd, [sess[s] EXCEPT !.conn = conn, !.rest = 0], code)
  /\ remote' = [remote EXCEPT ![s].resume = "no"]
  /\ UNCHANGED <<dirs, files, content>>

\* Mutant: the slot keeps the send_offset of the transfer before.
Open_KeepsOffset(s, cmd, conn, code) ==
  /\ May(s, cmd)
  /\ LoggedIn(s)
  /\ Answer(s, cmd, [sess[s] EXCEPT !.conn = conn], code)
  /\ remote' = [remote EXCEPT ![s].resume = "no"]
  /\ UNCHANGED <<dirs, files, content>>

\* pasv_client_new, port_client_new: a slot with send_offset 0, or none
Open(s, cmd, conn, code) ==
  /\ May(s, cmd)
  /\ LoggedIn(s)
  /\ \/ Answer(s, cmd, [sess[s] EXCEPT !.conn = conn, !.rest = 0], code)
     \/ Answer(s, cmd, [sess[s] EXCEPT !.conn = "NOT_SPECIFIED", !.rest = 0], 434)
  /\ remote' = [remote EXCEPT ![s].resume = "no"]
  /\ UNCHANGED <<dirs, files, content>>

FTP_PASV(s) == Open(s, "PASV", "PASV", 227)
FTP_PORT(s) == Open(s, "PORT", "PORT", 200)

\* The client asks for what it lacks, of a copy that is still the file or of
\* an upload, or for any other part, one past the end included.
FTP_REST(s, resume, offset) ==
  /\ May(s, "REST")
  /\ LoggedIn(s)
  /\ resume = "RETR" => ~remote[s].dirty /\ offset = Len(remote[s].copy)
  /\ resume = "STOR" => offset = remote[s].sent
  /\ \/ /\ sess[s].conn = "NOT_SPECIFIED"
        /\ Only(s, "REST", 434)
     \/ /\ sess[s].conn # "NOT_SPECIFIED"
        /\ Answer(s, "REST", [sess[s] EXCEPT !.rest = offset], 350)
        /\ remote' = [remote EXCEPT ![s].resume = resume]
        /\ UNCHANGED <<dirs, files, content>>

Job(kind, path, ino, at, len) == [kind |-> kind, path |-> path, ino |-> ino, at |-> at, len |-> len]

\* How many names "ls -l" lists, none when it cannot enter the directory
Entries(path) == {p \in dirs \cup DOMAIN files : p # <<>> /\ Front(p) = Real(path)}
Listed(path)  == IF IsDir(path) THEN Cardinality(Entries(path)) ELSE 0

\* The listing is sent from send_offset on, like a file.
FTP_LIST(s) ==
  /\ May(s, "LIST")
  /\ LoggedIn(s)
  /\ \/ /\ sess[s].conn = "NOT_SPECIFIED" \/ ~Allows(Root, sess[s].cwd)
        /\ Only(s, "LIST", 550)
     \/ /\ sess[s].conn # "NOT_SPECIFIED"
        /\ Only(s, "LIST", 451)    \* popen fails
     \/ /\ sess[s].conn # "NOT_SPECIFIED" /\ Allows(Root, sess[s].cwd)
        /\ Answer(s, "LIST", [sess[s] EXCEPT
             !.job = Job("LIST", sess[s].cwd, None, sess[s].rest, Listed(sess[s].cwd))], 150)
        /\ remote' = [remote EXCEPT ![s].resume = "no"]
        /\ UNCHANGED <<dirs, files, content>>

FTP_MKD(s, arg) ==
  LET path == Target(s, arg) IN
  /\ May(s, "MKD")
  /\ LoggedIn(s)
  /\ ~Deep(path)
  /\ \/ Allows(Root, path) /\ MakeDirs(path) /\ Answer(s, "MKD", sess[s], IF CanMake(path) THEN 257 ELSE 550)
     \/ ~Allows(Root, path) /\ UNCHANGED dirs /\ Answer(s, "MKD", sess[s], 550)
  /\ UNCHANGED <<files, content, remote>>

FTP_RMD(s, arg) ==
  LET path == Target(s, arg)
      may  == IsDir(path) /\ Allows(Root, path) /\ CanErase(path)
  IN
  /\ May(s, "RMD")
  /\ LoggedIn(s)
  /\ \/ may /\ EraseTree(path) /\ Answer(s, "RMD", sess[s], 250)
     \/ ~may /\ UNCHANGED <<dirs, files>> /\ Answer(s, "RMD", sess[s], 550)
  /\ UNCHANGED <<content, remote>>

\* A transfer is refused.  The offset of a REST stays in the slot, for the next.
Refuse(s, cmd, code) == Only(s, cmd, code)

\* A transfer needs a connection first.
NoConnection(s, cmd) == sess[s].conn = "NOT_SPECIFIED" /\ Refuse(s, cmd, 550)

\* Somebody is storing the file.
Stored(file) == \E t \in Session : sess[t].job.kind = "STOR" /\ sess[t].job.path = file

\* 150 tells the length; the file is opened by the data thread, later.
FTP_RETR(s, arg) ==
  LET path  == FileTarget(s, arg)
      found == ~GoesUp(arg) /\ Allows(Root, path) /\ Exists(path)
      more  == remote[s].resume = "RETR" /\ remote[s].of = Real(path)
  IN
  /\ May(s, "RETR")
  /\ LoggedIn(s)
  /\ \/ NoConnection(s, "RETR")
     \/ sess[s].conn # "NOT_SPECIFIED" /\ ~found /\ Refuse(s, "RETR", 550)
     \/ /\ sess[s].conn # "NOT_SPECIFIED" /\ found
        /\ Answer(s, "RETR", [sess[s] EXCEPT !.job = Job("RETR", path, None, sess[s].rest,
             IF IsDir(path) THEN MaxLen + 1 ELSE Len(content[FileAt(path)]))], 150)
        /\ remote' = [remote EXCEPT ![s] = IF more THEN [@ EXCEPT !.resume = "no"] ELSE
             [@ EXCEPT !.of = Real(path), !.copy = <<>>, !.resume = "no",
                       !.dirty = remote[s].resume # "no" \/ Stored(Real(path))]]
        /\ UNCHANGED <<dirs, files, content>>

\* The inode the file gets: its own, or one that nothing refers to.
Inodes(file) ==
  IF file \in DOMAIN files THEN {files[file]}
  ELSE {i \in Inode : /\ \A f \in DOMAIN files : files[f] # i
                      /\ \A s \in Session : sess[s].job.ino # i}

\* The job of pasv_recvfile: the file is cut to nothing (O_TRUNC) and written
\* from send_offset on.  A directory cannot be opened and leaves no job.
Store(s, cmd, file) ==
  \/ /\ file \notin dirs'
     /\ \E i \in Inodes(file) :
          /\ files' = [f \in DOMAIN files \cup {file} |-> IF f = file THEN i ELSE files[f]]
          /\ content' = [content EXCEPT ![i] = <<>>]
          /\ Answer(s, cmd, [sess[s] EXCEPT !.job = Job("STOR", file, i, sess[s].rest, 0)], 150)
     /\ remote' = [t \in Session |->
          LET u == [remote[t] EXCEPT !.dirty = @ \/ remote[t].of = file] IN
          IF t # s THEN u ELSE [u EXCEPT !.sent = IF u.resume = "STOR" THEN u.sent ELSE 0, !.resume = "no"]]
  \/ /\ file \in dirs'
     /\ Answer(s, cmd, [sess[s] EXCEPT !.job = Job("lost", file, None, 0, 0)], 150)
     /\ UNCHANGED <<files, content, remote>>

\* The directory of the file is made when it does not exist.
FTP_STOR(s, arg) ==
  LET path == FileTarget(s, arg)
      dir  == Directory(path)
      may  == ~GoesUp(arg) /\ Allows(Root, path)
  IN
  /\ May(s, "STOR")
  /\ LoggedIn(s)
  /\ \/ NoConnection(s, "STOR")
     \/ sess[s].conn # "NOT_SPECIFIED" /\ ~may /\ Refuse(s, "STOR", 550)
     \/ /\ sess[s].conn # "NOT_SPECIFIED" /\ may /\ ~Deep(path)
        /\ \/ IsDir(dir) /\ UNCHANGED dirs /\ Store(s, "STOR", Real(path))
           \/ ~IsDir(dir) /\ CanMake(dir) /\ MakeDirs(dir) /\ Store(s, "STOR", Real(path))
           \/ /\ ~IsDir(dir) /\ ~CanMake(dir) /\ MakeDirs(dir)
              /\ Answer(s, "STOR", sess[s], 451)
              /\ UNCHANGED <<files, content, remote>>

\* return FTP_STOR(client, argument): the handler of STOR finds that the line
\* does not begin with "STOR ", whatever the name, and gives up.
FTP_APPE(s) ==
  /\ May(s, "APPE")
  /\ LoggedIn(s)
  /\ \/ NoConnection(s, "APPE")
     \/ sess[s].conn # "NOT_SPECIFIED" /\ Refuse(s, "APPE", 504)
-----------------------------------------------------------------------------
(* The transfer a handler has started.                                     *)

\* Mutant: the slot is released and the transfer goes on.
Complete_KeepsJob(s) ==
  sess' = [sess EXCEPT ![s] = [@ EXCEPT !.rest = 0, !.conn = "NOT_SPECIFIED", !.code = 226]]

\* The callback of the data thread, and its close_connection
Complete(s) ==
  sess' = [sess EXCEPT ![s] = [@ EXCEPT !.job = NoJob, !.rest = 0, !.conn = "NOT_SPECIFIED", !.code = 226]]


\* send_offset == send_len, after a sendfile that has sent so many chunks
AtEnd(job, sent) == job.at + sent = job.len

\* One POLLOUT of a download.  sendfile sends nothing at the end of the file;
\* the transfer ends when the offset equals the length told with 150.  A name
\* that cannot be opened loses the transfer.
SendChunk(s) ==
  LET job  == sess[s].job
      ino  == IF job.ino = None THEN FileAt(job.path) ELSE job.ino
      sent == IF job.at # job.len /\ job.at < Len(content[ino]) THEN 1 ELSE 0
  IN
  /\ job.kind = "RETR"
  /\ \/ /\ ino = None
        /\ sess' = [sess EXCEPT ![s].job.kind = "lost"]
        /\ UNCHANGED remote
     \/ /\ ino # None
        /\ remote' = [remote EXCEPT ![s].copy = @ \o SubSeq(content[ino], job.at + 1, job.at + sent)]
        /\ \/ AtEnd(job, sent) /\ Complete(s)
           \/ /\ ~AtEnd(job, sent)
              /\ sess' = [sess EXCEPT ![s].job = [job EXCEPT !.ino = ino, !.at = job.at + sent]]
  /\ UNCHANGED <<dirs, files, content>>

\* The listing is in memory when its transfer starts.  From an offset past its
\* end on, what lies behind it is sent, until there is no more memory to read.
SendListing(s) ==
  LET job == sess[s].job IN
  /\ job.kind = "LIST"
  /\ \/ job.at <= job.len /\ Complete(s)
     \/ job.at > job.len /\ sess' = [sess EXCEPT ![s].job.kind = "lost"]
  /\ UNCHANGED <<dirs, files, content, remote>>

\* A chunk is written at the offset; what was never written is a hole.
Written(chunks, at, chunk) ==
  [n \in 1..(IF at < Len(chunks) THEN Len(chunks) ELSE at + 1) |->
     IF n = at + 1 THEN chunk ELSE IF n <= Len(chunks) THEN chunks[n] ELSE 0]

ReceiveChunk(s) ==
  LET job == sess[s].job IN
  /\ job.kind = "STOR"
  /\ remote[s].sent < MaxLen /\ job.at < MaxLen
  /\ content' = [content EXCEPT ![job.ino] = Written(@, job.at, remote[s].sent + 1)]
  /\ sess' = [sess EXCEPT ![s].job = [job EXCEPT !.at = job.at + 1]]
  /\ remote' = [remote EXCEPT ![s].sent = remote[s].sent + 1]
  /\ UNCHANGED <<dirs, files>>

\* The client closes the data connection: it has no more, or it gave up.
EndUpload(s) ==
  /\ sess[s].job.kind = "STOR"
  /\ Complete(s)
  /\ UNCHANGED <<dirs, files, content, remote>>

\* The connections of s break; its client remembers what it has got.
Break(s) ==
  /\ sess' = [sess EXCEPT ![s] = Fresh]
  /\ remote' = [remote EXCEPT ![s].resume = "no"]
  /\ UNCHANGED <<dirs, files, content>>
-----------------------------------------------------------------------------
Handle(s) ==
  \/ \E cmd \in Commands : Unhandled(s, cmd)
  \/ FTP_USER(s) \/ FTP_PASS(s) \/ FTP_PWD(s) \/ FTP_SYST(s) \/ FTP_TYPE(s)
  \/ FTP_CDUP(s) \/ FTP_QUIT(s) \/ FTP_PASV(s) \/ FTP_PORT(s) \/ FTP_LIST(s) \/ FTP_APPE(s)
  \/ \E resume \in {"RETR", "STOR", "part"}, offset \in 0 .. MaxLen + 1 : FTP_REST(s, resume, offset)
  \/ \E arg \in DirArgs : FTP_CWD(s, arg) \/ FTP_MKD(s, arg) \/ FTP_RMD(s, arg)
  \/ \E arg \in FileArgs : FTP_RETR(s, arg) \/ FTP_STOR(s, arg)

Transfer(s) == SendChunk(s) \/ SendListing(s) \/ ReceiveChunk(s) \/ EndUpload(s)

Next == \E s \in Session : Handle(s) \/ Transfer(s) \/ Break(s)

Spec == Init /\ [][Next]_vars

\* The data threads go on with a transfer, and an upload ends.
FairSpec == Spec /\ \A s \in Session : WF_vars(Transfer(s))
-----------------------------------------------------------------------------
(* Properties.                                                             *)

\* Types, and what ties the parts together: no two paths share an inode, a
\* connection that has not logged in has no transfer, and a transfer has the
\* slot of PASV or PORT it runs on.
TypeOK ==
  /\ files \in [DOMAIN files -> Inode] /\ IsInjective(files)
  /\ content \in [Inode -> Seq(0..MaxLen)]
  /\ \A s \in Session :
       /\ sess[s].state \in FtpState /\ sess[s].conn \in ConnType
       /\ sess[s].rest \in 0 .. MaxLen + 1 /\ sess[s].job.at \in 0 .. MaxLen + 1
       /\ sess[s].job.ino \in Inode \cup {None}
       /\ sess[s].job.kind # "none" => sess[s].conn # "NOT_SPECIFIED"

\* A session is inside service_root as long as there is no dot in the path it
\* has gone.  fs_directory_allows compares texts: what CWD with ".." in an
\* argument reaches, "a/.." or "../..", it does not judge.
CwdInside ==
  \A s \in Session : Named(sess[s].cwd) => IsPrefix(Real(Root), Real(sess[s].cwd))

\* "CWD <what PWD answers>" is the way back to where the session is.
PwdRoundTrip ==
  \A s \in Session : Real(Target(s, Erase(Root, sess[s].cwd))) = Real(sess[s].cwd)

\* CDUP goes to the parent directory and to no other, whatever slashes the way
\* down has left in cwd; it is refused only at the root, or when the parent
\* has been removed.  (It cuts a component off the text: a session that has
\* gone "CWD a/.." it leads to a.)
UpIsParent ==
  [][\A s \in Session : sess'[s].cmd = "CDUP" /\ sess'[s] # sess[s] /\ Named(sess[s].cwd) =>
       LET here == Real(sess[s].cwd) IN
       IF sess'[s].code = 250 THEN Real(sess'[s].cwd) = Parent(here)
       ELSE here = Real(Root) \/ Parent(here) \notin dirs]_vars

\* A connection that has not logged in has no effect: it is where it started,
\* without a data connection and without a transfer.
LoginFirst ==
  \A s \in Session : ~LoggedIn(s) =>
    sess[s].cwd = Root /\ sess[s].conn = "NOT_SPECIFIED" /\ sess[s].job = NoJob

\* A download that breaks and is resumed with REST, over as many connections
\* as it takes, gives the client the file and nothing else, unless somebody
\* stores the file meanwhile.
DownloadFaithful ==
  \A s \in Session : remote[s].of \in DOMAIN files /\ ~remote[s].dirty =>
    LET file == content[files[remote[s].of]] IN
    /\ IsPrefix(remote[s].copy, file)
    /\ sess[s].cmd = "RETR" /\ sess[s].code = 226 => remote[s].copy = file

\* The transfers that the code never completes: the data thread has closed the
\* connection without a word, or the offset can no longer meet the length that
\* was told, because REST went past it or the file has been cut.
Doomed(job) ==
  \/ job.kind = "lost"
  \/ job.kind = "RETR" /\ job.at > job.len
  \/ job.kind = "RETR" /\ job.ino # None /\ Len(content[job.ino]) < job.len

\* Every other transfer that was announced with 150 ends with its completion.
EveryTransferEnds ==
  \A s \in Session :
    (sess[s].job.kind # "none") ~> (sess[s].job.kind = "none" \/ Doomed(sess[s].job))
=============================================================================
