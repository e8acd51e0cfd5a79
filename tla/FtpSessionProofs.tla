-------------------------- MODULE FtpSessionProofs --------------------------
(***************************************************************************)
(* The invariants of FtpSession, for any number of sessions and inodes,    *)
(* any service_root and any arguments of the commands.  What is inductive  *)
(* is Inv: the tree, the inodes, one formula Good for each session with    *)
(* its client, and for each upload that whoever has its file knows.        *)
(***************************************************************************)
EXTENDS FtpSession, PathProofs

-----------------------------------------------------------------------------
(* The inductive invariant.                                                *)

JobKind == {"none", "lost", "RETR", "STOR", "LIST"}
JobRec  == [kind : JobKind, path : Path, ino : Inode \cup {None}, at : 0 .. MaxLen + 1, len : Nat]
SessRec == [state : FtpState, cwd : Path, type : {"ASCII", "BINARY"}, conn : ConnType,
            rest : 0 .. MaxLen + 1, job : JobRec, code : Nat, cmd : Commands \cup {"NONE"}]
RemoteRec == [of : Path, copy : Seq(0 .. MaxLen), dirty : BOOLEAN, sent : 0 .. MaxLen,
              resume : {"no", "RETR", "STOR", "part"}]

\* The directories ds, with all above them, and the names of the files fs
Tree(ds, fs) ==
  /\ ds \subseteq Path /\ DOMAIN fs \subseteq Path
  /\ IsFiniteSet(ds) /\ IsFiniteSet(DOMAIN fs)
  /\ DOMAIN fs \cap ds = {}
  /\ \A p \in ds : p # <<>> => Front(p) \in ds

\* No inode has two names, and none is longer than MaxLen.
Disk(fs, ct) ==
  /\ fs \in [DOMAIN fs -> Inode] /\ IsInjective(fs)
  /\ ct \in [Inode -> Seq(0 .. MaxLen)] /\ \A i \in Inode : Len(ct[i]) <= MaxLen

\* A session that has not logged in is where it started.
Outside(r) == r.state # "LOGGED_IN" => r.cwd = Root /\ r.conn = "NOT_SPECIFIED" /\ r.job = NoJob

\* A transfer has its slot, and the command it belongs to was the last one.
Slotted(r) ==
  /\ r.job.kind # "none" => r.conn # "NOT_SPECIFIED"
  /\ r.job.kind \in {"RETR", "STOR", "LIST"} => r.cmd = r.job.kind

\* The offset of the slot is the one the client has asked for, and a download
\* is as far as its client, or further when the client has asked for a part.
Offset(r, u) ==
  /\ r.job.kind = "none" /\ u.resume = "no" => r.rest = 0
  /\ u.resume = "RETR" => r.rest = Len(u.copy)
  /\ r.job.kind = "RETR" => /\ Real(r.job.path) = u.of
                            /\ Len(u.copy) <= r.job.at /\ (u.dirty \/ Len(u.copy) = r.job.at)
  /\ r.job.kind \in {"RETR", "STOR", "LIST"} => u.resume = "no"
  /\ Len(u.copy) <= MaxLen

\* The inode an upload writes to is no other file's.
Owns(r, fs) ==
  r.job.kind = "STOR" => r.job.ino \in Inode /\ \A f \in DOMAIN fs : fs[f] = r.job.ino => f = r.job.path

\* A copy nobody has told about a change is a prefix of the file; the download
\* reads that file and was told its length.
Faithful(r, u, fs, ct) ==
  u.of \in DOMAIN fs /\ ~u.dirty =>
    /\ IsPrefix(u.copy, ct[fs[u.of]])
    /\ r.job.kind = "RETR" => r.job.ino \in {None, fs[u.of]} /\ r.job.len = Len(ct[fs[u.of]])
    /\ r.cmd = "RETR" /\ r.code = 226 => u.copy = ct[fs[u.of]]

Good(r, u, fs, ct) ==
  /\ r \in SessRec /\ u \in RemoteRec
  /\ Allows(Root, r.cwd) /\ Outside(r) /\ Slotted(r) /\ Offset(r, u) /\ Owns(r, fs)
  /\ Faithful(r, u, fs, ct)

\* Whoever has a copy of a file that r is storing knows of it.
Warned(r, u) == r.job.kind = "STOR" /\ r.job.path = u.of => u.dirty

Inv ==
  /\ Tree(dirs, files) /\ Disk(files, content)
  /\ sess \in [Session -> SessRec] /\ remote \in [Session -> RemoteRec]
  /\ \A s \in Session : Good(sess[s], remote[s], files, content)
  /\ \A s, t \in Session : Warned(sess[s], remote[t])
-----------------------------------------------------------------------------
(* What the paths of the commands are.                                     *)

LEMMA ArgumentPaths ==
  ASSUME NEW s \in Session, sess[s] \in SessRec, Allows(Root, sess[s].cwd)
  PROVE  /\ Root \in Path /\ Root # <<>> /\ sess[s].cwd \in Path /\ sess[s].cwd # <<>>
         /\ Backward(sess[s].cwd) \in Path
         /\ \A arg \in PathArgument : Target(s, arg) \in Path /\ FileTarget(s, arg) \in Path
<1>1. Root \in Path /\ Root # <<>> /\ sess[s].cwd \in Path
  BY SessionAssumption DEF SessRec
<1>2. sess[s].cwd # <<>>
  BY <1>1, AllowsInside
<1>3. Backward(sess[s].cwd) \in Path
  BY <1>1, <1>2, BackwardType
<1>4. ASSUME NEW arg \in PathArgument
      PROVE  Target(s, arg) \in Path /\ FileTarget(s, arg) \in Path
  <2>1. Join(Root, arg) \in Path /\ Join(sess[s].cwd, arg) \in Path
    BY <1>1, RealJoin
  <2>2. Target(s, arg) \in {Root, Join(Root, arg), Backward(sess[s].cwd), Join(sess[s].cwd, arg)}
    <3>1. CASE arg = RootArg
      BY <3>1 DEF Target
    <3>2. CASE arg # RootArg /\ arg.abs
      BY <3>2 DEF Target
    <3>3. CASE arg # RootArg /\ ~arg.abs /\ arg = UpArg
      BY <3>3 DEF Target
    <3>4. CASE arg # RootArg /\ ~arg.abs /\ arg # UpArg
      BY <3>4 DEF Target
    <3> QED
      BY <3>1, <3>2, <3>3, <3>4
  <2>3. FileTarget(s, arg) \in {Join(Root, arg), Join(sess[s].cwd, arg)}
    BY DEF FileTarget
  <2> QED
    BY <1>1, <1>3, <2>1, <2>2, <2>3
<1> QED
  BY <1>1, <1>2, <1>3, <1>4
-----------------------------------------------------------------------------
(* The tree under mkdir -p, rm -rf and the creation of a file.             *)

LEMMA PrefixesFinite ==
  ASSUME NEW path \in Path
  PROVE  IsFiniteSet(Prefixes(path))
<1> DEFINE S == 0 .. Len(path)
           f == [l \in S |-> SubSeq(path, 1, l)]
<1>1. IsFiniteSet(S)
  <2>1. Len(path) \in Int
    BY DEF Path
  <2> QED
    BY <2>1, FS_Interval
<1>2. Prefixes(path) = {f[l] : l \in S}
  BY DEF Prefixes
<1>3. \A l \in S : f[l] \in Prefixes(path)
  BY DEF Prefixes
<1> HIDE DEF S, f
<1>4. IsFiniteSet({f[l] : l \in S})
  <2>1. f \in [S -> Prefixes(path)]
    BY <1>3 DEF f
  <2>2. \A x \in Prefixes(path) : \E l \in S : f[l] = x
    BY <1>2
  <2>3. f \in Surjection(S, Prefixes(path))
    BY <2>1, <2>2 DEF Surjection
  <2> QED
    BY <1>1, <1>2, <2>3, FS_Surjection
<1> QED
  BY <1>2, <1>4

\* The paths mkdir -p makes, before it comes to a file
Way(path, names) == {q \in Prefixes(path) : \A b \in Prefixes(q) : Real(b) \notin names}

LEMMA WayBack ==
  ASSUME NEW path \in Path, NEW names, NEW q \in Path, NEW e \in Component,
         Append(q, e) \in Way(path, names)
  PROVE  q \in Way(path, names)
<1> DEFINE r == Append(q, e)
<1>1. r \in Prefixes(path) /\ \A b \in Prefixes(r) : Real(b) \notin names
  BY DEF Way
<1>2. r # <<>> /\ Front(r) = q
  BY PathClosed, FrontAppend
<1>3. Prefixes(q) \subseteq Prefixes(r)
  BY PrefixesAppend
<1> HIDE DEF r
<1>4. q \in Prefixes(path)
  BY <1>1, <1>2, PrefixesFront
<1> QED
  BY <1>1, <1>3, <1>4 DEF Way

\* What mkdir -p makes comes with all directories above it, wherever the path
\* goes up and down.
LEMMA MadeWhole ==
  ASSUME NEW path \in Path, NEW names
  PROVE  \A q \in Way(path, names) : Prefixes(Real(q)) \subseteq Made(path, names)
<1> DEFINE M == Made(path, names)
           W == Way(path, names)
           S == {q \in Path : q \in W => Prefixes(Real(q)) \subseteq M}
<1>1. \A q \in W : Real(q) \in M
  BY DEF Made, Way
<1>2. <<>> \in S
  <2> SUFFICES ASSUME <<>> \in W, NEW d \in Prefixes(<<>>) PROVE d \in M
    BY PathClosed, RealEmpty
  <2>1. d \in Path /\ IsPrefix(d, <<>>)
    BY PathClosed, PrefixesAre
  <2>2. d = <<>>
    BY <2>1 DEF IsPrefix, Path
  <2> QED
    BY <1>1, <2>2, RealEmpty
<1>3. \A q \in Path, e \in Component : q \in S => Append(q, e) \in S
  <2> SUFFICES ASSUME NEW q \in Path, NEW e \in Component, q \in S, Append(q, e) \in W
               PROVE  Prefixes(Real(Append(q, e))) \subseteq M
    BY PathClosed
  <2> DEFINE x == Real(q)
  <2>1. Prefixes(x) \subseteq M
    BY WayBack
  <2>2. Real(Append(q, e)) = Enter(x, e) /\ x \in Path
    BY RealAppend, RealType
  <2>3. Enter(x, e) \in M
    BY <1>1, <2>2
  <2> HIDE DEF x, M
  <2>4. CASE e = "" \/ e = "." \/ (e = ".." /\ x = <<>>)
    <3>1. Enter(x, e) = x
      BY <2>4 DEF Enter, Parent
    <3> QED
      BY <2>1, <2>2, <3>1
  <2>5. CASE e = ".." /\ x # <<>>
    <3>1. Enter(x, e) = Front(x)
      BY <2>5 DEF Enter, Parent
    <3>2. Front(x) \in Path /\ IsPrefix(Front(x), x)
      BY <2>2, <2>5, FrontIsPrefix
    <3>3. ASSUME NEW d \in Prefixes(Front(x)) PROVE d \in Prefixes(x)
      <4>1. d \in Path /\ IsPrefix(d, Front(x))
        BY <3>2, PrefixesAre
      <4>2. IsPrefix(d, x)
        BY <2>2, <3>2, <4>1, PathPrefix
      <4> QED
        BY <2>2, <4>1, <4>2, PrefixesAre
    <3> QED
      BY <2>1, <2>2, <3>1, <3>3
  <2>6. CASE e \notin {"", ".", ".."}
    <3>1. Enter(x, e) = Append(x, e)
      BY <2>6 DEF Enter
    <3>2. \A d \in Prefixes(Append(x, e)) : d \in Prefixes(x) \/ d = Append(x, e)
      BY <2>2, PrefixesAppend
    <3> QED
      BY <2>1, <2>2, <2>3, <3>1, <3>2
  <2> QED
    BY <2>4, <2>5, <2>6
<1> HIDE DEF S
<1>4. Path \subseteq S
  BY <1>2, <1>3, PathInduction
<1>5. \A q \in W : q \in Path
  BY PrefixesAre DEF Way
<1> QED
  BY <1>4, <1>5 DEF S

LEMMA MadeTree ==
  ASSUME NEW path \in Path, NEW names
  PROVE  /\ Made(path, names) \subseteq Path /\ IsFiniteSet(Made(path, names))
         /\ Made(path, names) \cap names = {}
         /\ \A p \in Made(path, names) : p # <<>> => Front(p) \in Made(path, names)
<1> DEFINE M == Made(path, names)
           W == Way(path, names)
<1>1. M = {Real(q) : q \in W}
  BY DEF Made, Way
<1>2. \A q \in W : q \in Path /\ q \in Prefixes(path) /\ q \in Prefixes(q) /\ Real(q) \in Path
  BY PrefixesAre, RealType DEF Way
<1>3. \A q \in W : Prefixes(Real(q)) \subseteq M /\ Real(q) \notin names
  BY <1>2, MadeWhole DEF Way
<1>4. IsFiniteSet(W)
  BY PrefixesFinite, FS_Subset DEF Way
<1> HIDE DEF W, M
<1>5. IsFiniteSet(M)
  <2> DEFINE f == [q \in W |-> Real(q)]
  <2>1. f \in [W -> M]
    BY <1>1
  <2>2. \A x \in M : \E q \in W : f[q] = x
    BY <1>1
  <2> HIDE DEF f
  <2>3. f \in Surjection(W, M)
    BY <2>1, <2>2 DEF Surjection
  <2> QED
    BY <1>4, <2>3, FS_Surjection
<1>6. ASSUME NEW p \in M, p # <<>> PROVE Front(p) \in M
  <2>1. PICK q \in W : p = Real(q)
    BY <1>1
  <2>2. p \in Path /\ Prefixes(p) \subseteq M
    BY <1>2, <1>3, <2>1
  <2>3. Front(p) \in Prefixes(p)
    BY <1>6, <2>2, FrontIsPrefix, PrefixesAre
  <2> QED
    BY <2>2, <2>3
<1> QED
  BY <1>1, <1>2, <1>3, <1>5, <1>6 DEF M

LEMMA TreeGrows ==
  ASSUME NEW ds, NEW fs, Tree(ds, fs), NEW path \in Path
  PROVE  Tree(ds \cup Made(path, DOMAIN fs), fs)
<1> DEFINE M == Made(path, DOMAIN fs)
<1>1. /\ M \subseteq Path /\ IsFiniteSet(M) /\ M \cap DOMAIN fs = {}
      /\ \A p \in M : p # <<>> => Front(p) \in M
  BY MadeTree
<1> HIDE DEF M
<1>2. IsFiniteSet(ds \cup M)
  BY <1>1, FS_Union DEF Tree
<1>3. Tree(ds \cup M, fs)
  BY <1>1, <1>2 DEF Tree
<1> QED
  BY <1>3 DEF M

\* A path without dots to a directory that exists leads through such.
LEMMA TreeReach ==
  ASSUME Tree(dirs, files), NEW path \in Path, Named(path), Real(path) \in dirs
  PROVE  Reach(path)
<1> DEFINE S == {q \in Path : Named(q) /\ Real(q) \in dirs => Reach(q)}
<1>1. <<>> \in S
  <2> SUFFICES ASSUME <<>> \in dirs, NEW d \in Prefixes(<<>>) PROVE Real(d) \in dirs
    BY PathClosed, RealEmpty DEF Reach
  <2>1. d \in Path /\ IsPrefix(d, <<>>)
    BY PathClosed, PrefixesAre
  <2>2. d = <<>>
    BY <2>1 DEF IsPrefix, Path
  <2> QED
    BY <2>2, RealEmpty
<1>2. \A q \in Path, e \in Component : q \in S => Append(q, e) \in S
  <2> SUFFICES ASSUME NEW q \in Path, NEW e \in Component, q \in S,
                      Named(Append(q, e)), Real(Append(q, e)) \in dirs
               PROVE  Reach(Append(q, e))
    BY PathClosed
  <2>1. Named(q) /\ Real(Append(q, e)) = IF e = "" THEN Real(q) ELSE Append(Real(q), e)
    BY NamedAppend, RealAppend
  <2>2. Real(q) \in dirs
    <3>1. Real(q) \in Path
      BY RealType
    <3>2. Append(Real(q), e) # <<>> /\ Front(Append(Real(q), e)) = Real(q)
      BY <3>1, PathClosed, FrontAppend
    <3> QED
      BY <2>1, <3>2 DEF Tree
  <2>3. Reach(q)
    BY <2>1, <2>2
  <2>4. \A d \in Prefixes(Append(q, e)) : d \in Prefixes(q) \/ d = Append(q, e)
    BY PrefixesAppend
  <2> QED
    BY <2>3, <2>4 DEF Reach
<1> HIDE DEF S
<1>3. Path \subseteq S
  BY <1>1, <1>2, PathInduction
<1> QED
  BY <1>3 DEF S

\* What is left is still connected: nothing under a path stays without it.
LEMMA TreeShrinks ==
  ASSUME NEW ds, NEW fs, Tree(ds, fs), NEW path \in Path,
         NEW gs, DOMAIN gs = {g \in DOMAIN fs : ~IsPrefix(path, g)}
  PROVE  Tree({d \in ds : ~IsPrefix(path, d)}, gs)
<1> DEFINE rest == {d \in ds : ~IsPrefix(path, d)}
<1>1. rest \subseteq Path /\ DOMAIN gs \subseteq Path /\ DOMAIN gs \cap rest = {}
  BY DEF Tree
<1>2. IsFiniteSet(rest) /\ IsFiniteSet(DOMAIN gs)
  <2>1. rest \subseteq ds /\ DOMAIN gs \subseteq DOMAIN fs
    OBVIOUS
  <2> HIDE DEF rest
  <2> QED
    BY <2>1, FS_Subset DEF Tree
<1>3. ASSUME NEW p \in rest, p # <<>> PROVE Front(p) \in rest
  <2>1. p \in Path /\ ~IsPrefix(path, p) /\ Front(p) \in ds
    BY <1>3 DEF Tree
  <2>2. Front(p) \in Path /\ IsPrefix(Front(p), p)
    BY <1>3, <2>1, FrontIsPrefix
  <2>3. ~IsPrefix(path, Front(p))
    BY <2>1, <2>2, PathPrefix
  <2> QED
    BY <2>1, <2>3
<1> HIDE DEF rest
<1>4. Tree(rest, gs)
  BY <1>1, <1>2, <1>3 DEF Tree
<1> QED
  BY <1>4 DEF rest

\* A file is added that is no directory.
LEMMA TreeFile ==
  ASSUME NEW ds, NEW fs, Tree(ds, fs), NEW path \in Path, path \notin ds,
         NEW gs, DOMAIN gs = DOMAIN fs \cup {path}
  PROVE  Tree(ds, gs)
<1>1. IsFiniteSet(DOMAIN gs)
  <2>1. IsFiniteSet({path})
    BY FS_Singleton
  <2> QED
    BY <2>1, FS_Union DEF Tree
<1> QED
  BY <1>1 DEF Tree
-----------------------------------------------------------------------------
(* One session and its client.                                             *)

LEMMA InvOf ==
  ASSUME Inv, NEW s \in Session
  PROVE  /\ Good(sess[s], remote[s], files, content)
         /\ sess[s] \in SessRec /\ remote[s] \in RemoteRec
BY DEF Inv, Good

LEMMA SessRecords ==
  ASSUME NEW r \in SessRec
  PROVE  /\ \A c \in Commands \cup {"NONE"}, code \in Nat : [r EXCEPT !.cmd = c, !.code = code] \in SessRec
         /\ \A j \in JobRec : [r EXCEPT !.job = j] \in SessRec
         /\ \A x \in FtpState : [r EXCEPT !.state = x] \in SessRec
         /\ \A x \in Path : [r EXCEPT !.cwd = x] \in SessRec
         /\ \A x \in {"ASCII", "BINARY"} : [r EXCEPT !.type = x] \in SessRec
         /\ \A x \in 0 .. MaxLen + 1 : [r EXCEPT !.rest = x] \in SessRec
         /\ \A x \in ConnType, y \in 0 .. MaxLen + 1 : [r EXCEPT !.conn = x, !.rest = y] \in SessRec
BY DEF SessRec

\* A step of one session that leaves the files alone
LEMMA OneSession ==
  ASSUME Inv, NEW s \in Session, NEW r, NEW u,
         files' = files, content' = content, Tree(dirs', files),
         sess' = [sess EXCEPT ![s] = r], remote' = [remote EXCEPT ![s] = u],
         Good(r, u, files, content),
         r.job.kind = "STOR" => sess[s].job.kind = "STOR" /\ r.job.path = sess[s].job.path,
         \/ u.of = remote[s].of /\ u.dirty = remote[s].dirty
         \/ \A t \in Session : sess[t].job.kind = "STOR" /\ sess[t].job.path = u.of => u.dirty
  PROVE  Inv'
<1>1. Tree(dirs', files') /\ Disk(files', content')
  BY DEF Inv
<1>2. r \in SessRec /\ u \in RemoteRec
  BY DEF Good
<1>3. sess' \in [Session -> SessRec] /\ remote' \in [Session -> RemoteRec]
  BY <1>2 DEF Inv
<1>4. \A t \in Session : /\ sess'[t] = IF t = s THEN r ELSE sess[t]
                         /\ remote'[t] = IF t = s THEN u ELSE remote[t]
  BY DEF Inv
<1>5. \A t \in Session : Good(sess'[t], remote'[t], files', content')
  BY <1>4 DEF Inv
<1>6. \A t, v \in Session : Warned(sess'[t], remote'[v])
  <2> SUFFICES ASSUME NEW t \in Session, NEW v \in Session PROVE Warned(sess'[t], remote'[v])
    OBVIOUS
  <2>1. sess'[t].job.kind = "STOR" => sess[t].job.kind = "STOR" /\ sess'[t].job.path = sess[t].job.path
    BY <1>4
  <2>2. Warned(sess[t], remote[v])
    BY DEF Inv
  <2>3. CASE v # s
    BY <1>4, <2>1, <2>2, <2>3 DEF Warned
  <2>4. CASE v = s
    BY <1>4, <2>1, <2>2, <2>4 DEF Warned
  <2> QED
    BY <2>3, <2>4
<1> QED
  BY <1>1, <1>3, <1>5, <1>6 DEF Inv

\* The same when the client has nothing to note
LEMMA OneReply ==
  ASSUME Inv, NEW s \in Session, NEW r,
         files' = files, content' = content, Tree(dirs', files), UNCHANGED remote,
         sess' = [sess EXCEPT ![s] = r], Good(r, remote[s], files, content), r.job.kind # "STOR"
  PROVE  Inv'
<1>1. remote' = [remote EXCEPT ![s] = remote[s]]
  BY DEF Inv
<1> QED
  BY <1>1, OneSession

\* A command that starts no transfer answers: of the session and its client
\* something may change that the files have nothing to do with.
LEMMA Answered ==
  ASSUME Inv, NEW s \in Session, NEW q \in SessRec, NEW u \in RemoteRec,
         NEW c \in Commands \cup {"NONE"}, NEW code \in Nat, code # 226,
         sess[s].job.kind = "none", q.job = sess[s].job,
         Allows(Root, q.cwd), Outside(q), Offset(q, u),
         u.of = remote[s].of, u.copy = remote[s].copy, u.dirty = remote[s].dirty,
         Answer(s, c, q, code), remote' = [remote EXCEPT ![s] = u],
         files' = files, content' = content, Tree(dirs', files)
  PROVE  Inv'
<1> DEFINE r == [q EXCEPT !.cmd = c, !.code = code]
<1>1. r \in SessRec
  BY SessRecords
<1>2. /\ r.state = q.state /\ r.cwd = q.cwd /\ r.conn = q.conn /\ r.rest = q.rest /\ r.job = q.job
      /\ r.code = code
  BY DEF SessRec
<1>3. sess' = [sess EXCEPT ![s] = r]
  BY DEF Answer
<1> HIDE DEF r
<1>4. Good(sess[s], remote[s], files, content)
  BY InvOf
<1>5. Outside(r) /\ Slotted(r) /\ Offset(r, u) /\ Owns(r, files)
  BY <1>2 DEF Outside, Slotted, Offset, Owns
<1>6. Faithful(r, u, files, content)
  BY <1>2, <1>4 DEF Good, Faithful
<1>7. Good(r, u, files, content)
  BY <1>1, <1>2, <1>5, <1>6 DEF Good
<1>8. r.job.kind # "STOR"
  BY <1>2
<1> QED
  BY <1>3, <1>7, <1>8, OneSession

\* The same when the client has nothing to note
LEMMA Replied ==
  ASSUME Inv, NEW s \in Session, NEW q \in SessRec,
         NEW c \in Commands \cup {"NONE"}, NEW code \in Nat, code # 226,
         sess[s].job.kind = "none", q.job = sess[s].job,
         Allows(Root, q.cwd), Outside(q), q.rest = sess[s].rest,
         Answer(s, c, q, code),
         files' = files, content' = content, Tree(dirs', files), UNCHANGED remote
  PROVE  Inv'
<1>1. remote' = [remote EXCEPT ![s] = remote[s]] /\ remote[s] \in RemoteRec
  BY DEF Inv
<1>2. Offset(q, remote[s])
  BY InvOf DEF Good, Offset
<1> QED
  BY <1>1, <1>2, Answered

LEMMA OnlyReply ==
  ASSUME Inv, NEW s \in Session, NEW c \in Commands \cup {"NONE"}, NEW code \in Nat, code # 226,
         sess[s].job.kind = "none", Only(s, c, code)
  PROVE  Inv'
<1>1. sess[s] \in SessRec /\ Allows(Root, sess[s].cwd) /\ Outside(sess[s])
  BY InvOf DEF Good
<1>2. Tree(dirs', files)
  BY DEF Only, Inv
<1> QED
  BY <1>1, <1>2, Replied DEF Only

\* A connection that ends or breaks
LEMMA Starts ==
  ASSUME Inv, NEW s \in Session, NEW u \in RemoteRec,
         u.of = remote[s].of, u.copy = remote[s].copy, u.dirty = remote[s].dirty, u.resume = "no",
         sess' = [sess EXCEPT ![s] = Fresh], remote' = [remote EXCEPT ![s] = u],
         UNCHANGED <<dirs, files, content>>
  PROVE  Inv'
<1>1. Root \in Path /\ Root # <<>> /\ Allows(Root, Root) /\ MaxLen \in Nat
  BY SessionAssumption, AllowsRoot
<1>2. NoJob \in JobRec
  <2>1. <<>> \in Path
    BY PathClosed
  <2> QED
    BY <1>1, <2>1 DEF NoJob, JobRec, JobKind
<1>3. Fresh \in SessRec
  BY <1>1, <1>2 DEF Fresh, SessRec, FtpState, ConnType
<1>4. Good(sess[s], remote[s], files, content)
  BY InvOf
<1>5. /\ Fresh.job = NoJob /\ NoJob.kind = "none" /\ Fresh.cwd = Root /\ Fresh.conn = "NOT_SPECIFIED"
      /\ Fresh.rest = 0 /\ Fresh.code = 220
  BY DEF Fresh, NoJob
<1>6. Outside(Fresh) /\ Slotted(Fresh) /\ Owns(Fresh, files) /\ Offset(Fresh, u)
  BY <1>4, <1>5 DEF Outside, Slotted, Owns, Offset, Good
<1>7. Faithful(Fresh, u, files, content)
  BY <1>4, <1>5 DEF Good, Faithful
<1>8. Good(Fresh, u, files, content)
  BY <1>1, <1>3, <1>5, <1>6, <1>7 DEF Good
<1>9. Tree(dirs', files)
  BY DEF Inv
<1> QED
  BY <1>5, <1>8, <1>9, OneSession
-----------------------------------------------------------------------------
(* The handlers that start no transfer.                                    *)

LEMMA UnhandledKeeps ==
  ASSUME Inv, NEW s \in Session, NEW cmd \in Commands, Unhandled(s, cmd)
  PROVE  Inv'
BY OnlyReply DEF Unhandled, May

LEMMA UserKeeps ==
  ASSUME Inv, NEW s \in Session, FTP_USER(s)
  PROVE  Inv'
<1>1. CASE Only(s, "USER", 430)
  BY <1>1, OnlyReply DEF FTP_USER, May, Commands
<1>2. CASE /\ Answer(s, "USER", [sess[s] EXCEPT !.state = "NEED_PASSWORD"], 331)
           /\ UNCHANGED <<dirs, files, content, remote>>
  <2> DEFINE q == [sess[s] EXCEPT !.state = "NEED_PASSWORD"]
  <2>1. sess[s] \in SessRec /\ Allows(Root, sess[s].cwd) /\ Outside(sess[s])
    BY InvOf DEF Good
  <2>2. q \in SessRec
    BY <2>1, SessRecords DEF FtpState
  <2>3. q.cwd = sess[s].cwd /\ q.conn = sess[s].conn /\ q.job = sess[s].job /\ q.rest = sess[s].rest
    BY <2>1 DEF SessRec
  <2>4. Answer(s, "USER", q, 331) /\ sess[s].state = "NEED_USERNAME" /\ sess[s].job.kind = "none"
    BY <1>2 DEF FTP_USER, May
  <2> HIDE DEF q
  <2>5. Outside(q)
    BY <2>1, <2>3, <2>4 DEF Outside
  <2>6. Tree(dirs', files)
    BY <1>2 DEF Inv
  <2>7. "USER" \in Commands
    BY DEF Commands
  <2> QED
    BY <1>2, <2>1, <2>2, <2>3, <2>4, <2>5, <2>6, <2>7, Replied
<1> QED
  BY <1>1, <1>2 DEF FTP_USER

\* A session that is logged in may do what it likes with the rest of its state.
LEMMA LoggedInReplies ==
  ASSUME Inv, NEW s \in Session, NEW q \in SessRec,
         NEW c \in Commands, NEW code \in Nat, code # 226,
         May(s, c), q.state = "LOGGED_IN", q.job = sess[s].job, Allows(Root, q.cwd),
         q.rest = sess[s].rest, Answer(s, c, q, code), UNCHANGED <<dirs, files, content, remote>>
  PROVE  Inv'
<1>1. Outside(q)
  BY DEF Outside
<1>2. Tree(dirs', files)
  BY DEF Inv
<1> QED
  BY <1>1, <1>2, Replied DEF May

LEMMA PassKeeps ==
  ASSUME Inv, NEW s \in Session, FTP_PASS(s)
  PROVE  Inv'
<1> DEFINE q == [sess[s] EXCEPT !.state = "LOGGED_IN"]
<1>1. sess[s] \in SessRec /\ Allows(Root, sess[s].cwd)
  BY InvOf DEF Good
<1>2. q \in SessRec
  BY <1>1, SessRecords DEF FtpState
<1>3. /\ q.cwd = sess[s].cwd /\ q.job = sess[s].job /\ q.rest = sess[s].rest
      /\ q.state = "LOGGED_IN"
  BY <1>1 DEF SessRec
<1>4. Answer(s, "PASS", q, 230) /\ May(s, "PASS") /\ UNCHANGED <<dirs, files, content, remote>>
  BY DEF FTP_PASS
<1>5. "PASS" \in Commands
  BY DEF Commands
<1> HIDE DEF q
<1> QED
  BY <1>1, <1>2, <1>3, <1>4, <1>5, LoggedInReplies

LEMMA PwdKeeps ==
  ASSUME Inv, NEW s \in Session, FTP_PWD(s)
  PROVE  Inv'
BY OnlyReply DEF FTP_PWD, May, Commands

LEMMA SystKeeps ==
  ASSUME Inv, NEW s \in Session, FTP_SYST(s)
  PROVE  Inv'
BY OnlyReply DEF FTP_SYST, May, Commands

LEMMA TypeKeeps ==
  ASSUME Inv, NEW s \in Session, FTP_TYPE(s)
  PROVE  Inv'
<1>1. PICK x \in {"ASCII", "BINARY"} : Answer(s, "TYPE", [sess[s] EXCEPT !.type = x], 200)
  BY DEF FTP_TYPE
<1> DEFINE q == [sess[s] EXCEPT !.type = x]
<1>2. sess[s] \in SessRec /\ Allows(Root, sess[s].cwd)
  BY InvOf DEF Good
<1>3. q \in SessRec
  BY <1>2, SessRecords
<1>4. /\ q.cwd = sess[s].cwd /\ q.job = sess[s].job /\ q.rest = sess[s].rest
      /\ q.state = sess[s].state
  BY <1>2 DEF SessRec
<1>5. Answer(s, "TYPE", q, 200) /\ May(s, "TYPE") /\ UNCHANGED <<dirs, files, content, remote>>
  BY <1>1 DEF FTP_TYPE
<1>6. "TYPE" \in Commands /\ sess[s].state = "LOGGED_IN"
  BY DEF Commands, FTP_TYPE, LoggedIn
<1> HIDE DEF q
<1> QED
  BY <1>2, <1>3, <1>4, <1>5, <1>6, LoggedInReplies

LEMMA ChangeDirKeeps ==
  ASSUME Inv, NEW s \in Session, NEW cmd \in Commands, May(s, cmd), LoggedIn(s),
         NEW path \in Path, ChangeDir(s, cmd, path)
  PROVE  Inv'
<1>1. sess[s] \in SessRec /\ Allows(Root, sess[s].cwd) /\ sess[s].state = "LOGGED_IN"
  BY InvOf DEF Good, LoggedIn
<1>2. UNCHANGED <<dirs, files, content, remote>>
  BY DEF ChangeDir
<1>3. CASE Allows(Root, path) /\ Answer(s, cmd, [sess[s] EXCEPT !.cwd = path], 250)
  <2> DEFINE q == [sess[s] EXCEPT !.cwd = path]
  <2>1. q \in SessRec
    BY <1>1, SessRecords
  <2>2. q.cwd = path /\ q.job = sess[s].job /\ q.rest = sess[s].rest /\ q.state = sess[s].state
    BY <1>1 DEF SessRec
  <2>3. Answer(s, cmd, q, 250)
    BY <1>3
  <2> HIDE DEF q
  <2> QED
    BY <1>1, <1>2, <1>3, <2>1, <2>2, <2>3, LoggedInReplies
<1>4. CASE Answer(s, cmd, sess[s], 550)
  BY <1>1, <1>2, <1>4, LoggedInReplies
<1> QED
  BY <1>3, <1>4 DEF ChangeDir

LEMMA CwdKeeps ==
  ASSUME Inv, NEW s \in Session, NEW arg \in DirArgs, FTP_CWD(s, arg)
  PROVE  Inv'
<1>1. Target(s, arg) \in Path
  BY InvOf, ArgumentPaths, SessionAssumption DEF Good
<1>2. "CWD" \in Commands
  BY DEF Commands
<1> QED
  BY <1>1, <1>2, ChangeDirKeeps DEF FTP_CWD

LEMMA CdupKeeps ==
  ASSUME Inv, NEW s \in Session, FTP_CDUP(s)
  PROVE  Inv'
<1>1. Backward(sess[s].cwd) \in Path
  BY InvOf, ArgumentPaths DEF Good
<1>2. "CDUP" \in Commands
  BY DEF Commands
<1> QED
  BY <1>1, <1>2, ChangeDirKeeps DEF FTP_CDUP

\* The session starts again, and its client knows that no REST counts.
LEMMA FreshKeeps ==
  ASSUME Inv, NEW s \in Session, sess' = [sess EXCEPT ![s] = Fresh],
         remote' = [remote EXCEPT ![s].resume = "no"], UNCHANGED <<dirs, files, content>>
  PROVE  Inv'
<1> DEFINE u == [remote[s] EXCEPT !.resume = "no"]
<1>1. remote[s] \in RemoteRec
  BY InvOf
<1>2. /\ u \in RemoteRec /\ u.of = remote[s].of /\ u.copy = remote[s].copy
      /\ u.dirty = remote[s].dirty /\ u.resume = "no"
  BY <1>1 DEF RemoteRec
<1>3. remote' = [remote EXCEPT ![s] = u]
  OBVIOUS
<1> HIDE DEF u
<1> QED
  BY <1>2, <1>3, Starts

LEMMA QuitKeeps ==
  ASSUME Inv, NEW s \in Session, FTP_QUIT(s)
  PROVE  Inv'
BY FreshKeeps DEF FTP_QUIT

LEMMA BreakKeeps ==
  ASSUME Inv, NEW s \in Session, Break(s)
  PROVE  Inv'
BY FreshKeeps DEF Break
-----------------------------------------------------------------------------
(* Slots, offsets and refusals.                                            *)

LEMMA SlotKeeps ==
  ASSUME Inv, NEW s \in Session, NEW cmd \in Commands, NEW conn \in ConnType,
         NEW code \in Nat, code # 226, May(s, cmd), LoggedIn(s),
         NEW q \in SessRec, q.cwd = sess[s].cwd, q.job = sess[s].job, q.state = sess[s].state,
         q.rest = 0, Answer(s, cmd, q, code),
         remote' = [remote EXCEPT ![s].resume = "no"], UNCHANGED <<dirs, files, content>>
  PROVE  Inv'
<1> DEFINE u == [remote[s] EXCEPT !.resume = "no"]
<1>1. Good(sess[s], remote[s], files, content) /\ sess[s] \in SessRec /\ remote[s] \in RemoteRec
  BY InvOf
<1>2. /\ u \in RemoteRec /\ u.resume = "no" /\ u.of = remote[s].of /\ u.copy = remote[s].copy
      /\ u.dirty = remote[s].dirty /\ u.sent = remote[s].sent
  BY <1>1 DEF RemoteRec
<1>5. sess[s].job.kind = "none" /\ sess[s].state = "LOGGED_IN"
  BY DEF May, LoggedIn
<1>6. remote' = [remote EXCEPT ![s] = u]
  OBVIOUS
<1> HIDE DEF u
<1>7. Outside(q) /\ Offset(q, u) /\ Allows(Root, q.cwd)
  BY <1>1, <1>2, <1>5 DEF Outside, Offset, Good
<1>8. Tree(dirs', files)
  BY DEF Inv
<1> QED
  BY <1>2, <1>5, <1>6, <1>7, <1>8, Answered

LEMMA OpenKeeps ==
  ASSUME Inv, NEW s \in Session, NEW cmd \in Commands, NEW conn \in ConnType,
         NEW code \in Nat, code # 226, Open(s, cmd, conn, code)
  PROVE  Inv'
<1>1. PICK c2 \in ConnType, code2 \in Nat :
        code2 # 226 /\ Answer(s, cmd, [sess[s] EXCEPT !.conn = c2, !.rest = 0], code2)
  <2>1. CASE Answer(s, cmd, [sess[s] EXCEPT !.conn = conn, !.rest = 0], code)
    BY <2>1, Zenon
  <2>2. CASE Answer(s, cmd, [sess[s] EXCEPT !.conn = "NOT_SPECIFIED", !.rest = 0], 434)
    <3>1. PICK c2 \in ConnType, code2 \in Nat : c2 = "NOT_SPECIFIED" /\ code2 = 434
      BY DEF ConnType
    <3>2. Answer(s, cmd, [sess[s] EXCEPT !.conn = c2, !.rest = 0], code2) /\ code2 # 226
      BY <2>2, <3>1
    <3> QED
      BY <3>2, Zenon
  <2> QED
    BY <2>1, <2>2 DEF Open
<1> DEFINE q == [sess[s] EXCEPT !.conn = c2, !.rest = 0]
<1>2. q \in SessRec
  <2>1. 0 \in 0 .. MaxLen + 1 /\ sess[s] \in SessRec
    BY SessionAssumption, InvOf
  <2> QED
    BY <2>1 DEF SessRec
<1>3. q.cwd = sess[s].cwd /\ q.job = sess[s].job /\ q.state = sess[s].state /\ q.rest = 0
  BY InvOf DEF SessRec
<1>4. Answer(s, cmd, q, code2)
  BY <1>1
<1> HIDE DEF q
<1> QED
  BY <1>1, <1>2, <1>3, <1>4, SlotKeeps DEF Open

LEMMA PasvKeeps ==
  ASSUME Inv, NEW s \in Session, FTP_PASV(s)
  PROVE  Inv'
BY OpenKeeps DEF FTP_PASV, Commands, ConnType

LEMMA PortKeeps ==
  ASSUME Inv, NEW s \in Session, FTP_PORT(s)
  PROVE  Inv'
BY OpenKeeps DEF FTP_PORT, Commands, ConnType

LEMMA RestKeeps ==
  ASSUME Inv, NEW s \in Session, NEW resume \in {"RETR", "STOR", "part"},
         NEW offset \in 0 .. MaxLen + 1, FTP_REST(s, resume, offset)
  PROVE  Inv'
<1> DEFINE u == [remote[s] EXCEPT !.resume = resume]
           q == [sess[s] EXCEPT !.rest = offset]
<1>1. Good(sess[s], remote[s], files, content) /\ sess[s] \in SessRec /\ remote[s] \in RemoteRec
  BY InvOf
<1>2. "REST" \in Commands /\ sess[s].job.kind = "none" /\ sess[s].state = "LOGGED_IN"
  BY DEF FTP_REST, May, LoggedIn, Commands
<1>3. CASE Only(s, "REST", 434)
  BY <1>2, <1>3, OnlyReply
<1>4. CASE /\ Answer(s, "REST", q, 350)
           /\ remote' = [remote EXCEPT ![s].resume = resume]
           /\ UNCHANGED <<dirs, files, content>>
  <2>2. q \in SessRec
    BY <1>1, SessRecords
  <2>3. q.cwd = sess[s].cwd /\ q.job = sess[s].job /\ q.state = sess[s].state /\ q.rest = offset
    BY <1>1 DEF SessRec
  <2>4. /\ u \in RemoteRec /\ u.resume = resume /\ u.of = remote[s].of /\ u.copy = remote[s].copy
        /\ u.dirty = remote[s].dirty /\ u.sent = remote[s].sent
    BY <1>1 DEF RemoteRec
  <2>5. remote' = [remote EXCEPT ![s] = u] /\ UNCHANGED <<dirs, files, content>>
    BY <1>4
  <2>6. Answer(s, "REST", q, 350)
    BY <1>4
  <2>7. resume = "RETR" => offset = Len(u.copy)
    BY <2>4 DEF FTP_REST
  <2> HIDE DEF q, u
  <2>8. Outside(q) /\ Offset(q, u) /\ Allows(Root, q.cwd)
    BY <1>1, <1>2, <2>3, <2>4, <2>7 DEF Outside, Offset, Good
  <2>9. Tree(dirs', files) /\ files' = files /\ content' = content
    BY <2>5 DEF Inv
  <2>10. q.job = sess[s].job /\ Outside(q) /\ Offset(q, u) /\ Allows(Root, q.cwd)
    BY <2>3, <2>8
  <2>11. /\ u.of = remote[s].of /\ u.copy = remote[s].copy /\ u.dirty = remote[s].dirty
         /\ u \in RemoteRec
    BY <2>4
  <2>12. PICK code \in Nat : code = 350
    OBVIOUS
  <2>13. Answer(s, "REST", q, code) /\ code # 226 /\ "REST" \in Commands \cup {"NONE"}
    BY <1>2, <2>6, <2>12
  <2> QED
    BY <1>2, <2>2, <2>5, <2>9, <2>10, <2>11, <2>13, Answered
<1> QED
  BY <1>3, <1>4 DEF FTP_REST

LEMMA RefuseKeeps ==
  ASSUME Inv, NEW s \in Session, NEW cmd \in Commands, NEW code \in Nat, code # 226,
         sess[s].job.kind = "none", Refuse(s, cmd, code)
  PROVE  Inv'
BY OnlyReply DEF Refuse

LEMMA AppeKeeps ==
  ASSUME Inv, NEW s \in Session, FTP_APPE(s)
  PROVE  Inv'
BY RefuseKeeps DEF FTP_APPE, NoConnection, May, Commands
-----------------------------------------------------------------------------
(* Directories are made and removed.                                       *)

\* Good and Warned speak of the names of files only where there are some.
LEMMA FewerFiles ==
  ASSUME NEW fs, NEW gs, NEW ct, DOMAIN gs \subseteq DOMAIN fs, \A f \in DOMAIN gs : gs[f] = fs[f]
  PROVE  /\ \A r, u : Good(r, u, fs, ct) => Good(r, u, gs, ct)
         /\ Disk(fs, ct) /\ gs = [f \in DOMAIN gs |-> gs[f]] => Disk(gs, ct)
<1>1. ASSUME NEW r, NEW u, Good(r, u, fs, ct) PROVE Good(r, u, gs, ct)
  <2>1. Owns(r, gs)
    BY <1>1 DEF Good, Owns
  <2>2. Faithful(r, u, gs, ct)
    BY <1>1 DEF Good, Faithful
  <2> QED
    BY <1>1, <2>1, <2>2 DEF Good
<1>2. ASSUME Disk(fs, ct), gs = [f \in DOMAIN gs |-> gs[f]] PROVE Disk(gs, ct)
  <2>1. \A f \in DOMAIN gs : gs[f] \in Inode
    BY <1>2 DEF Disk
  <2>2. gs \in [DOMAIN gs -> Inode]
    BY <1>2, <2>1
  <2>3. IsInjective(gs)
    BY <1>2 DEF Disk, IsInjective
  <2> QED
    BY <1>2, <2>2, <2>3 DEF Disk
<1> QED
  BY <1>1, <1>2

LEMMA MkdKeeps ==
  ASSUME Inv, NEW s \in Session, NEW arg \in DirArgs, FTP_MKD(s, arg)
  PROVE  Inv'
<1> DEFINE path == Target(s, arg)
<1>1. Good(sess[s], remote[s], files, content) /\ sess[s] \in SessRec /\ path \in Path
  BY InvOf, ArgumentPaths, SessionAssumption DEF Good
<1>2. "MKD" \in Commands /\ sess[s].job.kind = "none" /\ UNCHANGED <<files, content, remote>>
  BY DEF FTP_MKD, May, Commands
<1>3. PICK code \in {257, 550} : Answer(s, "MKD", sess[s], code)
  BY DEF FTP_MKD
<1>4. Tree(dirs', files)
  <2>1. CASE UNCHANGED dirs
    BY <2>1 DEF Inv
  <2>2. CASE MakeDirs(path)
    BY <1>1, <2>2, TreeGrows DEF Inv, MakeDirs
  <2> QED
    BY <2>1, <2>2 DEF FTP_MKD
<1>5. Outside(sess[s]) /\ Allows(Root, sess[s].cwd)
  BY <1>1 DEF Good
<1> QED
  BY <1>1, <1>2, <1>3, <1>4, <1>5, Replied

LEMMA RmdKeeps ==
  ASSUME Inv, NEW s \in Session, NEW arg \in DirArgs, FTP_RMD(s, arg)
  PROVE  Inv'
<1> DEFINE path == Target(s, arg)
<1>1. Good(sess[s], remote[s], files, content) /\ sess[s] \in SessRec /\ path \in Path
  BY InvOf, ArgumentPaths, SessionAssumption DEF Good
<1>2. "RMD" \in Commands /\ sess[s].job.kind = "none" /\ UNCHANGED <<content, remote>>
  BY DEF FTP_RMD, May, Commands
<1>3. Outside(sess[s]) /\ Allows(Root, sess[s].cwd)
  BY <1>1 DEF Good
<1>4. CASE UNCHANGED <<dirs, files>> /\ Answer(s, "RMD", sess[s], 550)
  <2>1. Tree(dirs', files)
    BY <1>4 DEF Inv
  <2> QED
    BY <1>1, <1>2, <1>3, <1>4, <2>1, Replied
<1>5. CASE EraseTree(path) /\ Answer(s, "RMD", sess[s], 250)
  <2>1. Real(path) \in Path
    BY <1>1, RealType
  <2> DEFINE gs == [f \in {g \in DOMAIN files : ~IsPrefix(Real(path), g)} |-> files[f]]
             ds == {d \in dirs : ~IsPrefix(Real(path), d)}
  <2>2. files' = gs /\ dirs' = ds
    BY <1>5 DEF EraseTree
  <2>3. DOMAIN gs = {g \in DOMAIN files : ~IsPrefix(Real(path), g)} /\ gs = [f \in DOMAIN gs |-> gs[f]]
        /\ DOMAIN gs \subseteq DOMAIN files /\ \A f \in DOMAIN gs : gs[f] = files[f]
    OBVIOUS
  <2> HIDE DEF gs
  <2>4. Tree(ds, gs)
    BY <2>1, <2>3, TreeShrinks DEF Inv
  <2>5. Disk(gs, content)
    BY <2>3, FewerFiles DEF Inv
  <2> DEFINE r == [sess[s] EXCEPT !.cmd = "RMD", !.code = 250]
  <2>6. r \in SessRec
    BY <1>1, <1>2, SessRecords
  <2>7. /\ r.state = sess[s].state /\ r.cwd = sess[s].cwd /\ r.conn = sess[s].conn
        /\ r.rest = sess[s].rest /\ r.job = sess[s].job /\ r.code = 250
    BY <1>1 DEF SessRec
  <2>8. sess' = [sess EXCEPT ![s] = r]
    BY <1>5 DEF Answer
  <2> HIDE DEF r, ds
  <2>9. \A t \in Session : sess'[t] = IF t = s THEN r ELSE sess[t]
    BY <2>8 DEF Inv
  <2>10. sess' \in [Session -> SessRec]
    BY <2>6, <2>8 DEF Inv
  <2>11. Good(r, remote[s], gs, content)
    <3>1. Good(sess[s], remote[s], gs, content)
      BY <1>1, <2>3, FewerFiles
    <3>2. Outside(r) /\ Slotted(r) /\ Offset(r, remote[s]) /\ Owns(r, gs)
      BY <1>2, <2>7, <3>1 DEF Good, Outside, Slotted, Offset, Owns
    <3>3. Faithful(r, remote[s], gs, content)
      BY <2>7, <3>1 DEF Good, Faithful
    <3> QED
      BY <2>6, <2>7, <3>1, <3>2, <3>3 DEF Good
  <2>12. \A t \in Session : Good(sess'[t], remote'[t], gs, content)
    BY <1>2, <2>3, <2>9, <2>11, FewerFiles DEF Inv
  <2>13. \A t, v \in Session : Warned(sess'[t], remote'[v])
    BY <1>2, <2>7, <2>9 DEF Inv, Warned
  <2> QED
    BY <1>2, <2>2, <2>4, <2>5, <2>10, <2>12, <2>13 DEF Inv
<1> QED
  BY <1>4, <1>5 DEF FTP_RMD
-----------------------------------------------------------------------------
(* Listings and downloads.                                                 *)

LEMMA ListKeeps ==
  ASSUME Inv, NEW s \in Session, FTP_LIST(s)
  PROVE  Inv'
<1>1. Good(sess[s], remote[s], files, content) /\ sess[s] \in SessRec /\ remote[s] \in RemoteRec
  BY InvOf
<1>2. sess[s].job.kind = "none" /\ sess[s].state = "LOGGED_IN"
  BY DEF FTP_LIST, May, LoggedIn
<1>3. CASE Only(s, "LIST", 550)
  BY <1>2, <1>3, OnlyReply DEF Commands
<1>4. CASE Only(s, "LIST", 451)
  BY <1>2, <1>4, OnlyReply DEF Commands
<1> DEFINE j == Job("LIST", sess[s].cwd, None, sess[s].rest, Listed(sess[s].cwd))
           r == [[sess[s] EXCEPT !.job = j] EXCEPT !.cmd = "LIST", !.code = 150]
           u == [remote[s] EXCEPT !.resume = "no"]
<1>5. CASE /\ sess[s].conn # "NOT_SPECIFIED"
           /\ Answer(s, "LIST", [sess[s] EXCEPT !.job = j], 150)
           /\ remote' = [remote EXCEPT ![s] = u]
           /\ UNCHANGED <<dirs, files, content>>
  <2>1. Listed(sess[s].cwd) \in Nat
    <3>1. Entries(sess[s].cwd) \subseteq dirs \cup DOMAIN files
      BY DEF Entries
    <3>2. IsFiniteSet(dirs \cup DOMAIN files)
      BY FS_Union DEF Inv, Tree
    <3> QED
      BY <3>1, <3>2, FS_Subset, FS_CardinalityType DEF Listed
  <2>2. sess[s].cwd \in Path /\ sess[s].rest \in 0 .. MaxLen + 1
    BY <1>1 DEF SessRec
  <2>3. j \in JobRec /\ j.kind = "LIST"
    <3>1. "LIST" \in JobKind /\ None \in Inode \cup {None}
      BY SessionAssumption DEF JobKind
    <3> QED
      BY <2>1, <2>2, <3>1 DEF Job, JobRec
  <2> HIDE DEF j
  <2>4. /\ r \in SessRec /\ r.state = sess[s].state /\ r.cwd = sess[s].cwd /\ r.conn = sess[s].conn
        /\ r.rest = sess[s].rest /\ r.job = j /\ r.cmd = "LIST" /\ r.code = 150
    <3> DEFINE p == [sess[s] EXCEPT !.job = j]
    <3>1. p \in SessRec
      BY <1>1, <2>3, SessRecords
    <3>2. /\ p.state = sess[s].state /\ p.cwd = sess[s].cwd /\ p.conn = sess[s].conn
          /\ p.rest = sess[s].rest /\ p.job = j
      BY <1>1 DEF SessRec
    <3>3. r = [p EXCEPT !.cmd = "LIST", !.code = 150]
      OBVIOUS
    <3> HIDE DEF p, r
    <3> QED
      BY <3>1, <3>2, <3>3 DEF SessRec, Commands
  <2>5. sess' = [sess EXCEPT ![s] = r]
    BY <1>5 DEF Answer
  <2> HIDE DEF r
  <2>6. /\ u \in RemoteRec /\ u.of = remote[s].of /\ u.copy = remote[s].copy
         /\ u.dirty = remote[s].dirty /\ u.resume = "no"
    BY <1>1 DEF RemoteRec
  <2> HIDE DEF u
  <2>7. Outside(r) /\ Slotted(r) /\ Offset(r, u) /\ Owns(r, files)
    BY <1>1, <1>2, <1>5, <2>3, <2>4, <2>6 DEF Good, Outside, Slotted, Offset, Owns
  <2>8. Faithful(r, u, files, content)
    BY <1>1, <2>3, <2>4, <2>6 DEF Good, Faithful
  <2>9. Good(r, u, files, content)
    BY <1>1, <2>4, <2>7, <2>8, <2>6 DEF Good
  <2>10. Tree(dirs', files) /\ r.job.kind # "STOR"
    BY <1>5, <2>3, <2>4 DEF Inv
  <2> QED
    BY <1>5, <2>5, <2>9, <2>10, <2>6, OneSession
<1> QED
  BY <1>3, <1>4, <1>5 DEF FTP_LIST

\* The file a path leads to, when there is one, and no directory
LEMMA FileFound ==
  ASSUME Inv, NEW path \in Path
  PROVE  /\ FileAt(path) \in Inode \cup {None}
         /\ FileAt(path) # None => Real(path) \in DOMAIN files /\ FileAt(path) = files[Real(path)]
         /\ Real(path) \in DOMAIN files => ~IsDir(path)
<1>1. None \notin Inode
  BY SessionAssumption
<1>2. Real(path) \in DOMAIN files => files[Real(path)] \in Inode /\ Real(path) \notin dirs
  BY DEF Inv, Disk, Tree
<1>3. IsDir(path) => Real(path) \in dirs
  <2>1. path \in Prefixes(path)
    BY PrefixesAre
  <2> QED
    BY <2>1 DEF IsDir, Reach
<1> QED
  BY <1>1, <1>2, <1>3 DEF FileAt

\* The download of the rest of the file, or of another one
LEMMA RetrKeeps ==
  ASSUME Inv, NEW s \in Session, NEW arg \in FileArgs, FTP_RETR(s, arg)
  PROVE  Inv'
<1> DEFINE path == FileTarget(s, arg)
           file == Real(path)
           len == IF IsDir(path) THEN MaxLen + 1 ELSE Len(content[FileAt(path)])
           j == Job("RETR", path, None, sess[s].rest, len)
           r == [[sess[s] EXCEPT !.job = j] EXCEPT !.cmd = "RETR", !.code = 150]
           more == remote[s].resume = "RETR" /\ remote[s].of = file
           dirty == remote[s].resume # "no" \/ Stored(file)
           u == IF more THEN [remote[s] EXCEPT !.resume = "no"] ELSE
                [remote[s] EXCEPT !.of = file, !.copy = <<>>, !.resume = "no", !.dirty = dirty]
<1>1. Good(sess[s], remote[s], files, content) /\ sess[s] \in SessRec /\ remote[s] \in RemoteRec
  BY InvOf
<1>2. sess[s].job.kind = "none" /\ sess[s].state = "LOGGED_IN" /\ "RETR" \in Commands
  BY DEF FTP_RETR, May, LoggedIn, Commands
<1>3. CASE \E code \in {550} : Refuse(s, "RETR", code)
  BY <1>2, <1>3, RefuseKeeps
<1>4. CASE /\ sess[s].conn # "NOT_SPECIFIED" /\ Exists(path)
           /\ Answer(s, "RETR", [sess[s] EXCEPT !.job = j], 150)
           /\ remote' = [remote EXCEPT ![s] = u]
           /\ UNCHANGED <<dirs, files, content>>
  <2>1. path \in Path /\ file \in Path
    <3>1. path \in Path
      BY <1>1, ArgumentPaths, SessionAssumption DEF Good
    <3> QED
      BY <3>1, RealType
  <2>2. len \in Nat /\ (file \in DOMAIN files => len = Len(content[files[file]]))
    <3>1. ~IsDir(path) => /\ FileAt(path) \in Inode /\ FileAt(path) = files[file]
      BY <1>4, <2>1, FileFound DEF Exists
    <3>2. file \in DOMAIN files => ~IsDir(path)
      BY <2>1, FileFound
    <3>3. ASSUME ~IsDir(path) PROVE Len(content[FileAt(path)]) \in Nat
      <4>1. content[FileAt(path)] \in Seq(0 .. MaxLen)
        BY <3>1, <3>3 DEF Inv, Disk
      <4> QED
        BY <4>1
    <3> QED
      BY <3>1, <3>2, <3>3, SessionAssumption
  <2>3. sess[s].rest \in 0 .. MaxLen + 1
    BY <1>1 DEF SessRec
  <2> HIDE DEF path, len
  <2>4. /\ j \in JobRec /\ j.kind = "RETR" /\ j.path = path /\ j.ino = None
        /\ j.at = sess[s].rest /\ j.len = len
    BY <2>1, <2>2, <2>3 DEF Job, JobRec, JobKind
  <2> HIDE DEF j
  <2>5. /\ r \in SessRec /\ r.state = sess[s].state /\ r.cwd = sess[s].cwd /\ r.conn = sess[s].conn
        /\ r.rest = sess[s].rest /\ r.job = j /\ r.cmd = "RETR" /\ r.code = 150
    <3> DEFINE p == [sess[s] EXCEPT !.job = j]
    <3>1. p \in SessRec
      BY <1>1, <2>4, SessRecords
    <3>2. /\ p.state = sess[s].state /\ p.cwd = sess[s].cwd /\ p.conn = sess[s].conn
          /\ p.rest = sess[s].rest /\ p.job = j
      BY <1>1 DEF SessRec
    <3>3. r = [p EXCEPT !.cmd = "RETR", !.code = 150]
      OBVIOUS
    <3> HIDE DEF p, r
    <3> QED
      BY <3>1, <3>2, <3>3 DEF SessRec, Commands
  <2>6. sess' = [sess EXCEPT ![s] = r]
    BY <1>4 DEF Answer
  <2> HIDE DEF r
  <2>7. dirty \in BOOLEAN /\ more \in BOOLEAN
    BY DEF Stored
  <2>8. /\ dirty = (remote[s].resume # "no" \/ Stored(file))
        /\ more = (remote[s].resume = "RETR" /\ remote[s].of = file)
    OBVIOUS
  <2> HIDE DEF dirty, more
  <2>9. /\ u \in RemoteRec /\ u.resume = "no"
        /\ u.of = (IF more THEN remote[s].of ELSE file)
        /\ u.copy = (IF more THEN remote[s].copy ELSE <<>>)
        /\ u.dirty = (IF more THEN remote[s].dirty ELSE dirty)
    <3>1. u = IF more THEN [remote[s] EXCEPT !.resume = "no"] ELSE
              [remote[s] EXCEPT !.of = file, !.copy = <<>>, !.resume = "no", !.dirty = dirty]
      OBVIOUS
    <3>2. remote[s] \in RemoteRec /\ file \in Path
      BY <1>1, <2>1
    <3> HIDE DEF u, file
    <3>3. CASE more
      <4>1. u = [remote[s] EXCEPT !.resume = "no"]
        BY <3>1, <3>3
      <4>2. /\ u \in RemoteRec /\ u.resume = "no" /\ u.of = remote[s].of /\ u.copy = remote[s].copy
            /\ u.dirty = remote[s].dirty
        BY <3>2, <4>1 DEF RemoteRec
      <4> QED
        BY <3>3, <4>2
    <3>4. CASE ~more
      <4>1. u = [remote[s] EXCEPT !.of = file, !.copy = <<>>, !.resume = "no", !.dirty = dirty]
        BY <3>1, <3>4
      <4>2. <<>> \in Seq(0 .. MaxLen)
        OBVIOUS
      <4>3. u \in RemoteRec /\ u.resume = "no" /\ u.of = file /\ u.copy = <<>> /\ u.dirty = dirty
        BY <2>7, <3>2, <4>1, <4>2 DEF RemoteRec
      <4> QED
        BY <3>4, <4>3
    <3> QED
      BY <3>3, <3>4
  <2>10. remote' = [remote EXCEPT ![s] = u]
    BY <1>4
  <2> HIDE DEF u
  <2>11. r.job.kind # "STOR" /\ Tree(dirs', files) /\ files' = files /\ content' = content
    BY <1>4, <2>4, <2>5 DEF Inv
  <2>12. Outside(r) /\ Slotted(r) /\ Owns(r, files) /\ Allows(Root, r.cwd)
    BY <1>1, <1>2, <1>4, <2>4, <2>5 DEF Good, Outside, Slotted, Owns
  <2>13. u.of = file
    BY <2>8, <2>9
  <2>14. CASE more
    <3>1. u.of = remote[s].of /\ u.copy = remote[s].copy /\ u.dirty = remote[s].dirty
      BY <2>9, <2>14
    <3>2. Len(u.copy) = r.job.at /\ Len(u.copy) <= MaxLen
      BY <1>1, <2>4, <2>5, <2>8, <2>14, <3>1 DEF Good, Offset
    <3>3. Offset(r, u)
      BY <2>3, <2>4, <2>5, <2>9, <2>13, <3>2 DEF Offset, file
    <3>4. Faithful(r, u, files, content)
      BY <1>1, <2>2, <2>4, <2>5, <2>13, <3>1 DEF Good, Faithful
    <3>5. Good(r, u, files, content)
      BY <2>5, <2>9, <2>12, <3>3, <3>4 DEF Good
    <3> QED
      BY <2>6, <2>9, <2>10, <2>11, <3>1, <3>5, OneSession
  <2>15. CASE ~more
    <3>1. u.copy = <<>> /\ u.dirty = dirty /\ Len(<<>>) = 0
      BY <2>9, <2>15
    <3>2. \A t \in Session : sess[t].job.kind = "STOR" /\ sess[t].job.path = u.of => u.dirty
      BY <2>8, <2>13, <3>1 DEF Stored
    <3>3. Len(u.copy) <= r.job.at /\ (u.dirty \/ Len(u.copy) = r.job.at)
      <4>1. remote[s].resume = "no" => sess[s].rest = 0
        BY <1>1, <1>2 DEF Good, Offset
      <4>2. u.dirty \/ remote[s].resume = "no"
        BY <2>8, <3>1
      <4>3. r.job.at = sess[s].rest /\ sess[s].rest \in Nat /\ Len(u.copy) = 0
        BY <2>3, <2>4, <2>5, <3>1, SessionAssumption
      <4> QED
        BY <4>1, <4>2, <4>3
    <3>4. Offset(r, u)
      BY <2>4, <2>5, <2>9, <2>13, <3>1, <3>3, SessionAssumption DEF Offset, file
    <3>5. Faithful(r, u, files, content)
      <4> SUFFICES ASSUME file \in DOMAIN files
                   PROVE  IsPrefix(<<>>, content[files[file]])
        BY <2>2, <2>4, <2>5, <2>13, <3>1 DEF Faithful
      <4>1. content[files[file]] \in Seq(0 .. MaxLen)
        BY DEF Inv, Disk
      <4> QED
        BY <4>1, PrefixOrder
    <3>6. Good(r, u, files, content)
      BY <2>5, <2>9, <2>12, <3>4, <3>5 DEF Good
    <3> QED
      BY <2>6, <2>10, <2>11, <3>2, <3>6, OneSession
  <2> QED
    BY <2>14, <2>15
<1>5. CASE sess[s].conn # "NOT_SPECIFIED" /\ ~(~GoesUp(arg) /\ Allows(Root, path) /\ Exists(path))
  BY <1>3, <1>5 DEF FTP_RETR, NoConnection
<1>6. CASE NoConnection(s, "RETR")
  BY <1>3, <1>6 DEF NoConnection
<1>7. CASE sess[s].conn # "NOT_SPECIFIED" /\ Exists(path) /\ ~Refuse(s, "RETR", 550)
  BY <1>4, <1>7 DEF FTP_RETR, NoConnection
<1> QED
  BY <1>3, <1>5, <1>6, <1>7 DEF FTP_RETR, NoConnection
-----------------------------------------------------------------------------
(* The steps of a transfer.                                                *)

\* The end of a transfer: what the client has by then is still a prefix of
\* the file, and the file when it was a download.
LEMMA Completed ==
  ASSUME Inv, NEW s \in Session, sess[s].job.kind \in {"RETR", "STOR", "LIST"}, Complete(s),
         NEW u \in RemoteRec, remote' = [remote EXCEPT ![s] = u], u.resume = "no",
         u.of = remote[s].of, u.dirty = remote[s].dirty, Len(u.copy) <= MaxLen,
         u.of \in DOMAIN files /\ ~u.dirty =>
           /\ IsPrefix(u.copy, content[files[u.of]])
           /\ sess[s].job.kind = "RETR" => u.copy = content[files[u.of]],
         UNCHANGED <<dirs, files, content>>
  PROVE  Inv'
<1> DEFINE r == [sess[s] EXCEPT !.job = NoJob, !.rest = 0, !.conn = "NOT_SPECIFIED", !.code = 226]
<1>1. Good(sess[s], remote[s], files, content) /\ sess[s] \in SessRec
  BY InvOf
<1>2. NoJob \in JobRec /\ NoJob.kind = "none"
  <2>1. <<>> \in Path /\ MaxLen \in Nat
    BY PathClosed, SessionAssumption
  <2> QED
    BY <2>1 DEF NoJob, JobRec, JobKind
<1>3. r \in SessRec
  <2> DEFINE p == [sess[s] EXCEPT !.job = NoJob]
             q == [p EXCEPT !.rest = 0, !.conn = "NOT_SPECIFIED"]
  <2>1. p \in SessRec
    BY <1>1, <1>2, SessRecords
  <2>2. 0 \in 0 .. MaxLen + 1 /\ "NOT_SPECIFIED" \in ConnType
    BY SessionAssumption DEF ConnType
  <2>3. r = [q EXCEPT !.code = 226]
    OBVIOUS
  <2> HIDE DEF p
  <2>4. q \in SessRec
    BY <2>1, <2>2 DEF SessRec
  <2> HIDE DEF q, r
  <2> QED
    BY <2>3, <2>4 DEF SessRec
<1>4. /\ r.state = sess[s].state /\ r.cwd = sess[s].cwd /\ r.cmd = sess[s].cmd
      /\ r.job = NoJob /\ r.rest = 0 /\ r.conn = "NOT_SPECIFIED"
  BY <1>1 DEF SessRec
<1>5. sess' = [sess EXCEPT ![s] = r]
  BY DEF Complete
<1> HIDE DEF r
<1>6. Outside(r) /\ Slotted(r) /\ Offset(r, u) /\ Owns(r, files)
  BY <1>1, <1>2, <1>4 DEF Good, Outside, Slotted, Offset, Owns
<1>7. Faithful(r, u, files, content)
  BY <1>1, <1>2, <1>4 DEF Good, Faithful, Slotted
<1>8. Good(r, u, files, content)
  BY <1>1, <1>3, <1>4, <1>6, <1>7 DEF Good
<1>9. Tree(dirs', files) /\ r.job.kind # "STOR"
  BY <1>2, <1>4 DEF Inv
<1> QED
  BY <1>5, <1>8, <1>9, OneSession

\* A transfer that is lost: nothing is known but that it was there.
LEMMA LosesJob ==
  ASSUME Inv, NEW s \in Session, sess[s].job.kind # "none",
         sess' = [sess EXCEPT ![s].job.kind = "lost"], UNCHANGED <<dirs, files, content, remote>>
  PROVE  Inv'
<1> DEFINE j == [sess[s].job EXCEPT !.kind = "lost"]
           r == [sess[s] EXCEPT !.job = j]
<1>1. Good(sess[s], remote[s], files, content) /\ sess[s] \in SessRec /\ sess[s].job \in JobRec
  BY InvOf DEF SessRec
<1>2. j \in JobRec /\ j.kind = "lost"
  BY <1>1 DEF JobRec, JobKind
<1>3. sess' = [sess EXCEPT ![s] = r]
  OBVIOUS
<1> HIDE DEF j
<1>4. r \in SessRec
  BY <1>1, <1>2, SessRecords
<1>5. /\ r.state = sess[s].state /\ r.cwd = sess[s].cwd /\ r.conn = sess[s].conn /\ r.rest = sess[s].rest
      /\ r.job = j /\ r.cmd = sess[s].cmd /\ r.code = sess[s].code
  BY <1>1 DEF SessRec
<1> HIDE DEF r
<1>6. Outside(r) /\ Slotted(r) /\ Offset(r, remote[s]) /\ Owns(r, files)
  BY <1>1, <1>2, <1>5 DEF Good, Outside, Slotted, Offset, Owns, NoJob
<1>7. Faithful(r, remote[s], files, content)
  BY <1>1, <1>2, <1>5 DEF Good, Faithful
<1>8. Good(r, remote[s], files, content)
  BY <1>1, <1>4, <1>5, <1>6, <1>7 DEF Good
<1>9. r.job.kind # "STOR" /\ files' = files /\ content' = content /\ UNCHANGED remote /\ Tree(dirs', files)
  BY <1>2, <1>5 DEF Inv
<1> QED
  BY <1>3, <1>8, <1>9, OneReply

LEMMA EndsKeep ==
  ASSUME Inv, NEW s \in Session, SendListing(s) \/ EndUpload(s)
  PROVE  Inv'
<1>1. sess[s].job.kind \in {"STOR", "LIST"} /\ UNCHANGED <<dirs, files, content, remote>>
  BY DEF SendListing, EndUpload
<1>2. Good(sess[s], remote[s], files, content) /\ remote[s] \in RemoteRec
  BY InvOf
<1>3. remote[s].resume = "no" /\ Len(remote[s].copy) <= MaxLen
  BY <1>1, <1>2 DEF Good, Offset
<1>4. remote[s].of \in DOMAIN files /\ ~remote[s].dirty =>
        IsPrefix(remote[s].copy, content[files[remote[s].of]])
  BY <1>2 DEF Good, Faithful
<1>5. remote' = [remote EXCEPT ![s] = remote[s]]
  BY <1>1 DEF Inv
<1>6. CASE Complete(s)
  BY <1>1, <1>2, <1>3, <1>4, <1>5, <1>6, Completed
<1>7. CASE sess' = [sess EXCEPT ![s].job.kind = "lost"]
  BY <1>1, <1>7, LosesJob
<1> QED
  BY <1>6, <1>7 DEF SendListing, EndUpload

\* What a download has after one more sendfile
LEMMA NextChunk ==
  ASSUME NEW copy \in Seq(0 .. MaxLen), NEW chunks \in Seq(0 .. MaxLen), NEW sent \in {0, 1},
         NEW at \in Nat, Len(chunks) <= MaxLen, Len(copy) <= MaxLen, Len(copy) <= at,
         sent = 1 => at < Len(chunks)
  PROVE  LET more == copy \o SubSeq(chunks, at + 1, at + sent) IN
         /\ more \in Seq(0 .. MaxLen) /\ Len(more) = Len(copy) + sent /\ Len(more) <= MaxLen
         /\ Len(copy) = at /\ IsPrefix(copy, chunks) => IsPrefix(more, chunks)
<1> DEFINE more == copy \o SubSeq(chunks, at + 1, at + sent)
<1>1. Len(copy) \in Nat /\ MaxLen \in Nat /\ Len(chunks) \in Nat
  BY SessionAssumption
<1>2. CASE sent = 0
  <2>1. SubSeq(chunks, at + 1, at + sent) = <<>>
    BY <1>1, <1>2, SubSeqEmpty
  <2>2. copy \o <<>> = copy
    BY ConcatEmptySeq
  <2>3. more = copy
    BY <2>1, <2>2
  <2> HIDE DEF more
  <2>4. /\ more \in Seq(0 .. MaxLen) /\ Len(more) = Len(copy) + sent /\ Len(more) <= MaxLen
        /\ IsPrefix(copy, chunks) => IsPrefix(more, chunks)
    BY <1>1, <1>2, <2>3
  <2> QED
    BY <2>4 DEF more
<1>3. CASE sent = 1
  <2> DEFINE e == chunks[at + 1]
  <2>1. at + 1 \in 1 .. Len(chunks)
    BY <1>1, <1>3
  <2>2. e \in 0 .. MaxLen /\ SubSeq(chunks, at + 1, at + 1) = <<e>>
    BY <2>1, SubSeqOne
  <2>3. more = copy \o <<e>>
    BY <1>3, <2>2
  <2>4. copy \o <<e>> = Append(copy, e)
    BY <2>2, AppendIsConcat
  <2> HIDE DEF e, more
  <2>5. more \in Seq(0 .. MaxLen) /\ Len(more) = Len(copy) + 1
    BY <2>2, <2>3, <2>4, AppendProperties
  <2>6. ASSUME Len(copy) = at, IsPrefix(copy, chunks) PROVE IsPrefix(more, chunks)
    <3>1. more = copy \o SubSeq(chunks, Len(copy) + 1, Len(copy) + 1)
      BY <1>3, <2>6 DEF more
    <3>2. Len(copy) < Len(chunks)
      BY <1>3, <2>6
    <3> QED
      BY <2>6, <3>1, <3>2, PrefixNext
  <2>7. /\ more \in Seq(0 .. MaxLen) /\ Len(more) = Len(copy) + sent /\ Len(more) <= MaxLen
        /\ Len(copy) = at /\ IsPrefix(copy, chunks) => IsPrefix(more, chunks)
    BY <1>1, <1>3, <2>5, <2>6
  <2> QED
    BY <2>7 DEF more
<1> QED
  BY <1>2, <1>3

LEMMA SendChunkKeeps ==
  ASSUME Inv, NEW s \in Session, SendChunk(s)
  PROVE  Inv'
<1> DEFINE job == sess[s].job
           ino == IF job.ino = None THEN FileAt(job.path) ELSE job.ino
           sent == IF job.at # job.len /\ job.at < Len(content[ino]) THEN 1 ELSE 0
           copy == remote[s].copy
           more == copy \o SubSeq(content[ino], job.at + 1, job.at + sent)
           u == [remote[s] EXCEPT !.copy = more]
<1>1. Good(sess[s], remote[s], files, content) /\ sess[s] \in SessRec /\ remote[s] \in RemoteRec
  BY InvOf
<1>2. job \in JobRec /\ job.kind = "RETR" /\ UNCHANGED <<dirs, files, content>>
  BY <1>1 DEF SendChunk, SessRec
<1>3. /\ Len(copy) <= job.at /\ (remote[s].dirty \/ Len(copy) = job.at)
      /\ Real(job.path) = remote[s].of /\ remote[s].resume = "no" /\ Len(copy) <= MaxLen
  BY <1>1, <1>2 DEF Good, Offset
<1>4. Tree(dirs', files)
  BY <1>2 DEF Inv
<1>5. CASE ino = None /\ sess' = [sess EXCEPT ![s].job.kind = "lost"] /\ UNCHANGED remote
  BY <1>2, <1>5, LosesJob
<1>6. CASE /\ ino # None
           /\ remote' = [remote EXCEPT ![s].copy = more]
           /\ \/ AtEnd(job, sent) /\ Complete(s)
              \/ ~AtEnd(job, sent) /\ sess' = [sess EXCEPT ![s].job = [job EXCEPT !.ino = ino, !.at = job.at + sent]]
  <2>1. ino \in Inode
    <3>1. FileAt(job.path) \in Inode \cup {None}
      BY <1>2, FileFound DEF JobRec
    <3> QED
      BY <1>2, <1>6, <3>1 DEF JobRec
  <2>2. content[ino] \in Seq(0 .. MaxLen) /\ Len(content[ino]) <= MaxLen
    BY <2>1 DEF Inv, Disk
  <2>3. sent \in {0, 1} /\ (sent = 1 => job.at < Len(content[ino])) /\ copy \in Seq(0 .. MaxLen)
    BY <1>1 DEF RemoteRec
  <2>4. remote[s].of \in DOMAIN files /\ ~remote[s].dirty =>
          /\ ino = files[remote[s].of] /\ job.len = Len(content[ino]) /\ IsPrefix(copy, content[ino])
          /\ Len(copy) = job.at
    <3>1. FileAt(job.path) # None => FileAt(job.path) = files[remote[s].of]
      BY <1>2, <1>3, FileFound DEF JobRec
    <3> QED
      BY <1>1, <1>2, <1>3, <1>6, <3>1 DEF Good, Faithful
  <2>5. job.len \in Nat /\ job.at \in Nat /\ job.at \in 0 .. MaxLen + 1 /\ MaxLen \in Nat
    BY <1>2, SessionAssumption DEF JobRec
  <2>6. AtEnd(job, sent) <=> job.at + sent = job.len
    BY DEF AtEnd
  <2>7. job.at = job.len => sent = 0
    OBVIOUS
  <2>8. remote' = [remote EXCEPT ![s] = u]
    BY <1>6
  <2> HIDE DEF ino, sent
  <2>9. /\ more \in Seq(0 .. MaxLen) /\ Len(more) = Len(copy) + sent /\ Len(more) <= MaxLen
        /\ Len(copy) = job.at /\ IsPrefix(copy, content[ino]) => IsPrefix(more, content[ino])
    <3> DEFINE chunks == content[ino]
               at == job.at
    <3>1. /\ chunks \in Seq(0 .. MaxLen) /\ Len(chunks) <= MaxLen /\ at \in Nat /\ copy \in Seq(0 .. MaxLen)
          /\ Len(copy) <= MaxLen /\ Len(copy) <= at /\ sent \in {0, 1} /\ (sent = 1 => at < Len(chunks))
      BY <1>3, <2>2, <2>3, <2>5
    <3>2. more = copy \o SubSeq(chunks, at + 1, at + sent)
      OBVIOUS
    <3> HIDE DEF chunks, at, copy, more
    <3>3. /\ more \in Seq(0 .. MaxLen) /\ Len(more) = Len(copy) + sent /\ Len(more) <= MaxLen
          /\ Len(copy) = at /\ IsPrefix(copy, chunks) => IsPrefix(more, chunks)
      BY <3>1, <3>2, NextChunk
    <3> QED
      BY <3>3 DEF chunks, at
  <2> HIDE DEF more
  <2>10. /\ u \in RemoteRec /\ u.of = remote[s].of /\ u.dirty = remote[s].dirty /\ u.resume = "no"
         /\ u.copy = more /\ u.sent = remote[s].sent
    BY <1>1, <1>3, <2>9 DEF RemoteRec
  <2> HIDE DEF u
  <2>11. CASE AtEnd(job, sent) /\ Complete(s)
    <3>1. u.of \in DOMAIN files /\ ~u.dirty =>
            IsPrefix(u.copy, content[files[u.of]]) /\ u.copy = content[files[u.of]]
      <4> SUFFICES ASSUME u.of \in DOMAIN files, ~u.dirty
                   PROVE  IsPrefix(more, content[ino]) /\ more = content[ino]
        BY <2>4, <2>10
      <4>1. IsPrefix(more, content[ino]) /\ Len(more) = Len(content[ino])
        BY <2>4, <2>6, <2>9, <2>10, <2>11
      <4> QED
        BY <2>2, <2>9, <4>1, PrefixOrder
    <3> QED
      BY <1>2, <2>8, <2>9, <2>10, <2>11, <3>1, Completed
  <2>12. CASE ~AtEnd(job, sent) /\ sess' = [sess EXCEPT ![s].job = [job EXCEPT !.ino = ino, !.at = job.at + sent]]
    <3> DEFINE j == [job EXCEPT !.ino = ino, !.at = job.at + sent]
               r == [sess[s] EXCEPT !.job = j]
    <3>1. job.at + sent \in 0 .. MaxLen + 1
      <4>1. Len(content[ino]) \in Nat
        BY <2>2
      <4> QED
        BY <2>2, <2>3, <2>5, <4>1
    <3>2. /\ j \in JobRec /\ j.kind = "RETR" /\ j.path = job.path /\ j.ino = ino /\ j.len = job.len
          /\ j.at = job.at + sent
      BY <1>2, <2>1, <3>1 DEF JobRec
    <3>3. sess' = [sess EXCEPT ![s] = r]
      BY <2>12
    <3> HIDE DEF j
    <3>4. r \in SessRec
      BY <1>1, <3>2, SessRecords
    <3>5. /\ r.state = sess[s].state /\ r.cwd = sess[s].cwd /\ r.conn = sess[s].conn /\ r.rest = sess[s].rest
          /\ r.job = j /\ r.cmd = sess[s].cmd /\ r.code = sess[s].code
      BY <1>1 DEF SessRec
    <3> HIDE DEF r
    <3>6. Outside(r) /\ Slotted(r) /\ Offset(r, u) /\ Owns(r, files)
      <4>1. Outside(sess[s]) /\ Slotted(sess[s]) /\ job.kind # NoJob.kind
        BY <1>1, <1>2 DEF Good, NoJob
      <4>2. Outside(r) /\ Slotted(r) /\ Owns(r, files)
        BY <1>2, <3>2, <3>5, <4>1 DEF Outside, Slotted, Owns
      <4>3. Len(u.copy) <= r.job.at /\ (u.dirty \/ Len(u.copy) = r.job.at)
        <5>1. Len(copy) \in Nat /\ Len(u.copy) = Len(copy) + sent /\ r.job.at = job.at + sent
          BY <2>3, <2>9, <2>10, <3>2, <3>5
        <5>2. Len(u.copy) <= r.job.at
          BY <1>3, <2>3, <2>5, <5>1
        <5>3. remote[s].dirty \/ Len(u.copy) = r.job.at
          BY <1>3, <5>1
        <5> QED
          BY <2>10, <5>2, <5>3
      <4>4. Offset(r, u)
        BY <1>2, <1>3, <2>9, <2>10, <3>2, <3>5, <4>3 DEF Offset
      <4> QED
        BY <4>2, <4>4
    <3>7. Faithful(r, u, files, content)
      <4> SUFFICES ASSUME u.of \in DOMAIN files, ~u.dirty
                   PROVE  /\ IsPrefix(u.copy, content[files[u.of]])
                          /\ ino = files[u.of] /\ job.len = Len(content[files[u.of]])
                          /\ ~(r.cmd = "RETR" /\ r.code = 226)
        BY <3>2, <3>5 DEF Faithful
      <4>1. ino = files[u.of] /\ job.len = Len(content[ino]) /\ IsPrefix(u.copy, content[ino])
        BY <2>4, <2>9, <2>10
      <4>2. ASSUME sess[s].cmd = "RETR", sess[s].code = 226 PROVE FALSE
        <5>1. copy = content[ino]
          BY <1>1, <2>10, <4>1, <4>2 DEF Good, Faithful
        <5>2. job.at = job.len
          BY <2>4, <2>10, <5>1
        <5> QED
          BY <2>5, <2>6, <2>7, <2>12, <5>2
      <4> QED
        BY <3>5, <4>1, <4>2
    <3>8. Good(r, u, files, content)
      BY <1>1, <2>10, <3>4, <3>5, <3>6, <3>7 DEF Good
    <3>9. r.job.kind # "STOR" /\ files' = files /\ content' = content
      BY <1>2, <3>2, <3>5
    <3> QED
      BY <1>4, <2>8, <2>10, <3>3, <3>8, <3>9, OneSession
  <2> QED
    BY <1>6, <2>11, <2>12
<1> QED
  BY <1>5, <1>6 DEF SendChunk
-----------------------------------------------------------------------------
(* Uploads.                                                                *)

LEMMA WrittenType ==
  ASSUME NEW chunks \in Seq(0 .. MaxLen), Len(chunks) <= MaxLen,
         NEW at \in Nat, at < MaxLen, NEW chunk \in 0 .. MaxLen
  PROVE  Written(chunks, at, chunk) \in Seq(0 .. MaxLen) /\ Len(Written(chunks, at, chunk)) <= MaxLen
<1> DEFINE n == IF at < Len(chunks) THEN Len(chunks) ELSE at + 1
           w == [i \in 1 .. n |-> IF i = at + 1 THEN chunk ELSE IF i <= Len(chunks) THEN chunks[i] ELSE 0]
<1>1. MaxLen \in Nat /\ Len(chunks) \in Nat /\ n \in Nat /\ n <= MaxLen
  BY SessionAssumption
<1>2. \A i \in 1 .. n : w[i] \in 0 .. MaxLen
  <2> SUFFICES ASSUME NEW i \in 1 .. n PROVE w[i] \in 0 .. MaxLen
    OBVIOUS
  <2>1. i <= Len(chunks) => chunks[i] \in 0 .. MaxLen
    BY <1>1, ElementOfSeq
  <2> QED
    BY <1>1, <2>1
<1>3. Written(chunks, at, chunk) = w
  BY DEF Written
<1> HIDE DEF n
<1>4. w \in [1 .. n -> 0 .. MaxLen]
  BY <1>2
<1> HIDE DEF w
<1>5. w \in Seq(0 .. MaxLen) /\ Len(w) = n
  BY <1>1, <1>4
<1> QED
  BY <1>1, <1>3, <1>5

LEMMA ReceiveChunkKeeps ==
  ASSUME Inv, NEW s \in Session, ReceiveChunk(s)
  PROVE  Inv'
<1> DEFINE job == sess[s].job
           w == Written(content[job.ino], job.at, remote[s].sent + 1)
           j == [job EXCEPT !.at = job.at + 1]
           r == [sess[s] EXCEPT !.job = j]
           u == [remote[s] EXCEPT !.sent = remote[s].sent + 1]
           ct == [content EXCEPT ![job.ino] = w]
<1>1. Good(sess[s], remote[s], files, content) /\ sess[s] \in SessRec /\ remote[s] \in RemoteRec
  BY InvOf
<1>2. job \in JobRec /\ job.kind = "STOR" /\ job.ino \in Inode /\ remote[s].sent < MaxLen
      /\ remote[s].resume = "no" /\ job.at < MaxLen /\ UNCHANGED <<dirs, files>>
  BY <1>1 DEF ReceiveChunk, SessRec, Good, Offset, Owns
<1>3. content' = ct /\ sess' = [sess EXCEPT ![s] = r] /\ remote' = [remote EXCEPT ![s] = u]
  BY DEF ReceiveChunk
<1>4. job.at \in Nat /\ MaxLen \in Nat /\ job.at + 1 \in 0 .. MaxLen + 1 /\ remote[s].sent + 1 \in 0 .. MaxLen
  BY <1>1, <1>2, SessionAssumption DEF JobRec, RemoteRec
<1>5. content \in [Inode -> Seq(0 .. MaxLen)] /\ \A i \in Inode : Len(content[i]) <= MaxLen
  BY DEF Inv, Disk
<1>6. w \in Seq(0 .. MaxLen) /\ Len(w) <= MaxLen
  <2>1. content[job.ino] \in Seq(0 .. MaxLen) /\ Len(content[job.ino]) <= MaxLen
    BY <1>2, <1>5
  <2> QED
    BY <1>2, <1>4, <2>1, WrittenType
<1> HIDE DEF w
<1>7. /\ ct \in [Inode -> Seq(0 .. MaxLen)] /\ \A i \in Inode : Len(ct[i]) <= MaxLen
      /\ \A i \in Inode : i # job.ino => ct[i] = content[i]
  BY <1>2, <1>5, <1>6
<1>8. /\ j \in JobRec /\ j.kind = "STOR" /\ j.path = job.path /\ j.ino = job.ino
      /\ j.at = job.at + 1
  BY <1>2, <1>4 DEF JobRec
<1> HIDE DEF j, ct
<1>9. r \in SessRec
  BY <1>1, <1>8, SessRecords
<1>10. /\ r.state = sess[s].state /\ r.cwd = sess[s].cwd /\ r.conn = sess[s].conn /\ r.rest = sess[s].rest
       /\ r.job = j /\ r.cmd = sess[s].cmd /\ r.code = sess[s].code
  BY <1>1 DEF SessRec
<1>11. /\ u \in RemoteRec /\ u.of = remote[s].of /\ u.dirty = remote[s].dirty /\ u.resume = "no"
       /\ u.copy = remote[s].copy /\ u.sent = remote[s].sent + 1
  BY <1>1, <1>2, <1>4 DEF RemoteRec
<1> HIDE DEF r, u
<1>12. Disk(files, ct)
  BY <1>7 DEF Inv, Disk
<1>13. sess' \in [Session -> SessRec] /\ remote' \in [Session -> RemoteRec]
  BY <1>3, <1>9, <1>11 DEF Inv
<1>14. \A t \in Session : /\ sess'[t] = IF t = s THEN r ELSE sess[t]
                          /\ remote'[t] = IF t = s THEN u ELSE remote[t]
  BY <1>3 DEF Inv
<1>15. \* A client that does not know of the upload has another file.
       ASSUME NEW t \in Session, remote[t].of \in DOMAIN files, ~remote[t].dirty
       PROVE  ct[files[remote[t].of]] = content[files[remote[t].of]]
  <2>1. files[remote[t].of] \in Inode
    BY <1>15 DEF Inv, Disk
  <2>2. Warned(sess[s], remote[t])
    BY DEF Inv
  <2>3. files[remote[t].of] # job.ino
    BY <1>1, <1>2, <1>15, <2>2 DEF Good, Owns, Warned
  <2> QED
    BY <1>7, <2>1, <2>3
<1>16. ASSUME NEW t \in Session PROVE Good(sess'[t], remote'[t], files, ct)
  <2>1. CASE t # s
    <3>1. Good(sess[t], remote[t], files, content) /\ sess'[t] = sess[t] /\ remote'[t] = remote[t]
      BY <1>14, <2>1 DEF Inv
    <3>2. Faithful(sess[t], remote[t], files, ct)
      BY <1>15, <3>1 DEF Good, Faithful
    <3> QED
      BY <3>1, <3>2 DEF Good
  <2>2. CASE t = s
    <3>1. Outside(r) /\ Slotted(r) /\ Owns(r, files) /\ Allows(Root, r.cwd)
      BY <1>1, <1>2, <1>8, <1>10 DEF Good, Outside, Slotted, Owns, NoJob
    <3>2. Offset(r, u)
      BY <1>1, <1>2, <1>8, <1>10, <1>11 DEF Good, Offset
    <3>3. Faithful(r, u, files, ct)
      BY <1>1, <1>8, <1>10, <1>11, <1>15 DEF Good, Faithful
    <3>4. Good(r, u, files, ct)
      BY <1>9, <1>11, <3>1, <3>2, <3>3 DEF Good
    <3> QED
      BY <1>14, <2>2, <3>4
  <2> QED
    BY <2>1, <2>2
<1>17. \A t, v \in Session : Warned(sess'[t], remote'[v])
  <2> SUFFICES ASSUME NEW t \in Session, NEW v \in Session PROVE Warned(sess'[t], remote'[v])
    OBVIOUS
  <2>1. /\ sess'[t].job.kind = sess[t].job.kind /\ sess'[t].job.path = sess[t].job.path
        /\ remote'[v].of = remote[v].of /\ remote'[v].dirty = remote[v].dirty
    BY <1>2, <1>8, <1>10, <1>11, <1>14
  <2> QED
    BY <2>1 DEF Inv, Warned
<1> QED
  BY <1>2, <1>3, <1>12, <1>13, <1>16, <1>17 DEF Inv

\* What is known when the handler of STOR comes to open the file
Storing(s, path) ==
  /\ path \in Path /\ Tree(dirs', files)
  /\ sess[s].job.kind = "none" /\ sess[s].state = "LOGGED_IN" /\ sess[s].conn # "NOT_SPECIFIED"

\* The path cannot be opened.
LEMMA LostKeeps ==
  ASSUME Inv, NEW s \in Session, NEW path, Storing(s, path),
         Answer(s, "STOR", [sess[s] EXCEPT !.job = Job("lost", path, None, 0, 0)], 150),
         UNCHANGED <<files, content, remote>>
  PROVE  Inv'
<1> DEFINE j == Job("lost", path, None, 0, 0)
           p == [sess[s] EXCEPT !.job = j]
           r == [p EXCEPT !.cmd = "STOR", !.code = 150]
<1>1. Good(sess[s], remote[s], files, content) /\ sess[s] \in SessRec
  BY InvOf
<1>2. j \in JobRec /\ j.kind = "lost"
  <2>1. path \in Path /\ 0 \in 0 .. MaxLen + 1
    BY SessionAssumption DEF Storing
  <2> QED
    BY <2>1 DEF Job, JobRec, JobKind
<1>3. sess' = [sess EXCEPT ![s] = r]
  BY DEF Answer
<1> HIDE DEF j
<1>4. /\ p \in SessRec /\ p.state = sess[s].state /\ p.cwd = sess[s].cwd /\ p.conn = sess[s].conn
      /\ p.rest = sess[s].rest /\ p.job = j
  <2>1. p \in SessRec
    BY <1>1, <1>2, SessRecords
  <2> QED
    BY <1>1, <2>1 DEF SessRec
<1> HIDE DEF p
<1>5. /\ r \in SessRec /\ r.state = p.state /\ r.cwd = p.cwd /\ r.conn = p.conn
      /\ r.rest = p.rest /\ r.job = p.job /\ r.cmd = "STOR" /\ r.code = 150
  BY <1>4 DEF SessRec, Commands
<1> HIDE DEF r
<1>6. Outside(r) /\ Slotted(r) /\ Offset(r, remote[s]) /\ Owns(r, files) /\ Allows(Root, r.cwd)
  BY <1>1, <1>2, <1>4, <1>5 DEF Storing, Good, Outside, Slotted, Offset, Owns
<1>7. Faithful(r, remote[s], files, content)
  BY <1>1, <1>2, <1>4, <1>5 DEF Good, Faithful
<1>8. Good(r, remote[s], files, content)
  BY <1>1, <1>5, <1>6, <1>7 DEF Good
<1>9. Tree(dirs', files) /\ r.job.kind # "STOR"
  BY <1>2, <1>4, <1>5 DEF Storing
<1> QED
  BY <1>3, <1>8, <1>9, OneReply

\* The names gs after the file has been opened, i its inode
Opened(path, i, gs) ==
  /\ DOMAIN gs = DOMAIN files \cup {path} /\ gs[path] = i /\ i \in Inode
  /\ \A f \in DOMAIN files : f # path => gs[f] = files[f] /\ gs[f] # i
  /\ gs \in [DOMAIN gs -> Inode] /\ IsInjective(gs)
  /\ \A t \in Session : Owns(sess[t], gs)

\* The update of the files, as Store writes it
Placed(path, i, gs) == gs = [f \in DOMAIN files \cup {path} |-> IF f = path THEN i ELSE files[f]]

LEMMA OpenedFile ==
  ASSUME Inv, NEW path, NEW i \in Inodes(path), NEW gs, Placed(path, i, gs)
  PROVE  Opened(path, i, gs)
<1>1. /\ DOMAIN gs = DOMAIN files \cup {path} /\ gs[path] = i
      /\ \A f \in DOMAIN files : f # path => gs[f] = files[f]
  BY DEF Placed
<1>2. files \in [DOMAIN files -> Inode] /\ \A f, g \in DOMAIN files : files[f] = files[g] => f = g
  BY DEF Inv, Disk, IsInjective
<1>3. /\ i \in Inode
      /\ path \in DOMAIN files => i = files[path]
      /\ path \notin DOMAIN files => /\ \A f \in DOMAIN files : files[f] # i
                                     /\ \A t \in Session : sess[t].job.ino # i
  BY <1>2 DEF Inodes
<1>4. \A f \in DOMAIN files : f # path => files[f] # i
  BY <1>2, <1>3
<1>5. gs \in [DOMAIN gs -> Inode]
  BY <1>1, <1>2, <1>3 DEF Placed
<1>6. IsInjective(gs)
  BY <1>1, <1>2, <1>4 DEF IsInjective
<1>7. ASSUME NEW t \in Session PROVE Owns(sess[t], gs)
  <2>1. Owns(sess[t], files)
    BY DEF Inv, Good
  <2>2. ASSUME sess[t].job.kind = "STOR", NEW f \in DOMAIN gs, gs[f] = sess[t].job.ino
        PROVE  f = sess[t].job.path
    <3>1. \A g \in DOMAIN files : files[g] = sess[t].job.ino => g = sess[t].job.path
      BY <2>1, <2>2 DEF Owns
    <3>2. CASE f = path
      BY <1>1, <1>3, <2>2, <3>1, <3>2
    <3>3. CASE f # path
      BY <1>1, <2>2, <3>1, <3>3
    <3> QED
      BY <3>2, <3>3
  <2> QED
    BY <2>1, <2>2 DEF Owns
<1> QED
  BY <1>1, <1>3, <1>4, <1>5, <1>6, <1>7 DEF Opened

\* What the clients remember: whoever has that file is told.
Told(s, path) ==
  /\ remote' \in [Session -> RemoteRec]
  /\ \A t \in Session :
       /\ remote'[t].of = remote[t].of /\ remote'[t].copy = remote[t].copy
       /\ remote'[t].dirty = (remote[t].dirty \/ remote[t].of = path)
       /\ t # s => remote'[t].sent = remote[t].sent /\ remote'[t].resume = remote[t].resume
  /\ remote'[s].sent = IF remote[s].resume = "STOR" THEN remote[s].sent ELSE 0
  /\ remote'[s].resume = "no"

\* The update of the memories, as Store writes it.
Telling(s, path) ==
  remote' = [t \in Session |->
    LET u == [remote[t] EXCEPT !.dirty = @ \/ remote[t].of = path] IN
    IF t # s THEN u ELSE [u EXCEPT !.sent = IF u.resume = "STOR" THEN u.sent ELSE 0, !.resume = "no"]]

LEMMA NoOffset == 0 \in 0 .. MaxLen /\ 0 \in 0 .. MaxLen + 1
BY SessionAssumption

LEMMA ClientsTold ==
  ASSUME remote \in [Session -> RemoteRec], NEW s \in Session, NEW path, Telling(s, path)
  PROVE  Told(s, path)
<1> DEFINE U(t) == [remote[t] EXCEPT !.dirty = remote[t].dirty \/ remote[t].of = path]
           v == [U(s) EXCEPT !.sent = IF U(s).resume = "STOR" THEN U(s).sent ELSE 0, !.resume = "no"]
<1>1. ASSUME NEW t \in Session
      PROVE  /\ U(t) \in RemoteRec /\ U(t).of = remote[t].of /\ U(t).copy = remote[t].copy
             /\ U(t).dirty = (remote[t].dirty \/ remote[t].of = path)
             /\ U(t).sent = remote[t].sent /\ U(t).resume = remote[t].resume
  BY DEF RemoteRec
<1>2. /\ \A t \in Session : remote'[t] = IF t # s THEN U(t) ELSE v
      /\ remote' = [t \in Session |-> remote'[t]]
  BY DEF Telling
<1> HIDE DEF U
<1>3. /\ v \in RemoteRec /\ v.of = U(s).of /\ v.copy = U(s).copy /\ v.dirty = U(s).dirty
      /\ v.sent = (IF U(s).resume = "STOR" THEN U(s).sent ELSE 0) /\ v.resume = "no"
  <2> DEFINE x == IF U(s).resume = "STOR" THEN U(s).sent ELSE 0
  <2>1. U(s) \in RemoteRec
    BY <1>1
  <2>2. x \in 0 .. MaxLen
    BY <2>1, NoOffset DEF RemoteRec
  <2>3. v = [U(s) EXCEPT !.sent = x, !.resume = "no"]
    OBVIOUS
  <2> HIDE DEF x, v
  <2>4. /\ v \in RemoteRec /\ v.of = U(s).of /\ v.copy = U(s).copy /\ v.dirty = U(s).dirty
        /\ v.sent = x /\ v.resume = "no"
    BY <2>1, <2>2, <2>3 DEF RemoteRec
  <2> QED
    BY <2>4 DEF x
<1> HIDE DEF v
<1>4. \A t \in Session : remote'[t] \in RemoteRec
  BY <1>1, <1>2, <1>3
<1>5. remote' \in [Session -> RemoteRec]
  BY <1>2, <1>4
<1>6. ASSUME NEW t \in Session
      PROVE  /\ remote'[t].of = remote[t].of /\ remote'[t].copy = remote[t].copy
             /\ remote'[t].dirty = (remote[t].dirty \/ remote[t].of = path)
             /\ t # s => remote'[t].sent = remote[t].sent /\ remote'[t].resume = remote[t].resume
  <2>1. CASE t # s
    BY <1>1, <1>2, <2>1
  <2>2. CASE t = s
    BY <1>1, <1>2, <1>3, <2>2
  <2> QED
    BY <2>1, <2>2
<1>7. /\ remote'[s].sent = IF remote[s].resume = "STOR" THEN remote[s].sent ELSE 0
      /\ remote'[s].resume = "no"
  BY <1>1, <1>2, <1>3
<1> QED
  BY <1>5, <1>6, <1>7 DEF Told

\* The file i that has been cut to nothing
LEMMA CutFile ==
  ASSUME Inv, NEW i \in Inode, NEW ct, ct = [content EXCEPT ![i] = <<>>]
  PROVE  /\ ct \in [Inode -> Seq(0 .. MaxLen)] /\ \A k \in Inode : Len(ct[k]) <= MaxLen
         /\ \A k \in Inode : k # i => ct[k] = content[k]
<1>1. content \in [Inode -> Seq(0 .. MaxLen)] /\ \A k \in Inode : Len(content[k]) <= MaxLen
  BY DEF Inv, Disk
<1>2. PICK e \in Seq(0 .. MaxLen) : e = <<>> /\ Len(e) <= MaxLen
  <2>1. /\ <<>> \in Seq(0 .. MaxLen) /\ Len(<<>>) = 0
        /\ 0 <= MaxLen
    BY SessionAssumption
  <2> QED
    BY <2>1
<1>3. ct = [content EXCEPT ![i] = e]
  BY <1>2
<1> QED
  BY <1>1, <1>2, <1>3

\* The session of the upload, as Store writes it
Uploading(q, path, i, r) ==
  r = [[q EXCEPT !.job = Job("STOR", path, i, q.rest, 0)] EXCEPT !.cmd = "STOR", !.code = 150]

LEMMA UploadSession ==
  ASSUME NEW q \in SessRec, NEW path \in Path, NEW i \in Inode, NEW r, Uploading(q, path, i, r)
  PROVE  /\ r \in SessRec /\ r.state = q.state /\ r.cwd = q.cwd /\ r.conn = q.conn /\ r.rest = q.rest
         /\ r.cmd = "STOR" /\ r.code = 150
         /\ r.job.kind = "STOR" /\ r.job.path = path /\ r.job.ino = i /\ r.job.at = q.rest
<1> DEFINE j == Job("STOR", path, i, q.rest, 0)
           p == [q EXCEPT !.job = j]
           v == [p EXCEPT !.cmd = "STOR", !.code = 150]
<1>1. j \in JobRec /\ j.kind = "STOR" /\ j.path = path /\ j.ino = i /\ j.at = q.rest
  BY DEF Job, JobRec, JobKind, SessRec
<1>2. r = v
  BY DEF Uploading
<1> HIDE DEF j
<1>3. /\ p \in SessRec /\ p.state = q.state /\ p.cwd = q.cwd /\ p.conn = q.conn
      /\ p.rest = q.rest /\ p.job = j
  <2>1. p \in SessRec
    BY <1>1, SessRecords
  <2> QED
    BY <2>1 DEF SessRec
<1> HIDE DEF p
<1>4. /\ v \in SessRec /\ v.state = p.state /\ v.cwd = p.cwd /\ v.conn = p.conn
      /\ v.rest = p.rest /\ v.job = p.job /\ v.cmd = "STOR" /\ v.code = 150
  BY <1>3 DEF SessRec, Commands
<1> HIDE DEF v
<1> QED
  BY <1>1, <1>2, <1>3, <1>4

\* The file is open: the step, from what the lemmas above say of it.
LEMMA OpenedKeeps ==
  ASSUME Inv, NEW s \in Session, NEW path, Storing(s, path), path \notin dirs',
         NEW i, NEW gs, Opened(path, i, gs), files' = gs,
         NEW ct \in [Inode -> Seq(0 .. MaxLen)], \A k \in Inode : Len(ct[k]) <= MaxLen,
         \A k \in Inode : k # i => ct[k] = content[k], content' = ct,
         NEW r \in SessRec, r.state = sess[s].state, r.cwd = sess[s].cwd, r.conn = sess[s].conn,
         r.rest = sess[s].rest, r.cmd = "STOR", r.code = 150,
         r.job.kind = "STOR", r.job.path = path, r.job.ino = i, r.job.at = sess[s].rest,
         sess' = [sess EXCEPT ![s] = r], Told(s, path)
  PROVE  Inv'
<1>1. Good(sess[s], remote[s], files, content)
  BY InvOf
<1>2. Tree(dirs', gs)
  <2>1. /\ Tree(dirs', files) /\ path \in Path
        /\ DOMAIN gs = DOMAIN files \cup {path}
    BY DEF Storing, Opened
  <2> QED
    BY <2>1, TreeFile
<1>3. Disk(gs, ct)
  BY DEF Disk, Opened
<1>4. sess' \in [Session -> SessRec] /\ \A t \in Session : sess'[t] = IF t = s THEN r ELSE sess[t]
  BY DEF Inv
<1>5. \* A file that nobody stores stays as it is.
      ASSUME NEW t \in Session, remote'[t].of \in DOMAIN gs, ~remote'[t].dirty
      PROVE  /\ remote[t].of \in DOMAIN files /\ ~remote[t].dirty
             /\ gs[remote[t].of] = files[remote[t].of]
             /\ ct[gs[remote[t].of]] = content[files[remote[t].of]]
  <2>1. remote[t].of # path /\ ~remote[t].dirty /\ remote[t].of \in DOMAIN files
    BY <1>5 DEF Told, Opened
  <2>2. gs[remote[t].of] = files[remote[t].of] /\ gs[remote[t].of] # i /\ gs[remote[t].of] \in Inode
    BY <2>1 DEF Opened
  <2> QED
    BY <2>1, <2>2
<1>6. ASSUME NEW t \in Session, t # s PROVE Good(sess[t], remote'[t], gs, ct)
  <2>1. Good(sess[t], remote[t], files, content)
    BY DEF Inv
  <2>2. Offset(sess[t], remote'[t])
    BY <1>6, <2>1 DEF Good, Offset, Told
  <2>3. Faithful(sess[t], remote'[t], gs, ct)
    <3> SUFFICES ASSUME remote'[t].of \in DOMAIN gs, ~remote'[t].dirty
                 PROVE  Faithful(sess[t], remote'[t], gs, ct)
      BY DEF Faithful
    <3>1. /\ remote'[t].of = remote[t].of /\ remote'[t].copy = remote[t].copy
      BY DEF Told
    <3> QED
      BY <1>5, <2>1, <3>1 DEF Good, Faithful
  <2>4. remote'[t] \in RemoteRec /\ Owns(sess[t], gs)
    BY DEF Told, Opened
  <2> QED
    BY <2>1, <2>2, <2>3, <2>4 DEF Good
<1>7. Good(r, remote'[s], gs, ct)
  <2>1. Outside(r) /\ Slotted(r) /\ Allows(Root, r.cwd)
    BY <1>1 DEF Good, Outside, Slotted, Storing
  <2>2. Owns(r, gs)
    BY DEF Owns, Opened, IsInjective
  <2>3. Offset(r, remote'[s])
    BY <1>1 DEF Good, Offset, Storing, Told
  <2>4. Faithful(r, remote'[s], gs, ct)
    <3> SUFFICES ASSUME remote'[s].of \in DOMAIN gs, ~remote'[s].dirty
                 PROVE  IsPrefix(remote'[s].copy, ct[gs[remote'[s].of]])
      BY DEF Faithful
    <3>1. remote'[s].of = remote[s].of /\ remote'[s].copy = remote[s].copy
      BY DEF Told
    <3> QED
      BY <1>1, <1>5, <3>1 DEF Good, Faithful
  <2>5. remote'[s] \in RemoteRec
    BY DEF Told
  <2> QED
    BY <2>1, <2>2, <2>3, <2>4, <2>5 DEF Good
<1>8. \A t \in Session : Good(sess'[t], remote'[t], gs, ct)
  BY <1>4, <1>6, <1>7
<1>9. ASSUME NEW t \in Session, NEW v \in Session PROVE Warned(sess'[t], remote'[v])
  <2>1. Warned(sess[t], remote[v]) /\ remote'[v].of = remote[v].of
        /\ remote'[v].dirty = (remote[v].dirty \/ remote[v].of = path)
    BY DEF Inv, Told
  <2>2. CASE t # s
    BY <1>4, <2>1, <2>2 DEF Warned
  <2>3. CASE t = s
    BY <1>4, <2>1, <2>3 DEF Warned
  <2> QED
    BY <2>2, <2>3
<1> QED
  BY <1>2, <1>3, <1>4, <1>8, <1>9 DEF Inv, Told

LEMMA StoreKeeps ==
  ASSUME Inv, NEW s \in Session, NEW path, Storing(s, path), Store(s, "STOR", path)
  PROVE  Inv'
<1>1. Good(sess[s], remote[s], files, content) /\ sess[s] \in SessRec /\ path \in Path
  BY InvOf DEF Storing
<1>2. CASE path \notin dirs'
  <2>1. PICK i \in Inodes(path) :
          /\ files' = [f \in DOMAIN files \cup {path} |-> IF f = path THEN i ELSE files[f]]
          /\ content' = [content EXCEPT ![i] = <<>>]
          /\ Answer(s, "STOR", [sess[s] EXCEPT !.job = Job("STOR", path, i, sess[s].rest, 0)], 150)
    BY <1>2 DEF Store
  <2>2. Told(s, path)
    <3>1. remote' = [t \in Session |->
            LET u == [remote[t] EXCEPT !.dirty = @ \/ remote[t].of = path] IN
            IF t # s THEN u
            ELSE [u EXCEPT !.sent = IF u.resume = "STOR" THEN u.sent ELSE 0, !.resume = "no"]]
      BY <1>2 DEF Store
    <3> QED
      BY <3>1, ClientsTold DEF Inv, Telling
  <2> DEFINE r == [[sess[s] EXCEPT !.job = Job("STOR", path, i, sess[s].rest, 0)]
                     EXCEPT !.cmd = "STOR", !.code = 150]
  <2>3. sess' = [sess EXCEPT ![s] = r]
    BY <2>1 DEF Answer
  <2>4. PICK gs, ct : gs = files' /\ ct = content'
    OBVIOUS
  <2>5. Opened(path, i, gs) /\ i \in Inode
    <3>1. Placed(path, i, gs)
      BY <2>1, <2>4 DEF Placed
    <3>2. Opened(path, i, gs)
      BY <2>1, <3>1, OpenedFile
    <3> QED
      BY <3>2 DEF Opened
  <2>6. /\ ct \in [Inode -> Seq(0 .. MaxLen)] /\ \A k \in Inode : Len(ct[k]) <= MaxLen
        /\ \A k \in Inode : k # i => ct[k] = content[k]
    BY <2>1, <2>4, <2>5, CutFile
  <2>7. /\ r \in SessRec /\ r.state = sess[s].state /\ r.cwd = sess[s].cwd /\ r.conn = sess[s].conn
        /\ r.rest = sess[s].rest /\ r.cmd = "STOR" /\ r.code = 150
        /\ r.job.kind = "STOR" /\ r.job.path = path /\ r.job.ino = i /\ r.job.at = sess[s].rest
    <3>1. Uploading(sess[s], path, i, r)
      BY DEF Uploading
    <3> HIDE DEF r
    <3> QED
      BY <1>1, <2>5, <3>1, UploadSession
  <2> HIDE DEF r
  <2> QED
    BY <1>2, <2>2, <2>3, <2>4, <2>5, <2>6, <2>7, OpenedKeeps
<1>3. CASE path \in dirs'
  BY <1>3, LostKeeps DEF Store
<1> QED
  BY <1>2, <1>3

LEMMA StorKeeps ==
  ASSUME Inv, NEW s \in Session, NEW arg \in FileArgs, FTP_STOR(s, arg)
  PROVE  Inv'
<1> DEFINE target == FileTarget(s, arg)
           dir == Directory(target)
           path == Real(target)
<1>1. Good(sess[s], remote[s], files, content) /\ sess[s] \in SessRec /\ target \in Path
  BY InvOf, ArgumentPaths, SessionAssumption DEF Good
<1>2. "STOR" \in Commands /\ sess[s].job.kind = "none" /\ sess[s].state = "LOGGED_IN"
  BY DEF FTP_STOR, May, LoggedIn, Commands
<1>3. CASE NoConnection(s, "STOR") \/ Refuse(s, "STOR", 550)
  BY <1>2, <1>3, RefuseKeeps DEF NoConnection
<1>4. CASE /\ sess[s].conn # "NOT_SPECIFIED" /\ Allows(Root, target)
           /\ \/ IsDir(dir) /\ UNCHANGED dirs /\ Store(s, "STOR", path)
              \/ MakeDirs(dir) /\ Store(s, "STOR", path)
              \/ /\ MakeDirs(dir) /\ Answer(s, "STOR", sess[s], 451)
                 /\ UNCHANGED <<files, content, remote>>
  <2>1. target # <<>>
    BY <1>1, <1>4, SessionAssumption, AllowsInside
  <2>2. dir \in Path /\ path \in Path
    BY <1>1, <2>1, FrontLast, RealType DEF Directory
  <2>3. Tree(dirs', files)
    BY <1>4, <2>2, TreeGrows DEF Inv, MakeDirs
  <2> HIDE DEF path, dir, target
  <2>4. Storing(s, path)
    BY <1>2, <1>4, <2>2, <2>3 DEF Storing
  <2>5. CASE Store(s, "STOR", path)
    BY <2>4, <2>5, StoreKeeps
  <2>6. CASE Answer(s, "STOR", sess[s], 451) /\ UNCHANGED <<files, content, remote>>
    <3>1. Outside(sess[s]) /\ Allows(Root, sess[s].cwd)
      BY <1>1 DEF Good
    <3> QED
      BY <1>1, <1>2, <2>3, <2>6, <3>1, Replied
  <2> QED
    BY <1>4, <2>5, <2>6
<1> QED
  BY <1>3, <1>4 DEF FTP_STOR
-----------------------------------------------------------------------------
(* The invariant holds at the start and is kept by every step.             *)

LEMMA FreshIs ==
  /\ Fresh \in SessRec /\ Fresh.job = NoJob /\ NoJob.kind = "none" /\ Fresh.cwd = Root
  /\ Fresh.conn = "NOT_SPECIFIED" /\ Fresh.rest = 0 /\ Fresh.cmd = "NONE"
  /\ Stranger \in RemoteRec /\ Stranger.of = <<>> /\ Stranger.resume = "no"
  /\ Len(Stranger.copy) <= MaxLen
<1>1. 0 \in 0 .. MaxLen /\ 0 \in 0 .. MaxLen + 1 /\ <<>> \in Path /\ Root \in Path /\ <<>> \in Seq(0 .. MaxLen)
  BY NoOffset, PathClosed, SessionAssumption
<1>2. NoJob \in JobRec
  BY <1>1 DEF NoJob, JobRec, JobKind
<1>3. Fresh \in SessRec
  BY <1>1, <1>2 DEF Fresh, SessRec, FtpState, ConnType
<1>4. Stranger \in RemoteRec
  BY <1>1 DEF Stranger, RemoteRec
<1>5. Len(Stranger.copy) <= MaxLen
  BY SessionAssumption DEF Stranger
<1> QED
  BY <1>3, <1>4, <1>5 DEF Fresh, Stranger, NoJob

LEMMA InitInv ==
  ASSUME Init
  PROVE  Inv
<1>1. Tree(dirs, files)
  <2>1. dirs = Made(Root, {})
    BY DEF Init, Made
  <2>2. DOMAIN files = {} /\ IsFiniteSet({})
    BY FS_EmptySet DEF Init
  <2> QED
    BY <2>1, <2>2, MadeTree, SessionAssumption DEF Tree
<1>2. Disk(files, content)
  <2>1. <<>> \in Seq(0 .. MaxLen) /\ Len(<<>>) <= MaxLen
    BY SessionAssumption
  <2>2. files \in [DOMAIN files -> Inode] /\ IsInjective(files)
    BY DEF Init, IsInjective
  <2> QED
    BY <2>1, <2>2 DEF Init, Disk
<1>3. \A s \in Session : sess[s] = Fresh /\ remote[s] = Stranger
  BY DEF Init
<1>4. sess \in [Session -> SessRec] /\ remote \in [Session -> RemoteRec]
  BY FreshIs DEF Init
<1>5. Good(Fresh, Stranger, files, content)
  <2>1. Allows(Root, Fresh.cwd)
    BY FreshIs, AllowsRoot, SessionAssumption
  <2>2. Outside(Fresh) /\ Slotted(Fresh) /\ Owns(Fresh, files)
    BY FreshIs DEF Outside, Slotted, Owns
  <2>3. Offset(Fresh, Stranger)
    BY FreshIs DEF Offset
  <2>4. Stranger.of \notin DOMAIN files
    BY DEF Init
  <2>5. Faithful(Fresh, Stranger, files, content)
    BY <2>4 DEF Faithful
  <2> QED
    BY FreshIs, <2>1, <2>2, <2>3, <2>5 DEF Good
<1>6. \A s, t \in Session : Warned(sess[s], remote[t])
  BY <1>3, FreshIs DEF Warned
<1> QED
  BY <1>1, <1>2, <1>3, <1>4, <1>5, <1>6 DEF Inv

LEMMA HandleInv ==
  ASSUME Inv, NEW s \in Session, Handle(s)
  PROVE  Inv'
<1>1. CASE \E cmd \in Commands : Unhandled(s, cmd)
  BY <1>1, UnhandledKeeps
<1>2. CASE FTP_USER(s) \/ FTP_PASS(s) \/ FTP_PWD(s) \/ FTP_SYST(s) \/ FTP_TYPE(s)
  BY <1>2, UserKeeps, PassKeeps, PwdKeeps, SystKeeps, TypeKeeps
<1>3. CASE FTP_CDUP(s) \/ FTP_QUIT(s) \/ FTP_PASV(s) \/ FTP_PORT(s) \/ FTP_LIST(s) \/ FTP_APPE(s)
  BY <1>3, CdupKeeps, QuitKeeps, PasvKeeps, PortKeeps, ListKeeps, AppeKeeps
<1>4. CASE \E resume \in {"RETR", "STOR", "part"}, offset \in 0 .. MaxLen + 1 : FTP_REST(s, resume, offset)
  BY <1>4, RestKeeps
<1>5. CASE \E arg \in DirArgs : FTP_CWD(s, arg) \/ FTP_MKD(s, arg) \/ FTP_RMD(s, arg)
  BY <1>5, CwdKeeps, MkdKeeps, RmdKeeps
<1>6. CASE \E arg \in FileArgs : FTP_RETR(s, arg) \/ FTP_STOR(s, arg)
  BY <1>6, RetrKeeps, StorKeeps
<1> QED
  BY <1>1, <1>2, <1>3, <1>4, <1>5, <1>6 DEF Handle

LEMMA NextInv ==
  ASSUME Inv, [Next]_vars
  PROVE  Inv'
<1>1. CASE UNCHANGED vars
  BY <1>1 DEF vars, Inv, Tree, Disk
<1>2. CASE Next
  <2>1. PICK s \in Session : Handle(s) \/ Transfer(s) \/ Break(s)
    BY <1>2 DEF Next
  <2>2. CASE Handle(s)
    BY <2>2, HandleInv
  <2>3. CASE Transfer(s)
    BY <2>3, SendChunkKeeps, EndsKeep, ReceiveChunkKeeps DEF Transfer
  <2>4. CASE Break(s)
    BY <2>4, BreakKeeps
  <2> QED
    BY <2>1, <2>2, <2>3, <2>4
<1> QED
  BY <1>1, <1>2

LEMMA InvHolds == Spec => []Inv
<1>1. Init => Inv
  BY InitInv
<1>2. Inv /\ [Next]_vars => Inv'
  BY NextInv
<1> QED
  BY <1>1, <1>2, PTL DEF Spec
-----------------------------------------------------------------------------
(* What the runs check, for every root, every set of sessions and inodes   *)
(* and every bound.                                                        *)

\* The parts fit: no two paths share an inode, and a transfer has its slot.
THEOREM SessionTypes == Spec => []TypeOK
<1>1. Inv => TypeOK
  <2> SUFFICES ASSUME Inv PROVE TypeOK
    OBVIOUS
  <2>1. /\ files \in [DOMAIN files -> Inode] /\ IsInjective(files)
        /\ content \in [Inode -> Seq(0 .. MaxLen)]
    BY DEF Inv, Disk
  <2>2. ASSUME NEW s \in Session
        PROVE  /\ sess[s].state \in FtpState /\ sess[s].conn \in ConnType
               /\ sess[s].rest \in 0 .. MaxLen + 1 /\ sess[s].job.at \in 0 .. MaxLen + 1
               /\ sess[s].job.ino \in Inode \cup {None}
               /\ sess[s].job.kind # "none" => sess[s].conn # "NOT_SPECIFIED"
    <3>1. sess[s] \in SessRec /\ Slotted(sess[s])
      BY InvOf DEF Good
    <3>2. sess[s].job \in JobRec
      BY <3>1 DEF SessRec
    <3> QED
      BY <3>1, <3>2 DEF SessRec, JobRec, Slotted
  <2> QED
    BY <2>1, <2>2 DEF TypeOK
<1> QED
  BY <1>1, InvHolds, PTL

\* No sequence of CWD, CDUP and MKD with any arguments leads a session out of
\* service_root whose path has no dots.  What is inductive is what
\* fs_directory_allows checks, the text; that it means a directory inside is
\* AllowsInside, and only for such a path.
THEOREM SessionsStayInside == Spec => []CwdInside
<1>1. Inv => CwdInside
  <2> SUFFICES ASSUME Inv, NEW s \in Session, Named(sess[s].cwd)
               PROVE  IsPrefix(Real(Root), Real(sess[s].cwd))
    BY DEF CwdInside
  <2>1. sess[s].cwd \in Path /\ Allows(Root, sess[s].cwd)
    BY InvOf DEF Good, SessRec
  <2> QED
    BY <2>1, AllowsInside, SessionAssumption
<1> QED
  BY <1>1, InvHolds, PTL

\* What PWD answers leads back to where the session is, unless the server
\* serves "/" itself.
THEOREM PwdLeadsBack ==
  ASSUME Root # Slash
  PROVE  Spec => []PwdRoundTrip
<1>1. Inv => PwdRoundTrip
  <2> SUFFICES ASSUME Inv, NEW s \in Session
               PROVE  Real(Target(s, Erase(Root, sess[s].cwd))) = Real(sess[s].cwd)
    BY DEF PwdRoundTrip
  <2>1. sess[s].cwd \in Path /\ Allows(Root, sess[s].cwd)
    BY InvOf DEF Good, SessRec
  <2> DEFINE arg == Erase(Root, sess[s].cwd)
  <2>2. /\ arg.abs
        /\ IF arg = RootArg THEN Real(Root) = Real(sess[s].cwd)
           ELSE Real(Join(Root, arg)) = Real(sess[s].cwd)
    BY <2>1, EraseJoin, SessionAssumption
  <2> HIDE DEF arg
  <2>3. Target(s, arg) = IF arg = RootArg THEN Root ELSE Join(Root, arg)
    <3>1. ~UpArg.abs
      BY DEF UpArg, Argument
    <3> QED
      BY <2>2, <3>1 DEF Target
  <2>4. Real(Target(s, arg)) = Real(sess[s].cwd)
    BY <2>2, <2>3
  <2> QED
    BY <2>4 DEF arg
<1> QED
  BY <1>1, InvHolds, PTL

\* A connection that has not logged in has had no effect.
THEOREM LoginComesFirst == Spec => []LoginFirst
<1>1. Inv => LoginFirst
  BY DEF Inv, Good, Outside, LoginFirst, LoggedIn
<1> QED
  BY <1>1, InvHolds, PTL

\* A download that is resumed over any number of connections gives the client
\* the file, unless somebody stores the file meanwhile.
THEOREM DownloadsAreFaithful == Spec => []DownloadFaithful
<1>1. Inv => DownloadFaithful
  <2> SUFFICES ASSUME Inv, NEW s \in Session, remote[s].of \in DOMAIN files, ~remote[s].dirty
               PROVE  LET file == content[files[remote[s].of]] IN
                      /\ IsPrefix(remote[s].copy, file)
                      /\ sess[s].cmd = "RETR" /\ sess[s].code = 226 => remote[s].copy = file
    BY DEF DownloadFaithful
  <2>1. Faithful(sess[s], remote[s], files, content)
    BY InvOf DEF Good
  <2> QED
    BY <2>1 DEF Faithful
<1> QED
  BY <1>1, InvHolds, PTL
-----------------------------------------------------------------------------
(* CDUP.                                                                   *)

\* Only CDUP leaves a session with the mark of CDUP, and a session gets its
\* directory from the root or from an argument.
Elsewhere(t) ==
  /\ sess'[t].cmd # "CDUP"
  /\ sess'[t].cwd \in {sess[t].cwd, Root} \cup {Target(t, arg) : arg \in DirArgs}

LEMMA AnswerIs ==
  ASSUME Inv, NEW s \in Session, NEW r \in SessRec, NEW cmd, NEW code, Answer(s, cmd, r, code)
  PROVE  /\ sess'[s].cmd = cmd /\ sess'[s].code = code /\ sess'[s].cwd = r.cwd
         /\ \A t \in Session : t # s => sess'[t] = sess[t]
<1> DEFINE q == [r EXCEPT !.cmd = cmd, !.code = code]
<1>1. q.cmd = cmd /\ q.code = code /\ q.cwd = r.cwd
  BY DEF SessRec
<1>2. sess' = [sess EXCEPT ![s] = q]
  BY DEF Answer
<1> HIDE DEF q
<1> QED
  BY <1>1, <1>2 DEF Inv

\* An answer that leaves the directory alone
LEMMA Stays ==
  ASSUME Inv, NEW s \in Session, NEW t \in Session, NEW r, r \in SessRec, r.cwd = sess[s].cwd,
         NEW cmd, cmd # "CDUP", NEW code, Answer(s, cmd, r, code)
  PROVE  sess'[t] = sess[t] \/ Elsewhere(t)
BY AnswerIs DEF Elsewhere

LEMMA OnlyStays ==
  ASSUME Inv, NEW s \in Session, NEW t \in Session, NEW cmd, cmd # "CDUP", NEW code, Only(s, cmd, code)
  PROVE  sess'[t] = sess[t] \/ Elsewhere(t)
BY InvOf, Stays DEF Only

LEMMA RefuseStays ==
  ASSUME Inv, NEW s \in Session, NEW t \in Session, NEW cmd, cmd # "CDUP", NEW code, Refuse(s, cmd, code)
  PROVE  sess'[t] = sess[t] \/ Elsewhere(t)
BY OnlyStays DEF Refuse

LEMMA FreshStays ==
  ASSUME Inv, NEW s \in Session, NEW t \in Session, sess' = [sess EXCEPT ![s] = Fresh]
  PROVE  sess'[t] = sess[t] \/ Elsewhere(t)
<1>1. sess'[t] = IF t = s THEN Fresh ELSE sess[t]
  BY DEF Inv
<1>2. Fresh.cmd # "CDUP" /\ Fresh.cwd = Root
  BY FreshIs
<1> QED
  BY <1>1, <1>2 DEF Elsewhere

\* A change of the session that is no command: its transfer goes on.
LEMMA TransferStays ==
  ASSUME Inv, NEW s \in Session, NEW t \in Session, Transfer(s)
  PROVE  sess'[t] = sess[t] \/ Elsewhere(t)
<1>1. sess[s] \in SessRec /\ Slotted(sess[s]) /\ sess \in [Session -> SessRec]
  BY InvOf DEF Good, Inv
<1>2. sess[s].job.kind \in {"RETR", "STOR", "LIST"}
  BY DEF Transfer, SendChunk, SendListing, ReceiveChunk, EndUpload
<1>3. sess[s].cmd # "CDUP"
  BY <1>1, <1>2 DEF Slotted
<1>4. CASE Complete(s)
  <2> DEFINE q == [sess[s] EXCEPT !.job = NoJob, !.rest = 0, !.conn = "NOT_SPECIFIED", !.code = 226]
  <2>1. q.cmd = sess[s].cmd /\ q.cwd = sess[s].cwd
    BY <1>1 DEF SessRec
  <2>2. sess' = [sess EXCEPT ![s] = q]
    BY <1>4 DEF Complete
  <2> HIDE DEF q
  <2>3. sess'[t] = IF t = s THEN q ELSE sess[t]
    BY <1>1, <2>2
  <2> QED
    BY <1>3, <2>1, <2>3 DEF Elsewhere
<1>5. CASE \E j : sess' = [sess EXCEPT ![s].job = j]
  <2>1. PICK j : sess' = [sess EXCEPT ![s].job = j]
    BY <1>5
  <2> DEFINE q == [sess[s] EXCEPT !.job = j]
  <2>2. q.cmd = sess[s].cmd /\ q.cwd = sess[s].cwd
    BY <1>1 DEF SessRec
  <2>3. sess'[t] = IF t = s THEN q ELSE sess[t]
    BY <1>1, <2>1
  <2> HIDE DEF q
  <2> QED
    BY <1>3, <2>2, <2>3 DEF Elsewhere
<1>6. CASE \E k : sess' = [sess EXCEPT ![s].job.kind = k]
  <2>1. PICK k : sess' = [sess EXCEPT ![s].job.kind = k]
    BY <1>6
  <2>2. sess' = [sess EXCEPT ![s].job = [sess[s].job EXCEPT !.kind = k]]
    BY <2>1
  <2> QED
    BY <1>5, <2>2
<1>7. CASE SendChunk(s)
  BY <1>4, <1>5, <1>6, <1>7 DEF SendChunk
<1>8. CASE ReceiveChunk(s)
  BY <1>5, <1>8 DEF ReceiveChunk
<1>9. CASE SendListing(s) \/ EndUpload(s)
  BY <1>4, <1>6, <1>9 DEF SendListing, EndUpload
<1> QED
  BY <1>7, <1>8, <1>9 DEF Transfer

\* What CWD and CDUP do to a session.
LEMMA ChangeDirMoves ==
  ASSUME Inv, NEW s \in Session, NEW cmd, NEW path \in Path, ChangeDir(s, cmd, path)
  PROVE  /\ \A t \in Session : t # s => sess'[t] = sess[t]
         /\ sess'[s].cmd = cmd
         /\ \/ IsDir(path) /\ Allows(Root, path) /\ sess'[s].cwd = path /\ sess'[s].code = 250
            \/ ~(IsDir(path) /\ Allows(Root, path)) /\ sess'[s].cwd = sess[s].cwd /\ sess'[s].code = 550
<1>1. sess[s] \in SessRec
  BY InvOf
<1>2. CASE IsDir(path) /\ Allows(Root, path)
  <2> DEFINE r == [sess[s] EXCEPT !.cwd = path]
  <2>1. Answer(s, cmd, r, 250)
    BY <1>2 DEF ChangeDir
  <2>2. r \in SessRec /\ r.cwd = path
    BY <1>1 DEF SessRec
  <2> HIDE DEF r
  <2> QED
    BY <1>2, <2>1, <2>2, AnswerIs
<1>3. CASE ~(IsDir(path) /\ Allows(Root, path))
  <2>1. Answer(s, cmd, sess[s], 550)
    BY <1>3 DEF ChangeDir
  <2> QED
    BY <1>1, <1>3, <2>1, AnswerIs
<1> QED
  BY <1>2, <1>3

LEMMA HandleMoves ==
  ASSUME Inv, NEW s \in Session, NEW t \in Session, Handle(s)
  PROVE  sess'[t] = sess[t] \/ Elsewhere(t) \/ (t = s /\ FTP_CDUP(s))
<1>1. /\ sess[s] \in SessRec /\ Good(sess[s], remote[s], files, content)
  BY InvOf
<1>2. CASE \E cmd \in Commands : Unhandled(s, cmd)
  <2>1. Only(s, "NONE", 504)
    BY <1>2 DEF Unhandled
  <2> QED
    BY <2>1, OnlyStays
<1>3. CASE FTP_USER(s)
  <2> DEFINE r == [sess[s] EXCEPT !.state = "NEED_PASSWORD"]
  <2>1. r \in SessRec /\ r.cwd = sess[s].cwd
    BY <1>1 DEF SessRec, FtpState
  <2>2. Only(s, "USER", 430) \/ Answer(s, "USER", r, 331)
    BY <1>3 DEF FTP_USER
  <2> HIDE DEF r
  <2> QED
    BY <2>1, <2>2, OnlyStays, Stays
<1>4. CASE FTP_PASS(s)
  <2> DEFINE r == [sess[s] EXCEPT !.state = "LOGGED_IN"]
  <2>1. r \in SessRec /\ r.cwd = sess[s].cwd
    BY <1>1 DEF SessRec, FtpState
  <2>2. Answer(s, "PASS", r, 230)
    BY <1>4 DEF FTP_PASS
  <2> HIDE DEF r
  <2> QED
    BY <2>1, <2>2, Stays
<1>5. CASE FTP_PWD(s) \/ FTP_SYST(s)
  BY <1>5, OnlyStays DEF FTP_PWD, FTP_SYST
<1>6. CASE FTP_TYPE(s)
  <2>1. PICK type \in {"ASCII", "BINARY"} : Answer(s, "TYPE", [sess[s] EXCEPT !.type = type], 200)
    BY <1>6 DEF FTP_TYPE
  <2> DEFINE r == [sess[s] EXCEPT !.type = type]
  <2>2. r \in SessRec /\ r.cwd = sess[s].cwd
    BY <1>1 DEF SessRec
  <2> HIDE DEF r
  <2> QED
    BY <2>1, <2>2, Stays DEF r
<1>7. CASE FTP_CDUP(s)
  <2>1. Backward(sess[s].cwd) \in Path
    BY <1>1, ArgumentPaths DEF Good
  <2>2. t # s => sess'[t] = sess[t]
    BY <1>7, <2>1, ChangeDirMoves DEF FTP_CDUP
  <2> QED
    BY <1>7, <2>2
<1>8. CASE FTP_QUIT(s)
  BY <1>8, FreshStays DEF FTP_QUIT
<1>9. ASSUME NEW cmd, cmd # "CDUP", NEW conn \in ConnType, NEW code, Open(s, cmd, conn, code)
      PROVE  sess'[t] = sess[t] \/ Elsewhere(t)
  <2> DEFINE r == [sess[s] EXCEPT !.conn = conn, !.rest = 0]
             q == [sess[s] EXCEPT !.conn = "NOT_SPECIFIED", !.rest = 0]
  <2>1. 0 \in 0 .. MaxLen + 1 /\ "NOT_SPECIFIED" \in ConnType
    BY NoOffset DEF ConnType
  <2>2. r \in SessRec /\ r.cwd = sess[s].cwd /\ q \in SessRec /\ q.cwd = sess[s].cwd
    BY <1>1, <1>9, <2>1 DEF SessRec
  <2>3. Answer(s, cmd, r, code) \/ Answer(s, cmd, q, 434)
    BY <1>9 DEF Open
  <2> HIDE DEF r, q
  <2> QED
    BY <1>9, <2>2, <2>3, Stays
<1>10. CASE FTP_PASV(s) \/ FTP_PORT(s)
  BY <1>9, <1>10 DEF FTP_PASV, FTP_PORT, ConnType
<1>11. CASE \E resume \in {"RETR", "STOR", "part"}, offset \in 0 .. MaxLen + 1 : FTP_REST(s, resume, offset)
  <2>1. PICK x : Only(s, "REST", 434) \/ Answer(s, "REST", [sess[s] EXCEPT !.rest = x], 350)
    BY <1>11 DEF FTP_REST
  <2> DEFINE r == [sess[s] EXCEPT !.rest = x]
  <2>2. \A u \in Session : u # s => sess'[u] = sess[u]
    <3>1. CASE Only(s, "REST", 434)
      BY <1>1, <3>1, AnswerIs DEF Only
    <3>2. CASE Answer(s, "REST", r, 350)
      BY <3>2 DEF Answer, Inv
    <3> QED
      BY <2>1, <3>1, <3>2
  <2>3. sess'[s].cmd = "REST" /\ sess'[s].cwd = sess[s].cwd
    <3>1. CASE Only(s, "REST", 434)
      BY <1>1, <3>1, AnswerIs DEF Only
    <3>2. CASE Answer(s, "REST", r, 350)
      <4>1. sess'[s] = [r EXCEPT !.cmd = "REST", !.code = 350]
        BY <3>2 DEF Answer, Inv
      <4> QED
        BY <1>1, <4>1 DEF SessRec
    <3> QED
      BY <2>1, <3>1, <3>2
  <2> QED
    BY <2>2, <2>3 DEF Elsewhere
<1>12. ASSUME NEW cmd, cmd # "CDUP", NEW j, Answer(s, cmd, [sess[s] EXCEPT !.job = j], 150)
       PROVE  sess'[t] = sess[t] \/ Elsewhere(t)
  <2> DEFINE r == [sess[s] EXCEPT !.job = j]
  <2>1. /\ \A u \in Session : u # s => sess'[u] = sess[u]
        /\ sess'[s] = [r EXCEPT !.cmd = cmd, !.code = 150]
    BY <1>12 DEF Answer, Inv
  <2>2. sess'[s].cmd = cmd /\ sess'[s].cwd = sess[s].cwd
    BY <1>1, <2>1 DEF SessRec
  <2> QED
    BY <1>12, <2>1, <2>2 DEF Elsewhere
<1>13. CASE FTP_LIST(s)
  BY <1>12, <1>13, OnlyStays DEF FTP_LIST
<1>14. CASE FTP_APPE(s)
  BY <1>14, RefuseStays DEF FTP_APPE, NoConnection
<1>15. CASE \E arg \in FileArgs : FTP_RETR(s, arg) \/ FTP_STOR(s, arg)
  <2>1. PICK arg \in FileArgs : FTP_RETR(s, arg) \/ FTP_STOR(s, arg)
    BY <1>15
  <2>2. CASE FTP_RETR(s, arg)
    BY <1>12, <2>2, RefuseStays DEF FTP_RETR, NoConnection
  <2>3. CASE FTP_STOR(s, arg)
    BY <1>1, <1>12, <2>3, RefuseStays, Stays DEF FTP_STOR, NoConnection, Store
  <2> QED
    BY <2>1, <2>2, <2>3
<1>16. CASE \E arg \in DirArgs : FTP_CWD(s, arg)
  <2>1. PICK arg \in DirArgs : FTP_CWD(s, arg)
    BY <1>16
  <2>2. Target(s, arg) \in Path
    BY <1>1, ArgumentPaths, SessionAssumption DEF Good
  <2>3. /\ \A u \in Session : u # s => sess'[u] = sess[u]
        /\ sess'[s].cmd = "CWD" /\ sess'[s].cwd \in {sess[s].cwd, Target(s, arg)}
    BY <2>1, <2>2, ChangeDirMoves DEF FTP_CWD
  <2> QED
    BY <2>3 DEF Elsewhere
<1>17. CASE \E arg \in DirArgs : FTP_MKD(s, arg) \/ FTP_RMD(s, arg)
  BY <1>1, <1>17, Stays DEF FTP_MKD, FTP_RMD
<1> QED
  BY <1>2, <1>3, <1>4, <1>5, <1>6, <1>7, <1>8, <1>10, <1>11, <1>13, <1>14, <1>15, <1>16, <1>17
     DEF Handle

LEMMA StepMoves ==
  ASSUME Inv, [Next]_vars, NEW t \in Session
  PROVE  sess'[t] = sess[t] \/ Elsewhere(t) \/ FTP_CDUP(t)
<1>1. CASE UNCHANGED vars
  BY <1>1 DEF vars
<1>2. CASE Next
  <2>1. PICK s \in Session : Handle(s) \/ Transfer(s) \/ Break(s)
    BY <1>2 DEF Next
  <2> QED
    BY <2>1, HandleMoves, TransferStays, FreshStays DEF Break
<1> QED
  BY <1>1, <1>2

\* The assumption on the command line and on the clients.
NoDoubleSlash ==
  /\ Root # Slash /\ Clean(Root)
  /\ \A arg \in DirArgs : arg = RootArg \/ Plain(arg.segs)

CleanDirs == \A s \in Session : Clean(sess[s].cwd)

\* Where CDUP goes.
LEMMA UpFrom ==
  ASSUME Inv, NoDoubleSlash, CleanDirs, NEW s \in Session, FTP_CDUP(s)
  PROVE  /\ Clean(sess'[s].cwd)
         /\ Named(sess[s].cwd) =>
              IF sess'[s].code = 250 THEN Real(sess'[s].cwd) = Parent(Real(sess[s].cwd))
              ELSE Real(sess[s].cwd) = Real(Root) \/ Parent(Real(sess[s].cwd)) \notin dirs
<1> DEFINE path == sess[s].cwd
           up   == Backward(path)
<1>1. path \in Path /\ Allows(Root, path) /\ Clean(path) /\ Root \in Path /\ Root # <<>>
      /\ Root # Slash /\ Clean(Root)
  BY InvOf, SessionAssumption DEF Good, SessRec, CleanDirs, NoDoubleSlash
<1>2. ChangeDir(s, "CDUP", up)
  BY DEF FTP_CDUP
<1> HIDE DEF path
<1>3. /\ path # <<>> /\ path # Slash
      /\ Real(path) # Real(Root) => up # <<>> /\ Allows(Root, up)
  BY <1>1, BackwardAllowed
<1>4. /\ up \in Path /\ Clean(up)
      /\ Named(path) => Named(up) /\ Real(up) = Parent(Real(path))
  BY <1>1, <1>3, BackwardIsUp
<1> HIDE DEF up
<1>5. \/ IsDir(up) /\ Allows(Root, up) /\ sess'[s].cwd = up /\ sess'[s].code = 250
      \/ ~(IsDir(up) /\ Allows(Root, up)) /\ sess'[s].cwd = path /\ sess'[s].code = 550
  BY <1>2, <1>4, ChangeDirMoves DEF path
<1>6. CASE IsDir(up) /\ Allows(Root, up)
  <2>1. sess'[s].cwd = up /\ sess'[s].code = 250
    BY <1>5, <1>6
  <2> QED
    BY <1>4, <2>1 DEF path
<1>7. CASE ~(IsDir(up) /\ Allows(Root, up))
  <2>1. sess'[s].cwd = path /\ sess'[s].code # 250
    BY <1>5, <1>7
  <2>2. ASSUME Named(path), Real(path) # Real(Root) PROVE Parent(Real(path)) \notin dirs
    <3>1. Named(up) /\ Real(up) = Parent(Real(path)) /\ ~Reach(up)
      BY <1>3, <1>4, <1>7, <2>2 DEF IsDir
    <3> QED
      BY <1>4, <3>1, TreeReach DEF Inv
  <2> QED
    BY <1>1, <2>1, <2>2 DEF path
<1> QED
  BY <1>6, <1>7

LEMMA DirsStayClean ==
  ASSUME Inv, NoDoubleSlash, CleanDirs, [Next]_vars
  PROVE  CleanDirs'
<1> SUFFICES ASSUME NEW t \in Session PROVE Clean(sess'[t].cwd)
  BY DEF CleanDirs
<1>1. Clean(sess[t].cwd) /\ Clean(Root)
  BY DEF CleanDirs, NoDoubleSlash
<1>2. /\ Root \in Path /\ Root # <<>> /\ sess[t].cwd \in Path /\ sess[t].cwd # <<>> /\ sess[t].cwd # Slash
  <2>1. sess[t] \in SessRec /\ Allows(Root, sess[t].cwd)
    BY InvOf DEF Good
  <2>2. sess[t].cwd \in Path
    BY <2>1 DEF SessRec
  <2> QED
    BY <1>1, <2>1, <2>2, BackwardAllowed, SessionAssumption DEF NoDoubleSlash
<1>3. CASE Elsewhere(t)
  <2>1. ASSUME NEW arg \in DirArgs PROVE Clean(Target(t, arg))
    <3>1. CASE arg = RootArg
      <4>1. RootArg.abs /\ ~UpArg.abs
        BY DEF RootArg, UpArg, Argument
      <4>2. Target(t, arg) = Root
        BY <3>1, <4>1 DEF Target
      <4> QED
        BY <1>1, <4>2
    <3>2. CASE arg # RootArg
      <4>1. arg \in PathArgument /\ Plain(arg.segs)
        BY <3>2, SessionAssumption DEF NoDoubleSlash
      <4>2. Clean(Join(Root, arg)) /\ Clean(Join(sess[t].cwd, arg)) /\ Clean(Backward(sess[t].cwd))
        BY <1>1, <1>2, <4>1, CleanJoin, BackwardIsUp
      <4>3. Target(t, arg) \in {Join(Root, arg), Backward(sess[t].cwd), Join(sess[t].cwd, arg)}
        <5>1. CASE arg.abs
          BY <3>2, <5>1 DEF Target
        <5>2. CASE ~arg.abs /\ arg = UpArg
          BY <3>2, <5>2 DEF Target
        <5>3. CASE ~arg.abs /\ arg # UpArg
          BY <3>2, <5>3 DEF Target
        <5> QED
          BY <5>1, <5>2, <5>3
      <4> QED
        BY <4>2, <4>3
    <3> QED
      BY <3>1, <3>2
  <2> QED
    BY <1>1, <1>3, <2>1 DEF Elsewhere
<1> QED
  BY <1>1, <1>3, StepMoves, UpFrom

\* With a root and arguments that have no two slashes in a row, CDUP leads a
\* session whose path has no dots to the parent directory, whatever it and the
\* others have done before, and is refused only at the root or when the parent
\* has been removed.
THEOREM UpLeadsToParent ==
  ASSUME NoDoubleSlash
  PROVE  Spec => UpIsParent
<1>1. Init => CleanDirs
  <2>1. Init => \A s \in Session : sess[s].cwd = Root
    BY FreshIs DEF Init
  <2> QED
    BY <2>1 DEF CleanDirs, NoDoubleSlash
<1>2. Inv /\ CleanDirs /\ [Next]_vars => CleanDirs'
  BY DirsStayClean
<1>3. Spec => []CleanDirs
  BY <1>1, <1>2, InvHolds, PTL DEF Spec
<1> DEFINE Up(s) ==
      sess'[s].cmd = "CDUP" /\ sess'[s] # sess[s] /\ Named(sess[s].cwd) =>
        LET here == Real(sess[s].cwd) IN
        IF sess'[s].code = 250 THEN Real(sess'[s].cwd) = Parent(here)
        ELSE here = Real(Root) \/ Parent(here) \notin dirs
<1>4. Inv /\ CleanDirs /\ [Next]_vars => [\A s \in Session : Up(s)]_vars
  <2> SUFFICES ASSUME Inv, CleanDirs, [Next]_vars, NEW s \in Session PROVE Up(s)
    OBVIOUS
  <2>1. sess'[s] = sess[s] \/ Elsewhere(s) \/ FTP_CDUP(s)
    BY StepMoves
  <2> QED
    BY <2>1, UpFrom DEF Elsewhere
<1>5. Spec => [][\A s \in Session : Up(s)]_vars
  BY <1>3, <1>4, InvHolds, PTL DEF Spec
<1> QED
  BY <1>5 DEF UpIsParent
=============================================================================
