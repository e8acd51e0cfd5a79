----------------------------- MODULE PathProofs -----------------------------
(***************************************************************************)
(* What the path functions do to the directory a path means, for every     *)
(* path.  Real is a recursive function: what its steps keep is shown by    *)
(* SetInduction.                                                           *)
(***************************************************************************)
EXTENDS PathOps, LeastNumber, SequenceTheorems, TLAPS

-----------------------------------------------------------------------------
(* Paths are closed under what is done to sequences.                       *)

LEMMA SeqClosed ==
  ASSUME NEW S
  PROVE  /\ <<>> \in Seq(S)
         /\ \A e \in S : <<e>> \in Seq(S)
         /\ \A p \in Seq(S), e \in S :
              /\ Append(p, e) \in Seq(S) /\ Append(p, e) # <<>> /\ Len(Append(p, e)) = Len(p) + 1
              /\ Append(p, e)[Len(p) + 1] = e
              /\ \A i \in 1 .. Len(p) : Append(p, e)[i] = p[i]
         /\ \A p, q \in Seq(S) : p \o q \in Seq(S)
         /\ \A p \in Seq(S) : Len(p) \in Nat /\ (p # <<>> <=> Len(p) # 0)
         /\ \A p, q \in Seq(S), e \in S, d \in S : Append(p, e) = Append(q, d) => p = q /\ e = d
<1>1. \A p \in Seq(S), e \in S :
         /\ Append(p, e) \in Seq(S) /\ Append(p, e) # <<>> /\ Len(Append(p, e)) = Len(p) + 1
         /\ Append(p, e)[Len(p) + 1] = e
         /\ \A i \in 1 .. Len(p) : Append(p, e)[i] = p[i]
  BY AppendProperties
<1>2. \A p, q \in Seq(S), e \in S, d \in S : Append(p, e) = Append(q, d) => p = q /\ e = d
  BY AppendInjective
<1> QED
  BY <1>1, <1>2

LEMMA PathClosed ==
  /\ <<>> \in Path
  /\ \A e \in Component : <<e>> \in Path
  /\ \A p \in Path, e \in Component :
       /\ Append(p, e) \in Path /\ Append(p, e) # <<>> /\ Len(Append(p, e)) = Len(p) + 1
       /\ Append(p, e)[Len(p) + 1] = e
       /\ \A i \in 1 .. Len(p) : Append(p, e)[i] = p[i]
  /\ \A p, q \in Path : p \o q \in Path
  /\ \A p \in Path : Len(p) \in Nat /\ (p # <<>> <=> Len(p) # 0)
BY SeqClosed DEF Path
-----------------------------------------------------------------------------
(* Real as a recursive function.                                           *)

\* f is what the recursion says of the first m components of path.
Keeps(path, f, m) ==
  f = [n \in 0 .. m |->
         IF n = 0 THEN <<>> ELSE Enter(f[n - 1], path[n])]

LEMMA KeepsStep ==
  ASSUME NEW path, NEW f, NEW m \in Nat, Keeps(path, f, m)
  PROVE  /\ f[0] = <<>>
         /\ \A n \in 0 .. m - 1 : f[n + 1] = Enter(f[n], path[n + 1])
<1>1. \A i \in 0 .. m : f[i] = IF i = 0 THEN <<>> ELSE Enter(f[i - 1], path[i])
  BY DEF Keeps
<1>2. f[0] = <<>>
  <2>1. ASSUME NEW i \in 0 .. m, i = 0 PROVE f[i] = <<>>
    BY <1>1, <2>1
  <2> QED
    BY <2>1
<1>3. ASSUME NEW n \in 0 .. m - 1
      PROVE  f[n + 1] = Enter(f[n], path[n + 1])
  <2>1. n + 1 \in 0 .. m /\ n + 1 # 0 /\ (n + 1) - 1 = n
    OBVIOUS
  <2>2. f[n + 1] = IF n + 1 = 0 THEN <<>> ELSE Enter(f[(n + 1) - 1], path[n + 1])
    BY <1>1, <2>1
  <2> QED
    BY <2>1, <2>2
<1> QED
  BY <1>2, <1>3

LEMMA KeepsExists ==
  ASSUME NEW path \in Path
  PROVE  \A m \in Nat : \E f : Keeps(path, f, m)
<1> DEFINE S == {m \in Nat : \E f : Keeps(path, f, m)}
<1>1. 0 \in S
  <2>1. Keeps(path, [n \in 0 .. 0 |-> <<>>], 0)
    BY DEF Keeps
  <2> QED
    BY <2>1
<1>2. ASSUME NEW m \in Nat, m \in S PROVE m + 1 \in S
  <2>1. PICK f : Keeps(path, f, m)
    BY <1>2
  <2> DEFINE last == Enter(f[m], path[m + 1])
             g == [n \in 0 .. m + 1 |-> IF n = m + 1 THEN last ELSE f[n]]
  <2> HIDE DEF last
  <2>2. \A n \in 0 .. m : g[n] = f[n]
    OBVIOUS
  <2>3. g[m + 1] = last /\ g[m] = f[m]
    OBVIOUS
  <2>4. \A n \in 0 .. m : f[n] = IF n = 0 THEN <<>> ELSE Enter(f[n - 1], path[n])
    BY <2>1 DEF Keeps
  <2>5. \A n \in 0 .. m + 1 : g[n] = IF n = 0 THEN <<>> ELSE Enter(g[n - 1], path[n])
    <3> SUFFICES ASSUME NEW n \in 0 .. m + 1
                 PROVE  g[n] = IF n = 0 THEN <<>> ELSE Enter(g[n - 1], path[n])
      OBVIOUS
    <3>1. CASE n = m + 1
      <4>1. n # 0 /\ n - 1 = m
        BY <3>1
      <4>2. g[n] = Enter(g[n - 1], path[n])
        BY <2>3, <3>1, <4>1 DEF last
      <4> HIDE DEF g
      <4> QED
        BY <4>1, <4>2
    <3>2. CASE n # m + 1
      <4>1. n \in 0 .. m /\ (n # 0 => n - 1 \in 0 .. m)
        BY <3>2
      <4> QED
        BY <2>2, <2>4, <4>1
    <3> QED
      BY <3>1, <3>2
  <2>6. Keeps(path, g, m + 1)
    <3>1. g = [n \in 0 .. m + 1 |-> g[n]]
      OBVIOUS
    <3> HIDE DEF g
    <3> QED
      BY <2>5, <3>1 DEF Keeps
  <2> QED
    BY <2>6
<1> HIDE DEF S
<1>3. Nat \subseteq S
  BY <1>1, <1>2, SetInduction
<1> QED
  BY <1>3 DEF S

\* The components of p that count are those of its beginning and its last one.
LEMMA KeepsPrefix ==
  ASSUME NEW p \in Path, NEW q \in Path, NEW f, NEW g,
         NEW k \in Nat, NEW m \in Nat, NEW n \in Nat, n <= k, n <= m,
         Keeps(p, f, k), Keeps(q, g, m), \A i \in 1 .. n : p[i] = q[i]
  PROVE  f[n] = g[n]
<1> DEFINE S == {i \in Nat : i <= n => f[i] = g[i]}
<1>1. 0 \in S
  <2>1. f[0] = <<>> /\ g[0] = <<>>
    BY KeepsStep
  <2> QED
    BY <2>1
<1>2. ASSUME NEW i \in Nat, i \in S PROVE i + 1 \in S
  <2> SUFFICES ASSUME i + 1 <= n PROVE f[i + 1] = g[i + 1]
    OBVIOUS
  <2>1. i \in 0 .. k - 1 /\ i \in 0 .. m - 1 /\ i + 1 \in 1 .. n /\ f[i] = g[i]
    BY <1>2
  <2>2. f[i + 1] = Enter(f[i], p[i + 1])
    BY <2>1, KeepsStep
  <2>3. g[i + 1] = Enter(g[i], q[i + 1])
    BY <2>1, KeepsStep
  <2>4. p[i + 1] = q[i + 1]
    BY <2>1
  <2> QED
    BY <2>1, <2>2, <2>3, <2>4
<1> HIDE DEF S
<1>3. Nat \subseteq S
  BY <1>1, <1>2, SetInduction
<1> QED
  BY <1>3 DEF S

LEMMA RealIs ==
  ASSUME NEW path \in Path
  PROVE  \E f : Keeps(path, f, Len(path)) /\ Real(path) = f[Len(path)]
<1> DEFINE f == CHOOSE g : Keeps(path, g, Len(path))
<1>1. Keeps(path, f, Len(path))
  <2>1. Len(path) \in Nat
    BY DEF Path
  <2> QED
    BY <2>1, KeepsExists
<1>2. Real(path) = f[Len(path)]
  BY DEF Real, Keeps
<1> QED
  BY <1>1, <1>2

\* The empty string and "/" mean the root of the file system.
LEMMA RealEmpty == Real(<<>>) = <<>>
<1>1. <<>> \in Path /\ Len(<<>>) = 0
  BY DEF Path
<1>2. PICK f : Keeps(<<>>, f, Len(<<>>)) /\ Real(<<>>) = f[Len(<<>>)]
  BY <1>1, RealIs
<1> QED
  BY <1>1, <1>2, KeepsStep

\* The step of the recursion.
LEMMA RealAppend ==
  ASSUME NEW path \in Path, NEW name \in Component
  PROVE  Real(Append(path, name)) = Enter(Real(path), name)
<1> DEFINE q == Append(path, name)
           n == Len(path)
<1>1. /\ q \in Path /\ Len(q) = n + 1 /\ q[n + 1] = name /\ \A i \in 1 .. n : q[i] = path[i]
      /\ n \in Nat
  BY AppendProperties DEF Path
<1> HIDE DEF q
<1>2. PICK f : Keeps(path, f, n) /\ Real(path) = f[n]
  BY RealIs
<1>3. PICK g : Keeps(q, g, n + 1) /\ Real(q) = g[n + 1]
  BY <1>1, RealIs
<1> HIDE DEF n
<1>4. g[n] = f[n]
  BY <1>1, <1>2, <1>3, KeepsPrefix
<1>5. g[n + 1] = Enter(g[n], q[n + 1])
  <2>1. n \in 0 .. (n + 1) - 1 /\ n + 1 \in Nat
    BY <1>1
  <2> QED
    BY <1>3, <2>1, KeepsStep
<1> QED
  BY <1>1, <1>2, <1>3, <1>4, <1>5 DEF q

\* Induction over paths.
LEMMA PathInduction ==
  ASSUME NEW S, <<>> \in S, \A p \in Path, e \in Component : p \in S => Append(p, e) \in S
  PROVE  Path \subseteq S
<1> DEFINE T == {n \in Nat : \A p \in Path : Len(p) = n => p \in S}
<1>1. 0 \in T
  <2>1. \A p \in Path : Len(p) = 0 => p = <<>>
    BY DEF Path
  <2> QED
    BY <2>1
<1>2. ASSUME NEW n \in Nat, n \in T PROVE n + 1 \in T
  <2> SUFFICES ASSUME NEW p \in Path, Len(p) = n + 1 PROVE p \in S
    BY <1>2
  <2>1. p # <<>>
    BY <1>2 DEF Path
  <2>2. PICK q \in Path, e \in Component : p = Append(q, e)
    BY <2>1, SequenceEmptyOrAppend DEF Path
  <2>3. Len(q) = n
    BY <2>2, AppendProperties DEF Path
  <2> QED
    BY <1>2, <2>2, <2>3
<1> HIDE DEF T
<1>3. Nat \subseteq T
  BY <1>1, <1>2, SetInduction
<1> QED
  BY <1>3 DEF T, Path

LEMMA FrontLast ==
  ASSUME NEW path \in Path, path # <<>>
  PROVE  /\ Front(path) \in Path /\ Last(path) \in Component
         /\ path = Append(Front(path), Last(path))
<1>1. PICK q \in Path, e \in Component : path = Append(q, e)
  BY SequenceEmptyOrAppend DEF Path
<1>2. /\ Len(path) = Len(q) + 1 /\ path[Len(q) + 1] = e /\ \A i \in 1 .. Len(q) : path[i] = q[i]
      /\ Len(q) \in Nat
  BY <1>1, PathClosed
<1>3. Last(path) = e
  BY <1>2 DEF Last
<1>4. Front(path) = q
  <2>1. Front(path) = SubSeq(path, 1, Len(q))
    BY <1>2 DEF Front
  <2>2. \A i \in 1 .. Len(q) : path[i] \in Component
    BY <1>2, ElementOfSeq DEF Path
  <2>3. /\ Front(path) \in Seq(Component) /\ Len(Front(path)) = Len(q)
        /\ \A i \in 1 .. Len(q) : Front(path)[i] = path[i]
    BY <1>2, <2>1, <2>2, SubSeqProperties
  <2> QED
    BY <1>2, <2>3, SeqEqual DEF Path
<1> QED
  BY <1>1, <1>3, <1>4

LEMMA EnterType ==
  ASSUME NEW dir \in Path, NEW name \in Component
  PROVE  Parent(dir) \in Path /\ Enter(dir, name) \in Path
<1>1. Parent(dir) \in Path
  <2>1. CASE dir = <<>>
    BY <2>1, PathClosed DEF Parent
  <2>2. CASE dir # <<>>
    BY <2>2, FrontLast DEF Parent
  <2> QED
    BY <2>1, <2>2
<1>2. Append(dir, name) \in Path
  BY PathClosed
<1> QED
  BY <1>1, <1>2 DEF Enter

LEMMA RealType ==
  ASSUME NEW path \in Path
  PROVE  Real(path) \in Path
<1> DEFINE S == {p \in Path : Real(p) \in Path}
<1>1. <<>> \in S
  BY RealEmpty, PathClosed
<1>2. \A p \in Path, e \in Component : p \in S => Append(p, e) \in S
  <2> SUFFICES ASSUME NEW p \in Path, NEW e \in Component, Real(p) \in Path
               PROVE  Append(p, e) \in Path /\ Real(Append(p, e)) \in Path
    OBVIOUS
  <2>1. Real(Append(p, e)) = Enter(Real(p), e)
    BY RealAppend
  <2>2. Append(p, e) \in Path /\ Enter(Real(p), e) \in Path
    BY PathClosed, EnterType
  <2> QED
    BY <2>1, <2>2
<1> HIDE DEF S
<1>3. Path \subseteq S
  BY <1>1, <1>2, PathInduction
<1> QED
  BY <1>3 DEF S

\* A path without dots is made of such.
LEMMA NamedAppend ==
  ASSUME NEW path \in Path, NEW name \in Component, Named(Append(path, name))
  PROVE  /\ Named(path) /\ name \notin {".", ".."}
         /\ \A dir : Enter(dir, name) = IF name = "" THEN dir ELSE Append(dir, name)
<1> DEFINE q == Append(path, name)
           n == Len(path)
<1>1. n \in Nat /\ Len(q) = n + 1 /\ q[n + 1] = name /\ \A i \in 1 .. n : q[i] = path[i]
  BY PathClosed
<1>2. \A i \in 1 .. Len(q) : q[i] \notin {".", ".."}
  BY DEF Named
<1> HIDE DEF q
<1>3. n + 1 \in 1 .. Len(q) /\ \A i \in 1 .. n : i \in 1 .. Len(q)
  BY <1>1
<1>4. name \notin {".", ".."}
  BY <1>1, <1>2, <1>3
<1>5. \A i \in 1 .. n : path[i] \notin {".", ".."}
  BY <1>1, <1>2, <1>3
<1> QED
  BY <1>4, <1>5 DEF Named, Enter

\* Appending to a concatenation is appending to its second part.
LEMMA ConcatAppend ==
  ASSUME NEW p \in Path, NEW q \in Path, NEW e \in Component
  PROVE  p \o Append(q, e) = Append(p \o q, e)
<1>1. Append(q, e) = q \o <<e>> /\ p \o q \in Path /\ Append(p \o q, e) = (p \o q) \o <<e>>
  BY AppendIsConcat, ConcatProperties DEF Path
<1>2. <<e>> \in Path
  BY PathClosed
<1>3. (p \o q) \o <<e>> = p \o (q \o <<e>>)
  BY <1>2, ConcatAssociative DEF Path
<1> QED
  BY <1>1, <1>3

\* The directory a path without dots leads to from another one.
LEMMA RealConcat ==
  ASSUME NEW p \in Path, NEW r \in Path, Named(r)
  PROVE  Real(p \o r) = Real(p) \o Real(r)
<1> DEFINE S == {q \in Path : Named(q) => Real(p \o q) = Real(p) \o Real(q)}
<1>1. <<>> \in S
  <2>1. p \o <<>> = p /\ Real(p) \o <<>> = Real(p) /\ <<>> \in Path
    BY RealType, ConcatEmptySeq DEF Path
  <2> QED
    BY <2>1, RealEmpty
<1>2. \A q \in Path, e \in Component : q \in S => Append(q, e) \in S
  <2> SUFFICES ASSUME NEW q \in Path, NEW e \in Component, q \in S, Named(Append(q, e))
               PROVE  /\ Append(q, e) \in Path
                      /\ Real(p \o Append(q, e)) = Real(p) \o Real(Append(q, e))
    BY PathClosed
  <2>1. Append(q, e) \in Path /\ p \o q \in Path
    BY PathClosed
  <2>2. Real(p \o q) = Real(p) \o Real(q)
    BY NamedAppend
  <2>3. \A dir : Enter(dir, e) = IF e = "" THEN dir ELSE Append(dir, e)
    BY NamedAppend
  <2>4. Real(p \o Append(q, e)) = IF e = "" THEN Real(p \o q) ELSE Append(Real(p \o q), e)
    BY <2>1, <2>3, ConcatAppend, RealAppend
  <2>5. Real(Append(q, e)) = IF e = "" THEN Real(q) ELSE Append(Real(q), e)
    BY <2>3, RealAppend
  <2>6. Real(p) \o Append(Real(q), e) = Append(Real(p) \o Real(q), e)
    BY RealType, ConcatAppend
  <2> QED
    BY <2>1, <2>2, <2>4, <2>5, <2>6
<1> HIDE DEF S
<1>3. Path \subseteq S
  BY <1>1, <1>2, PathInduction
<1> QED
  BY <1>3 DEF S

\* Where a path leads depends on where it starts, not on how that is written.
LEMMA RealFrom ==
  ASSUME NEW p \in Path, NEW q \in Path, Real(p) = Real(q), NEW r \in Path
  PROVE  Real(p \o r) = Real(q \o r)
<1> DEFINE S == {u \in Path : Real(p \o u) = Real(q \o u)}
<1>1. <<>> \in S
  <2>1. p \o <<>> = p /\ q \o <<>> = q /\ <<>> \in Path
    BY ConcatEmptySeq DEF Path
  <2> QED
    BY <2>1
<1>2. \A u \in Path, e \in Component : u \in S => Append(u, e) \in S
  <2> SUFFICES ASSUME NEW u \in Path, NEW e \in Component, Real(p \o u) = Real(q \o u)
               PROVE  /\ Append(u, e) \in Path
                      /\ Real(p \o Append(u, e)) = Real(q \o Append(u, e))
    OBVIOUS
  <2>1. Append(u, e) \in Path /\ p \o u \in Path /\ q \o u \in Path
    BY PathClosed
  <2>2. Real(p \o Append(u, e)) = Enter(Real(p \o u), e)
    BY <2>1, ConcatAppend, RealAppend
  <2>3. Real(q \o Append(u, e)) = Enter(Real(q \o u), e)
    BY <2>1, ConcatAppend, RealAppend
  <2> QED
    BY <2>1, <2>2, <2>3
<1> HIDE DEF S
<1>3. Path \subseteq S
  BY <1>1, <1>2, PathInduction
<1> QED
  BY <1>3 DEF S
-----------------------------------------------------------------------------
(* The functions of filesystem.c.                                          *)

LEMMA AppendOnce ==
  ASSUME NEW p \in Path, NEW q \in Path, NEW d \in Component, NEW e \in Component,
         Append(p, d) = Append(q, e)
  PROVE  p = q
<1> DEFINE S == Component
<1>1. p \in Seq(S) /\ q \in Seq(S) /\ d \in S /\ e \in S
  BY DEF Path
<1> HIDE DEF S
<1>2. \A u, v \in Seq(S), a \in S, b \in S : Append(u, a) = Append(v, b) => u = v /\ a = b
  BY SeqClosed
<1> QED
  BY <1>1, <1>2, Zenon

\* What Front is to Append.
LEMMA FrontAppend ==
  ASSUME NEW path \in Path, NEW name \in Component
  PROVE  Front(Append(path, name)) = path
<1>1. Append(path, name) \in Path /\ Append(path, name) # <<>>
  BY PathClosed
<1>2. /\ Append(path, name) = Append(Front(Append(path, name)), Last(Append(path, name)))
      /\ Front(Append(path, name)) \in Path /\ Last(Append(path, name)) \in Component
  BY <1>1, FrontLast
<1> DEFINE front == Front(Append(path, name))
           last  == Last(Append(path, name))
<1>3. Append(path, name) = Append(front, last) /\ front \in Path /\ last \in Component
  BY <1>2
<1> HIDE DEF front, last
<1>4. path = front
  BY <1>3, AppendOnce
<1> QED
  BY <1>4 DEF front

\* A slash at the end makes no difference to what a path means.
LEMMA RealStripped ==
  ASSUME NEW path \in Path
  PROVE  Stripped(path) \in Path /\ Real(Stripped(path)) = Real(path)
<1>1. CASE EndsWithSlash(path) /\ path # Slash
  <2>1. /\ Front(path) \in Path /\ Last(path) = "" /\ Last(path) \in Component
        /\ path = Append(Front(path), Last(path))
    BY <1>1, FrontLast DEF EndsWithSlash
  <2>2. Real(path) = Real(Front(path))
    BY <2>1, RealAppend DEF Enter
  <2> QED
    BY <1>1, <2>1, <2>2 DEF Stripped
<1>2. CASE ~(EndsWithSlash(path) /\ path # Slash)
  BY <1>2 DEF Stripped
<1> QED
  BY <1>1, <1>2

LEMMA RealFrontSlash ==
  ASSUME NEW path \in Path, EndsWithSlash(path)
  PROVE  Front(path) \in Path /\ Real(Front(path)) = Real(path)
<1>1. /\ Front(path) \in Path /\ Last(path) = "" /\ Last(path) \in Component
      /\ path = Append(Front(path), Last(path))
  BY FrontLast DEF EndsWithSlash
<1> QED
  BY <1>1, RealAppend DEF Enter

\* fs_path_join leads from the directory along the argument, whichever of the
\* two brings the slash between them.
LEMMA RealJoin ==
  ASSUME NEW path \in Path, NEW arg \in PathArgument
  PROVE  Join(path, arg) \in Path /\ Real(Join(path, arg)) = Real(path \o arg.segs)
<1>1. arg.segs \in Path
  BY DEF PathArgument
<1>2. CASE ~arg.abs /\ EndsWithSlash(path)
  <2>1. Front(path) \in Path /\ Real(Front(path)) = Real(path)
    BY <1>2, RealFrontSlash
  <2>2. Join(path, arg) = Front(path) \o arg.segs
    BY <1>2 DEF Join
  <2>3. Front(path) \o arg.segs \in Path
    BY <1>1, <2>1 DEF Path
  <2> QED
    BY <1>1, <2>1, <2>2, <2>3, RealFrom
<1>3. CASE ~(~arg.abs /\ EndsWithSlash(path))
  <2>1. Join(path, arg) = path \o arg.segs
    BY <1>3 DEF Join
  <2>2. path \o arg.segs \in Path
    BY <1>1 DEF Path
  <2> QED
    BY <2>1, <2>2
<1> QED
  BY <1>2, <1>3

LEMMA StrippedNonEmpty ==
  ASSUME NEW path \in Path, path # <<>>
  PROVE  Stripped(path) # <<>>
<1>1. CASE EndsWithSlash(path) /\ path # Slash
  <2>1. Front(path) \in Path /\ path = Append(Front(path), Last(path)) /\ Last(path) = ""
    BY <1>1, FrontLast DEF EndsWithSlash
  <2>2. Append(<<>>, "") = <<"">>
    OBVIOUS
  <2>3. Front(path) # <<>>
    BY <1>1, <2>1, <2>2 DEF Slash
  <2> QED
    BY <1>1, <2>3 DEF Stripped
<1>2. CASE ~(EndsWithSlash(path) /\ path # Slash)
  BY <1>2 DEF Stripped
<1> QED
  BY <1>1, <1>2

LEMMA BackwardType ==
  ASSUME NEW path \in Path, path # <<>>
  PROVE  Backward(path) \in Path
<1>1. CASE path = Slash
  BY <1>1 DEF Backward
<1>2. CASE path # Slash
  <2>1. Stripped(path) # <<>>
    BY StrippedNonEmpty
  <2>2. Front(Stripped(path)) \in Path
    BY <2>1, RealStripped, FrontLast
  <2> QED
    BY <1>2, <2>2 DEF Backward
<1> QED
  BY <1>1, <1>2
-----------------------------------------------------------------------------
(* Prefixes, of paths and of the chunks of a file.                         *)

LEMMA PrefixIs ==
  ASSUME NEW S, NEW p \in Seq(S), NEW q \in Seq(S)
  PROVE  IsPrefix(p, q) <=> Len(p) <= Len(q) /\ \A i \in 1 .. Len(p) : p[i] = q[i]
<1> SUFFICES ASSUME Len(p) <= Len(q)
             PROVE  SubSeq(p, 1, Len(p)) = SubSeq(q, 1, Len(p)) <=> \A i \in 1 .. Len(p) : p[i] = q[i]
  BY DEF IsPrefix
<1> DEFINE t == SubSeq(q, 1, Len(p))
<1>1. SubSeq(p, 1, Len(p)) = p
  BY SubSeqFull
<1>2. t \in Seq(S) /\ Len(t) = Len(p) /\ \A i \in 1 .. Len(p) : t[i] = q[i]
  <2>1. \A i \in 1 .. Len(p) : q[i] \in S
    BY ElementOfSeq
  <2>2. /\ t \in Seq(S) /\ Len(t) = IF 1 <= Len(p) THEN Len(p) - 1 + 1 ELSE 0
        /\ \A i \in 1 .. Len(p) - 1 + 1 : t[i] = q[1 + i - 1]
    BY <2>1, SubSeqProperties
  <2> QED
    BY <2>2
<1> HIDE DEF t
<1>3. (\A i \in 1 .. Len(p) : p[i] = q[i]) => p = t
  BY <1>2, SeqEqual
<1> QED
  BY <1>1, <1>2, <1>3 DEF t

LEMMA PrefixOrder ==
  ASSUME NEW S
  PROVE  /\ \A p \in Seq(S) : IsPrefix(<<>>, p) /\ IsPrefix(p, p)
         /\ \A p, q, r \in Seq(S) : IsPrefix(p, q) /\ IsPrefix(q, r) => IsPrefix(p, r)
         /\ \A p, q \in Seq(S) : IsPrefix(p, q) /\ Len(p) = Len(q) => p = q
         /\ \A p, q \in Seq(S) : IsPrefix(p, p \o q)
<1>1. \A p \in Seq(S) : IsPrefix(<<>>, p)
  <2> DEFINE e == <<>>
  <2>1. e \in Seq(S) /\ Len(e) = 0
    OBVIOUS
  <2> HIDE DEF e
  <2>2. ASSUME NEW p \in Seq(S) PROVE IsPrefix(e, p)
    <3>1. Len(e) <= Len(p) /\ \A i \in 1 .. Len(e) : e[i] = p[i]
      BY <2>1
    <3> QED
      BY <2>1, <3>1, PrefixIs
  <2> QED
    BY <2>2 DEF e
<1>2. \A p \in Seq(S) : IsPrefix(p, p)
  BY PrefixIs
<1>3. ASSUME NEW p \in Seq(S), NEW q \in Seq(S), NEW r \in Seq(S), IsPrefix(p, q), IsPrefix(q, r)
      PROVE  IsPrefix(p, r)
  <2>1. Len(p) <= Len(q) /\ Len(q) <= Len(r) /\ Len(p) \in Nat /\ Len(q) \in Nat /\ Len(r) \in Nat
    BY <1>3, PrefixIs
  <2>2. \A i \in 1 .. Len(p) : p[i] = q[i] /\ i \in 1 .. Len(q)
    BY <1>3, <2>1, PrefixIs
  <2>3. \A i \in 1 .. Len(q) : q[i] = r[i]
    BY <1>3, PrefixIs
  <2> QED
    BY <2>1, <2>2, <2>3, PrefixIs
<1>4. ASSUME NEW p \in Seq(S), NEW q \in Seq(S), IsPrefix(p, q), Len(p) = Len(q)
      PROVE  p = q
  <2>1. \A i \in 1 .. Len(p) : p[i] = q[i]
    BY <1>4, PrefixIs
  <2> QED
    BY <1>4, <2>1, SeqEqual
<1>5. ASSUME NEW p \in Seq(S), NEW q \in Seq(S)
      PROVE  IsPrefix(p, p \o q)
  <2>1. /\ p \o q \in Seq(S) /\ Len(p \o q) = Len(p) + Len(q) /\ Len(p) \in Nat /\ Len(q) \in Nat
        /\ \A i \in 1 .. Len(p) + Len(q) : (p \o q)[i] = IF i <= Len(p) THEN p[i] ELSE q[i - Len(p)]
    BY ConcatProperties
  <2>2. \A i \in 1 .. Len(p) : i \in 1 .. Len(p) + Len(q) /\ i <= Len(p)
    BY <2>1
  <2> DEFINE t == p \o q
  <2>3. \A i \in 1 .. Len(p) : p[i] = t[i]
    BY <2>1, <2>2
  <2>4. t \in Seq(S) /\ Len(p) <= Len(t)
    BY <2>1
  <2> HIDE DEF t
  <2>5. IsPrefix(p, t)
    BY <2>3, <2>4, PrefixIs
  <2> QED
    BY <2>5 DEF t
<1> QED
  BY <1>1, <1>2, <1>3, <1>4, <1>5

\* The rest of a sequence after one of its prefixes.
LEMMA PrefixRest ==
  ASSUME NEW S, NEW p \in Seq(S), NEW q \in Seq(S), IsPrefix(p, q)
  PROVE  /\ SubSeq(q, Len(p) + 1, Len(q)) \in Seq(S)
         /\ q = p \o SubSeq(q, Len(p) + 1, Len(q))
<1>1. Len(p) \in Nat /\ Len(q) \in Nat /\ Len(p) <= Len(q) /\ SubSeq(p, 1, Len(p)) = SubSeq(q, 1, Len(p))
  BY DEF IsPrefix
<1>2. 1 \in 1 .. Len(q) + 1 /\ Len(p) \in 1 - 1 .. Len(q) /\ Len(q) \in Len(p) .. Len(q)
  BY <1>1
<1>3. SubSeq(q, 1, Len(p)) \o SubSeq(q, Len(p) + 1, Len(q)) = SubSeq(q, 1, Len(q))
  BY <1>2, ConcatAdjacentSubSeq
<1>4. SubSeq(q, 1, Len(q)) = q /\ SubSeq(p, 1, Len(p)) = p
  BY SubSeqFull
<1>5. SubSeq(q, Len(p) + 1, Len(q)) \in Seq(S)
  <2>1. \A i \in Len(p) + 1 .. Len(q) : q[i] \in S
    BY <1>1, ElementOfSeq
  <2> QED
    BY <1>1, <2>1, SubSeqProperties
<1> QED
  BY <1>1, <1>3, <1>4, <1>5

LEMMA SubSeqOne ==
  ASSUME NEW S, NEW q \in Seq(S), NEW n \in 1 .. Len(q)
  PROVE  q[n] \in S /\ SubSeq(q, n, n) = <<q[n]>>
<1> DEFINE e == q[n]
           t == SubSeq(q, n, n)
<1>1. e \in S /\ n \in Int /\ n <= n /\ n - n + 1 = 1
  BY ElementOfSeq
<1>2. \A i \in n .. n : q[i] \in S
  BY <1>1
<1>3. t \in Seq(S) /\ Len(t) = 1 /\ \A i \in 1 .. 1 : t[i] = q[n + i - 1]
  BY <1>1, <1>2, SubSeqProperties
<1>4. t[1] = e
  <2>1. \A i \in 1 .. 1 : n + i - 1 = n /\ i = 1
    BY <1>1
  <2> QED
    BY <1>3, <2>1
<1> HIDE DEF t, e
<1>5. t = <<e>> /\ e \in S
  BY <1>1, <1>3, <1>4
<1> QED
  BY <1>5 DEF t, e

\* A prefix that is not the whole is still one with the next element added.
LEMMA PrefixNext ==
  ASSUME NEW S, NEW p \in Seq(S), NEW q \in Seq(S), Len(p) < Len(q)
  PROVE  /\ p \o SubSeq(q, Len(p) + 1, Len(p) + 1) \in Seq(S)
         /\ Len(p \o SubSeq(q, Len(p) + 1, Len(p) + 1)) = Len(p) + 1
         /\ IsPrefix(p, q) => IsPrefix(p \o SubSeq(q, Len(p) + 1, Len(p) + 1), q)
<1> DEFINE n == Len(p) + 1
           e == q[n]
           t == p \o SubSeq(q, n, n)
<1>1. Len(p) \in Nat /\ n \in 1 .. Len(q) /\ n <= Len(q)
  OBVIOUS
<1>2. e \in S /\ t = p \o <<e>>
  <2> HIDE DEF n
  <2> QED
    BY <1>1, SubSeqOne
<1>3. p \o <<e>> = Append(p, e)
  BY <1>2, AppendIsConcat
<1> HIDE DEF e, t
<1>4. /\ t \in Seq(S) /\ Len(t) = n /\ t[n] = e
      /\ \A i \in 1 .. Len(p) : t[i] = p[i]
  BY <1>2, <1>3, AppendProperties
<1>5. ASSUME IsPrefix(p, q) PROVE IsPrefix(t, q)
  <2>1. \A i \in 1 .. Len(p) : p[i] = q[i]
    BY <1>5, PrefixIs
  <2>2. \A i \in 1 .. n : i = n \/ i \in 1 .. Len(p)
    BY <1>1
  <2>3. e = q[n]
    BY DEF e
  <2> HIDE DEF n
  <2>4. \A i \in 1 .. n : t[i] = q[i]
    BY <1>4, <2>1, <2>2, <2>3
  <2> QED
    BY <1>1, <1>4, <2>4, PrefixIs
<1> QED
  BY <1>4, <1>5 DEF t

\* The prefixes of a path are the paths on the way to it: the root, the path
\* itself, and with each of them its parent.
LEMMA PrefixesAre ==
  ASSUME NEW path \in Path
  PROVE  /\ <<>> \in Prefixes(path) /\ path \in Prefixes(path)
         /\ \A d \in Prefixes(path) : d \in Path /\ IsPrefix(d, path)
         /\ \A d \in Path : IsPrefix(d, path) => d \in Prefixes(path)
<1> DEFINE n == Len(path)
<1>1. n \in Nat /\ path \in Seq(Component)
  BY DEF Path
<1>2. SubSeq(path, 1, n) = path /\ SubSeq(path, 1, 0) = <<>>
  BY <1>1, SubSeqFull, SubSeqEmpty
<1>3. ASSUME NEW d \in Prefixes(path)
      PROVE  d \in Path /\ IsPrefix(d, path)
  <2>1. PICK l \in 0 .. n : d = SubSeq(path, 1, l)
    BY <1>3 DEF Prefixes
  <2>2. \A i \in 1 .. l : path[i] \in Component
    BY <1>1, <2>1, ElementOfSeq
  <2>3. l \in Int /\ 1 \in Int /\ l - 1 + 1 = l /\ (1 <= l \/ l = 0)
    BY <2>1
  <2>4. d \in Seq(Component) /\ Len(d) = l /\ \A i \in 1 .. l : d[i] = path[1 + i - 1]
    <3>1. /\ d \in Seq(Component) /\ Len(d) = IF 1 <= l THEN l - 1 + 1 ELSE 0
          /\ \A i \in 1 .. l - 1 + 1 : d[i] = path[1 + i - 1]
      BY <2>1, <2>2, <2>3, SubSeqProperties
    <3> QED
      BY <2>3, <3>1
  <2>5. \A i \in 1 .. l : d[i] = path[i]
    BY <2>1, <2>4
  <2>6. l <= Len(path)
    BY <1>1, <2>1
  <2>7. IsPrefix(d, path)
    BY <1>1, <2>4, <2>5, <2>6, PrefixIs
  <2> QED
    BY <2>4, <2>7 DEF Path
<1>4. ASSUME NEW d \in Path, IsPrefix(d, path)
      PROVE  d \in Prefixes(path)
  <2>1. Len(d) \in 0 .. n /\ SubSeq(d, 1, Len(d)) = SubSeq(path, 1, Len(d))
    BY <1>1, <1>4 DEF IsPrefix, Path
  <2>2. SubSeq(d, 1, Len(d)) = d
    BY SubSeqFull DEF Path
  <2> QED
    BY <2>1, <2>2 DEF Prefixes
<1>5. <<>> \in Prefixes(path) /\ path \in Prefixes(path)
  <2>1. 0 \in 0 .. n /\ n \in 0 .. n
    BY <1>1
  <2> HIDE DEF n
  <2>2. SubSeq(path, 1, 0) \in {SubSeq(path, 1, l) : l \in 0 .. n}
    BY <2>1
  <2>3. SubSeq(path, 1, n) \in {SubSeq(path, 1, l) : l \in 0 .. n}
    BY <2>1
  <2> QED
    BY <1>2, <2>2, <2>3 DEF Prefixes, n
<1> QED
  BY <1>3, <1>4, <1>5

LEMMA PathPrefix ==
  /\ \A p \in Path : IsPrefix(<<>>, p) /\ IsPrefix(p, p)
  /\ \A p, q, r \in Path : IsPrefix(p, q) /\ IsPrefix(q, r) => IsPrefix(p, r)
  /\ \A p, q \in Path : IsPrefix(p, p \o q)
BY PrefixOrder DEF Path

LEMMA FrontIsPrefix ==
  ASSUME NEW path \in Path, path # <<>>
  PROVE  Front(path) \in Path /\ IsPrefix(Front(path), path)
<1> DEFINE f == Front(path)
           e == Last(path)
<1>1. f \in Path /\ e \in Component /\ path = Append(f, e)
  BY FrontLast
<1> HIDE DEF f, e
<1>2. path = f \o <<e>> /\ <<e>> \in Path
  BY <1>1, PathClosed, AppendIsConcat DEF Path
<1>3. IsPrefix(f, path)
  <2> DEFINE t == <<e>>
  <2>1. t \in Path
    BY <1>2
  <2> HIDE DEF t
  <2>2. IsPrefix(f, f \o t)
    BY <1>1, <2>1, PathPrefix
  <2> QED
    BY <1>2, <2>2 DEF t
<1> QED
  BY <1>1, <1>3 DEF f

LEMMA PrefixesFront ==
  ASSUME NEW path \in Path, NEW d \in Prefixes(path), d # <<>>
  PROVE  Front(d) \in Prefixes(path)
<1>1. d \in Path /\ IsPrefix(d, path)
  BY PrefixesAre
<1>2. Front(d) \in Path /\ IsPrefix(Front(d), d)
  BY <1>1, FrontIsPrefix
<1>3. IsPrefix(Front(d), path)
  BY <1>1, <1>2, PrefixOrder DEF Path
<1> QED
  BY <1>2, <1>3, PrefixesAre

LEMMA PrefixFront ==
  ASSUME NEW p \in Path, NEW q \in Path, IsPrefix(p, q), p # q
  PROVE  q # <<>> /\ Front(q) \in Path /\ IsPrefix(p, Front(q))
<1>1. Len(p) \in Nat /\ Len(q) \in Nat /\ Len(p) <= Len(q) /\ \A i \in 1 .. Len(p) : p[i] = q[i]
  BY PrefixIs DEF Path
<1>2. Len(p) # Len(q)
  BY PrefixOrder DEF Path
<1>3. q # <<>>
  BY <1>1, <1>2, PathClosed
<1> DEFINE f == Front(q)
           e == Last(q)
<1>4. f \in Path /\ e \in Component /\ q = Append(f, e)
  BY <1>3, FrontLast
<1> HIDE DEF f, e
<1>5. Len(q) = Len(f) + 1 /\ Len(f) \in Nat /\ \A i \in 1 .. Len(f) : q[i] = f[i]
  BY <1>4, PathClosed
<1>6. Len(p) <= Len(f) /\ \A i \in 1 .. Len(p) : p[i] = f[i]
  <2>1. \A i \in 1 .. Len(p) : i \in 1 .. Len(f)
    BY <1>1, <1>2, <1>5
  <2> QED
    BY <1>1, <1>2, <1>5, <2>1
<1>7. IsPrefix(p, f)
  BY <1>4, <1>6, PrefixIs DEF Path
<1> QED
  BY <1>3, <1>4, <1>7 DEF f

\* The prefixes of a path one component longer.
LEMMA PrefixesAppend ==
  ASSUME NEW path \in Path, NEW name \in Component
  PROVE  /\ Prefixes(path) \subseteq Prefixes(Append(path, name))
         /\ \A p \in Prefixes(Append(path, name)) : p \in Prefixes(path) \/ p = Append(path, name)
<1> DEFINE q == Append(path, name)
<1>1. q \in Path /\ q # <<>> /\ Front(q) = path
  BY PathClosed, FrontAppend
<1> HIDE DEF q
<1>2. IsPrefix(path, q)
  BY <1>1, FrontIsPrefix
<1>3. ASSUME NEW p \in Prefixes(path) PROVE p \in Prefixes(q)
  BY <1>1, <1>2, PrefixesAre, PathPrefix
<1>4. ASSUME NEW p \in Prefixes(q), p # q PROVE p \in Prefixes(path)
  <2>1. p \in Path /\ IsPrefix(p, q)
    BY <1>1, PrefixesAre
  <2>2. IsPrefix(p, path)
    BY <1>1, <1>4, <2>1, PrefixFront
  <2> QED
    BY <2>1, <2>2, PrefixesAre
<1> QED
  BY <1>3, <1>4 DEF q

LEMMA NamedPrefix ==
  ASSUME NEW p \in Path, NEW q \in Path, IsPrefix(p, q), Named(q)
  PROVE  Named(p)
<1>1. Len(p) \in Nat /\ Len(q) \in Nat /\ Len(p) <= Len(q) /\ \A i \in 1 .. Len(p) : p[i] = q[i]
  BY PrefixIs DEF Path
<1>2. \A i \in 1 .. Len(p) : i \in 1 .. Len(q)
  BY <1>1
<1> QED
  BY <1>1, <1>2 DEF Named

LEMMA NamedRest ==
  ASSUME NEW p \in Path, NEW q \in Path, Named(p \o q)
  PROVE  Named(q)
<1> DEFINE t == p \o q
           n == Len(p)
           m == Len(q)
<1>0. p \in Seq(Component) /\ q \in Seq(Component)
  BY DEF Path
<1>1. n \in Nat /\ m \in Nat /\ Len(t) = n + m
  BY <1>0, ConcatProperties
<1>2. \A i \in 1 .. n + m : t[i] = IF i <= n THEN p[i] ELSE q[i - n]
  BY <1>0, ConcatProperties
<1>3. \A i \in 1 .. Len(t) : t[i] \notin {".", ".."}
  BY DEF Named
<1> HIDE DEF t, n, m
<1>4. ASSUME NEW i \in 1 .. m PROVE q[i] \notin {".", ".."}
  <2>1. n + i \in 1 .. n + m /\ ~(n + i <= n) /\ (n + i) - n = i
    BY <1>1
  <2>2. t[n + i] = q[i]
    BY <1>2, <2>1
  <2>3. t[n + i] \notin {".", ".."}
    BY <1>1, <1>3, <2>1
  <2> QED
    BY <2>2, <2>3
<1> QED
  BY <1>4 DEF Named, m

LEMMA NamedStripped ==
  ASSUME NEW path \in Path, Named(path)
  PROVE  Named(Stripped(path))
<1>1. CASE EndsWithSlash(path) /\ path # Slash
  <2>1. path # <<>> /\ Stripped(path) = Front(path)
    BY <1>1 DEF EndsWithSlash, Stripped
  <2> QED
    BY <2>1, FrontIsPrefix, NamedPrefix
<1>2. CASE ~(EndsWithSlash(path) /\ path # Slash)
  BY <1>2 DEF Stripped
<1> QED
  BY <1>1, <1>2

LEMMA AddName ==
  ASSUME NEW path \in Path, NEW name \in Component
  PROVE  /\ path \o <<name>> = Append(path, name) /\ path \o <<name>> \in Path
         /\ Len(path \o <<name>>) = Len(path) + 1
         /\ IsPrefix(path, path \o <<name>>)
<1> DEFINE e == <<name>>
<1>1. path \o e = Append(path, name)
  BY AppendIsConcat DEF Path
<1>2. Append(path, name) \in Path /\ Len(Append(path, name)) = Len(path) + 1 /\ e \in Path
  BY PathClosed
<1> HIDE DEF e
<1>3. IsPrefix(path, path \o e)
  BY <1>2, PathPrefix
<1> QED
  BY <1>1, <1>2, <1>3 DEF e

\* A slash added at the end.
LEMMA AddSlash ==
  ASSUME NEW path \in Path
  PROVE  /\ path \o Slash \in Path /\ Len(path \o Slash) = Len(path) + 1
         /\ Real(path \o Slash) = Real(path)
         /\ IsPrefix(path, path \o Slash)
<1>1. PICK name \in Component : name = ""
  BY DEF Component
<1>2. Slash = <<name>>
  BY <1>1 DEF Slash
<1>3. Real(Append(path, name)) = Real(path)
  BY <1>1, RealAppend DEF Enter
<1> QED
  BY <1>2, <1>3, AddName

LEMMA RealSlash == Slash \in Path /\ Real(Slash) = <<>>
<1>1. <<>> \o Slash = Slash
  BY DEF Slash
<1>2. <<>> \in Path
  BY PathClosed
<1> QED
  BY <1>1, <1>2, AddSlash, RealEmpty
-----------------------------------------------------------------------------
(* service_root.                                                           *)

\* What fs_directory_allows lets through lies in the directory of the root,
\* when there are no dots in it.
LEMMA AllowsInside ==
  ASSUME NEW root \in Path, root # <<>>, NEW path \in Path, Allows(root, path)
  PROVE  path # <<>> /\ (Named(path) => IsPrefix(Real(root), Real(path)))
<1>1. CASE root = Slash
  <2>1. path # <<>>
    BY <1>1 DEF Allows
  <2>2. Real(root) = <<>>
    BY <1>1, RealSlash
  <2> QED
    BY <2>1, <2>2, RealType, PathPrefix
<1>2. CASE root # Slash
  <2> DEFINE r == Stripped(root)
             t == Stripped(path)
             u == SubSeq(t, Len(r) + 1, Len(t))
  <2>1. r \in Path /\ Real(r) = Real(root) /\ t \in Path /\ Real(t) = Real(path) /\ r # <<>>
    BY RealStripped, StrippedNonEmpty
  <2>2. IsPrefix(r, t)
    BY <1>2 DEF Allows
  <2> HIDE DEF r, t
  <2>3. u \in Path /\ t = r \o u
    BY <2>1, <2>2, PrefixRest DEF Path
  <2> HIDE DEF u
  <2>4. ASSUME Named(path) PROVE Real(t) = Real(r) \o Real(u)
    <3>1. Named(t)
      BY <2>4, NamedStripped DEF t
    <3>2. Named(u)
      BY <2>1, <2>3, <3>1, NamedRest
    <3> QED
      BY <2>1, <2>3, <3>2, RealConcat
  <2>5. path # <<>>
    <3>1. Stripped(<<>>) = <<>>
      BY DEF Stripped, EndsWithSlash
    <3>2. t # <<>>
      BY <2>1, <2>2 DEF IsPrefix, Path
    <3> QED
      BY <3>1, <3>2 DEF t
  <2> QED
    BY <2>1, <2>3, <2>4, <2>5, RealType, PathPrefix
<1> QED
  BY <1>1, <1>2

LEMMA AllowsRoot ==
  ASSUME NEW root \in Path, root # <<>>
  PROVE  Allows(root, root)
<1>1. Stripped(root) \in Path
  BY RealStripped
<1> QED
  BY <1>1, PathPrefix DEF Allows

\* fs_path_erase and fs_path_join are inverse to each other, as far as the
\* directory is concerned, when the root is not the one of the file system.
LEMMA EraseJoin ==
  ASSUME NEW root \in Path, root # <<>>, root # Slash, NEW path \in Path, Allows(root, path)
  PROVE  /\ Erase(root, path).abs
         /\ IF Erase(root, path) = RootArg THEN Real(root) = Real(path)
            ELSE Real(Join(root, Erase(root, path))) = Real(path)
<1> DEFINE r == Stripped(root)
           t == Stripped(path)
           u == SubSeq(t, Len(r) + 1, Len(t))
           shown == t \o Slash
           segs == SubSeq(shown, Len(r) + 1, Len(shown))
<1>1. r \in Path /\ Real(r) = Real(root) /\ t \in Path /\ Real(t) = Real(path)
  BY RealStripped
<1>2. IsPrefix(r, t)
  BY DEF Allows
<1>3. Erase(root, path) = Argument(TRUE, segs)
  BY DEF Erase, Slash
<1>4. shown \in Path /\ Len(shown) = Len(t) + 1 /\ Real(shown) = Real(t) /\ IsPrefix(t, shown)
  BY <1>1, AddSlash
<1> HIDE DEF r, t, shown
<1>5. u \in Path /\ t = r \o u
  BY <1>1, <1>2, PrefixRest DEF Path
<1>6. IsPrefix(r, shown)
  BY <1>1, <1>2, <1>4, PathPrefix
<1>7. segs \in Path /\ shown = r \o segs
  BY <1>1, <1>4, <1>6, PrefixRest DEF Path
<1> HIDE DEF segs, u
<1>8. Real(shown) = Real(path)
  BY <1>1, <1>4
<1>9. Real(root \o segs) = Real(path)
  BY <1>1, <1>7, <1>8, RealFrom
<1>10. Argument(TRUE, segs).abs /\ Argument(TRUE, segs).segs = segs /\ Argument(TRUE, segs) \in PathArgument
  BY <1>7 DEF Argument, PathArgument
<1>11. Real(Join(root, Argument(TRUE, segs))) = Real(root \o segs)
  BY <1>10, RealJoin
<1>12. ASSUME Argument(TRUE, segs) = RootArg PROVE Real(root) = Real(path)
  <2>1. segs = Slash
    BY <1>12 DEF Argument, RootArg
  <2>2. Real(root \o Slash) = Real(root)
    BY AddSlash
  <2> QED
    BY <1>9, <2>1, <2>2
<1> QED
  BY <1>3, <1>9, <1>10, <1>11, <1>12
-----------------------------------------------------------------------------
(* Up one directory, on paths without two slashes in a row.                *)

\* A path in which no two slashes follow each other, the first one apart.
Clean(path) == \A i \in 1 .. Len(path) - 1 : path[i] # "" \/ path[i + 1] # ""

\* What a client types: such a path, not beginning with another slash.
Plain(path) == Clean(path) /\ (path # <<>> => path[1] # "")

LEMMA CleanPrefix ==
  ASSUME NEW p \in Path, NEW q \in Path, IsPrefix(p, q), Clean(q)
  PROVE  Clean(p)
<1>1. Len(p) \in Nat /\ Len(q) \in Nat /\ Len(p) <= Len(q) /\ \A i \in 1 .. Len(p) : p[i] = q[i]
  BY PrefixIs DEF Path
<1>2. ASSUME NEW i \in 1 .. Len(p) - 1 PROVE p[i] # "" \/ p[i + 1] # ""
  <2>1. i \in 1 .. Len(q) - 1 /\ i \in 1 .. Len(p) /\ i + 1 \in 1 .. Len(p)
    BY <1>1
  <2>2. p[i] = q[i] /\ p[i + 1] = q[i + 1]
    BY <1>1, <2>1
  <2>3. q[i] # "" \/ q[i + 1] # ""
    BY <2>1 DEF Clean
  <2> QED
    BY <2>2, <2>3
<1> QED
  BY <1>2 DEF Clean

LEMMA CleanConcat ==
  ASSUME NEW p \in Path, NEW q \in Path, Clean(p), Plain(q)
  PROVE  Clean(p \o q)
<1> DEFINE t == p \o q
           n == Len(p)
           m == Len(q)
<1>0. p \in Seq(Component) /\ q \in Seq(Component)
  BY DEF Path
<1>1. n \in Nat /\ m \in Nat /\ Len(t) = n + m
  BY <1>0, ConcatProperties
<1>2. \A i \in 1 .. n + m : t[i] = IF i <= n THEN p[i] ELSE q[i - n]
  BY <1>0, ConcatProperties
<1>3. m # 0 => q[1] # ""
  <2>1. m # 0 => q # <<>>
    BY <1>0
  <2> QED
    BY <2>1 DEF Plain
<1>4. /\ \A i \in 1 .. n - 1 : p[i] # "" \/ p[i + 1] # ""
      /\ \A i \in 1 .. m - 1 : q[i] # "" \/ q[i + 1] # ""
  BY DEF Clean, Plain
<1> HIDE DEF t, n, m
<1>5. ASSUME NEW i \in 1 .. n + m - 1 PROVE t[i] # "" \/ t[i + 1] # ""
  <2>1. i \in 1 .. n + m /\ i + 1 \in 1 .. n + m
    BY <1>1
  <2>2. CASE i < n
    <3>1. i \in 1 .. n - 1 /\ i <= n /\ i + 1 <= n
      BY <1>1, <2>2
    <3> QED
      BY <1>2, <1>4, <2>1, <3>1
  <2>3. CASE i = n
    <3>1. ~(i + 1 <= n) /\ (i + 1) - n = 1 /\ m # 0
      BY <1>1, <2>1, <2>3
    <3> QED
      BY <1>2, <1>3, <2>1, <3>1
  <2>4. CASE i > n
    <3>1. ~(i <= n) /\ ~(i + 1 <= n) /\ i - n \in 1 .. m - 1 /\ (i + 1) - n = (i - n) + 1
      BY <1>1, <2>1, <2>4
    <3>2. q[i - n] # "" \/ q[(i - n) + 1] # ""
      BY <1>4, <3>1
    <3> QED
      BY <1>2, <2>1, <3>1, <3>2
  <2>5. i < n \/ i = n \/ i > n
    BY <1>1
  <2> QED
    BY <2>2, <2>3, <2>4, <2>5
<1>6. Clean(t)
  <2>1. 1 .. Len(t) - 1 = 1 .. n + m - 1
    BY <1>1
  <2> QED
    BY <1>5, <2>1 DEF Clean
<1> QED
  BY <1>6 DEF t

\* One slash at the end is all there is.
LEMMA StrippedEnd ==
  ASSUME NEW path \in Path, path # <<>>, path # Slash, Clean(path)
  PROVE  /\ Stripped(path) \in Path /\ Stripped(path) # <<>> /\ Clean(Stripped(path))
         /\ Last(Stripped(path)) # ""
<1>1. CASE EndsWithSlash(path)
  <2> DEFINE f == Front(path)
  <2>1. f \in Path /\ path = Append(f, "") /\ IsPrefix(f, path) /\ Stripped(path) = f
    BY <1>1, FrontLast, FrontIsPrefix DEF EndsWithSlash, Stripped
  <2>2. f # <<>>
    BY <1>1, <2>1, StrippedNonEmpty
  <2> HIDE DEF f
  <2>3. "" \in Component
    BY DEF Component
  <2>4. /\ Len(path) = Len(f) + 1 /\ path[Len(f) + 1] = "" /\ Len(f) \in Nat /\ Len(f) # 0
        /\ \A i \in 1 .. Len(f) : path[i] = f[i]
    BY <2>1, <2>2, <2>3, PathClosed
  <2>5. path[Len(f)] # "" /\ path[Len(f)] = f[Len(f)]
    <3> DEFINE n == Len(f)
    <3>1. n \in Nat /\ n # 0 /\ Len(path) = n + 1
      BY <2>4
    <3>2. \A i \in 1 .. n : path[i] = f[i]
      BY <2>4
    <3>3. path[n + 1] = ""
      BY <2>4
    <3> HIDE DEF n
    <3>4. n \in 1 .. Len(path) - 1 /\ n \in 1 .. n
      BY <3>1
    <3>5. path[n] # "" \/ path[n + 1] # ""
      BY <3>4 DEF Clean
    <3>6. path[n] # "" /\ path[n] = f[n]
      BY <3>2, <3>3, <3>4, <3>5
    <3> QED
      BY <3>6 DEF n
  <2>6. Last(f) = f[Len(f)]
    BY DEF Last
  <2> QED
    BY <2>1, <2>2, <2>5, <2>6, CleanPrefix
<1>2. CASE ~EndsWithSlash(path)
  <2>1. Stripped(path) = path
    BY <1>2 DEF Stripped
  <2> QED
    BY <1>2, <2>1 DEF EndsWithSlash
<1> QED
  BY <1>1, <1>2

LEMMA CleanJoin ==
  ASSUME NEW path \in Path, Clean(path), NEW arg \in PathArgument, Plain(arg.segs)
  PROVE  Clean(Join(path, arg))
<1>1. arg.segs \in Path
  BY DEF PathArgument
<1>2. CASE ~arg.abs /\ EndsWithSlash(path)
  <2>1. Front(path) \in Path /\ Clean(Front(path))
    BY <1>2, FrontIsPrefix, CleanPrefix DEF EndsWithSlash
  <2> QED
    BY <1>1, <1>2, <2>1, CleanConcat DEF Join
<1>3. CASE ~(~arg.abs /\ EndsWithSlash(path))
  BY <1>1, <1>3, CleanConcat DEF Join
<1> QED
  BY <1>2, <1>3

\* fs_path_backward leads to the parent directory, from a path without dots.
LEMMA BackwardIsUp ==
  ASSUME NEW path \in Path, path # <<>>, path # Slash, Clean(path)
  PROVE  /\ Backward(path) \in Path /\ Clean(Backward(path))
         /\ Named(path) => Named(Backward(path)) /\ Real(Backward(path)) = Parent(Real(path))
<1> DEFINE t == Stripped(path)
           f == Front(t)
           e == Last(t)
<1>1. t \in Path /\ t # <<>> /\ Clean(t) /\ e # "" /\ Real(t) = Real(path)
  BY StrippedEnd, RealStripped
<1>2. f \in Path /\ e \in Component /\ t = Append(f, e) /\ IsPrefix(f, t)
  BY <1>1, FrontLast, FrontIsPrefix
<1>3. Backward(path) = f
  BY DEF Backward
<1>4. Named(path) => Named(t)
  BY NamedStripped
<1> HIDE DEF t, e, f
<1>5. Clean(f)
  BY <1>1, <1>2, CleanPrefix
<1>6. ASSUME Named(path) PROVE Named(f) /\ Real(f) = Parent(Real(path))
  <2>1. Named(f) /\ Enter(Real(f), e) = Append(Real(f), e)
    BY <1>1, <1>2, <1>4, <1>6, NamedAppend
  <2>2. Real(t) = Append(Real(f), e)
    BY <1>2, <2>1, RealAppend
  <2>3. Front(Append(Real(f), e)) = Real(f) /\ Append(Real(f), e) # <<>>
    BY <1>2, RealType, FrontAppend, PathClosed
  <2> QED
    BY <1>1, <2>1, <2>2, <2>3 DEF Parent
<1> QED
  BY <1>2, <1>3, <1>5, <1>6

LEMMA SlashIs == Slash = Append(<<>>, "") /\ "" \in Component
<1>1. Append(<<>>, "") = <<"">>
  OBVIOUS
<1>2. "" \in Component
  BY DEF Component
<1> QED
  BY <1>1, <1>2 DEF Slash

LEMMA PrefixNonEmpty ==
  ASSUME NEW p \in Path, NEW q \in Path, IsPrefix(p, q), p # <<>>
  PROVE  q # <<>>
<1>1. Len(p) \in Nat /\ Len(q) \in Nat /\ Len(p) <= Len(q) /\ Len(p) # 0
  BY PrefixIs DEF Path
<1>2. Len(q) # 0
  BY <1>1
<1> QED
  BY <1>2

\* The parent of what is in the root is in the root as well, the root apart.
LEMMA BackwardAllowed ==
  ASSUME NEW root \in Path, root # <<>>, root # Slash, Clean(root),
         NEW path \in Path, Clean(path), Allows(root, path)
  PROVE  /\ path # <<>> /\ path # Slash
         /\ Real(path) # Real(root) => Backward(path) # <<>> /\ Allows(root, Backward(path))
<1> DEFINE r == Stripped(root)
           t == Stripped(path)
           f == Front(t)
<1>1. r \in Path /\ r # <<>> /\ Last(r) # "" /\ Real(r) = Real(root)
  BY StrippedEnd, RealStripped
<1>2. IsPrefix(r, t) /\ t \in Path /\ Real(t) = Real(path)
  BY RealStripped DEF Allows
<1>3. path # <<>>
  BY AllowsInside
<1>4. path # Slash
  <2> SUFFICES ASSUME path = Slash PROVE FALSE
    OBVIOUS
  <2>1. t = Slash
    BY DEF Stripped
  <2>2. r # Slash
    <3>1. Slash # <<>> /\ Last(Slash) = ""
      BY DEF Slash, Last
    <3> QED
      BY <1>1, <3>1
  <2> HIDE DEF r, t
  <2>3. r # t
    BY <2>1, <2>2
  <2>4. Front(t) \in Path /\ IsPrefix(r, Front(t))
    BY <1>1, <1>2, <2>3, PrefixFront
  <2>5. Slash = Append(<<>>, "") /\ "" \in Component /\ <<>> \in Path
    BY SlashIs, PathClosed
  <2>6. Front(t) = <<>>
    BY <2>1, <2>5, FrontAppend
  <2> QED
    BY <1>1, <2>4, <2>6, PrefixNonEmpty
<1>5. ASSUME Real(path) # Real(root) PROVE Backward(path) # <<>> /\ Allows(root, Backward(path))
  <2>1. r # t
    BY <1>1, <1>2, <1>5
  <2>2. Backward(path) = f
    BY <1>4 DEF Backward
  <2> HIDE DEF r, t, f
  <2>3. f \in Path /\ IsPrefix(r, f)
    BY <1>1, <1>2, <2>1, PrefixFront DEF f
  <2>4. f # <<>>
    BY <1>1, <2>3, PrefixNonEmpty
  <2>5. IsPrefix(r, Stripped(f))
    <3>1. CASE EndsWithSlash(f) /\ f # Slash
      <4>1. Stripped(f) = Front(f) /\ Last(f) = ""
        BY <3>1 DEF Stripped, EndsWithSlash
      <4>2. r # f
        BY <1>1, <4>1
      <4> QED
        BY <1>1, <2>3, <4>1, <4>2, PrefixFront
    <3>2. CASE ~(EndsWithSlash(f) /\ f # Slash)
      BY <2>3, <3>2 DEF Stripped
    <3> QED
      BY <3>1, <3>2
  <2> QED
    BY <2>2, <2>4, <2>5 DEF Allows, r
<1> QED
  BY <1>3, <1>4, <1>5
=============================================================================
