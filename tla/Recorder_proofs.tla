--------------------------- MODULE Recorder_proofs ---------------------------
(***************************************************************************)
(* Theorems about Recorder.                                                *)
(***************************************************************************)
EXTENDS Recorder, DataInduction, FiniteSetTheorems, SequenceTheorems

Byte == Conns \X Dirs \X Nat
Chunk == [dir : Dirs, data : Seq(Byte)]
Dump == [id : Conns, pinned : BOOLEAN, closed : BOOLEAN, chunks : Seq(Chunk),
         written : [Dirs -> Nat], total : [Dirs -> Nat], cut : SUBSET Dirs, full : BOOLEAN]

-----------------------------------------------------------------------------
(* What chunks hold of a direction.                                         *)

LEMMA ChunkUpdate ==
  ASSUME NEW c \in Chunk, NEW data
  PROVE  [c EXCEPT !.data = data] = [dir |-> c.dir, data |-> data]
<1> DEFINE x == [c EXCEPT !.data = data]
           y == [dir |-> c.dir, data |-> data]
<1>1. c = [f \in {"dir", "data"} |-> c[f]]
  BY DEF Chunk
<1>2. x = [f \in {"dir", "data"} |-> IF f = "data" THEN data ELSE c[f]]
  BY <1>1
<1>3. y = [f \in {"dir", "data"} |-> IF f = "data" THEN data ELSE c[f]]
  OBVIOUS
<1> QED
  BY <1>2, <1>3

\* What one chunk holds of a direction.
Piece(c, dir) == IF c.dir = dir THEN c.data ELSE <<>>
Joining(dir) == [p \in Seq(Byte) \X Chunk |-> p[1] \o Piece(p[2], dir)]

LEMMA JoiningType ==
  ASSUME NEW dir \in Dirs
  PROVE  Joining(dir) \in Steps(Chunk, Seq(Byte))
<1>1. ASSUME NEW p \in Seq(Byte) \X Chunk PROVE p[1] \o Piece(p[2], dir) \in Seq(Byte)
  <2>1. p[1] \in Seq(Byte) /\ Piece(p[2], dir) \in Seq(Byte)
    BY <1>1 DEF Chunk, Piece
  <2> QED
    BY <2>1
<1> QED
  BY <1>1 DEF Joining, Steps

LEMMA JoinedIsFold ==
  ASSUME NEW chunks \in Seq(Chunk), NEW dir \in Dirs
  PROVE  \E f \in [0..Len(chunks) -> Seq(Byte)] :
           /\ IsFold(f, <<>>, Joining(dir), chunks)
           /\ Joined(chunks, dir) = f[Len(chunks)]
<1>1. PICK f \in [0..Len(chunks) -> Seq(Byte)] : IsFold(f, <<>>, Joining(dir), chunks)
  <2>1. <<>> \in Seq(Byte)
    OBVIOUS
  <2> QED
    BY <2>1, JoiningType, FoldExists
<1> DEFINE R(g) == [i \in 0..Len(chunks) |->
              IF i = 0 THEN <<>>
              ELSE g[i - 1] \o (IF chunks[i].dir = dir THEN chunks[i].data ELSE <<>>)]
<1>2. f = R(f)
  <2>1. ASSUME NEW i \in 0..Len(chunks) PROVE f[i] = R(f)[i]
    <3>1. CASE i = 0
      BY <1>1, <3>1 DEF IsFold
    <3>2. CASE i # 0
      <4>1. i \in 1..Len(chunks) /\ i - 1 \in 0..Len(chunks) /\ chunks[i] \in Chunk
        BY <3>2
      <4>2. f[i - 1] \in Seq(Byte)
        BY <1>1, <4>1
      <4>3. <<f[i - 1], chunks[i]>> \in Seq(Byte) \X Chunk
        BY <4>1, <4>2
      <4>4. f[i] = Joining(dir)[<<f[i - 1], chunks[i]>>]
        BY <1>1, <4>1 DEF IsFold
      <4>5. f[i] = f[i - 1] \o Piece(chunks[i], dir)
        BY <4>3, <4>4 DEF Joining
      <4> QED
        BY <3>2, <4>5 DEF Piece
    <3> QED
      BY <3>1, <3>2
  <2>2. f = [i \in 0..Len(chunks) |-> f[i]]
    BY <1>1
  <2> QED
    BY <2>1, <2>2
<1> DEFINE F == CHOOSE g : g = R(g)
<1>3. F = R(F)
  BY <1>2, Zenon
<1>4. Joined(chunks, dir) = F[Len(chunks)]
  BY Zenon DEF Joined
<1> HIDE DEF F
<1> DEFINE T == {i \in 0..Len(chunks) : F[i] = f[i]}
<1>5. \A i \in 0..Len(chunks) : F[i] = R(F)[i] /\ f[i] = R(f)[i]
  BY <1>2, <1>3, Zenon
<1>6. 0 \in T
  <2>1. 0 \in 0..Len(chunks)
    OBVIOUS
  <2>2. F[0] = <<>> /\ f[0] = <<>>
    BY <1>5, <2>1
  <2> QED
    BY <2>1, <2>2
<1>7. ASSUME NEW i \in 1..Len(chunks), i - 1 \in T PROVE i \in T
  <2>1. i \in 0..Len(chunks) /\ i # 0 /\ F[i - 1] = f[i - 1]
    BY <1>7
  <2>2. F[i] = f[i]
    BY <1>5, <2>1
  <2> QED
    BY <2>1, <2>2
<1> HIDE DEF T
<1>8. \A i \in 0..Len(chunks) : i \in T
  <2>1. Len(chunks) \in Nat
    OBVIOUS
  <2> QED
    BY <1>6, <1>7, <2>1, UpTo
<1>9. F[Len(chunks)] = f[Len(chunks)]
  BY <1>8 DEF T
<1> QED
  BY <1>1, <1>4, <1>9

LEMMA JoinedType ==
  ASSUME NEW chunks \in Seq(Chunk), NEW dir \in Dirs
  PROVE  Joined(chunks, dir) \in Seq(Byte)
<1>1. Len(chunks) \in 0..Len(chunks)
  OBVIOUS
<1> QED
  BY <1>1, JoinedIsFold

LEMMA JoinedEmpty ==
  ASSUME NEW dir \in Dirs
  PROVE  Joined(<<>>, dir) = <<>>
<1>1. <<>> \in Seq(Chunk) /\ Len(<<>>) = 0
  OBVIOUS
<1>2. PICK f : IsFold(f, <<>>, Joining(dir), <<>>) /\ Joined(<<>>, dir) = f[0]
  BY <1>1, JoinedIsFold
<1> QED
  BY <1>2 DEF IsFold

LEMMA JoinedAppend ==
  ASSUME NEW chunks \in Seq(Chunk), NEW c \in Chunk, NEW dir \in Dirs
  PROVE  Joined(Append(chunks, c), dir) = Joined(chunks, dir) \o Piece(c, dir)
<1> DEFINE more == Append(chunks, c)
<1>1. more \in Seq(Chunk) /\ Len(more) = Len(chunks) + 1 /\ <<>> \in Seq(Byte)
  OBVIOUS
<1>2. PICK f : IsFold(f, <<>>, Joining(dir), chunks) /\ Joined(chunks, dir) = f[Len(chunks)]
  BY JoinedIsFold
<1>3. PICK g : IsFold(g, <<>>, Joining(dir), more) /\ Joined(more, dir) = g[Len(more)]
  BY <1>1, JoinedIsFold
<1>4. g[Len(chunks) + 1] = Joining(dir)[<<f[Len(chunks)], c>>]
  <2> DEFINE op == Joining(dir)
             Y == Seq(Byte)
             b == <<>>
  <2>1. op \in Steps(Chunk, Y) /\ b \in Y
    BY <1>1, JoiningType
  <2>2. IsFold(f, b, op, chunks) /\ IsFold(g, b, op, Append(chunks, c))
    BY <1>2, <1>3
  <2> HIDE DEF op, Y, b
  <2>3. g[Len(chunks) + 1] = op[<<f[Len(chunks)], c>>]
    BY <2>1, <2>2, FoldAppend
  <2> QED
    BY <2>3 DEF op
<1>5. <<f[Len(chunks)], c>> \in Seq(Byte) \X Chunk
  BY <1>2, JoinedType
<1> QED
  BY <1>1, <1>2, <1>3, <1>4, <1>5 DEF Joining

\* A write puts its data at the end of its own direction and leaves the other
\* one alone, whether it joins the last chunk or makes a new one.
LEMMA ExtendedJoined ==
  ASSUME NEW d \in Dump, NEW dir \in Dirs, NEW data \in Seq(Byte)
  PROVE  /\ Extended(d, dir, data) \in Seq(Chunk)
         /\ Len(Extended(d, dir, data)) =
              IF Joins(d, dir) THEN Len(d.chunks) ELSE Len(d.chunks) + 1
         /\ \A e \in Dirs : Joined(Extended(d, dir, data), e) =
                             Joined(d.chunks, e) \o (IF e = dir THEN data ELSE <<>>)
<1> DEFINE cs == d.chunks
           new == [dir |-> dir, data |-> data]
<1>1. cs \in Seq(Chunk) /\ new \in Chunk
  BY DEF Dump, Chunk
<1>2. CASE ~Joins(d, dir)
  <2>1. Extended(d, dir, data) = Append(cs, new)
    BY <1>2 DEF Extended
  <2>2. ASSUME NEW e \in Dirs
        PROVE Piece(new, e) = IF e = dir THEN data ELSE <<>>
    BY DEF Piece
  <2>3. Append(cs, new) \in Seq(Chunk) /\ Len(Append(cs, new)) = Len(cs) + 1
    BY <1>1
  <2> HIDE DEF cs, new
  <2>4. \A e \in Dirs : Joined(Append(cs, new), e) = Joined(cs, e) \o Piece(new, e)
    BY <1>1, JoinedAppend
  <2> USE DEF cs
  <2> QED
    BY <1>2, <2>1, <2>2, <2>3, <2>4
<1>3. CASE Joins(d, dir)
  <2> DEFINE n == Len(cs)
             last == cs[n]
             front == [i \in 1..(n - 1) |-> cs[i]]
             longer == [dir |-> dir, data |-> last.data \o data]
  <2>1. n \in Nat \ {0} /\ last \in Chunk /\ last.dir = dir
    BY <1>1, <1>3 DEF Joins, Last
  <2>2. longer \in Chunk /\ last.data \in Seq(Byte) /\ last = [dir |-> dir, data |-> last.data]
    BY <2>1 DEF Chunk
  <2>3. front \in Seq(Chunk) /\ Len(front) = n - 1
    BY <1>1, <2>1
  <2>4. cs = Append(front, last)
    BY <1>1, <2>1, <2>3
  <2>5. Extended(d, dir, data) = [cs EXCEPT ![n] = longer]
    <3>1. [last EXCEPT !.data = @ \o data] = longer
      BY <2>1, ChunkUpdate
    <3>2. Extended(d, dir, data) = [cs EXCEPT ![n] = [last EXCEPT !.data = @ \o data]]
      BY <1>3 DEF Extended
    <3> QED
      BY <3>1, <3>2
  <2>6. [cs EXCEPT ![n] = longer] = Append(front, longer)
    BY <1>1, <2>1, <2>2, <2>3
  <2>7. ASSUME NEW e \in Dirs
        PROVE  /\ Piece(longer, e) = Piece(last, e) \o (IF e = dir THEN data ELSE <<>>)
               /\ Piece(last, e) \in Seq(Byte)
    <3>1. last.dir = dir /\ longer.dir = dir /\ longer.data = last.data \o data
          /\ last.data \in Seq(Byte)
      BY <2>1, <2>2
    <3> HIDE DEF last, longer
    <3>2. CASE e = dir
      BY <3>1, <3>2 DEF Piece
    <3>3. CASE e # dir
      <4>1. Piece(longer, e) = <<>> /\ Piece(last, e) = <<>>
        BY <3>1, <3>3 DEF Piece
      <4> QED
        BY <3>3, <4>1
    <3> QED
      BY <3>2, <3>3
  <2> HIDE DEF front, last, longer, cs, n
  <2>8. ASSUME NEW e \in Dirs
        PROVE  Joined(Append(front, longer), e) =
                 Joined(cs, e) \o (IF e = dir THEN data ELSE <<>>)
    <3> DEFINE more == IF e = dir THEN data ELSE <<>>
    <3>1. /\ Joined(Append(front, longer), e) = Joined(front, e) \o Piece(longer, e)
          /\ Joined(cs, e) = Joined(front, e) \o Piece(last, e)
      BY <2>1, <2>2, <2>3, <2>4, JoinedAppend
    <3>2. Joined(front, e) \in Seq(Byte) /\ Piece(last, e) \in Seq(Byte) /\ more \in Seq(Byte)
      BY <2>3, <2>7, JoinedType
    <3>3. Piece(longer, e) = Piece(last, e) \o more
      BY <2>7
    <3> HIDE DEF more
    <3>4. Joined(front, e) \o (Piece(last, e) \o more) = (Joined(front, e) \o Piece(last, e)) \o more
      BY <3>2
    <3> QED
      BY <3>1, <3>3, <3>4 DEF more
  <2>9. Append(front, longer) \in Seq(Chunk) /\ Len(Append(front, longer)) = n
    BY <2>1, <2>2, <2>3
  <2> QED
    BY <1>3, <2>5, <2>6, <2>8, <2>9 DEF cs, n
<1> QED
  BY <1>2, <1>3

-----------------------------------------------------------------------------
(* Parts of a stream.                                                       *)

At(k, dir, i) == <<k, dir, i>>

LEMMA BytesType ==
  ASSUME NEW k \in Conns, NEW dir \in Dirs, NEW from \in Nat, NEW n \in Nat
  PROVE  /\ Bytes(k, dir, from, n) \in Seq(Byte)
         /\ Len(Bytes(k, dir, from, n)) = n
         /\ \A i \in 1..n : Bytes(k, dir, from, n)[i] = At(k, dir, from + i)
<1>1. ASSUME NEW i \in 1..n PROVE At(k, dir, from + i) \in Byte
  BY DEF Byte, At
<1>2. Bytes(k, dir, from, n) = [i \in 1..n |-> At(k, dir, from + i)]
  BY DEF Bytes, At
<1> QED
  BY <1>1, <1>2

LEMMA ConcatRight ==
  ASSUME NEW X, NEW s \in Seq(X), NEW t \in Seq(X), NEW i \in 1..Len(t)
  PROVE  (s \o t)[Len(s) + i] = t[i]
OBVIOUS

LEMMA BytesJoin ==
  ASSUME NEW k \in Conns, NEW dir \in Dirs, NEW m \in Nat, NEW n \in Nat
  PROVE  Bytes(k, dir, 0, m) \o Bytes(k, dir, m, n) = Bytes(k, dir, 0, m + n)
<1> DEFINE s == Bytes(k, dir, 0, m)
           t == Bytes(k, dir, m, n)
           u == Bytes(k, dir, 0, m + n)
<1>a. s \in Seq(Byte) /\ Len(s) = m /\ \A i \in 1..m : s[i] = At(k, dir, 0 + i)
  <2>1. 0 \in Nat
    OBVIOUS
  <2> QED
    BY <2>1, BytesType, Zenon
<1>b. t \in Seq(Byte) /\ Len(t) = n /\ \A i \in 1..n : t[i] = At(k, dir, m + i)
  BY BytesType
<1>c. u \in Seq(Byte) /\ Len(u) = m + n /\ \A i \in 1..(m + n) : u[i] = At(k, dir, 0 + i)
  <2>1. m + n \in Nat /\ 0 \in Nat
    OBVIOUS
  <2> QED
    BY <2>1, BytesType, Zenon
<1> HIDE DEF s, t, u
<1>2. s \o t \in Seq(Byte) /\ Len(s \o t) = m + n
  BY <1>a, <1>b
<1>3. ASSUME NEW i \in 1..(m + n) PROVE (s \o t)[i] = u[i]
  <2>1. CASE i <= m
    <3>1. i \in 1..m /\ (s \o t)[i] = s[i]
      BY <1>a, <1>b, <2>1
    <3> QED
      BY <1>a, <1>c, <3>1
  <2>2. CASE i > m
    <3>1. i - m \in 1..n /\ m + (i - m) = 0 + i
      BY <2>2
    <3>2. (s \o t)[i] = t[i - m]
      <4> DEFINE j == i - m
      <4>1. j \in 1..Len(t) /\ Len(s) + j = i
        BY <1>a, <1>b, <3>1
      <4> HIDE DEF j
      <4>2. (s \o t)[Len(s) + j] = t[j]
        BY <1>a, <1>b, <4>1, ConcatRight
      <4> QED
        BY <4>1, <4>2 DEF j
    <3>3. t[i - m] = At(k, dir, 0 + i)
      BY <1>b, <3>1
    <3> QED
      BY <1>c, <3>2, <3>3
  <2>3. i <= m \/ i > m
    OBVIOUS
  <2> QED
    BY <2>1, <2>2, <2>3, Zenon
<1>4. s \o t = u
  BY <1>c, <1>2, <1>3
<1> QED
  BY <1>4 DEF s, t, u

LEMMA BytesCut ==
  ASSUME NEW k \in Conns, NEW dir \in Dirs, NEW from \in Nat, NEW m \in Nat, NEW n \in 0..m
  PROVE  SubSeq(Bytes(k, dir, from, m), 1, n) = Bytes(k, dir, from, n)
<1> DEFINE s == Bytes(k, dir, from, m)
           t == Bytes(k, dir, from, n)
<1>1. /\ s \in Seq(Byte) /\ Len(s) = m /\ \A i \in 1..m : s[i] = At(k, dir, from + i)
      /\ t \in Seq(Byte) /\ Len(t) = n /\ \A i \in 1..n : t[i] = At(k, dir, from + i)
  <2>1. n \in Nat
    OBVIOUS
  <2> QED
    BY <2>1, BytesType, Zenon
<1> HIDE DEF s, t
<1>2. SubSeq(s, 1, n) \in Seq(Byte) /\ Len(SubSeq(s, 1, n)) = n
      /\ \A i \in 1..n : SubSeq(s, 1, n)[i] = s[i]
  BY <1>1
<1>3. ASSUME NEW i \in 1..n PROVE SubSeq(s, 1, n)[i] = t[i]
  <2>1. i \in 1..m
    OBVIOUS
  <2> QED
    BY <1>1, <1>2, <2>1
<1>4. SubSeq(s, 1, n) = t
  BY <1>1, <1>2, <1>3
<1> QED
  BY <1>4 DEF s, t

\* The two parts of the beginning of a stream are parts of the stream.
LEMMA BytesSplit ==
  ASSUME NEW k \in Conns, NEW dir \in Dirs, NEW n \in Nat,
         NEW s \in Seq(Byte), NEW t \in Seq(Byte), s \o t = Bytes(k, dir, 0, n)
  PROVE  /\ s = Bytes(k, dir, 0, Len(s))
         /\ t = Bytes(k, dir, Len(s), Len(t))
<1> DEFINE u == Bytes(k, dir, 0, n)
           a == Bytes(k, dir, 0, Len(s))
           b == Bytes(k, dir, Len(s), Len(t))
<1>1. u \in Seq(Byte) /\ Len(u) = n /\ \A i \in 1..n : u[i] = At(k, dir, 0 + i)
  <2>1. 0 \in Nat
    OBVIOUS
  <2> QED
    BY <2>1, BytesType, Zenon
<1>2. Len(s) \in Nat /\ Len(t) \in Nat
  OBVIOUS
<1>3. /\ a \in Seq(Byte) /\ Len(a) = Len(s) /\ \A i \in 1..Len(s) : a[i] = At(k, dir, 0 + i)
      /\ b \in Seq(Byte) /\ Len(b) = Len(t) /\ \A i \in 1..Len(t) : b[i] = At(k, dir, Len(s) + i)
  <2>1. 0 \in Nat
    OBVIOUS
  <2>2. a \in Seq(Byte) /\ Len(a) = Len(s) /\ \A i \in 1..Len(s) : a[i] = At(k, dir, 0 + i)
    BY <1>2, <2>1, BytesType, Zenon
  <2>3. b \in Seq(Byte) /\ Len(b) = Len(t) /\ \A i \in 1..Len(t) : b[i] = At(k, dir, Len(s) + i)
    <3> DEFINE x == Len(s)
               y == Len(t)
    <3>1. x \in Nat /\ y \in Nat
      BY <1>2
    <3> HIDE DEF x, y
    <3>2. /\ Bytes(k, dir, x, y) \in Seq(Byte) /\ Len(Bytes(k, dir, x, y)) = y
          /\ \A i \in 1..y : Bytes(k, dir, x, y)[i] = At(k, dir, x + i)
      BY <3>1, BytesType
    <3> QED
      BY <3>2, Zenon DEF x, y
  <2> QED
    BY <2>2, <2>3, Zenon
<1> HIDE DEF u, a, b
<1>4. s \o t = u
  BY DEF u
<1>5. n = Len(s) + Len(t)
  BY <1>1, <1>4
<1>6. ASSUME NEW i \in 1..Len(s) PROVE s[i] = a[i]
  <2>1. (s \o t)[i] = s[i]
    OBVIOUS
  <2>2. i \in 1..n
    BY <1>2, <1>5
  <2> QED
    BY <1>1, <1>3, <1>4, <2>1, <2>2
<1>7. ASSUME NEW i \in 1..Len(t) PROVE t[i] = b[i]
  <2>1. (s \o t)[Len(s) + i] = t[i]
    OBVIOUS
  <2>2. Len(s) + i \in 1..n /\ 0 + (Len(s) + i) = Len(s) + i
    BY <1>2, <1>5
  <2> QED
    BY <1>1, <1>3, <1>4, <2>1, <2>2
<1>8. s = a
  BY <1>3, <1>6
<1>9. t = b
  <2>1. b \in Seq(Byte) /\ Len(t) = Len(b)
    BY <1>3
  <2> QED
    BY <1>7, <2>1, SeqEqual, Zenon
<1> QED
  BY <1>8, <1>9 DEF a, b

\* What the first chunks hold is the beginning of what all hold.
LEMMA JoinedPrefix ==
  ASSUME NEW chunks \in Seq(Chunk), NEW dir \in Dirs, NEW i \in 0..Len(chunks)
  PROVE  \E rest \in Seq(Byte) :
           Joined(chunks, dir) = Joined(SubSeq(chunks, 1, i), dir) \o rest
<1> DEFINE n == Len(chunks)
           P(j) == \E rest \in Seq(Byte) :
                     Joined(chunks, dir) = Joined(SubSeq(chunks, 1, n - j), dir) \o rest
           T == {j \in 0..n : P(j)}
<1>1. n \in Nat /\ Joined(chunks, dir) \in Seq(Byte)
  BY JoinedType
<1>2. 0 \in T
  <2>1. SubSeq(chunks, 1, n - 0) = chunks
    BY <1>1
  <2>2. Joined(chunks, dir) = Joined(chunks, dir) \o <<>> /\ <<>> \in Seq(Byte)
    BY <1>1
  <2>3. P(0)
    BY <2>1, <2>2
  <2> HIDE DEF P
  <2> QED
    BY <1>1, <2>3
<1>3. ASSUME NEW j \in 1..n, j - 1 \in T PROVE j \in T
  <2> DEFINE m == n - j
             pre == SubSeq(chunks, 1, m)
             c == chunks[m + 1]
  <2>1. m \in 0..(n - 1) /\ n - (j - 1) = m + 1 /\ j \in 0..n
    BY <1>1
  <2>2. pre \in Seq(Chunk) /\ c \in Chunk
    BY <1>1, <2>1
  <2>3. SubSeq(chunks, 1, m + 1) = Append(pre, c)
    BY <1>1, <2>1
  <2>4. PICK rest \in Seq(Byte) :
          Joined(chunks, dir) = Joined(SubSeq(chunks, 1, m + 1), dir) \o rest
    BY <1>3, <2>1
  <2> HIDE DEF pre, c
  <2>5. /\ Joined(Append(pre, c), dir) = Joined(pre, dir) \o Piece(c, dir)
        /\ Joined(pre, dir) \in Seq(Byte) /\ Piece(c, dir) \in Seq(Byte)
    <3>1. Piece(c, dir) \in Seq(Byte)
      BY <2>2 DEF Piece, Chunk
    <3> QED
      BY <2>2, <3>1, JoinedAppend, JoinedType
  <2>6. (Joined(pre, dir) \o Piece(c, dir)) \o rest = Joined(pre, dir) \o (Piece(c, dir) \o rest)
    BY <2>5
  <2>7. Joined(chunks, dir) = Joined(pre, dir) \o (Piece(c, dir) \o rest)
    <3>1. Joined(chunks, dir) = Joined(Append(pre, c), dir) \o rest
      BY <2>3, <2>4, Zenon
    <3> QED
      BY <2>5, <2>6, <3>1, Zenon
  <2>9. Piece(c, dir) \o rest \in Seq(Byte)
    BY <2>5
  <2>8. P(j)
    BY <2>7, <2>9 DEF pre
  <2> HIDE DEF P
  <2> QED
    BY <2>1, <2>8
<1> HIDE DEF P, T
<1>4. n - i \in T
  <2>1. \A j \in 0..n : j \in T
    BY <1>1, <1>2, <1>3, UpTo
  <2> QED
    BY <1>1, <2>1
<1>5. n - (n - i) = i
  BY <1>1
<1> QED
  BY <1>4, <1>5 DEF P, T

-----------------------------------------------------------------------------
(* What Resize keeps of a capture.                                          *)

Kept(max) == [chunks : Seq(Chunk), written : [Dirs -> 0..max], cut : SUBSET Dirs]
Cutting(max) == [p \in Kept(max) \X Chunk |-> Cut(p[1], p[2], max)]
Upper(w, max) == IF w <= max THEN w ELSE max

\* What is kept, acc, of captured chunks that hold w[dir] bytes of a direction.
Follows(acc, w, k, max) ==
  \A dir \in Dirs :
    /\ acc.written[dir] = Upper(w[dir], max)
    /\ Joined(acc.chunks, dir) = Bytes(k, dir, 0, acc.written[dir])
    /\ w[dir] > max => dir \in acc.cut

\* The parts of one step of the loop.
\* What one step has kept: the first n bytes of the piece, as many as fit.
CutAt(new, acc, c, max, n) ==
  /\ n = Upper(Len(c.data), max - acc.written[c.dir])
  /\ acc.written[c.dir] + n \in 0..max
  /\ new \in Kept(max)
  /\ new.chunks = IF n = 0 THEN acc.chunks
                  ELSE Append(acc.chunks, [dir |-> c.dir, data |-> SubSeq(c.data, 1, n)])
  /\ [dir |-> c.dir, data |-> SubSeq(c.data, 1, n)] \in Chunk
  /\ \A dir \in Dirs : new.written[dir] =
       IF dir = c.dir THEN acc.written[dir] + n ELSE acc.written[dir]
  /\ new.cut = IF n < Len(c.data) THEN acc.cut \cup {c.dir} ELSE acc.cut

LEMMA CutParts ==
  ASSUME NEW max \in Nat, NEW acc \in Kept(max), NEW c \in Chunk
  PROVE  \E n \in 0..Len(c.data) : CutAt(Cut(acc, c, max), acc, c, max, n)
<1> DEFINE room == max - acc.written[c.dir]
           n == IF Len(c.data) > room THEN room ELSE Len(c.data)
           new == [dir |-> c.dir, data |-> SubSeq(c.data, 1, n)]
           chunks == IF n = 0 THEN acc.chunks ELSE Append(acc.chunks, new)
           written == [acc.written EXCEPT ![c.dir] = @ + n]
           cut == IF n < Len(c.data) THEN acc.cut \cup {c.dir} ELSE acc.cut
<1>1. /\ acc.chunks \in Seq(Chunk) /\ acc.written \in [Dirs -> 0..max] /\ acc.cut \subseteq Dirs
      /\ c.dir \in Dirs /\ c.data \in Seq(Byte)
  BY DEF Kept, Chunk
<1>2. acc.written[c.dir] \in 0..max /\ Len(c.data) \in Nat
  BY <1>1
<1>3. Cut(acc, c, max) = [chunks |-> chunks, written |-> written, cut |-> cut]
  <2>1. [c EXCEPT !.data = SubSeq(@, 1, n)] = new
    BY ChunkUpdate
  <2>2. Cut(acc, c, max) =
          [chunks |-> IF n = 0 THEN acc.chunks ELSE Append(acc.chunks, [c EXCEPT !.data = SubSeq(@, 1, n)]),
           written |-> written, cut |-> cut]
    BY DEF Cut
  <2> HIDE DEF new
  <2> QED
    BY <2>1, <2>2
<1>4. /\ n \in 0..Len(c.data) /\ n = Upper(Len(c.data), room)
      /\ acc.written[c.dir] + n \in 0..max
  <2> DEFINE len == Len(c.data)
             old == acc.written[c.dir]
             size == IF len > max - old THEN max - old ELSE len
  <2>1. len \in Nat /\ old \in 0..max
    BY <1>2
  <2>2. n = size
    OBVIOUS
  <2> HIDE DEF len, old
  <2>3. size \in 0..len /\ size = Upper(len, max - old) /\ old + size \in 0..max
    BY <2>1 DEF Upper
  <2> QED
    BY <2>2, <2>3 DEF len, old
<1> HIDE DEF n
<1>5. new \in Chunk
  <2>1. SubSeq(c.data, 1, n) \in Seq(Byte)
    BY <1>1, <1>4
  <2> QED
    BY <1>1, <2>1 DEF Chunk
<1>6. chunks \in Seq(Chunk)
  BY <1>1, <1>5
<1>7. /\ written \in [Dirs -> 0..max]
      /\ \A dir \in Dirs : written[dir] =
           IF dir = c.dir THEN acc.written[dir] + n ELSE acc.written[dir]
  BY <1>1, <1>4
<1>8. cut \subseteq Dirs
  BY <1>1
<1> HIDE DEF chunks, written, cut
<1>9. Cut(acc, c, max) \in Kept(max)
  BY <1>3, <1>6, <1>7, <1>8 DEF Kept
<1>10. Cut(acc, c, max).chunks = chunks /\ Cut(acc, c, max).written = written
       /\ Cut(acc, c, max).cut = cut
  BY <1>3
<1>11. \A dir \in Dirs : Cut(acc, c, max).written[dir] =
                IF dir = c.dir THEN acc.written[dir] + n ELSE acc.written[dir]
  BY <1>7, <1>10
<1>12. CutAt(Cut(acc, c, max), acc, c, max, n)
  BY <1>4, <1>5, <1>9, <1>10, <1>11, Zenon DEF chunks, cut, CutAt
<1> QED
  BY <1>4, <1>12, Zenon

\* One step keeps following what is captured.
LEMMA CutFollows ==
  ASSUME NEW max \in Nat, NEW acc \in Kept(max), NEW c \in Chunk, NEW k \in Conns,
         NEW w \in [Dirs -> Nat], Follows(acc, w, k, max),
         c.data = Bytes(k, c.dir, w[c.dir], Len(c.data)),
         NEW v \in [Dirs -> Nat],
         \A dir \in Dirs : v[dir] = IF dir = c.dir THEN w[dir] + Len(c.data) ELSE w[dir]
  PROVE  /\ Follows(Cut(acc, c, max), v, k, max)
         /\ Len(Cut(acc, c, max).chunks) <= Len(acc.chunks) + 1
         /\ acc.cut \subseteq Cut(acc, c, max).cut
<1> DEFINE new == Cut(acc, c, max)
<1>0. PICK n \in 0..Len(c.data) : CutAt(new, acc, c, max, n)
  BY CutParts, Zenon
<1>1. /\ n = Upper(Len(c.data), max - acc.written[c.dir])
      /\ acc.written[c.dir] + n \in 0..max
      /\ new \in Kept(max)
      /\ new.chunks =
           IF n = 0 THEN acc.chunks
           ELSE Append(acc.chunks, [dir |-> c.dir, data |-> SubSeq(c.data, 1, n)])
      /\ [dir |-> c.dir, data |-> SubSeq(c.data, 1, n)] \in Chunk
      /\ \A dir \in Dirs : new.written[dir] =
           IF dir = c.dir THEN acc.written[dir] + n ELSE acc.written[dir]
      /\ new.cut = IF n < Len(c.data) THEN acc.cut \cup {c.dir} ELSE acc.cut
  BY <1>0, Zenon DEF CutAt
<1> HIDE DEF new
<1> DEFINE piece == [dir |-> c.dir, data |-> SubSeq(c.data, 1, n)]
           m == Len(c.data)
<1>2. /\ acc.chunks \in Seq(Chunk) /\ acc.written \in [Dirs -> 0..max]
      /\ c.dir \in Dirs /\ m \in Nat /\ n \in Nat
  BY DEF Kept, Chunk
<1>3. ASSUME NEW dir \in Dirs
      PROVE  Joined(new.chunks, dir) =
               IF dir = c.dir THEN Joined(acc.chunks, dir) \o SubSeq(c.data, 1, n)
                              ELSE Joined(acc.chunks, dir)
  <2>1. Joined(acc.chunks, dir) \in Seq(Byte) /\ SubSeq(c.data, 1, n) \in Seq(Byte)
    <3>1. c.data \in Seq(Byte) /\ n \in 0..Len(c.data)
      BY <1>1 DEF Chunk
    <3>2. SubSeq(c.data, 1, n) \in Seq(Byte)
      BY <3>1
    <3>3. Joined(acc.chunks, dir) \in Seq(Byte)
      BY <1>2, JoinedType, Zenon
    <3> QED
      BY <3>2, <3>3
  <2>2. CASE n = 0
    <3>1. SubSeq(c.data, 1, n) = <<>>
      BY <2>2
    <3>2. new.chunks = acc.chunks
      BY <1>1, <2>2
    <3>3. Joined(acc.chunks, dir) \o <<>> = Joined(acc.chunks, dir)
      BY <2>1
    <3> QED
      BY <3>1, <3>2, <3>3, Zenon
  <2>3. CASE n # 0
    <3>1. new.chunks = Append(acc.chunks, piece) /\ piece \in Chunk
      BY <1>1, <2>3
    <3>2. Piece(piece, dir) = IF dir = c.dir THEN SubSeq(c.data, 1, n) ELSE <<>>
      BY DEF Piece
    <3> HIDE DEF piece
    <3>3. Joined(new.chunks, dir) = Joined(acc.chunks, dir) \o Piece(piece, dir)
      BY <1>2, <3>1, JoinedAppend
    <3>4. Joined(acc.chunks, dir) \o <<>> = Joined(acc.chunks, dir)
      BY <2>1
    <3> QED
      BY <3>2, <3>3, <3>4, Zenon
  <2> QED
    BY <2>2, <2>3
<1>4. /\ acc.written[c.dir] = Upper(w[c.dir], max)
      /\ w[c.dir] \in Nat /\ w[c.dir] > max => c.dir \in acc.cut
  BY <1>2 DEF Follows
<1>5. /\ Upper(w[c.dir] + m, max) = acc.written[c.dir] + n
      /\ w[c.dir] + m > max => n < m \/ w[c.dir] > max
      /\ n > 0 => acc.written[c.dir] = w[c.dir]
  BY <1>1, <1>2, <1>4 DEF Upper
<1>6. ASSUME NEW dir \in Dirs
      PROVE  /\ new.written[dir] = Upper(v[dir], max)
             /\ v[dir] > max => dir \in new.cut
  <2>1. CASE dir = c.dir
    BY <1>1, <1>4, <1>5, <2>1
  <2>2. CASE dir # c.dir
    BY <1>1, <2>2 DEF Follows
  <2> QED
    BY <2>1, <2>2
<1>7. ASSUME NEW dir \in Dirs
      PROVE  Joined(new.chunks, dir) = Bytes(k, dir, 0, new.written[dir])
  <2>1. Joined(acc.chunks, dir) = Bytes(k, dir, 0, acc.written[dir])
    BY DEF Follows
  <2>2. CASE dir # c.dir
    BY <1>1, <1>3, <2>1, <2>2
  <2>3. CASE dir = c.dir /\ n > 0
    <3>1. SubSeq(c.data, 1, n) = Bytes(k, dir, w[dir], n)
      <4>1. c.data = Bytes(k, dir, w[dir], m) /\ w[dir] \in Nat /\ n \in 0..m
        BY <1>4, <2>3, Zenon
      <4>2. SubSeq(Bytes(k, dir, w[dir], m), 1, n) = Bytes(k, dir, w[dir], n)
        BY <1>2, <4>1, BytesCut, Zenon
      <4> QED
        BY <4>1, <4>2, Zenon
    <3>2. acc.written[dir] = w[dir] /\ w[dir] \in Nat /\ new.written[dir] = w[dir] + n
      BY <1>1, <1>4, <1>5, <2>3
    <3>3. Bytes(k, dir, 0, w[dir]) \o Bytes(k, dir, w[dir], n) = Bytes(k, dir, 0, w[dir] + n)
      BY <1>2, <3>2, BytesJoin
    <3>4. Joined(new.chunks, dir) = Joined(acc.chunks, dir) \o SubSeq(c.data, 1, n)
      BY <1>3, <2>3
    <3> QED
      BY <2>1, <3>1, <3>2, <3>3, <3>4, Zenon
  <2>4. CASE dir = c.dir /\ n = 0
    <3>1. new.chunks = acc.chunks /\ new.written[dir] = acc.written[dir]
      BY <1>1, <1>2, <2>4
    <3> QED
      BY <2>1, <3>1
  <2> QED
    BY <1>2, <2>2, <2>3, <2>4
<1>8. Len(new.chunks) <= Len(acc.chunks) + 1 /\ acc.cut \subseteq new.cut
  <2>1. Len(new.chunks) <= Len(acc.chunks) + 1
    BY <1>1, <1>2
  <2> QED
    BY <1>1, <2>1
<1> QED
  BY <1>6, <1>7, <1>8 DEF Follows, new

LEMMA CuttingType ==
  ASSUME NEW max \in Nat
  PROVE  Cutting(max) \in Steps(Chunk, Kept(max))
<1>1. ASSUME NEW p \in Kept(max) \X Chunk PROVE Cut(p[1], p[2], max) \in Kept(max)
  <2>1. p[1] \in Kept(max) /\ p[2] \in Chunk
    BY <1>1
  <2> QED
    BY <2>1, CutParts, Zenon DEF CutAt
<1> QED
  BY <1>1 DEF Cutting, Steps

Start(d) == [chunks |-> <<>>, written |-> Zero, cut |-> d.cut]

LEMMA TrimIsFold ==
  ASSUME NEW d \in Dump, NEW max \in Nat
  PROVE  \E f \in [0..Len(d.chunks) -> Kept(max)] :
           /\ IsFold(f, Start(d), Cutting(max), d.chunks)
           /\ Trim(d, max) =
                IF \A dir \in Dirs : d.written[dir] <= max THEN d
                ELSE [d EXCEPT !.chunks = f[Len(d.chunks)].chunks,
                               !.written = f[Len(d.chunks)].written,
                               !.cut = f[Len(d.chunks)].cut]
<1> DEFINE cs == d.chunks
           b == Start(d)
<1>1. cs \in Seq(Chunk) /\ b \in Kept(max)
  <2>1. Zero \in [Dirs -> 0..max] /\ <<>> \in Seq(Chunk)
    BY DEF Zero
  <2>2. d.chunks \in Seq(Chunk) /\ d.cut \subseteq Dirs
    BY DEF Dump
  <2> QED
    BY <2>1, <2>2 DEF Kept, Start
<1>2. PICK f \in [0..Len(cs) -> Kept(max)] : IsFold(f, b, Cutting(max), cs)
  <2> HIDE DEF cs, b
  <2> QED
    BY <1>1, CuttingType, FoldExists
<1> DEFINE R(g) == [i \in 0..Len(cs) |->
              IF i = 0 THEN [chunks |-> <<>>, written |-> Zero, cut |-> d.cut]
                       ELSE Cut(g[i - 1], cs[i], max)]
<1>3. f = R(f)
  <2>1. ASSUME NEW i \in 0..Len(cs) PROVE f[i] = R(f)[i]
    <3>1. CASE i = 0
      BY <1>2, <3>1 DEF IsFold, Start
    <3>2. CASE i # 0
      <4>1. i \in 1..Len(cs) /\ i - 1 \in 0..Len(cs) /\ cs[i] \in Chunk
        BY <1>1, <3>2
      <4>2. <<f[i - 1], cs[i]>> \in Kept(max) \X Chunk
        BY <1>2, <4>1
      <4>3. f[i] = Cutting(max)[<<f[i - 1], cs[i]>>]
        BY <1>2, <4>1 DEF IsFold
      <4>4. f[i] = Cut(f[i - 1], cs[i], max)
        BY <4>2, <4>3 DEF Cutting
      <4> QED
        BY <3>2, <4>4
    <3> QED
      BY <3>1, <3>2
  <2>2. f = [i \in 0..Len(cs) |-> f[i]]
    BY <1>2
  <2> QED
    BY <2>1, <2>2
<1> DEFINE F == CHOOSE g : g = R(g)
<1>4. F = R(F)
  BY <1>3, Zenon
<1>5. Trim(d, max) = IF \A dir \in Dirs : d.written[dir] <= max THEN d
                     ELSE [d EXCEPT !.chunks = F[Len(cs)].chunks,
                                    !.written = F[Len(cs)].written,
                                    !.cut = F[Len(cs)].cut]
  BY Zenon DEF Trim
<1> HIDE DEF F
<1> DEFINE T == {i \in 0..Len(cs) : F[i] = f[i]}
<1>6. \A i \in 0..Len(cs) : F[i] = R(F)[i] /\ f[i] = R(f)[i]
  BY <1>3, <1>4, Zenon
<1>7. 0 \in T
  <2>1. 0 \in 0..Len(cs)
    BY <1>1
  <2>2. F[0] = Start(d) /\ f[0] = Start(d)
    BY <1>6, <2>1 DEF Start
  <2> QED
    BY <2>1, <2>2
<1>8. ASSUME NEW i \in 1..Len(cs), i - 1 \in T PROVE i \in T
  <2>1. i \in 0..Len(cs) /\ i # 0 /\ F[i - 1] = f[i - 1]
    BY <1>8
  <2>2. F[i] = f[i]
    BY <1>6, <2>1
  <2> QED
    BY <2>1, <2>2
<1>9. Len(cs) \in Nat /\ Len(cs) \in 0..Len(cs)
  BY <1>1
<1> HIDE DEF T, R, cs, b
<1>10. \A i \in 0..Len(cs) : i \in T
  BY <1>7, <1>8, <1>9, UpTo
<1>11. F[Len(cs)] = f[Len(cs)]
  BY <1>9, <1>10 DEF T
<1> QED
  BY <1>2, <1>5, <1>11 DEF cs, b

\* Resize keeps the first max bytes of each direction, and marks the capture
\* if it drops any.
LEMMA TrimKeeps ==
  ASSUME NEW d \in Dump, NEW max \in Nat,
         \A dir \in Dirs : Joined(d.chunks, dir) = Bytes(d.id, dir, 0, d.written[dir])
  PROVE  /\ Trim(d, max) \in Dump
         /\ Len(Trim(d, max).chunks) <= Len(d.chunks)
         /\ Trim(d, max).id = d.id /\ Trim(d, max).pinned = d.pinned
         /\ Trim(d, max).closed = d.closed /\ Trim(d, max).full = d.full
         /\ Trim(d, max).total = d.total /\ d.cut \subseteq Trim(d, max).cut
         /\ \A dir \in Dirs :
              /\ Trim(d, max).written[dir] = Upper(d.written[dir], max)
              /\ Joined(Trim(d, max).chunks, dir) =
                   Bytes(d.id, dir, 0, Trim(d, max).written[dir])
              /\ d.written[dir] > max => dir \in Trim(d, max).cut
<1> DEFINE cs == d.chunks
           k == d.id
           n == Len(cs)
<1>1. /\ cs \in Seq(Chunk) /\ k \in Conns /\ d.written \in [Dirs -> Nat] /\ d.cut \subseteq Dirs
      /\ n \in Nat
  BY DEF Dump
<1>2. CASE \A dir \in Dirs : d.written[dir] <= max
  <2>1. Trim(d, max) = d
    BY <1>2 DEF Trim
  <2>2. \A dir \in Dirs : Upper(d.written[dir], max) = d.written[dir] /\ ~(d.written[dir] > max)
    BY <1>1, <1>2 DEF Upper
  <2> QED
    BY <1>1, <2>1, <2>2
<1>3. CASE ~(\A dir \in Dirs : d.written[dir] <= max)
  <2>1. PICK f \in [0..n -> Kept(max)] :
          /\ IsFold(f, Start(d), Cutting(max), cs)
          /\ Trim(d, max) = [d EXCEPT !.chunks = f[n].chunks, !.written = f[n].written,
                                      !.cut = f[n].cut]
    BY <1>3, TrimIsFold
  <2> HIDE DEF k, cs, n
  <2> DEFINE pre(i) == SubSeq(cs, 1, i)
             w(i) == [dir \in Dirs |-> Len(Joined(pre(i), dir))]
             P(i) == /\ Follows(f[i], w(i), k, max)
                     /\ Len(f[i].chunks) <= i
                     /\ d.cut \subseteq f[i].cut
             T == {i \in 0..n : P(i)}
  <2>2. ASSUME NEW i \in 0..n
        PROVE  /\ pre(i) \in Seq(Chunk) /\ w(i) \in [Dirs -> Nat]
               /\ \A dir \in Dirs : w(i)[dir] = Len(Joined(pre(i), dir))
    <3>1. pre(i) \in Seq(Chunk)
      BY <1>1 DEF n
    <3> HIDE DEF pre
    <3>2. \A dir \in Dirs : Len(Joined(pre(i), dir)) \in Nat
      BY <3>1, JoinedType
    <3> QED
      BY <3>1, <3>2
  <2>3. 0 \in T
    <3>1. pre(0) = <<>>
      BY <1>1
    <3>2. f[0] = Start(d)
      BY <2>1 DEF IsFold
    <3>3. 0 \in 0..n
      BY <1>1
    <3> HIDE DEF pre
    <3>4. \A dir \in Dirs : w(0)[dir] = 0
      BY <2>2, <3>1, <3>3, JoinedEmpty
    <3>5. Follows(Start(d), w(0), k, max)
      <4>1. ASSUME NEW dir \in Dirs
            PROVE  /\ Start(d).written[dir] = 0 /\ Upper(w(0)[dir], max) = 0
                   /\ ~(w(0)[dir] > max) /\ Joined(Start(d).chunks, dir) = <<>>
                   /\ Bytes(k, dir, 0, 0) = <<>>
        BY <3>4, JoinedEmpty DEF Start, Zero, Upper, Bytes
      <4> QED
        BY <4>1 DEF Follows
    <3>6. Len(Start(d).chunks) <= 0 /\ d.cut \subseteq Start(d).cut
      BY DEF Start
    <3> HIDE DEF w
    <3> QED
      BY <3>2, <3>3, <3>5, <3>6
  <2>4. ASSUME NEW i \in 1..n, i - 1 \in T PROVE i \in T
    <3> DEFINE j == i - 1
               c == cs[i]
    <3>1. j \in 0..n /\ i \in 0..n /\ c \in Chunk /\ P(j)
      BY <1>1, <2>4 DEF n
    <3>2. pre(i) = Append(pre(j), c)
      BY <1>1 DEF n
    <3>3. f[i] = Cut(f[j], c, max)
      <4>1. <<f[j], c>> \in Kept(max) \X Chunk
        BY <2>1, <3>1
      <4>2. f[i] = Cutting(max)[<<f[j], c>>]
        BY <2>1 DEF IsFold, n
      <4> QED
        BY <4>1, <4>2 DEF Cutting
    <3>4. f[j] \in Kept(max)
      BY <2>1, <3>1
    <3> HIDE DEF pre, c
    <3>5. ASSUME NEW dir \in Dirs
          PROVE  /\ Joined(pre(i), dir) = Joined(pre(j), dir) \o Piece(c, dir)
                 /\ Joined(pre(j), dir) \in Seq(Byte) /\ Piece(c, dir) \in Seq(Byte)
      <4>1. Piece(c, dir) \in Seq(Byte)
        BY <3>1 DEF Piece, Chunk
      <4> QED
        BY <2>2, <3>1, <3>2, <4>1, JoinedAppend, JoinedType
    <3>6. \A dir \in Dirs :
             w(i)[dir] = IF dir = c.dir THEN w(j)[dir] + Len(c.data) ELSE w(j)[dir]
      <4>1. ASSUME NEW dir \in Dirs
            PROVE  w(i)[dir] = w(j)[dir] + Len(Piece(c, dir))
        BY <2>2, <3>1, <3>5
      <4>2. \A dir \in Dirs : w(j)[dir] \in Nat
        BY <2>2, <3>1
      <4> HIDE DEF w
      <4> QED
        BY <4>1, <4>2 DEF Piece
    <3>7. c.data = Bytes(k, c.dir, w(j)[c.dir], Len(c.data))
      <4> DEFINE dir == c.dir
      <4>1. dir \in Dirs /\ Piece(c, dir) = c.data
        BY <3>1 DEF Chunk, Piece
      <4> HIDE DEF dir
      <4>2. PICK rest \in Seq(Byte) : Joined(cs, dir) = Joined(pre(i), dir) \o rest
        BY <1>1, <3>1, <4>1, JoinedPrefix DEF n, pre
      <4>3. Joined(pre(i), dir) \o rest = Bytes(k, dir, 0, d.written[dir])
        BY <4>1, <4>2 DEF cs, k
      <4>4. d.written[dir] \in Nat /\ Joined(pre(i), dir) \in Seq(Byte)
        BY <1>1, <2>2, <3>1, <4>1, JoinedType
      <4>5. Joined(pre(i), dir) = Bytes(k, dir, 0, Len(Joined(pre(i), dir)))
        <5> DEFINE a == Joined(pre(i), dir)
                   m == d.written[dir]
        <5>1. k \in Conns /\ m \in Nat /\ a \in Seq(Byte) /\ a \o rest = Bytes(k, dir, 0, m)
          BY <1>1, <4>3, <4>4
        <5> HIDE DEF a, m
        <5>2. dir \in Dirs
          BY <4>1
        <5>3. a = Bytes(k, dir, 0, Len(a))
          BY <5>1, <5>2, BytesSplit
        <5> QED
          BY <5>3 DEF a
      <4>6. Joined(pre(j), dir) \o Piece(c, dir) = Bytes(k, dir, 0, Len(Joined(pre(i), dir)))
            /\ Len(Joined(pre(i), dir)) \in Nat
        <5>1. Len(Joined(pre(i), dir)) \in Nat
          BY <4>4
        <5>2. Joined(pre(i), dir) = Joined(pre(j), dir) \o Piece(c, dir)
          BY <3>5, <4>1
        <5> QED
          BY <4>5, <5>1, <5>2, Zenon
      <4>7. Piece(c, dir) = Bytes(k, dir, Len(Joined(pre(j), dir)), Len(Piece(c, dir)))
        <5> DEFINE a == Joined(pre(j), dir)
                   b == Piece(c, dir)
                   m == Len(Joined(pre(i), dir))
        <5>1. /\ k \in Conns /\ m \in Nat /\ a \in Seq(Byte) /\ b \in Seq(Byte)
              /\ a \o b = Bytes(k, dir, 0, m)
          BY <1>1, <3>5, <4>1, <4>6
        <5> HIDE DEF a, b, m
        <5>2. dir \in Dirs
          BY <4>1
        <5>3. b = Bytes(k, dir, Len(a), Len(b))
          BY <5>1, <5>2, BytesSplit
        <5> QED
          BY <5>3 DEF a, b
      <4>8. w(j)[dir] = Len(Joined(pre(j), dir))
        BY <2>2, <3>1, <4>1
      <4> HIDE DEF w
      <4> QED
        BY <4>1, <4>7, <4>8, Zenon DEF dir
    <3>8. w(i) \in [Dirs -> Nat] /\ w(j) \in [Dirs -> Nat]
      BY <2>2, <3>1
    <3>9. Follows(f[j], w(j), k, max) /\ Len(f[j].chunks) <= j /\ d.cut \subseteq f[j].cut
      BY <3>1
    <3> HIDE DEF w
    <3>10. /\ Follows(f[i], w(i), k, max)
           /\ Len(f[i].chunks) <= Len(f[j].chunks) + 1 /\ f[j].cut \subseteq f[i].cut
      <4> DEFINE acc == f[j]
                 before == w(j)
                 after == w(i)
                 new == Cut(acc, c, max)
      <4>1. /\ acc \in Kept(max) /\ c \in Chunk /\ k \in Conns /\ before \in [Dirs -> Nat]
            /\ after \in [Dirs -> Nat] /\ Follows(acc, before, k, max)
            /\ c.data = Bytes(k, c.dir, before[c.dir], Len(c.data))
        BY <1>1, <3>1, <3>4, <3>7, <3>8, <3>9, Zenon
      <4>2. \A dir \in Dirs :
              after[dir] = IF dir = c.dir THEN before[dir] + Len(c.data) ELSE before[dir]
        BY <3>6, Zenon
      <4> HIDE DEF acc, before, after
      <4>3. /\ Follows(new, after, k, max)
            /\ Len(new.chunks) <= Len(acc.chunks) + 1 /\ acc.cut \subseteq new.cut
        BY <4>1, <4>2, CutFollows
      <4> QED
        BY <3>3, <4>3, Zenon DEF acc, after
    <3>11. Len(f[j].chunks) \in Nat /\ Len(f[i].chunks) \in Nat
      BY <2>1, <3>1 DEF Kept
    <3>12. Len(f[i].chunks) <= i
      BY <3>9, <3>10, <3>11
    <3> QED
      BY <3>1, <3>9, <3>10, <3>12
  <2> HIDE DEF T
  <2>5. \A i \in 0..n : i \in T
    BY <1>1, <2>3, <2>4, UpTo
  <2>6. n \in 0..n /\ P(n)
    <3>1. n \in 0..n
      BY <1>1
    <3> HIDE DEF P
    <3> QED
      BY <2>5, <3>1 DEF T
  <2>7. pre(n) = cs
    BY <1>1 DEF n
  <2>8. \A dir \in Dirs : w(n)[dir] = d.written[dir]
    <3>1. ASSUME NEW dir \in Dirs PROVE Len(Joined(cs, dir)) = d.written[dir]
      <4>1. Joined(cs, dir) = Bytes(k, dir, 0, d.written[dir]) /\ d.written[dir] \in Nat
        BY <1>1 DEF cs, k
      <4> QED
        BY <1>1, <4>1, BytesType
    <3> QED
      BY <2>2, <2>6, <2>7, <3>1
  <2> DEFINE acc == f[n]
  <2>9. Follows(acc, w(n), k, max) /\ Len(acc.chunks) <= n /\ d.cut \subseteq acc.cut
    BY <2>6
  <2>10. acc \in Kept(max)
    BY <2>1, <2>6
  <2>11. Trim(d, max) = [d EXCEPT !.chunks = acc.chunks, !.written = acc.written, !.cut = acc.cut]
    BY <2>1
  <2> HIDE DEF acc, w, pre
  <2>12. acc.chunks \in Seq(Chunk) /\ acc.written \in [Dirs -> Nat] /\ acc.cut \in SUBSET Dirs
    BY <2>10 DEF Kept
  <2>13. /\ Trim(d, max) \in Dump
         /\ Trim(d, max).chunks = acc.chunks /\ Trim(d, max).written = acc.written
         /\ Trim(d, max).cut = acc.cut
         /\ Trim(d, max).id = d.id /\ Trim(d, max).pinned = d.pinned
         /\ Trim(d, max).closed = d.closed /\ Trim(d, max).full = d.full
         /\ Trim(d, max).total = d.total
    BY <2>11, <2>12 DEF Dump
  <2>14. \A dir \in Dirs :
              /\ acc.written[dir] = Upper(d.written[dir], max)
              /\ Joined(acc.chunks, dir) = Bytes(k, dir, 0, acc.written[dir])
              /\ d.written[dir] > max => dir \in acc.cut
    BY <2>8, <2>9 DEF Follows
  <2> QED
    BY <2>9, <2>13, <2>14 DEF k, n, cs
<1> QED
  BY <1>2, <1>3

-----------------------------------------------------------------------------
(* The inductive invariant.                                                 *)

Types ==
  /\ limits \in Limits /\ sequence \in Nat
  /\ Tokens \subseteq 1..sequence /\ dumps \in [Tokens -> Dump]
  /\ writer \in [Conns -> -1..sequence]
  /\ sent \in [Conns -> [Dirs -> 0..MaxSent]]

\* A capture belongs to the one connection that was given its token.
Owners ==
  /\ \A t \in Tokens : writer[dumps[t].id] = t
  /\ \A k, l \in Conns : writer[k] > 0 /\ writer[k] = writer[l] => k = l
  /\ \A k \in Conns : writer[k] = 0 => sent[k] = Zero

\* What a capture holds; it is complete as long as nothing marks it.
Good(d, max) ==
  /\ Len(d.chunks) <= MaxChunks
  /\ \A dir \in Dirs :
       /\ d.written[dir] <= max
       /\ Joined(d.chunks, dir) = Bytes(d.id, dir, 0, d.written[dir])
       /\ dir \notin d.cut /\ ~d.full => d.total[dir] <= d.written[dir]
       /\ ~d.closed => d.written[dir] <= d.total[dir]

Captures ==
  /\ active = {t \in Tokens : ~dumps[t].closed}
  /\ Places <= limits.conns
  /\ \A t \in Tokens :
       /\ Good(dumps[t], limits.bytes)
       /\ ~dumps[t].closed => dumps[t].total = sent[dumps[t].id]

IInv == Types /\ Owners /\ Captures

-----------------------------------------------------------------------------
(* One write.                                                               *)

\* What the four ways through write do to the fields of a capture d, of whose
\* data n bytes are within the limit.
Wrote(d, dir, data, max, n, w) ==
  /\ w \in Dump /\ n \in 0..Len(data) /\ d.written[dir] + n <= max
  /\ w.id = d.id /\ w.pinned = d.pinned /\ w.closed = d.closed
  /\ w.total = [d.total EXCEPT ![dir] = @ + Len(data)]
  /\ \/ /\ dir \in d.cut \/ d.full
        /\ w.cut = d.cut /\ w.full = d.full
        /\ w.chunks = d.chunks /\ w.written = d.written
     \/ /\ n = 0 /\ w.full = d.full
        /\ w.cut = IF n < Len(data) THEN d.cut \cup {dir} ELSE d.cut
        /\ w.chunks = d.chunks /\ w.written = d.written
     \/ /\ w.full /\ d.cut \subseteq w.cut
        /\ w.chunks = d.chunks /\ w.written = d.written
     \/ /\ dir \notin d.cut /\ ~d.full /\ ~w.full
        /\ Joins(d, dir) \/ Len(d.chunks) < MaxChunks
        /\ w.cut = IF n < Len(data) THEN d.cut \cup {dir} ELSE d.cut
        /\ w.chunks = Extended(d, dir, SubSeq(data, 1, n))
        /\ w.written = [d.written EXCEPT ![dir] = @ + n]

LEMMA WrittenParts ==
  ASSUME NEW d \in Dump, NEW dir \in Dirs, NEW data \in Seq(Byte), NEW max \in Nat,
         limits.bytes = max, d.written[dir] <= max,
         NEW w, w = Written(d, dir, data),
         NEW n, n = Upper(Len(data), max - d.written[dir])
  PROVE  Wrote(d, dir, data, max, n, w)
<1> DEFINE room == max - d.written[dir]
           seen == [d EXCEPT !.total[dir] = @ + Len(data)]
           clips == IF n < Len(data) THEN Clip(seen, dir) ELSE seen
           total == [d.total EXCEPT ![dir] = @ + Len(data)]
           cut == IF n < Len(data) THEN d.cut \cup {dir} ELSE d.cut
<1>1. /\ d.written \in [Dirs -> Nat] /\ d.total \in [Dirs -> Nat] /\ d.cut \in SUBSET Dirs
      /\ d.chunks \in Seq(Chunk) /\ d.full \in BOOLEAN /\ Len(data) \in Nat /\ MaxChunks \in Nat
      /\ d.written[dir] \in Nat /\ d.total[dir] \in Nat
  BY RecorderAssumption DEF Dump
<1>2. /\ n \in 0..Len(data) /\ d.written[dir] + n <= max /\ n \in Nat
      /\ n = IF room < Len(data) THEN room ELSE Len(data)
  BY <1>1 DEF Upper
<1>3. w = IF dir \in d.cut \/ d.full THEN seen
          ELSE IF n = 0 THEN clips
          ELSE IF ~Joins(d, dir) /\ Len(d.chunks) >= MaxChunks THEN [clips EXCEPT !.full = TRUE]
          ELSE [clips EXCEPT !.chunks = Extended(d, dir, SubSeq(data, 1, n)),
                             !.written[dir] = @ + n]
  <2> DEFINE m == IF room < Len(data) THEN room ELSE Len(data)
  <2>1. w = IF dir \in d.cut \/ d.full THEN seen
            ELSE IF m = 0 THEN IF m < Len(data) THEN Clip(seen, dir) ELSE seen
            ELSE IF ~Joins(d, dir) /\ Len(d.chunks) >= MaxChunks
                 THEN [(IF m < Len(data) THEN Clip(seen, dir) ELSE seen) EXCEPT !.full = TRUE]
            ELSE [(IF m < Len(data) THEN Clip(seen, dir) ELSE seen) EXCEPT
                    !.chunks = Extended(d, dir, SubSeq(data, 1, m)), !.written[dir] = @ + m]
    BY DEF Written
  <2>2. n = m
    BY <1>2
  <2> HIDE DEF m
  <2> QED
    BY <2>1, <2>2, Zenon
<1>4. total \in [Dirs -> Nat] /\ cut \in SUBSET Dirs
  BY <1>1
<1>5. seen = [d EXCEPT !.total = total]
  BY DEF Dump
<1> HIDE DEF total, seen
<1>6. /\ seen \in Dump
      /\ seen.id = d.id /\ seen.pinned = d.pinned /\ seen.closed = d.closed /\ seen.full = d.full
      /\ seen.total = total /\ seen.cut = d.cut /\ seen.chunks = d.chunks /\ seen.written = d.written
  BY <1>4, <1>5 DEF Dump
<1>7. clips = [seen EXCEPT !.cut = cut]
  BY <1>6 DEF Clip, Dump
<1> HIDE DEF clips, cut
<1>8. /\ clips \in Dump
      /\ clips.id = d.id /\ clips.pinned = d.pinned /\ clips.closed = d.closed
      /\ clips.full = d.full /\ clips.total = total /\ clips.cut = cut
      /\ clips.chunks = d.chunks /\ clips.written = d.written
  BY <1>4, <1>6, <1>7 DEF Dump
<1> DEFINE Way ==
             \/ /\ dir \in d.cut \/ d.full
                /\ w.cut = d.cut /\ w.full = d.full
                /\ w.chunks = d.chunks /\ w.written = d.written
             \/ /\ n = 0 /\ w.full = d.full /\ w.cut = cut
                /\ w.chunks = d.chunks /\ w.written = d.written
             \/ /\ w.full /\ d.cut \subseteq w.cut
                /\ w.chunks = d.chunks /\ w.written = d.written
             \/ /\ dir \notin d.cut /\ ~d.full /\ ~w.full
                /\ Joins(d, dir) \/ Len(d.chunks) < MaxChunks
                /\ w.cut = cut
                /\ w.chunks = Extended(d, dir, SubSeq(data, 1, n))
                /\ w.written = [d.written EXCEPT ![dir] = @ + n]
           Same == /\ w \in Dump
                   /\ w.id = d.id /\ w.pinned = d.pinned /\ w.closed = d.closed
                   /\ w.total = total
<1>9. CASE dir \in d.cut \/ d.full
  <2>1. w = seen
    BY <1>3, <1>9
  <2>2. Same /\ Way
    BY <1>6, <1>9, <2>1
  <2> QED
    BY <1>2, <2>2, Zenon DEF total, cut, Wrote
<1>10. CASE ~(dir \in d.cut \/ d.full) /\ n = 0
  <2>1. w = clips
    BY <1>3, <1>10
  <2>2. Same /\ Way
    BY <1>8, <1>10, <2>1
  <2> QED
    BY <1>2, <2>2, Zenon DEF total, cut, Wrote
<1>11. CASE /\ ~(dir \in d.cut \/ d.full) /\ n # 0
            /\ ~Joins(d, dir) /\ Len(d.chunks) >= MaxChunks
  <2>1. w = [clips EXCEPT !.full = TRUE]
    BY <1>3, <1>11
  <2>2. Same
    BY <1>8, <2>1 DEF Dump
  <2>3. w.full /\ w.cut = cut /\ w.chunks = d.chunks /\ w.written = d.written
    BY <1>8, <2>1 DEF Dump
  <2>4. d.cut \subseteq cut
    BY DEF cut
  <2>5. Way
    BY <2>3, <2>4
  <2> QED
    BY <1>2, <2>2, <2>5, Zenon DEF total, cut, Wrote
<1>12. CASE /\ ~(dir \in d.cut \/ d.full) /\ n # 0
            /\ ~(~Joins(d, dir) /\ Len(d.chunks) >= MaxChunks)
  <2> DEFINE chunks == Extended(d, dir, SubSeq(data, 1, n))
             written == [d.written EXCEPT ![dir] = @ + n]
  <2>1. w = [clips EXCEPT !.chunks = chunks, !.written[dir] = @ + n]
    BY <1>3, <1>12
  <2>2. chunks \in Seq(Chunk)
    <3>1. SubSeq(data, 1, n) \in Seq(Byte)
      BY <1>2
    <3> QED
      BY <3>1, ExtendedJoined
  <2>3. written \in [Dirs -> Nat]
    BY <1>1, <1>2
  <2> HIDE DEF chunks
  <2>4. w = [clips EXCEPT !.chunks = chunks, !.written = written]
    BY <1>8, <2>1 DEF Dump
  <2> HIDE DEF written
  <2>5. Same
    BY <1>8, <2>2, <2>3, <2>4 DEF Dump
  <2>6. w.full = d.full /\ w.cut = cut /\ w.chunks = chunks /\ w.written = written
    BY <1>8, <2>4 DEF Dump
  <2>7. Joins(d, dir) \/ Len(d.chunks) < MaxChunks
    BY <1>1, <1>12
  <2>8. Way
    BY <1>12, <2>6, <2>7 DEF chunks, written
  <2> QED
    BY <1>2, <2>5, <2>8, Zenon DEF total, cut, Wrote
<1> QED
  BY <1>9, <1>10, <1>11, <1>12

\* A good capture d after a write of n bytes.
Grown(d, dir, n, max, w) ==
  /\ w \in Dump /\ Good(w, max)
  /\ w.id = d.id /\ w.pinned = d.pinned /\ w.closed = d.closed
  /\ w.total = [d.total EXCEPT ![dir] = @ + n]
  /\ \A e \in Dirs : \E more \in Seq(Byte) :
       Joined(w.chunks, e) = Joined(d.chunks, e) \o more

\* A write leaves a good capture, and puts what it stores at the end.
LEMMA WrittenKeeps ==
  ASSUME NEW d \in Dump, NEW max \in Nat, limits.bytes = max, Good(d, max), ~d.closed,
         NEW dir \in Dirs, NEW n \in Nat \ {0}
  PROVE  Grown(d, dir, n, max, Written(d, dir, Bytes(d.id, dir, d.total[dir], n)))
<1> DEFINE data == Bytes(d.id, dir, d.total[dir], n)
           w == Written(d, dir, data)
           m == Upper(Len(data), max - d.written[dir])
<1>1. /\ d.id \in Conns /\ d.written \in [Dirs -> Nat] /\ d.total \in [Dirs -> Nat]
      /\ d.cut \in SUBSET Dirs /\ d.chunks \in Seq(Chunk) /\ d.full \in BOOLEAN
      /\ d.written[dir] \in Nat /\ d.total[dir] \in Nat /\ n \in Nat
  BY DEF Dump
<1>2. data \in Seq(Byte) /\ Len(data) = n
  <2> DEFINE k == d.id
             from == d.total[dir]
  <2> HIDE DEF k, from
  <2>1. k \in Conns /\ from \in Nat /\ n \in Nat
    BY <1>1 DEF k, from
  <2>2. Bytes(k, dir, from, n) \in Seq(Byte) /\ Len(Bytes(k, dir, from, n)) = n
    BY <2>1, BytesType
  <2> QED
    BY <2>2 DEF k, from
<1>3. \A e \in Dirs :
       /\ d.written[e] <= max
       /\ Joined(d.chunks, e) = Bytes(d.id, e, 0, d.written[e])
       /\ e \notin d.cut /\ ~d.full => d.total[e] <= d.written[e]
       /\ d.written[e] <= d.total[e]
  BY DEF Good
<1>4. Len(d.chunks) <= MaxChunks
  BY DEF Good
<1> DEFINE cut == IF m < n THEN d.cut \cup {dir} ELSE d.cut
<1>5. /\ w \in Dump /\ m \in 0..n /\ d.written[dir] + m <= max
      /\ w.id = d.id /\ w.pinned = d.pinned /\ w.closed = d.closed
      /\ w.total = [d.total EXCEPT ![dir] = @ + n]
      /\ \/ /\ dir \in d.cut \/ d.full
            /\ w.cut = d.cut /\ w.full = d.full
            /\ w.chunks = d.chunks /\ w.written = d.written
         \/ /\ m = 0 /\ w.full = d.full /\ w.cut = cut
            /\ w.chunks = d.chunks /\ w.written = d.written
         \/ /\ w.full /\ d.cut \subseteq w.cut
            /\ w.chunks = d.chunks /\ w.written = d.written
         \/ /\ dir \notin d.cut /\ ~d.full /\ ~w.full
            /\ Joins(d, dir) \/ Len(d.chunks) < MaxChunks
            /\ w.cut = cut
            /\ w.chunks = Extended(d, dir, SubSeq(data, 1, m))
            /\ w.written = [d.written EXCEPT ![dir] = @ + m]
  <2> HIDE DEF data
  <2>1. d.written[dir] <= max
    BY <1>3
  <2> DEFINE more == IF m < Len(data) THEN d.cut \cup {dir} ELSE d.cut
  <2>2. /\ w \in Dump /\ m \in 0..Len(data) /\ d.written[dir] + m <= max
        /\ w.id = d.id /\ w.pinned = d.pinned /\ w.closed = d.closed
        /\ w.total = [d.total EXCEPT ![dir] = @ + Len(data)]
        /\ \/ /\ dir \in d.cut \/ d.full
              /\ w.cut = d.cut /\ w.full = d.full
              /\ w.chunks = d.chunks /\ w.written = d.written
           \/ /\ m = 0 /\ w.full = d.full /\ w.cut = more
              /\ w.chunks = d.chunks /\ w.written = d.written
           \/ /\ w.full /\ d.cut \subseteq w.cut
              /\ w.chunks = d.chunks /\ w.written = d.written
           \/ /\ dir \notin d.cut /\ ~d.full /\ ~w.full
              /\ Joins(d, dir) \/ Len(d.chunks) < MaxChunks
              /\ w.cut = more
              /\ w.chunks = Extended(d, dir, SubSeq(data, 1, m))
              /\ w.written = [d.written EXCEPT ![dir] = @ + m]
    <3>1. w = Written(d, dir, data) /\ m = Upper(Len(data), max - d.written[dir])
      OBVIOUS
    <3> HIDE DEF w, m
    <3>2. Wrote(d, dir, data, max, m, w)
      BY <1>2, <2>1, <3>1, WrittenParts
    <3> QED
      BY <3>2, Zenon DEF Wrote
  <2> HIDE DEF w, m
  <2> QED
    BY <1>2, <2>2, Zenon
<1> HIDE DEF data, w, m
<1>6. \A e \in Dirs : w.total[e] = IF e = dir THEN d.total[e] + n ELSE d.total[e]
  BY <1>1, <1>5
<1>7. CASE w.chunks = d.chunks /\ w.written = d.written /\ d.cut \subseteq w.cut
           /\ (dir \in w.cut \/ w.full) /\ (w.full = d.full \/ w.full)
  <2>1. ASSUME NEW e \in Dirs
        PROVE  /\ w.written[e] <= max
               /\ Joined(w.chunks, e) = Bytes(w.id, e, 0, w.written[e])
               /\ e \notin w.cut /\ ~w.full => w.total[e] <= w.written[e]
               /\ w.written[e] <= w.total[e]
    <3>1. d.written[e] \in Nat /\ d.total[e] \in Nat
      BY <1>1
    <3>2. w.written[e] <= w.total[e]
      BY <1>1, <1>3, <1>6, <1>7, <3>1
    <3>3. e \notin w.cut /\ ~w.full => w.total[e] <= w.written[e]
      BY <1>3, <1>6, <1>7
    <3> QED
      BY <1>3, <1>5, <1>7, <3>2, <3>3
  <2>2. Good(w, max)
    BY <1>4, <1>7, <2>1 DEF Good
  <2>3. \A e \in Dirs : Joined(w.chunks, e) = Joined(d.chunks, e) \o <<>> /\ <<>> \in Seq(Byte)
    <3>1. \A e \in Dirs : Joined(d.chunks, e) \in Seq(Byte)
      BY <1>1, JoinedType
    <3> QED
      BY <1>7, <3>1
  <2> QED
    BY <1>5, <2>2, <2>3, Zenon DEF w, data, Grown
<1>8. CASE /\ dir \notin d.cut /\ ~d.full /\ ~w.full
           /\ Joins(d, dir) \/ Len(d.chunks) < MaxChunks
           /\ w.cut = cut
           /\ w.chunks = Extended(d, dir, SubSeq(data, 1, m))
           /\ w.written = [d.written EXCEPT ![dir] = @ + m]
  <2> DEFINE kept == SubSeq(data, 1, m)
  <2>1. kept = Bytes(d.id, dir, d.total[dir], m) /\ kept \in Seq(Byte)
    <3>1. m \in 0..n
      BY <1>5
    <3>2. kept = Bytes(d.id, dir, d.total[dir], m)
      <4>1. d.id \in Conns /\ d.total[dir] \in Nat /\ n \in Nat
        BY <1>1
      <4> QED
        BY <3>1, <4>1, BytesCut, Zenon DEF data
    <3>3. kept \in Seq(Byte)
      BY <1>2, <3>1
    <3> QED
      BY <3>2, <3>3
  <2>2. d.total[dir] = d.written[dir]
    BY <1>1, <1>3, <1>8
  <2> HIDE DEF kept
  <2>3. /\ Len(w.chunks) = IF Joins(d, dir) THEN Len(d.chunks) ELSE Len(d.chunks) + 1
        /\ \A e \in Dirs : Joined(w.chunks, e) =
                            Joined(d.chunks, e) \o (IF e = dir THEN kept ELSE <<>>)
    <3> DEFINE longer == Extended(d, dir, kept)
    <3>1. /\ Len(longer) = IF Joins(d, dir) THEN Len(d.chunks) ELSE Len(d.chunks) + 1
          /\ \A e \in Dirs : Joined(longer, e) =
                              Joined(d.chunks, e) \o (IF e = dir THEN kept ELSE <<>>)
      BY <2>1, ExtendedJoined
    <3>2. w.chunks = longer
      BY <1>8 DEF kept
    <3> QED
      BY <3>1, <3>2
  <2>4. \A e \in Dirs : w.written[e] = IF e = dir THEN d.written[e] + m ELSE d.written[e]
    BY <1>1, <1>8
  <2>5. ASSUME NEW e \in Dirs
        PROVE  Joined(w.chunks, e) = Bytes(w.id, e, 0, w.written[e])
    <3>1. CASE e = dir
      <4>1. Joined(w.chunks, e) = Bytes(d.id, dir, 0, d.written[dir])
                                  \o Bytes(d.id, dir, d.written[dir], m)
        BY <1>3, <2>1, <2>2, <2>3, <3>1, Zenon
      <4>2. m \in Nat
        BY <1>5
      <4>3. Joined(w.chunks, e) = Bytes(d.id, dir, 0, d.written[dir] + m)
        <5> DEFINE k == d.id
                   x == d.written[dir]
        <5>1. k \in Conns /\ x \in Nat
          BY <1>1
        <5> HIDE DEF k, x
        <5>2. Bytes(k, dir, 0, x) \o Bytes(k, dir, x, m) = Bytes(k, dir, 0, x + m)
          BY <4>2, <5>1, BytesJoin
        <5> QED
          BY <4>1, <5>2, Zenon DEF k, x
      <4> QED
        BY <1>5, <2>4, <3>1, <4>3, Zenon
    <3>2. CASE e # dir
      <4>1. Joined(d.chunks, e) \o <<>> = Joined(d.chunks, e)
        <5>1. Joined(d.chunks, e) \in Seq(Byte)
          BY <1>1, JoinedType
        <5> QED
          BY <5>1
      <4> QED
        BY <1>3, <1>5, <2>3, <2>4, <3>2, <4>1, Zenon
    <3> QED
      BY <3>1, <3>2
  <2>6. ASSUME NEW e \in Dirs
        PROVE  /\ w.written[e] <= max
               /\ e \notin w.cut /\ ~w.full => w.total[e] <= w.written[e]
               /\ w.written[e] <= w.total[e]
    <3>1. d.written[e] \in Nat /\ d.total[e] \in Nat /\ d.written[e] <= max
          /\ d.written[e] <= d.total[e] /\ (e \notin d.cut => d.total[e] <= d.written[e])
          /\ m \in Nat /\ m <= n
      BY <1>1, <1>3, <1>5, <1>8
    <3>2. CASE e = dir
      <4>1. w.written[e] = d.written[e] + m /\ w.total[e] = d.total[e] + n
        BY <1>6, <2>4, <3>2
      <4>2. e \notin w.cut => ~(m < n)
        BY <1>8, <3>2
      <4> QED
        BY <1>5, <2>2, <3>1, <3>2, <4>1, <4>2
    <3>3. CASE e # dir
      <4>1. w.written[e] = d.written[e] /\ w.total[e] = d.total[e]
        BY <1>6, <2>4, <3>3
      <4>2. e \notin w.cut => e \notin d.cut
        BY <1>8
      <4> QED
        BY <3>1, <4>1, <4>2
    <3> QED
      BY <3>2, <3>3
  <2>7. Len(w.chunks) <= MaxChunks
    <3>1. Len(d.chunks) \in Nat /\ MaxChunks \in Nat
      BY <1>1, RecorderAssumption
    <3> QED
      BY <1>4, <1>8, <2>3, <3>1
  <2>8. Good(w, max)
    BY <2>5, <2>6, <2>7 DEF Good
  <2>9. \A e \in Dirs : \E more \in Seq(Byte) : Joined(w.chunks, e) = Joined(d.chunks, e) \o more
    <3>1. \A e \in Dirs : (IF e = dir THEN kept ELSE <<>>) \in Seq(Byte)
      BY <2>1
    <3> QED
      BY <2>3, <3>1
  <2> QED
    BY <1>5, <2>8, <2>9, Zenon DEF w, data, Grown
<1>9. m = 0 => cut = d.cut \cup {dir}
  BY <1>1
<1> HIDE DEF cut
<1> QED
  BY <1>5, <1>7, <1>8, <1>9

-----------------------------------------------------------------------------
(* The invariant is inductive.                                              *)

LEMMA Limited ==
  ASSUME NEW l \in Limits
  PROVE  l.conns \in Nat \ {0} /\ l.bytes \in Nat \ {0}
<1>1. l \in [conns : Nat \ {0}, bytes : Nat \ {0}]
  BY RecorderAssumption
<1> QED
  BY <1>1

LEMMA FiniteTokens ==
  ASSUME Types
  PROVE  IsFiniteSet(Tokens) /\ Places \in Nat
<1>1. sequence \in Nat /\ Tokens \subseteq 1..sequence
  BY DEF Types
<1>2. IsFiniteSet(1..sequence)
  BY <1>1, FS_Interval
<1>3. IsFiniteSet(Tokens)
  BY <1>1, <1>2, FS_Subset
<1> QED
  BY <1>3, FS_CardinalityType DEF Places

\* The capture a connection begins, and one that is not changed, are good.
LEMMA NewIsGood ==
  ASSUME NEW k \in Conns, NEW max \in Nat
  PROVE  NewDump(k) \in Dump /\ Good(NewDump(k), max)
<1>1. Zero \in [Dirs -> Nat] /\ (\A dir \in Dirs : Zero[dir] = 0) /\ <<>> \in Seq(Chunk)
  BY DEF Zero
<1>2. NewDump(k) \in Dump
  BY <1>1 DEF NewDump, Dump
<1>3. /\ NewDump(k).chunks = <<>> /\ NewDump(k).written = Zero /\ NewDump(k).total = Zero
      /\ NewDump(k).id = k
  BY DEF NewDump
<1>4. \A dir \in Dirs : Joined(<<>>, dir) = Bytes(k, dir, 0, 0)
  BY JoinedEmpty DEF Bytes
<1>5. Len(<<>>) <= MaxChunks
  BY RecorderAssumption
<1> HIDE DEF NewDump
<1> QED
  BY <1>1, <1>2, <1>3, <1>4, <1>5 DEF Good

LEMMA InitInv == Init => IInv
<1> SUFFICES ASSUME Init PROVE IInv
  OBVIOUS
<1>1. Tokens = {} /\ dumps \in [Tokens -> Dump] /\ sequence = 0 /\ active = {}
  BY DEF Init, Tokens
<1>2. Zero \in [Dirs -> 0..MaxSent]
  BY RecorderAssumption DEF Zero
<1>3. Places = 0
  BY <1>1, FS_EmptySet DEF Places
<1>4. Types
  BY <1>1, <1>2 DEF Init, Types
<1>5. Owners
  BY <1>1 DEF Init, Owners
<1>6. Captures
  <2>1. limits.conns \in Nat
    BY Limited DEF Init
  <2> QED
    BY <1>1, <1>3, <2>1 DEF Captures
<1> QED
  BY <1>4, <1>5, <1>6 DEF IInv

\* A connection gets a capture, after as many as must have given way to it.
LEMMA CapturedKeeps ==
  ASSUME IInv, NEW k \in Conns, writer[k] = 0, NEW gone \in SUBSET Tokens,
         Cardinality(Tokens \ gone) < limits.conns,
         Captured(k, gone), UNCHANGED <<limits, sent>>
  PROVE  IInv'
<1> DEFINE token == sequence + 1
           left == Tokens \ gone
<1>1. /\ sequence \in Nat /\ Tokens \subseteq 1..sequence /\ dumps \in [Tokens -> Dump]
      /\ writer \in [Conns -> -1..sequence] /\ limits \in Limits
  BY DEF IInv, Types
<1>2. /\ token \in Nat /\ token \notin Tokens /\ token > 0
      /\ \A t \in Tokens : t \in 1..sequence /\ t > 0 /\ t # token
  BY <1>1
<1>3. /\ sequence' = token /\ Tokens' = left \cup {token}
      /\ dumps' = [t \in left \cup {token} |-> IF t = token THEN NewDump(k) ELSE dumps[t]]
      /\ active' = (active \ gone) \cup {token}
      /\ writer' = [writer EXCEPT ![k] = token]
  BY DEF Captured, Tokens
<1> HIDE DEF token
<1>4. limits.bytes \in Nat /\ limits.conns \in Nat
  BY <1>1, Limited
<1>5. NewDump(k) \in Dump /\ Good(NewDump(k), limits.bytes)
  BY <1>4, NewIsGood
<1>6. /\ NewDump(k).id = k /\ ~NewDump(k).closed /\ NewDump(k).total = Zero
  BY DEF NewDump
<1>7. /\ dumps'[token] = NewDump(k)
      /\ \A t \in left : dumps'[t] = dumps[t] /\ t # token /\ t \in Tokens /\ t > 0
  BY <1>2, <1>3
<1>8. \A j \in Conns : writer'[j] = IF j = k THEN token ELSE writer[j]
  BY <1>1, <1>3
<1>9. Types'
  <2>1. Tokens' \subseteq 1..sequence'
    BY <1>1, <1>2, <1>3 DEF token
  <2>2. dumps' \in [Tokens' -> Dump]
    BY <1>1, <1>3, <1>5
  <2>3. writer' \in [Conns -> -1..sequence']
    <3>1. token \in -1..token /\ \A j \in Conns : writer[j] \in -1..token
      BY <1>1, <1>2 DEF token
    <3> QED
      BY <1>1, <1>3, <3>1
  <2> QED
    BY <1>1, <1>2, <1>3, <2>1, <2>2, <2>3 DEF IInv, Types
<1>10. Owners'
  <2>1. ASSUME NEW t \in Tokens' PROVE writer'[dumps'[t].id] = t
    <3>1. CASE t = token
      BY <1>6, <1>7, <1>8, <3>1
    <3>2. CASE t # token
      <4>1. t \in left /\ dumps'[t] = dumps[t] /\ t > 0 /\ dumps[t].id \in Conns
        BY <1>1, <1>3, <1>7, <3>2 DEF Dump
      <4>2. writer[dumps[t].id] = t
        BY <4>1 DEF IInv, Owners
      <4>3. dumps[t].id # k
        BY <4>1, <4>2
      <4> QED
        BY <1>8, <4>1, <4>2, <4>3
    <3> QED
      BY <3>1, <3>2
  <2>2. ASSUME NEW j \in Conns, NEW l \in Conns, writer'[j] > 0, writer'[j] = writer'[l]
        PROVE  j = l
    <3>1. \A i \in Conns : writer[i] # token
      BY <1>1, <1>2 DEF token
    <3> QED
      BY <1>8, <2>2, <3>1 DEF IInv, Owners
  <2>3. \A j \in Conns : writer'[j] = 0 => sent'[j] = Zero
    BY <1>2, <1>8 DEF IInv, Owners
  <2> QED
    BY <2>1, <2>2, <2>3 DEF Owners
<1>11. Captures'
  <2>1. active' = {t \in Tokens' : ~dumps'[t].closed}
    <3>1. active = {t \in Tokens : ~dumps[t].closed}
      BY DEF IInv, Captures
    <3> QED
      BY <1>3, <1>6, <1>7, <3>1
  <2>2. Places' <= limits'.conns
    <3>1. IsFiniteSet(left)
      BY FiniteTokens, FS_Subset DEF IInv
    <3>2. token \notin left
      BY <1>2
    <3>3. Cardinality(left \cup {token}) = Cardinality(left) + 1
      BY <3>1, <3>2, FS_AddElement
    <3>4. Cardinality(left) \in Nat
      BY <3>1, FS_CardinalityType
    <3>5. Places' = Cardinality(left) + 1
      BY <1>3, <3>3 DEF Places
    <3> QED
      BY <1>4, <3>4, <3>5
  <2>3. ASSUME NEW t \in Tokens'
        PROVE  /\ Good(dumps'[t], limits'.bytes)
               /\ ~dumps'[t].closed => dumps'[t].total = sent'[dumps'[t].id]
    <3>1. CASE t = token
      <4>1. sent[k] = Zero
        BY DEF IInv, Owners
      <4> QED
        BY <1>5, <1>6, <1>7, <3>1, <4>1
    <3>2. CASE t # token
      BY <1>3, <1>7, <3>2 DEF IInv, Captures
    <3> QED
      BY <3>1, <3>2
  <2>4. (active = {t \in Tokens : ~dumps[t].closed})'
    BY <2>1
  <2> QED
    BY <2>1, <2>2, <2>3 DEF Captures
<1> QED
  BY <1>9, <1>10, <1>11 DEF IInv

\* The places that those leave who give way.
LEMMA Evicted ==
  ASSUME Types, NEW gone \in SUBSET Unpinned, NEW n \in Nat, Oldest(gone, n)
  PROVE  /\ gone \in SUBSET Tokens
         /\ IsFiniteSet(Tokens \ gone) /\ Cardinality(Tokens \ gone) = Places - n
<1>1. gone \in SUBSET Tokens
  BY DEF Unpinned
<1>2. Tokens \cap gone = gone
  BY <1>1
<1>3. IsFiniteSet(Tokens)
  BY FiniteTokens
<1>4. IsFiniteSet(Tokens \ gone)
      /\ Cardinality(Tokens \ gone) = Cardinality(Tokens) - Cardinality(Tokens \cap gone)
  BY <1>3, FS_Difference
<1> QED
  BY <1>1, <1>2, <1>4 DEF Oldest, Places

LEMMA BeginKeeps ==
  ASSUME IInv, NEW k \in Conns, BeginProtocol(k)
  PROVE  IInv'
<1>1. Types /\ Places \in Nat /\ Places <= limits.conns /\ limits.conns \in Nat
  BY FiniteTokens, Limited DEF IInv, Captures, Types
<1>2. writer[k] = 0 /\ UNCHANGED <<limits, sent>>
  BY DEF BeginProtocol
<1>3. CASE Places < limits.conns /\ Captured(k, {})
  <2>1. Tokens \ {} = Tokens /\ {} \in SUBSET Tokens
    OBVIOUS
  <2>2. Cardinality(Tokens \ {}) < limits.conns
    BY <1>3, <2>1 DEF Places
  <2> QED
    BY <1>2, <1>3, <2>1, <2>2, CapturedKeeps
<1>4. CASE \E gone \in SUBSET Unpinned : Oldest(gone, 1) /\ Captured(k, gone)
  <2>1. PICK gone \in SUBSET Unpinned : Oldest(gone, 1) /\ Captured(k, gone)
    BY <1>4
  <2>2. gone \in SUBSET Tokens /\ Cardinality(Tokens \ gone) = Places - 1
    BY <1>1, <2>1, Evicted
  <2>3. Cardinality(Tokens \ gone) < limits.conns
    BY <1>1, <2>2
  <2> QED
    BY <1>2, <2>1, <2>2, <2>3, CapturedKeeps
<1>5. CASE writer' = [writer EXCEPT ![k] = -1] /\ UNCHANGED <<sequence, dumps, active>>
  <2>1. Types'
    <3>1. writer' \in [Conns -> -1..sequence]
      BY <1>1, <1>5 DEF Types
    <3> QED
      BY <1>2, <1>5, <3>1 DEF IInv, Types, Tokens
  <2>2. \A j \in Conns : writer'[j] = IF j = k THEN -1 ELSE writer[j]
    BY <1>1, <1>5 DEF Types
  <2>3. Owners'
    <3>1. ASSUME NEW t \in Tokens PROVE dumps[t].id \in Conns /\ dumps[t].id # k /\ t > 0
      <4>1. dumps[t].id \in Conns /\ t > 0
        BY <1>1 DEF Types, Dump
      <4>2. writer[dumps[t].id] = t
        BY DEF IInv, Owners
      <4> QED
        BY <1>2, <4>1, <4>2
    <3>2. \A t \in Tokens' : writer'[dumps'[t].id] = t
      BY <1>5, <2>2, <3>1 DEF IInv, Owners, Tokens
    <3>3. \A j, l \in Conns : writer'[j] > 0 /\ writer'[j] = writer'[l] => j = l
      BY <2>2 DEF IInv, Owners
    <3>4. \A j \in Conns : writer'[j] = 0 => sent'[j] = Zero
      BY <1>2, <2>2 DEF IInv, Owners
    <3> QED
      BY <3>2, <3>3, <3>4 DEF Owners
  <2>4. Captures'
    BY <1>2, <1>5 DEF IInv, Captures, Tokens, Places
  <2> QED
    BY <2>1, <2>3, <2>4 DEF IInv
<1> QED
  BY <1>3, <1>4, <1>5 DEF BeginProtocol

\* The capture that a connection can still write to.
LEMMA Reached ==
  ASSUME IInv, NEW k \in Conns, writer[k] \in active
  PROVE  /\ writer[k] \in Tokens /\ dumps[writer[k]] \in Dump
         /\ dumps[writer[k]].id = k /\ ~dumps[writer[k]].closed
         /\ dumps[writer[k]].total = sent[k]
<1> DEFINE t == writer[k]
<1>1. t \in Tokens /\ ~dumps[t].closed
  BY DEF IInv, Captures
<1>2. dumps[t] \in Dump /\ t > 0
  BY <1>1 DEF IInv, Types
<1>3. dumps[t].id \in Conns /\ writer[dumps[t].id] = t
  BY <1>1, <1>2 DEF Dump, IInv, Owners
<1>4. dumps[t].id = k
  <2>1. \A i, j \in Conns : writer[i] > 0 /\ writer[i] = writer[j] => i = j
    BY DEF IInv, Owners
  <2> QED
    BY <1>2, <1>3, <2>1
<1>5. dumps[t].total = sent[dumps[t].id]
  BY <1>1 DEF IInv, Captures
<1> QED
  BY <1>1, <1>2, <1>4, <1>5

LEMMA WriteKeeps ==
  ASSUME IInv, NEW k \in Conns, NEW dir \in Dirs, NEW n \in 1..MaxSent, Write(k, dir, n)
  PROVE  IInv'
<1> DEFINE t == writer[k]
           d == dumps[t]
           w == Written(d, dir, Bytes(k, dir, sent[k][dir], n))
<1>1. t \in active
  BY DEF Write
<1>2. t \in Tokens /\ d \in Dump /\ d.id = k /\ ~d.closed /\ d.total = sent[k]
  BY <1>1, Reached
<1>3. /\ limits \in Limits /\ limits.bytes \in Nat /\ n \in Nat \ {0}
      /\ sent \in [Conns -> [Dirs -> 0..MaxSent]] /\ dumps \in [Tokens -> Dump]
  BY Limited, RecorderAssumption DEF IInv, Types
<1>4. Good(d, limits.bytes)
  BY <1>2 DEF IInv, Captures
<1>5. /\ sent' = [sent EXCEPT ![k][dir] = @ + n] /\ sent[k][dir] + n <= MaxSent
      /\ dumps' = [dumps EXCEPT ![t] = w]
      /\ UNCHANGED <<limits, sequence, active, writer>>
  BY DEF Write
<1>6. Grown(d, dir, n, limits.bytes, w)
  <2> HIDE DEF d
  <2>1. Grown(d, dir, n, limits.bytes, Written(d, dir, Bytes(d.id, dir, d.total[dir], n)))
    BY <1>2, <1>3, <1>4, WrittenKeeps
  <2> QED
    BY <1>2, <2>1
<1> HIDE DEF w
<1>7. /\ w \in Dump /\ Good(w, limits.bytes) /\ w.id = k /\ ~w.closed
      /\ w.total = [sent[k] EXCEPT ![dir] = @ + n]
  <2> HIDE DEF d
  <2> QED
    BY <1>2, <1>6 DEF Grown
<1>8. /\ Tokens' = Tokens /\ dumps' \in [Tokens -> Dump]
      /\ \A u \in Tokens : dumps'[u] = IF u = t THEN w ELSE dumps[u]
  <2>1. dumps' \in [Tokens -> Dump] /\ \A u \in Tokens : dumps'[u] = IF u = t THEN w ELSE dumps[u]
    <3> HIDE DEF t
    <3> QED
      BY <1>2, <1>3, <1>5, <1>7
  <2> QED
    BY <2>1 DEF Tokens
<1>9. /\ sent' \in [Conns -> [Dirs -> 0..MaxSent]]
      /\ sent'[k] = [sent[k] EXCEPT ![dir] = @ + n]
      /\ \A j \in Conns : j # k => sent'[j] = sent[j]
  <2>1. sent[k][dir] + n \in 0..MaxSent /\ sent[k] \in [Dirs -> 0..MaxSent]
    BY <1>3, <1>5, RecorderAssumption
  <2>2. [sent[k] EXCEPT ![dir] = @ + n] \in [Dirs -> 0..MaxSent]
    BY <2>1
  <2> QED
    BY <1>3, <1>5, <2>2
<1>10. Types'
  BY <1>3, <1>5, <1>8, <1>9 DEF IInv, Types
<1>11. Owners'
  <2>1. \A u \in Tokens' : writer'[dumps'[u].id] = u
    BY <1>2, <1>5, <1>7, <1>8 DEF IInv, Owners
  <2>2. writer[k] # 0
    BY <1>2, <1>3 DEF IInv, Types
  <2>3. \A j \in Conns : writer'[j] = 0 => sent'[j] = Zero
    BY <1>5, <1>9, <2>2 DEF IInv, Owners
  <2> QED
    BY <1>5, <2>1, <2>3 DEF IInv, Owners
<1>12. Captures'
  <2>1. active' = {u \in Tokens' : ~dumps'[u].closed}
    <3>1. active = {u \in Tokens : ~dumps[u].closed}
      BY DEF IInv, Captures
    <3> QED
      BY <1>2, <1>5, <1>7, <1>8, <3>1
  <2>2. Places' <= limits'.conns
    BY <1>5, <1>8 DEF IInv, Captures, Places
  <2>3. ASSUME NEW u \in Tokens'
        PROVE  /\ Good(dumps'[u], limits'.bytes)
               /\ ~dumps'[u].closed => dumps'[u].total = sent'[dumps'[u].id]
    <3>1. CASE u = t
      BY <1>5, <1>7, <1>8, <1>9, <3>1
    <3>2. CASE u # t
      <4>1. u \in Tokens /\ dumps'[u] = dumps[u]
        BY <1>8, <3>2
      <4>2. dumps[u].id \in Conns /\ writer[dumps[u].id] = u
        BY <1>3, <4>1 DEF Dump, IInv, Owners
      <4>3. dumps[u].id # k
        BY <3>2, <4>2
      <4> QED
        BY <1>5, <1>9, <4>1, <4>2, <4>3 DEF IInv, Captures
    <3> QED
      BY <3>1, <3>2
  <2> QED
    BY <2>1, <2>2, <2>3 DEF Captures
<1> QED
  BY <1>10, <1>11, <1>12 DEF IInv

\* A change of one capture that leaves it good.
LEMMA ChangedKeeps ==
  ASSUME IInv, NEW t \in Tokens, NEW w \in Dump,
         w.id = dumps[t].id, Good(w, limits.bytes), ~w.closed => w.total = sent[w.id],
         dumps' = [dumps EXCEPT ![t] = w],
         active' = {u \in Tokens : IF u = t THEN ~w.closed ELSE ~dumps[u].closed},
         UNCHANGED <<limits, sequence, writer, sent>>
  PROVE  IInv'
<1>1. dumps \in [Tokens -> Dump]
  BY DEF IInv, Types
<1>2. /\ Tokens' = Tokens /\ dumps' \in [Tokens -> Dump]
      /\ \A u \in Tokens : dumps'[u] = IF u = t THEN w ELSE dumps[u]
  <2>1. dumps' \in [Tokens -> Dump] /\ \A u \in Tokens : dumps'[u] = IF u = t THEN w ELSE dumps[u]
    BY <1>1
  <2> QED
    BY <2>1 DEF Tokens
<1>3. Types'
  BY <1>2 DEF IInv, Types
<1>4. Owners'
  <2>1. \A u \in Tokens' : writer'[dumps'[u].id] = u
    BY <1>2 DEF IInv, Owners
  <2> QED
    BY <2>1 DEF IInv, Owners
<1>5. Captures'
  <2>1. active' = {u \in Tokens' : ~dumps'[u].closed}
    BY <1>2
  <2>2. Places' <= limits'.conns
    BY <1>2 DEF IInv, Captures, Places
  <2>3. ASSUME NEW u \in Tokens'
        PROVE  /\ Good(dumps'[u], limits'.bytes)
               /\ ~dumps'[u].closed => dumps'[u].total = sent'[dumps'[u].id]
    <3>1. CASE u = t
      BY <1>2, <3>1
    <3>2. CASE u # t
      BY <1>2, <3>2 DEF IInv, Captures
    <3> QED
      BY <3>1, <3>2
  <2> QED
    BY <2>1, <2>2, <2>3 DEF Captures
<1> QED
  BY <1>3, <1>4, <1>5 DEF IInv

LEMMA FinishKeeps ==
  ASSUME IInv, NEW k \in Conns, NEW in \in 0..sent[k]["in"], NEW out \in 0..sent[k]["out"],
         Finish(k, in, out)
  PROVE  IInv'
<1> DEFINE t == writer[k]
           d == dumps[t]
           total == [dir \in Dirs |-> IF dir = "in" THEN in ELSE out]
           w == [d EXCEPT !.closed = TRUE, !.total = total]
<1>1. /\ t \in active /\ dumps' = [dumps EXCEPT ![t] = w] /\ active' = active \ {t}
      /\ UNCHANGED <<limits, sequence, writer, sent>>
  BY DEF Finish
<1>2. t \in Tokens /\ d \in Dump /\ d.id = k /\ ~d.closed /\ d.total = sent[k]
  BY <1>1, Reached
<1>3. /\ sent[k] \in [Dirs -> 0..MaxSent] /\ "in" \in Dirs /\ "out" \in Dirs /\ MaxSent \in Nat
      /\ sent[k]["in"] \in Nat /\ sent[k]["out"] \in Nat
  BY RecorderAssumption DEF IInv, Types, Dirs
<1>4. total \in [Dirs -> Nat] /\ \A dir \in Dirs : total[dir] <= d.total[dir]
  <2>1. in \in Nat /\ out \in Nat /\ in <= sent[k]["in"] /\ out <= sent[k]["out"]
    BY <1>3
  <2>2. \A dir \in Dirs : dir = "in" \/ dir = "out"
    BY DEF Dirs
  <2> QED
    BY <1>2, <2>1, <2>2
<1> HIDE DEF total, d
<1>5. /\ w \in Dump /\ w.closed /\ w.id = d.id /\ w.chunks = d.chunks /\ w.written = d.written
      /\ w.cut = d.cut /\ w.full = d.full /\ w.total = total
  BY <1>2, <1>4 DEF Dump
<1>6. Good(d, limits.bytes)
  BY <1>2 DEF IInv, Captures, d
<1> HIDE DEF w
<1>7. Good(w, limits.bytes)
  <2>1. ASSUME NEW dir \in Dirs
        PROVE  /\ w.written[dir] <= limits.bytes
               /\ Joined(w.chunks, dir) = Bytes(w.id, dir, 0, w.written[dir])
               /\ dir \notin w.cut /\ ~w.full => w.total[dir] <= w.written[dir]
    <3>1. d.total[dir] \in Nat /\ d.written[dir] \in Nat /\ total[dir] \in Nat
      BY <1>2, <1>4 DEF Dump
    <3> QED
      BY <1>4, <1>5, <1>6, <3>1 DEF Good
  <2> QED
    BY <1>5, <1>6, <2>1 DEF Good
<1>8. active' = {u \in Tokens : IF u = t THEN ~w.closed ELSE ~dumps[u].closed}
  BY <1>1, <1>5 DEF IInv, Captures
<1> QED
  BY <1>1, <1>2, <1>5, <1>7, <1>8, ChangedKeeps DEF d

LEMMA PinKeeps ==
  ASSUME IInv, NEW k \in Conns, NEW pinned \in BOOLEAN, SetPinned(k, pinned)
  PROVE  IInv'
<1>1. PICK t \in Tokens : dumps' = [dumps EXCEPT ![t].pinned = pinned]
  BY DEF SetPinned
<1> DEFINE d == dumps[t]
           w == [d EXCEPT !.pinned = pinned]
<1>2. d \in Dump /\ Good(d, limits.bytes) /\ (~d.closed => d.total = sent[d.id])
  BY DEF IInv, Types, Captures
<1>3. dumps' = [dumps EXCEPT ![t] = w] /\ UNCHANGED <<limits, sequence, active, writer, sent>>
  BY <1>1 DEF SetPinned
<1>4. active = {u \in Tokens : IF u = t THEN ~d.closed ELSE ~dumps[u].closed}
  BY DEF IInv, Captures
<1> HIDE DEF d
<1>5. /\ w \in Dump /\ w.closed = d.closed /\ w.id = d.id /\ w.chunks = d.chunks
      /\ w.written = d.written /\ w.cut = d.cut /\ w.full = d.full /\ w.total = d.total
  BY <1>2 DEF Dump
<1> HIDE DEF w
<1>6. Good(w, limits.bytes)
  BY <1>2, <1>5 DEF Good
<1>7. active' = {u \in Tokens : IF u = t THEN ~w.closed ELSE ~dumps[u].closed}
  BY <1>3, <1>4, <1>5
<1> QED
  BY <1>2, <1>3, <1>5, <1>6, <1>7, ChangedKeeps DEF d

\* Some captures go, and as much is kept of the others as the limits leave.
LEMMA FewerKeeps ==
  ASSUME IInv, NEW gone \in SUBSET Tokens, NEW rest,
         DOMAIN rest = Tokens \ gone, rest = [t \in Tokens \ gone |-> rest[t]],
         limits' \in Limits, Cardinality(Tokens \ gone) <= limits'.conns,
         \A t \in Tokens \ gone :
           /\ rest[t] \in Dump /\ Good(rest[t], limits'.bytes)
           /\ rest[t].id = dumps[t].id /\ rest[t].closed = dumps[t].closed
           /\ rest[t].total = dumps[t].total,
         dumps' = rest, active' = active \ gone, UNCHANGED <<sequence, writer, sent>>
  PROVE  IInv'
<1> DEFINE left == Tokens \ gone
<1>1. Tokens' = left /\ \A t \in left : dumps'[t] = rest[t] /\ t \in Tokens
  BY DEF Tokens
<1>2. dumps' \in [left -> Dump]
  OBVIOUS
<1>3. Types'
  BY <1>1, <1>2 DEF IInv, Types
<1>4. Owners'
  <2>1. \A t \in Tokens' : writer'[dumps'[t].id] = t
    BY <1>1 DEF IInv, Owners
  <2> QED
    BY <2>1 DEF IInv, Owners
<1>5. Captures'
  <2>1. active' = {t \in Tokens' : ~dumps'[t].closed}
    <3>1. active = {t \in Tokens : ~dumps[t].closed}
      BY DEF IInv, Captures
    <3> QED
      BY <1>1, <3>1
  <2>2. Places' <= limits'.conns
    BY <1>1 DEF Places
  <2>3. ASSUME NEW t \in Tokens'
        PROVE  /\ Good(dumps'[t], limits'.bytes)
               /\ ~dumps'[t].closed => dumps'[t].total = sent'[dumps'[t].id]
    BY <1>1 DEF IInv, Captures
  <2> QED
    BY <2>1, <2>2, <2>3 DEF Captures
<1> QED
  BY <1>3, <1>4, <1>5 DEF IInv

\* What is kept of a good capture is good.
LEMMA TrimmedIsGood ==
  ASSUME NEW d \in Dump, NEW before \in Nat, Good(d, before), NEW max \in Nat
  PROVE  /\ Trim(d, max) \in Dump /\ Good(Trim(d, max), max)
         /\ Trim(d, max).id = d.id /\ Trim(d, max).closed = d.closed
         /\ Trim(d, max).pinned = d.pinned /\ Trim(d, max).total = d.total
<1> DEFINE w == Trim(d, max)
<1>1. /\ d.written \in [Dirs -> Nat] /\ d.total \in [Dirs -> Nat] /\ Len(d.chunks) \in Nat
      /\ MaxChunks \in Nat
  BY RecorderAssumption DEF Dump
<1>2. Len(d.chunks) <= MaxChunks
      /\ \A dir \in Dirs : Joined(d.chunks, dir) = Bytes(d.id, dir, 0, d.written[dir])
  BY DEF Good
<1>3. /\ w \in Dump /\ Len(w.chunks) <= Len(d.chunks)
      /\ w.id = d.id /\ w.pinned = d.pinned /\ w.closed = d.closed /\ w.full = d.full
      /\ w.total = d.total /\ d.cut \subseteq w.cut
      /\ \A dir \in Dirs :
           /\ w.written[dir] = Upper(d.written[dir], max)
           /\ Joined(w.chunks, dir) = Bytes(d.id, dir, 0, w.written[dir])
           /\ d.written[dir] > max => dir \in w.cut
  BY <1>2, TrimKeeps
<1> HIDE DEF w
<1>4. ASSUME NEW dir \in Dirs
      PROVE  /\ w.written[dir] <= max
             /\ Joined(w.chunks, dir) = Bytes(w.id, dir, 0, w.written[dir])
             /\ dir \notin w.cut /\ ~w.full => w.total[dir] <= w.written[dir]
             /\ ~w.closed => w.written[dir] <= w.total[dir]
  <2>1. /\ d.written[dir] \in Nat /\ d.total[dir] \in Nat
        /\ w.written[dir] = IF d.written[dir] <= max THEN d.written[dir] ELSE max
    BY <1>1, <1>3 DEF Upper
  <2>2. /\ dir \notin d.cut /\ ~d.full => d.total[dir] <= d.written[dir]
        /\ ~d.closed => d.written[dir] <= d.total[dir]
    BY DEF Good
  <2> QED
    BY <1>3, <2>1, <2>2
<1>5. Len(w.chunks) <= MaxChunks
  <2>1. Len(w.chunks) \in Nat
    BY <1>3 DEF Dump
  <2> QED
    BY <1>1, <1>2, <1>3, <2>1
<1>6. Good(w, max)
  BY <1>4, <1>5 DEF Good
<1> QED
  BY <1>3, <1>6 DEF w

LEMMA ResizeKeeps ==
  ASSUME IInv, NEW l \in Limits, Resize(l)
  PROVE  IInv'
<1> DEFINE n == IF Places > l.conns THEN Places - l.conns ELSE 0
<1>1. PICK gone \in SUBSET Unpinned :
        /\ Oldest(gone, n)
        /\ dumps' = [t \in Tokens \ gone |-> Trim(dumps[t], l.bytes)]
        /\ active' = active \ gone
  BY DEF Resize
<1>2. /\ Types /\ Places \in Nat /\ l.conns \in Nat /\ l.bytes \in Nat
      /\ limits.bytes \in Nat /\ dumps \in [Tokens -> Dump]
  BY FiniteTokens, Limited DEF IInv, Types
<1>3. n \in Nat /\ Places - n <= l.conns
  BY <1>2
<1> HIDE DEF n
<1>4. gone \in SUBSET Tokens /\ Cardinality(Tokens \ gone) = Places - n
  BY <1>1, <1>2, <1>3, Evicted
<1> DEFINE rest == [t \in Tokens \ gone |-> Trim(dumps[t], l.bytes)]
<1>5. ASSUME NEW t \in Tokens \ gone
      PROVE  /\ rest[t] \in Dump /\ Good(rest[t], l.bytes)
             /\ rest[t].id = dumps[t].id /\ rest[t].closed = dumps[t].closed
             /\ rest[t].total = dumps[t].total
  <2>1. dumps[t] \in Dump /\ Good(dumps[t], limits.bytes) /\ rest[t] = Trim(dumps[t], l.bytes)
    BY <1>2 DEF IInv, Captures
  <2> QED
    BY <1>2, <2>1, TrimmedIsGood
<1>6. DOMAIN rest = Tokens \ gone /\ rest = [t \in Tokens \ gone |-> rest[t]] /\ dumps' = rest
  BY <1>1
<1> HIDE DEF rest
<1>7. limits' = l /\ UNCHANGED <<sequence, writer, sent>>
  BY DEF Resize
<1>8. Cardinality(Tokens \ gone) <= limits'.conns /\ limits' \in Limits
  BY <1>3, <1>4, <1>7
<1>9. dumps' = rest /\ active' = active \ gone
  BY <1>1, <1>6
<1>10. \A t \in Tokens \ gone :
          /\ rest[t] \in Dump /\ Good(rest[t], limits'.bytes)
          /\ rest[t].id = dumps[t].id /\ rest[t].closed = dumps[t].closed
          /\ rest[t].total = dumps[t].total
  BY <1>5, <1>7
<1> QED
  BY <1>4, <1>6, <1>7, <1>8, <1>9, <1>10, FewerKeeps, Zenon

LEMMA ClearKeeps ==
  ASSUME IInv, Clear
  PROVE  IInv'
<1> DEFINE rest == Without(Unpinned)
<1>1. /\ Unpinned \in SUBSET Tokens /\ IsFiniteSet(Tokens) /\ Places \in Nat
      /\ limits \in Limits /\ limits.conns \in Nat /\ dumps \in [Tokens -> Dump]
  BY FiniteTokens, Limited DEF IInv, Types, Unpinned
<1>2. Cardinality(Tokens \ Unpinned) <= limits.conns
  <2>1. Tokens \ Unpinned \in SUBSET Tokens
    OBVIOUS
  <2>2. Cardinality(Tokens \ Unpinned) <= Places /\ Cardinality(Tokens \ Unpinned) \in Nat
    BY <1>1, <2>1, FS_Subset, FS_CardinalityType DEF Places
  <2> QED
    BY <1>1, <2>2 DEF IInv, Captures
<1>3. /\ DOMAIN rest = Tokens \ Unpinned /\ rest = [t \in Tokens \ Unpinned |-> rest[t]]
      /\ \A t \in Tokens \ Unpinned : rest[t] = dumps[t]
  BY DEF Without
<1>4. \A t \in Tokens \ Unpinned : rest[t] \in Dump /\ Good(rest[t], limits.bytes)
  BY <1>1, <1>3 DEF IInv, Captures
<1>5. dumps' = rest /\ active' = active \ Unpinned /\ UNCHANGED <<limits, sequence, writer, sent>>
  BY DEF Clear
<1> HIDE DEF rest
<1> QED
  BY <1>1, <1>2, <1>3, <1>4, <1>5, FewerKeeps

LEMMA NextKeeps == IInv /\ [Next]_vars => IInv'
<1> SUFFICES ASSUME IInv, [Next]_vars PROVE IInv'
  OBVIOUS
<1>1. CASE \E k \in Conns : BeginProtocol(k) \/ MarkFinding(k)
  BY <1>1, BeginKeeps, PinKeeps DEF MarkFinding
<1>2. CASE \E k \in Conns, dir \in Dirs, n \in 1..MaxSent : Write(k, dir, n)
  BY <1>2, WriteKeeps
<1>3. CASE \E k \in Conns : \E in \in 0..sent[k]["in"], out \in 0..sent[k]["out"] : Finish(k, in, out)
  BY <1>3, FinishKeeps
<1>4. CASE \E l \in Limits : Resize(l)
  BY <1>4, ResizeKeeps
<1>5. CASE \E k \in Conns, pinned \in BOOLEAN : SetPinned(k, pinned)
  BY <1>5, PinKeeps
<1>6. CASE Clear
  BY <1>6, ClearKeeps
<1>7. CASE UNCHANGED vars
  BY <1>7 DEF vars, IInv, Types, Owners, Captures, Tokens, Places, Good
<1> QED
  BY <1>1, <1>2, <1>3, <1>4, <1>5, <1>6, <1>7 DEF Next

LEMMA Invariance == Spec => []IInv
<1>1. Init => IInv
  BY InitInv
<1>2. IInv /\ [Next]_vars => IInv'
  BY NextKeeps
<1> QED
  BY <1>1, <1>2, PTL DEF Spec

-----------------------------------------------------------------------------
(* The theorems.                                                            *)

\* Every variable has its type, and tokens are given in order.
THEOREM TypeCorrect == Spec => []TypeOK
<1>1. IInv => TypeOK
  <2> SUFFICES ASSUME IInv PROVE TypeOK
    OBVIOUS
  <2>1. ASSUME NEW t \in Tokens
        PROVE  /\ dumps[t].id \in Conns /\ dumps[t].pinned \in BOOLEAN
               /\ dumps[t].written \in [Dirs -> Nat] /\ dumps[t].total \in [Dirs -> Nat]
               /\ dumps[t].cut \subseteq Dirs
    <3>1. dumps[t] \in Dump
      BY DEF IInv, Types
    <3> QED
      BY <3>1 DEF Dump
  <2>2. active \subseteq Tokens
    BY DEF IInv, Captures
  <2> QED
    BY <2>1, <2>2 DEF IInv, Types, TypeOK
<1> QED
  BY <1>1, Invariance, PTL

\* The store never holds more captures, chunks or bytes than its limits allow,
\* at once also after they were lowered, and its counter of what is stored is
\* right; a writer reaches exactly the captures that are kept and not finished.
THEOREM StoreIsBounded == Spec => []Bounded
<1>1. IInv => Bounded
  <2> SUFFICES ASSUME IInv PROVE Bounded
    OBVIOUS
  <2>1. ASSUME NEW t \in Tokens, NEW dir \in Dirs
        PROVE  /\ Len(dumps[t].chunks) <= MaxChunks
               /\ dumps[t].written[dir] <= limits.bytes
               /\ Len(Stored(dumps[t], dir)) = dumps[t].written[dir]
    <3>1. dumps[t] \in Dump /\ Good(dumps[t], limits.bytes)
      BY DEF IInv, Types, Captures
    <3>2. dumps[t].id \in Conns /\ dumps[t].written[dir] \in Nat
      BY <3>1 DEF Dump
    <3>3. Joined(dumps[t].chunks, dir) = Bytes(dumps[t].id, dir, 0, dumps[t].written[dir])
      BY <3>1 DEF Good
    <3> DEFINE k == dumps[t].id
               n == dumps[t].written[dir]
    <3> HIDE DEF k, n
    <3>4. Len(Bytes(k, dir, 0, n)) = n
      <4>1. k \in Conns /\ n \in Nat /\ 0 \in Nat
        BY <3>2 DEF k, n
      <4> QED
        BY <4>1, BytesType, Zenon
    <3> QED
      BY <3>1, <3>3, <3>4 DEF Good, Stored, k, n
  <2>2. "in" \in Dirs
    BY DEF Dirs
  <2> QED
    BY <2>1, <2>2 DEF IInv, Captures, Bounded
<1> QED
  BY <1>1, Invariance, PTL

\* What is stored of a direction is the beginning of its stream, and a capture
\* that misses bytes says so.
THEOREM CapturesAreGapless == Spec => []CapturesArePrefixes
<1>1. IInv => CapturesArePrefixes
  <2> SUFFICES ASSUME IInv, NEW t \in Tokens, NEW dir \in Dirs
               PROVE  /\ Stored(dumps[t], dir) = Bytes(dumps[t].id, dir, 0, dumps[t].written[dir])
                      /\ dumps[t].total[dir] > dumps[t].written[dir] =>
                           dumps[t].full \/ dumps[t].cut # {}
    BY DEF CapturesArePrefixes
  <2>1. dumps[t] \in Dump /\ Good(dumps[t], limits.bytes)
    BY DEF IInv, Types, Captures
  <2>2. dumps[t].written[dir] \in Nat /\ dumps[t].total[dir] \in Nat
    BY <2>1 DEF Dump
  <2> QED
    BY <2>1, <2>2 DEF Good, Stored
<1> QED
  BY <1>1, Invariance, PTL

LEMMA PrefixOfJoin ==
  ASSUME NEW s \in Seq(Byte), NEW more \in Seq(Byte)
  PROVE  IsPrefix(s, s \o more)
<1>1. Len(s) <= Len(s \o more) /\ \A i \in 1..Len(s) : (s \o more)[i] = s[i]
  OBVIOUS
<1>2. SubSeq(s, 1, Len(s)) = SubSeq(s \o more, 1, Len(s))
  BY <1>1
<1> QED
  BY <1>1, <1>2 DEF IsPrefix

LEMMA PrefixOfItself ==
  ASSUME NEW s \in Seq(Byte)
  PROVE  IsPrefix(s, s)
<1> QED
  BY DEF IsPrefix

\* What a step does to the captures that stay.
LEMMA StepKeeps ==
  ASSUME IInv, [Next]_vars
  PROVE  /\ \A t \in Tokens : dumps[t].pinned => t \in Tokens'
         /\ limits'.bytes >= limits.bytes =>
              \A t \in Tokens \cap Tokens' : \A dir \in Dirs :
                IsPrefix(Stored(dumps[t], dir), Stored(dumps'[t], dir))
<1> DEFINE Pins == \A t \in Tokens : dumps[t].pinned => t \in Tokens'
           Chunks == \A t \in Tokens \cap Tokens' : dumps'[t].chunks = dumps[t].chunks
           Goal == /\ Pins
                   /\ limits'.bytes >= limits.bytes =>
                       \A t \in Tokens \cap Tokens' : \A dir \in Dirs :
                         IsPrefix(Stored(dumps[t], dir), Stored(dumps'[t], dir))
<1>1. /\ dumps \in [Tokens -> Dump] /\ limits \in Limits /\ limits.bytes \in Nat
      /\ Tokens \subseteq 1..sequence /\ sequence \in Nat
  BY Limited DEF IInv, Types
<1>2. \A t \in Tokens, dir \in Dirs : Stored(dumps[t], dir) \in Seq(Byte)
  BY <1>1, JoinedType DEF Dump, Stored
<1>3. ASSUME Pins, Chunks PROVE Goal
  <2>1. ASSUME NEW t \in Tokens \cap Tokens', NEW dir \in Dirs
        PROVE  IsPrefix(Stored(dumps[t], dir), Stored(dumps'[t], dir))
    <3>1. Stored(dumps'[t], dir) = Stored(dumps[t], dir)
      BY <1>3 DEF Stored
    <3> QED
      BY <1>2, <3>1, PrefixOfItself
  <2> QED
    BY <1>3, <2>1
<1>4. ASSUME NEW k \in Conns, BeginProtocol(k) PROVE Pins /\ Chunks
  <2>1. CASE \E gone \in SUBSET Unpinned : Captured(k, gone)
    <3>1. PICK gone \in SUBSET Unpinned : Captured(k, gone)
      BY <2>1
    <3> DEFINE token == sequence + 1
    <3>2. dumps' = [t \in (Tokens \ gone) \cup {token} |-> IF t = token THEN NewDump(k) ELSE dumps[t]]
      BY <3>1 DEF Captured
    <3>3. token \notin Tokens
      BY <1>1
    <3> HIDE DEF token
    <3>4. Tokens' = (Tokens \ gone) \cup {token}
      BY <3>2 DEF Tokens
    <3>5. \A t \in Tokens \cap Tokens' : dumps'[t] = dumps[t]
      BY <3>2, <3>3, <3>4
    <3>6. \A t \in Tokens : dumps[t].pinned => t \notin gone
      BY DEF Unpinned
    <3> QED
      BY <3>4, <3>5, <3>6
  <2>2. CASE UNCHANGED dumps
    BY <2>2 DEF Tokens
  <2> QED
    BY <1>4, <2>1, <2>2 DEF BeginProtocol
<1>5. ASSUME NEW k \in Conns, NEW in \in 0..sent[k]["in"], NEW out \in 0..sent[k]["out"],
             Finish(k, in, out)
      PROVE  Pins /\ Chunks
  <2>1. PICK total : dumps' = [dumps EXCEPT ![writer[k]] =
                       [@ EXCEPT !.closed = TRUE, !.total = total]]
    BY <1>5 DEF Finish
  <2>2. Tokens' = Tokens
    BY <2>1 DEF Tokens
  <2>3. \A t \in Tokens : dumps'[t].chunks = dumps[t].chunks
    BY <1>1, <2>1 DEF Dump
  <2> QED
    BY <2>2, <2>3
<1>6. ASSUME NEW k \in Conns, NEW pinned \in BOOLEAN, SetPinned(k, pinned)
      PROVE  Pins /\ Chunks
  <2>1. PICK u \in Tokens : dumps' = [dumps EXCEPT ![u].pinned = pinned]
    BY <1>6 DEF SetPinned
  <2>2. Tokens' = Tokens
    BY <2>1 DEF Tokens
  <2>3. \A t \in Tokens : dumps'[t].chunks = dumps[t].chunks
    BY <1>1, <2>1 DEF Dump
  <2> QED
    BY <2>2, <2>3
<1>7. ASSUME Clear PROVE Pins /\ Chunks
  <2>1. dumps' = [t \in Tokens \ Unpinned |-> dumps[t]]
    BY <1>7 DEF Clear, Without
  <2>2. Tokens' = Tokens \ Unpinned
    BY <2>1 DEF Tokens
  <2> QED
    BY <2>1, <2>2 DEF Unpinned
<1>8. ASSUME NEW l \in Limits, Resize(l) PROVE Goal
  <2>1. PICK gone \in SUBSET Unpinned :
          dumps' = [t \in Tokens \ gone |-> Trim(dumps[t], l.bytes)]
    BY <1>8 DEF Resize
  <2>2. Tokens' = Tokens \ gone
    BY <2>1 DEF Tokens
  <2>3. Pins
    BY <2>2 DEF Unpinned
  <2>4. limits' = l /\ l.bytes \in Nat
    BY <1>8, Limited DEF Resize
  <2>5. ASSUME l.bytes >= limits.bytes PROVE Chunks
    <3>1. ASSUME NEW t \in Tokens \ gone PROVE dumps'[t] = dumps[t]
      <4>1. Good(dumps[t], limits.bytes) /\ dumps[t].written \in [Dirs -> Nat]
        BY <1>1 DEF IInv, Captures, Dump
      <4>2. \A dir \in Dirs : dumps[t].written[dir] <= l.bytes
        BY <1>1, <2>4, <2>5, <4>1 DEF Good
      <4>3. Trim(dumps[t], l.bytes) = dumps[t]
        BY <4>2 DEF Trim
      <4> QED
        BY <2>1, <4>3
    <3> QED
      BY <2>2, <3>1
  <2> HIDE DEF Pins, Chunks
  <2>6. CASE l.bytes >= limits.bytes
    BY <1>3, <2>3, <2>5, <2>6
  <2>7. CASE ~(l.bytes >= limits.bytes)
    BY <2>3, <2>4, <2>7
  <2> QED
    BY <2>6, <2>7
<1>9. ASSUME NEW k \in Conns, NEW dir \in Dirs, NEW n \in 1..MaxSent, Write(k, dir, n)
      PROVE  Goal
  <2> DEFINE t == writer[k]
             d == dumps[t]
             w == Written(d, dir, Bytes(k, dir, sent[k][dir], n))
  <2>1. t \in active /\ dumps' = [dumps EXCEPT ![t] = w]
    BY <1>9 DEF Write
  <2>2. t \in Tokens /\ d \in Dump /\ d.id = k /\ ~d.closed /\ d.total = sent[k]
    BY <2>1, Reached
  <2>3. Good(d, limits.bytes) /\ n \in Nat \ {0}
    BY <2>2, RecorderAssumption DEF IInv, Captures
  <2>4. Grown(d, dir, n, limits.bytes, w)
    <3> HIDE DEF d
    <3>1. Grown(d, dir, n, limits.bytes, Written(d, dir, Bytes(d.id, dir, d.total[dir], n)))
      BY <1>1, <2>2, <2>3, WrittenKeeps
    <3> QED
      BY <2>2, <3>1
  <2> HIDE DEF w
  <2>5. Tokens' = Tokens
    BY <2>1 DEF Tokens
  <2>6. ASSUME NEW u \in Tokens, NEW e \in Dirs
        PROVE  IsPrefix(Stored(dumps[u], e), Stored(dumps'[u], e))
    <3>1. CASE u = t
      <4>1. dumps'[u] = w /\ dumps[u] = d
        BY <1>1, <2>1, <2>2, <3>1
      <4>2. PICK more \in Seq(Byte) : Joined(w.chunks, e) = Joined(d.chunks, e) \o more
        BY <2>4 DEF Grown
      <4>3. Joined(d.chunks, e) \in Seq(Byte)
        BY <2>2, JoinedType DEF Dump
      <4> QED
        BY <4>1, <4>2, <4>3, PrefixOfJoin DEF Stored
    <3>2. CASE u # t
      <4>1. dumps'[u] = dumps[u]
        BY <1>1, <2>1, <2>2, <3>2
      <4> QED
        BY <1>2, <4>1, PrefixOfItself
    <3> QED
      BY <3>1, <3>2
  <2> QED
    BY <2>5, <2>6
<1>10. ASSUME UNCHANGED vars PROVE Goal
  <2>1. Pins /\ Chunks
    BY <1>10 DEF vars, Tokens
  <2> QED
    BY <1>3, <2>1
<1> HIDE DEF Pins, Chunks, Goal
<1>11. ASSUME Next PROVE Goal
  <2>1. CASE \E k \in Conns : BeginProtocol(k) \/ MarkFinding(k)
    BY <1>3, <1>4, <1>6, <2>1 DEF MarkFinding
  <2>2. CASE \E k \in Conns, dir \in Dirs, n \in 1..MaxSent : Write(k, dir, n)
    BY <1>9, <2>2
  <2>3. CASE \E k \in Conns : \E in \in 0..sent[k]["in"], out \in 0..sent[k]["out"] : Finish(k, in, out)
    BY <1>3, <1>5, <2>3
  <2>4. CASE \E l \in Limits : Resize(l)
    BY <1>8, <2>4
  <2>5. CASE \E k \in Conns, pinned \in BOOLEAN : SetPinned(k, pinned)
    BY <1>3, <1>6, <2>5
  <2>6. CASE Clear
    BY <1>3, <1>7, <2>6
  <2> QED
    BY <1>11, <2>1, <2>2, <2>3, <2>4, <2>5, <2>6 DEF Next
<1>12. Goal
  BY <1>10, <1>11
<1> QED
  BY <1>12 DEF Goal, Pins

\* No limit, new connection or Clear removes a pinned capture, and only a
\* lower byte limit takes back what was stored.
THEOREM NothingKeptIsLost == Spec => CapturesAreKept
<1> DEFINE Step == /\ \A t \in Tokens : dumps[t].pinned => t \in Tokens'
                   /\ limits'.bytes >= limits.bytes =>
                        \A t \in Tokens \cap Tokens' : \A dir \in Dirs :
                          IsPrefix(Stored(dumps[t], dir), Stored(dumps'[t], dir))
<1>1. IInv /\ [Next]_vars => [Step]_vars
  BY StepKeeps
<1> QED
  BY <1>1, Invariance, PTL DEF Spec, CapturesAreKept

=============================================================================
