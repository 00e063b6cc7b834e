--------------------------- MODULE DataInduction ---------------------------
(* Induction for the proofs about operators that are defined by recursion.   *)
(* The sets T, and the functions f and op, stand for what is claimed and for *)
(* what is computed: they are data, so that a lemma can be cited.            *)
EXTENDS Integers, Sequences, WellFoundedInduction, TLAPS

\* A set of natural numbers has a least element.
LEMMA LeastNat ==
  ASSUME NEW T, T \subseteq Nat, T # {}
  PROVE  \E n \in T : \A m \in T : n <= m
<1> DEFINE R == OpToRel(<, Nat)
<1>1. IsWellFoundedOn(R, Nat)
  BY NatLessThanWellFounded
<1>2. R = {ss \in Nat \X Nat : ss[1] < ss[2]}
  BY DEF OpToRel
<1> HIDE DEF R
<1>3. PICK n \in T : \A m \in T : <<m, n>> \notin R
  BY <1>1, WFMin
<1>4. ASSUME NEW m \in T PROVE n <= m
  <2>1. <<m, n>> \in Nat \X Nat /\ <<m, n>>[1] = m /\ <<m, n>>[2] = n
    OBVIOUS
  <2>2. ~(m < n)
    BY <1>2, <1>3, <2>1
  <2> QED
    BY <2>2
<1> QED
  BY <1>4

\* What holds at 0, and at i when it does at i - 1, holds up to n.
LEMMA UpTo ==
  ASSUME NEW n \in Nat, NEW T, 0 \in T,
         \A i \in 1..n : i - 1 \in T => i \in T
  PROVE  \A i \in 0..n : i \in T
<1> DEFINE Bad == {i \in 0..n : i \notin T}
<1>1. ASSUME NEW i \in Bad PROVE FALSE
  <2>1. Bad \subseteq Nat /\ Bad # {}
    BY <1>1
  <2>2. PICK j \in Bad : \A m \in Bad : j <= m
    BY <2>1, LeastNat
  <2>3. j \in 1..n /\ j - 1 \in 0..n /\ ~(j <= j - 1)
    BY <2>2
  <2>4. j - 1 \in T
    BY <2>2, <2>3
  <2> QED
    BY <2>2, <2>3, <2>4
<1> QED
  BY <1>1

\* What makes of a result and one more element the next result.
Steps(X, Y) == [Y \X X -> Y]

\* f[i] is what op makes of b and the first i elements of s.
IsFold(f, b, op, s) ==
  /\ DOMAIN f = 0..Len(s) /\ f = [i \in 0..Len(s) |-> f[i]]
  /\ f[0] = b
  /\ \A i \in 1..Len(s) : f[i] = op[<<f[i - 1], s[i]>>]

\* There is such a function.
LEMMA FoldExists ==
  ASSUME NEW X, NEW Y, NEW b \in Y, NEW op \in Steps(X, Y), NEW s \in Seq(X)
  PROVE  \E f \in [0..Len(s) -> Y] : IsFold(f, b, op, s)
<1> DEFINE Has(n) == \E f \in [0..n -> Y] :
             f[0] = b /\ \A i \in 1..n : f[i] = op[<<f[i - 1], s[i]>>]
           T == {n \in 0..Len(s) : Has(n)}
<1>1. Len(s) \in Nat /\ \A i \in 1..Len(s) : s[i] \in X
  OBVIOUS
<1>2. Has(0)
  <2> DEFINE f == [i \in 0..0 |-> b]
  <2>1. f \in [0..0 -> Y] /\ f[0] = b /\ \A i \in 1..0 : f[i] = op[<<f[i - 1], s[i]>>]
    OBVIOUS
  <2> QED
    BY <2>1
<1>3. ASSUME NEW n \in 1..Len(s), Has(n - 1) PROVE Has(n)
  <2>1. PICK f \in [0..(n - 1) -> Y] :
          f[0] = b /\ \A i \in 1..(n - 1) : f[i] = op[<<f[i - 1], s[i]>>]
    BY <1>3
  <2> DEFINE last == op[<<f[n - 1], s[n]>>]
             g == [i \in 0..n |-> IF i = n THEN last ELSE f[i]]
  <2>2. n - 1 \in 0..(n - 1) /\ s[n] \in X /\ n \in Nat
    BY <1>1, <1>3
  <2>3. last \in Y
    <3>1. <<f[n - 1], s[n]>> \in Y \X X
      BY <2>1, <2>2
    <3> QED
      BY <3>1 DEF Steps
  <2> HIDE DEF last
  <2>4. \A i \in 0..n : i # n => i \in 0..(n - 1)
    BY <2>2
  <2>5. g \in [0..n -> Y]
    BY <2>1, <2>3, <2>4
  <2>6. g[0] = b /\ g[n] = last /\ g[n - 1] = f[n - 1]
    BY <2>1, <2>2
  <2>7. ASSUME NEW i \in 1..n PROVE g[i] = op[<<g[i - 1], s[i]>>]
    <3>1. CASE i = n
      BY <2>6, <3>1 DEF last
    <3>2. CASE i # n
      <4>1. i \in 1..(n - 1) /\ i \in 0..n /\ i - 1 \in 0..n /\ i - 1 # n
        BY <2>2, <3>2
      <4>2. g[i] = f[i] /\ g[i - 1] = f[i - 1]
        BY <3>2, <4>1
      <4> QED
        BY <2>1, <4>1, <4>2
    <3> QED
      BY <3>1, <3>2
  <2> HIDE DEF g
  <2> QED
    BY <2>5, <2>6, <2>7
<1> HIDE DEF Has
<1>4. 0 \in T /\ \A i \in 1..Len(s) : i - 1 \in T => i \in T
  BY <1>1, <1>2, <1>3
<1> HIDE DEF T
<1>5. \A i \in 0..Len(s) : i \in T
  BY <1>1, <1>4, UpTo
<1>6. Has(Len(s))
  BY <1>1, <1>5 DEF T
<1> QED
  BY <1>6 DEF Has, IsFold

\* It is the only one, and one element more is one step more.
LEMMA FoldAppend ==
  ASSUME NEW X, NEW Y, NEW b \in Y, NEW op \in Steps(X, Y), NEW s \in Seq(X), NEW x \in X,
         NEW f, IsFold(f, b, op, s), NEW g, IsFold(g, b, op, Append(s, x))
  PROVE  /\ f \in [0..Len(s) -> Y]
         /\ \A i \in 0..Len(s) : g[i] = f[i]
         /\ g[Len(s) + 1] = op[<<f[Len(s)], x>>]
<1>1. /\ Len(s) \in Nat /\ \A i \in 1..Len(s) : s[i] \in X
      /\ Len(Append(s, x)) = Len(s) + 1 /\ Append(s, x)[Len(s) + 1] = x
      /\ \A i \in 1..Len(s) : Append(s, x)[i] = s[i]
  OBVIOUS
<1>2. /\ f = [i \in 0..Len(s) |-> f[i]]
      /\ f[0] = b /\ g[0] = b
      /\ \A i \in 1..Len(s) : f[i] = op[<<f[i - 1], s[i]>>]
      /\ \A i \in 1..Len(s) : g[i] = op[<<g[i - 1], s[i]>>]
      /\ g[Len(s) + 1] = op[<<g[Len(s)], x>>]
  <2>1. /\ g[0] = b
        /\ \A i \in 1..(Len(s) + 1) : g[i] = op[<<g[i - 1], Append(s, x)[i]>>]
    BY <1>1 DEF IsFold
  <2>2. /\ Len(s) + 1 \in 1..(Len(s) + 1) /\ Len(s) + 1 - 1 = Len(s)
        /\ \A i \in 1..Len(s) : i \in 1..(Len(s) + 1)
    BY <1>1
  <2>3. g[Len(s) + 1] = op[<<g[Len(s)], x>>]
    <3> DEFINE n == Len(s) + 1
    <3>1. n \in 1..(Len(s) + 1) /\ n - 1 = Len(s) /\ Append(s, x)[n] = x
      BY <1>1, <2>2
    <3> HIDE DEF n
    <3>2. g[n] = op[<<g[n - 1], Append(s, x)[n]>>]
      BY <2>1, <3>1
    <3> QED
      BY <3>1, <3>2 DEF n
  <2>4. ASSUME NEW i \in 1..Len(s) PROVE g[i] = op[<<g[i - 1], s[i]>>]
    <3>1. i \in 1..(Len(s) + 1)
      BY <2>2
    <3>2. g[i] = op[<<g[i - 1], Append(s, x)[i]>>]
      BY <2>1, <3>1
    <3>3. Append(s, x)[i] = s[i]
      BY <1>1
    <3> QED
      BY <3>2, <3>3
  <2>5. /\ f = [i \in 0..Len(s) |-> f[i]] /\ f[0] = b
        /\ \A i \in 1..Len(s) : f[i] = op[<<f[i - 1], s[i]>>]
    BY DEF IsFold
  <2> QED
    BY <2>1, <2>3, <2>4, <2>5
<1> DEFINE T == {i \in 0..Len(s) : f[i] \in Y /\ g[i] = f[i]}
<1>3. 0 \in T
  BY <1>1, <1>2
<1>4. ASSUME NEW i \in 1..Len(s), i - 1 \in T PROVE i \in T
  <2>1. <<f[i - 1], s[i]>> \in Y \X X /\ g[i - 1] = f[i - 1]
    BY <1>1, <1>4
  <2>2. f[i] = op[<<f[i - 1], s[i]>>] /\ g[i] = op[<<g[i - 1], s[i]>>]
    BY <1>2
  <2>3. i \in 0..Len(s)
    BY <1>1
  <2>4. f[i] \in Y /\ g[i] = f[i]
    BY <2>1, <2>2 DEF Steps
  <2> QED
    BY <2>3, <2>4
<1> HIDE DEF T
<1>5. \A i \in 0..Len(s) : i \in T
  BY <1>1, <1>3, <1>4, UpTo
<1>6. \A i \in 0..Len(s) : f[i] \in Y /\ g[i] = f[i]
  BY <1>5 DEF T
<1>7. Len(s) \in 0..Len(s)
  BY <1>1
<1> QED
  BY <1>2, <1>6, <1>7

=============================================================================
