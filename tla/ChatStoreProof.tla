--------------------------- MODULE ChatStoreProof ---------------------------
(***************************************************************************)
(* A chat with any number of requests, messages and faults.  Whatever      *)
(* order the document is read and written in, it is a history with a       *)
(* place for each message, and the selected message exists; requests that  *)
(* do not overlap keep the rows equal to the document, and leave a tree.   *)
(*                                                                         *)
(* First come the lists that the operators are built from, then what each  *)
(* operator makes of a history, the histories in the state, the rows, and  *)
(* at last the tree.                                                       *)
(***************************************************************************)
EXTENDS ChatStore, FiniteSetTheorems, TLAPS

\* A set of numbers up to N that has 0, and with n < N also n + 1, has all:
\* what is missing from below shrinks, and finite sets do not shrink for ever.
LEMMA UpTo ==
  ASSUME NEW N \in Nat, NEW P \in SUBSET (0..N), 0 \in P,
         \A n \in P : n < N => n + 1 \in P
  PROVE  P = 0..N
<1> SUFFICES ASSUME NEW y \in (0..N) \ P PROVE FALSE
  OBVIOUS
<1> DEFINE M == (0..N) \ P
           Below(x) == {z \in M : z =< x}
           Chains == {Below(x) : x \in M}
<1>1. \A x \in M : Below(x) \in FiniteSubsetsOf(0..N)
  <2>1. IsFiniteSet(0..N)
    BY FS_Interval
  <2> QED  BY <2>1, FS_Subset DEF FiniteSubsetsOf
<1>2. PICK C \in Chains : \A D \in Chains : <<D, C>> \notin StrictSubsetOrdering(0..N)
  <2>1. Chains \subseteq FiniteSubsetsOf(0..N) /\ Chains # {}
    BY <1>1
  <2> HIDE DEF Chains
  <2> QED  BY <2>1, WFMin, FS_StrictSubsetOrderingWellFounded
<1>3. PICK x \in M : C = Below(x)
  BY <1>2
<1>4. x # 0 /\ x - 1 \in 0..N /\ x - 1 < N /\ x = (x - 1) + 1
  BY <1>3
<1>5. x - 1 \in M
  BY <1>3, <1>4
<1>6. Below(x - 1) \subseteq Below(x) /\ x \in Below(x) /\ x \notin Below(x - 1)
  BY <1>3, <1>4, <1>5
<1>7. <<Below(x - 1), Below(x)>> \in StrictSubsetOrdering(0..N)
  BY <1>1, <1>3, <1>5, <1>6 DEF StrictSubsetOrdering
<1> QED  BY <1>2, <1>3, <1>5, <1>7

\* A function may be defined from each number to the next.
Defined(X, N, start, step) ==
    {g \in [0..N -> X] : g[0] = start /\ \A i \in 1..N : g[i] = step[i][g[i - 1]]}

LEMMA Steps ==
  ASSUME NEW X, NEW N \in Nat, NEW start \in X, NEW step \in [1..N -> [X -> X]]
  PROVE  Defined(X, N, start, step) # {}
<1> DEFINE Fits(g, k) == g[0] = start /\ \A i \in 1..k : g[i] = step[i][g[i - 1]]
           P == {k \in 0..N : \E g \in [0..k -> X] : Fits(g, k)}
<1>1. 0 \in P
  <2>2. 0..0 = {0} /\ 1..0 = {} /\ 0 \in 0..N
    OBVIOUS
  <2>1. [i \in 0..0 |-> start] \in [0..0 -> X] /\ Fits([i \in 0..0 |-> start], 0)
    BY <2>2
  <2> QED  BY <2>1, <2>2
<1>2. ASSUME NEW k \in P, k < N PROVE k + 1 \in P
  <2>1. PICK g \in [0..k -> X] : Fits(g, k)
    BY <1>2
  <2>2. k \in 0..N /\ k + 1 \in 1..N /\ k \in Nat
    BY <1>2
  <2> DEFINE h == [i \in 0..(k + 1) |-> IF i = k + 1 THEN step[k + 1][g[k]] ELSE g[i]]
  <2>3. h \in [0..(k + 1) -> X]
    BY <2>1, <2>2
  <2>4. h[0] = start
    BY <2>1, <2>2
  <2>5. ASSUME NEW i \in 1..(k + 1) PROVE h[i] = step[i][h[i - 1]]
    <3>1. CASE i \in 1..k
      BY <2>1, <2>2, <3>1
    <3>2. CASE i = k + 1
      BY <2>2, <3>2
    <3> QED  BY <2>2, <3>1, <3>2
  <2>6. Fits(h, k + 1)
    BY <2>4, <2>5
  <2> HIDE DEF h, Fits
  <2> QED  BY <2>2, <2>3, <2>6
<1>3. P \in SUBSET (0..N)
  OBVIOUS
<1> HIDE DEF P
<1>4. N \in P
  BY <1>1, <1>2, <1>3, UpTo
<1> QED  BY <1>4 DEF P, Defined

LEMMA SublistSteps ==
  ASSUME NEW S, NEW s \in Seq(S), NEW T
  PROVE  \E f \in [0..Len(s) -> Seq(S)] :
             /\ Sublist(s, T) = f[Len(s)]
             /\ f[0] = <<>>
             /\ \A i \in 1..Len(s) :
                    f[i] = IF s[i] \in T THEN Append(f[i - 1], s[i]) ELSE f[i - 1]
<1> DEFINE N == Len(s)
           step == [i \in 1..N |-> [q \in Seq(S) |-> IF s[i] \in T THEN Append(q, s[i]) ELSE q]]
           Fits(g) == g = [i \in 0..N |-> IF i = 0 THEN <<>>
                           ELSE IF s[i] \in T THEN Append(g[i - 1], s[i]) ELSE g[i - 1]]
           f == CHOOSE g : Fits(g)
<1>1. N \in Nat /\ \A i \in 1..N : s[i] \in S
  OBVIOUS
<1>2. step \in [1..N -> [Seq(S) -> Seq(S)]] /\ <<>> \in Seq(S)
  BY <1>1
<1>3. \A i \in 1..N, q \in Seq(S) : step[i][q] = IF s[i] \in T THEN Append(q, s[i]) ELSE q
  OBVIOUS
<1> HIDE DEF step
<1>4. PICK g \in [0..N -> Seq(S)] : g[0] = <<>> /\ \A i \in 1..N : g[i] = step[i][g[i - 1]]
  <2> DEFINE X == Seq(S)
  <2>1. N \in Nat /\ step \in [1..N -> [X -> X]] /\ <<>> \in X
    BY <1>1, <1>2
  <2> HIDE DEF N, X
  <2>2. Defined(X, N, <<>>, step) # {}
    BY <2>1, Steps
  <2> QED  BY <2>2 DEF N, X, Defined
<1>5. \A i \in 1..N : i - 1 \in 0..N
  BY <1>1
<1>6. \A i \in 1..N : g[i] = IF s[i] \in T THEN Append(g[i - 1], s[i]) ELSE g[i - 1]
  BY <1>3, <1>4, <1>5
<1>7. Fits(g)
  <2>1. \A i \in 0..N : i # 0 => i \in 1..N
    BY <1>1
  <2>2. g = [i \in 0..N |-> g[i]]
    BY <1>4
  <2> QED  BY <1>4, <1>6, <2>1, <2>2
<1>8. Fits(f)
  <2> HIDE DEF Fits
  <2> QED  BY <1>7
<1>9. Sublist(s, T) = f[N]
  BY DEF Sublist
<1>10. 0 \in 0..N /\ \A i \in 1..N : i \in 0..N /\ i # 0
  BY <1>1
<1> HIDE DEF f
<1>11. f[0] = <<>> /\ \A i \in 1..N : f[i] = IF s[i] \in T THEN Append(f[i - 1], s[i]) ELSE f[i - 1]
  BY <1>8, <1>10
<1>12. f = [i \in 0..N |-> f[i]]
  BY <1>8
<1> DEFINE P == {i \in 0..N : f[i] \in Seq(S)}
<1>13. P = 0..N
  <2>1. 0 \in P /\ P \in SUBSET (0..N)
    BY <1>2, <1>10, <1>11
  <2>2. ASSUME NEW n \in P, n < N PROVE n + 1 \in P
    <3>1. n + 1 \in 1..N /\ n + 1 \in 0..N /\ n = (n + 1) - 1
      BY <1>1, <2>2
    <3>2. f[n + 1] = IF s[n + 1] \in T THEN Append(f[n], s[n + 1]) ELSE f[n]
      BY <1>11, <3>1
    <3>3. f[n] \in Seq(S) /\ s[n + 1] \in S
      BY <1>1, <2>2, <3>1
    <3>4. Append(f[n], s[n + 1]) \in Seq(S)
      BY <3>3
    <3> QED  BY <3>1, <3>2, <3>3, <3>4
  <2> HIDE DEF P
  <2> QED  BY <1>1, <2>1, <2>2, UpTo
<1>14. f \in [0..N -> Seq(S)]
  BY <1>12, <1>13
<1> HIDE DEF Fits
<1> QED  BY <1>9, <1>11, <1>14

LEMMA AddedAtEnd ==
  ASSUME NEW S, NEW q \in Seq(S), NEW x \in S
  PROVE  /\ Append(q, x) \in Seq(S)
         /\ Range(Append(q, x)) = Range(q) \cup {x}
         /\ IsInjective(q) /\ x \notin Range(q) => IsInjective(Append(q, x))
<1>1. /\ Len(q) \in Nat /\ DOMAIN q = 1..Len(q)
      /\ Len(Append(q, x)) = Len(q) + 1 /\ DOMAIN Append(q, x) = 1..Len(q) + 1
  OBVIOUS
<1>2. Append(q, x) \in Seq(S)
  OBVIOUS
<1>3. \A i \in 1..Len(q) : Append(q, x)[i] = q[i]
  OBVIOUS
<1>4. Append(q, x)[Len(q) + 1] = x
  OBVIOUS
<1>5. Range(Append(q, x)) = Range(q) \cup {x}
  BY <1>1, <1>3, <1>4 DEF Range
<1>6. ASSUME IsInjective(q), x \notin Range(q) PROVE IsInjective(Append(q, x))
  <2>1. \A i \in 1..Len(q) : q[i] # x
    BY <1>1, <1>6 DEF Range
  <2> SUFFICES ASSUME NEW i \in 1..Len(q) + 1, NEW j \in 1..Len(q) + 1,
                      Append(q, x)[i] = Append(q, x)[j], i # j
               PROVE  FALSE
    BY <1>1 DEF IsInjective
  <2>2. CASE i = Len(q) + 1
    <3>1. j \in 1..Len(q)
      BY <1>1, <2>2
    <3> QED  BY <1>3, <1>4, <2>1, <2>2, <3>1
  <2>3. CASE j = Len(q) + 1
    <3>1. i \in 1..Len(q)
      BY <1>1, <2>3
    <3> QED  BY <1>3, <1>4, <2>1, <2>3, <3>1
  <2>4. CASE i \in 1..Len(q) /\ j \in 1..Len(q)
    <3>1. q[i] = q[j]
      BY <1>3, <2>4
    <3> QED  BY <1>6, <2>4, <3>1 DEF IsInjective
  <2> QED  BY <1>1, <2>2, <2>3, <2>4
<1> QED  BY <1>2, <1>5, <1>6

\* The elements of a list taken out of it, in its order.
LEMMA SublistIs ==
  ASSUME NEW S, NEW s \in Seq(S), NEW T
  PROVE  /\ Sublist(s, T) \in Seq(S)
         /\ Range(Sublist(s, T)) = Range(s) \cap T
         /\ IsInjective(s) => IsInjective(Sublist(s, T))
<1> DEFINE N == Len(s)
<1>1. N \in Nat /\ DOMAIN s = 1..N /\ \A i \in 1..N : s[i] \in S
  OBVIOUS
<1>2. PICK f \in [0..N -> Seq(S)] :
             /\ Sublist(s, T) = f[N]
             /\ f[0] = <<>>
             /\ \A i \in 1..N : f[i] = IF s[i] \in T THEN Append(f[i - 1], s[i]) ELSE f[i - 1]
  BY SublistSteps
<1> DEFINE Seen(i) == {s[j] : j \in 1..i} \cap T
           P == {i \in 0..N : Range(f[i]) = Seen(i) /\ (IsInjective(s) => IsInjective(f[i]))}
<1>3. 0 \in P
  <2>1. Seen(0) = {} /\ 0 \in 0..N
    BY <1>1
  <2>2. Range(<<>>) = {} /\ IsInjective(<<>>)
    BY DEF Range, IsInjective
  <2> QED  BY <1>2, <2>1, <2>2
<1>4. ASSUME NEW n \in P, n < N PROVE n + 1 \in P
  <2>1. n + 1 \in 1..N /\ n + 1 \in 0..N /\ n \in 0..N /\ n = (n + 1) - 1
    BY <1>1, <1>4
  <2>2. f[n + 1] = IF s[n + 1] \in T THEN Append(f[n], s[n + 1]) ELSE f[n]
    BY <1>2, <2>1
  <2>3. {s[j] : j \in 1..(n + 1)} = {s[j] : j \in 1..n} \cup {s[n + 1]}
    BY <2>1
  <2>4. f[n] \in Seq(S) /\ s[n + 1] \in S
    BY <1>1, <1>2, <2>1
  <2>5. Range(f[n]) = Seen(n) /\ (IsInjective(s) => IsInjective(f[n]))
    BY <1>4
  <2>6. CASE s[n + 1] \notin T
    <3>1. Seen(n + 1) = Seen(n)
      BY <2>3, <2>6
    <3> QED  BY <2>1, <2>2, <2>5, <2>6, <3>1
  <2>7. CASE s[n + 1] \in T
    <3>1. Seen(n + 1) = Seen(n) \cup {s[n + 1]}
      BY <2>3, <2>7
    <3>2. Range(Append(f[n], s[n + 1])) = Range(f[n]) \cup {s[n + 1]}
      BY <2>4, AddedAtEnd
    <3>3. ASSUME IsInjective(s) PROVE IsInjective(Append(f[n], s[n + 1]))
      <4>1. s[n + 1] \notin {s[j] : j \in 1..n}
        <5>1. ASSUME NEW j \in 1..n, s[n + 1] = s[j] PROVE FALSE
          <6>1. j \in 1..N /\ j # n + 1
            BY <1>1, <2>1
          <6> QED  BY <1>1, <2>1, <2>7, <3>3, <5>1, <6>1 DEF IsInjective
        <5> QED  BY <5>1
      <4>2. s[n + 1] \notin Range(f[n])
        BY <2>5, <4>1
      <4>3. IsInjective(f[n])
        BY <2>5, <3>3
      <4> QED  BY <2>4, <4>2, <4>3, AddedAtEnd
    <3> HIDE DEF Seen
    <3> QED  BY <2>1, <2>2, <2>5, <2>7, <3>1, <3>2, <3>3
  <2> QED  BY <2>6, <2>7
<1>5. P \in SUBSET (0..N)
  OBVIOUS
<1> HIDE DEF P
<1>6. N \in P
  BY <1>1, <1>3, <1>4, <1>5, UpTo
<1>7. Range(f[N]) = Seen(N) /\ (IsInjective(s) => IsInjective(f[N]))
  BY <1>6 DEF P
<1>8. Seen(N) = Range(s) \cap T
  BY <1>1 DEF Range
<1>9. f[N] \in Seq(S)
  BY <1>1, <1>2
<1> QED  BY <1>2, <1>7, <1>8, <1>9

LEMMA JoinedIs ==
  ASSUME NEW S, NEW q \in Seq(S), NEW r \in Seq(S)
  PROVE  /\ q \o r \in Seq(S)
         /\ Range(q \o r) = Range(q) \cup Range(r)
         /\ IsInjective(q) /\ IsInjective(r) /\ Range(q) \cap Range(r) = {}
              => IsInjective(q \o r)
<1>1. /\ Len(q) \in Nat /\ DOMAIN q = 1..Len(q) /\ Len(r) \in Nat /\ DOMAIN r = 1..Len(r)
      /\ q \o r \in Seq(S) /\ DOMAIN (q \o r) = 1..(Len(q) + Len(r))
  OBVIOUS
<1>2. \A i \in 1..Len(q) : (q \o r)[i] = q[i]
  BY <1>1
<1>3. \A i \in 1..(Len(q) + Len(r)) : i > Len(q) =>
        /\ i - Len(q) \in 1..Len(r) /\ (q \o r)[i] = r[i - Len(q)]
  BY <1>1
<1>4. \A i \in 1..Len(r) : Len(q) + i \in 1..(Len(q) + Len(r)) /\ (q \o r)[Len(q) + i] = r[i]
  BY <1>1
<1>5. \A i \in 1..(Len(q) + Len(r)) : i \in 1..Len(q) \/ i > Len(q)
  BY <1>1
<1>6. Range(q \o r) \subseteq Range(q) \cup Range(r)
  BY <1>1, <1>2, <1>3, <1>5 DEF Range
<1>7. \A i \in 1..Len(q) : i \in 1..(Len(q) + Len(r))
  BY <1>1
<1>8. Range(q) \cup Range(r) \subseteq Range(q \o r)
  BY <1>1, <1>2, <1>4, <1>7 DEF Range
<1>9. ASSUME IsInjective(q), IsInjective(r), Range(q) \cap Range(r) = {},
             NEW i \in 1..(Len(q) + Len(r)), NEW j \in 1..(Len(q) + Len(r)),
             (q \o r)[i] = (q \o r)[j]
      PROVE  i = j
  <2>1. \A k \in 1..Len(q), l \in 1..Len(r) : q[k] # r[l]
    BY <1>1, <1>9 DEF Range
  <2>2. CASE i \in 1..Len(q) /\ j \in 1..Len(q)
    BY <1>1, <1>2, <1>9, <2>2 DEF IsInjective
  <2>3. CASE i > Len(q) /\ j > Len(q)
    <3>1. r[i - Len(q)] = r[j - Len(q)] /\ i - Len(q) \in 1..Len(r) /\ j - Len(q) \in 1..Len(r)
      BY <1>3, <1>9, <2>3
    <3>2. i - Len(q) = j - Len(q)
      BY <1>1, <1>9, <3>1 DEF IsInjective
    <3> QED  BY <1>1, <3>2
  <2>4. CASE i \in 1..Len(q) /\ j > Len(q)
    BY <1>2, <1>3, <1>9, <2>1, <2>4
  <2>5. CASE i > Len(q) /\ j \in 1..Len(q)
    BY <1>2, <1>3, <1>9, <2>1, <2>5
  <2> QED  BY <1>5, <2>2, <2>3, <2>4, <2>5
<1> QED  BY <1>1, <1>6, <1>8, <1>9 DEF IsInjective

\* All of a list of lists.
LEMMA FlattenIs ==
  ASSUME NEW S, NEW ss \in Seq(Seq(S))
  PROVE  /\ FlattenSeq(ss) \in Seq(S)
         /\ Range(FlattenSeq(ss)) = UNION {Range(ss[i]) : i \in DOMAIN ss}
<1> DEFINE N == Len(ss)
<1>1. N \in Nat /\ DOMAIN ss = 1..N /\ \A i \in 1..N : ss[i] \in Seq(S)
  OBVIOUS
<1>2. CASE N = 0
  <2>1. ss = <<>> /\ FlattenSeq(ss) = ss /\ DOMAIN ss = {}
    BY <1>1, <1>2 DEF FlattenSeq
  <2>2. Range(<<>>) = {} /\ <<>> \in Seq(S)
    BY DEF Range
  <2> QED  BY <2>1, <2>2
<1>3. CASE N # 0
  <2> DEFINE X == Seq(S)
             step == [i \in 1..N |-> [q \in X |-> q \o ss[i]]]
             Fits(f) == f = [i \in 1..N |-> IF i = 1 THEN ss[i] ELSE f[i - 1] \o ss[i]]
             flat == CHOOSE f : Fits(f)
  <2>1. step \in [1..N -> [X -> X]] /\ <<>> \in X
    <3>1. \A i \in 1..N, q \in X : q \o ss[i] \in X
      BY <1>1
    <3> QED  BY <3>1
  <2>2. \A i \in 1..N, q \in X : step[i][q] = q \o ss[i]
    OBVIOUS
  <2> HIDE DEF step
  <2>3. PICK g \in [0..N -> X] : g[0] = <<>> /\ \A i \in 1..N : g[i] = step[i][g[i - 1]]
    <3> HIDE DEF N, X
    <3>1. Defined(X, N, <<>>, step) # {}
      BY <1>1, <2>1, Steps DEF N
    <3> QED  BY <3>1 DEF Defined
  <2>4. \A i \in 1..N : i - 1 \in 0..N /\ (i # 1 => i - 1 \in 1..N)
    BY <1>1
  <2>5. \A i \in 1..N : g[i] = g[i - 1] \o ss[i]
    BY <2>2, <2>3, <2>4
  <2>6. 1 \in 1..N /\ 1 - 1 = 0 /\ <<>> \o ss[1] = ss[1]
    BY <1>1, <1>3
  <2>7. Fits([i \in 1..N |-> g[i]])
    <3>1. \A i \in 1..N : g[i] = IF i = 1 THEN ss[i] ELSE g[i - 1] \o ss[i]
      BY <2>3, <2>5, <2>6
    <3> QED  BY <2>4, <3>1
  <2>8. Fits(flat)
    <3> HIDE DEF Fits
    <3> QED  BY <2>7
  <2>9. FlattenSeq(ss) = flat[N]
    BY <1>3 DEF FlattenSeq
  <2> HIDE DEF flat
  <2>10. \A i \in 1..N : flat[i] = IF i = 1 THEN ss[i] ELSE flat[i - 1] \o ss[i]
    BY <2>8
  <2> HIDE DEF Fits
  <2> DEFINE Seen(n) == UNION {Range(ss[i]) : i \in 1..n}
             P == {n \in 0..N : n # 0 => flat[n] \in Seq(S) /\ Range(flat[n]) = Seen(n)}
  <2>11. ASSUME NEW n \in P, n < N PROVE n + 1 \in P
    <3>1. n \in 0..N /\ n + 1 \in 1..N /\ n + 1 \in 0..N /\ n = (n + 1) - 1
      BY <1>1, <2>11
    <3>2. Seen(n + 1) = Seen(n) \cup Range(ss[n + 1])
      <4>1. 1..(n + 1) = (1..n) \cup {n + 1}
        BY <3>1
      <4> QED  BY <4>1
    <3>3. CASE n = 0
      <4>1. flat[1] = ss[1] /\ Seen(0) = {} /\ Seen(1) = Range(ss[1]) /\ ss[1] \in Seq(S)
        BY <1>1, <2>6, <2>10, <3>2, <3>3
      <4> HIDE DEF Seen
      <4> QED  BY <3>1, <3>3, <4>1
    <3>4. CASE n # 0
      <4>0. n + 1 # 1 /\ (n + 1) - 1 = n
        BY <3>1, <3>4
      <4>1. flat[n + 1] = flat[n] \o ss[n + 1]
        BY <2>10, <3>1, <4>0
      <4>2. flat[n] \in Seq(S) /\ Range(flat[n]) = Seen(n) /\ ss[n + 1] \in Seq(S)
        BY <1>1, <2>11, <3>1, <3>4
      <4>3. /\ flat[n] \o ss[n + 1] \in Seq(S)
            /\ Range(flat[n] \o ss[n + 1]) = Range(flat[n]) \cup Range(ss[n + 1])
        BY <4>2, JoinedIs
      <4> HIDE DEF Seen
      <4> QED  BY <3>1, <3>2, <4>1, <4>2, <4>3
    <3> QED  BY <3>3, <3>4
  <2>12. 0 \in P /\ P \in SUBSET (0..N)
    BY <1>1
  <2> HIDE DEF P
  <2>13. N \in P
    BY <1>1, <2>11, <2>12, UpTo
  <2>14. flat[N] \in Seq(S) /\ Range(flat[N]) = Seen(N)
    BY <1>3, <2>13 DEF P
  <2> QED  BY <1>1, <2>9, <2>14
<1> QED  BY <1>2, <1>3

\* A list, and what is in it.
LEMMA ListIs ==
  ASSUME NEW S, NEW s \in Seq(S)
  PROVE  /\ Range(s) \subseteq S /\ s \in Seq(Range(s))
         /\ s = <<>> <=> Range(s) = {}
         /\ s # <<>> => Last(s) \in Range(s)
<1>1. Len(s) \in Nat /\ DOMAIN s = 1..Len(s) /\ \A i \in 1..Len(s) : s[i] \in S
  OBVIOUS
<1>2. Range(s) \subseteq S
  BY <1>1 DEF Range
<1>3. s \in Seq(Range(s))
  <2>1. \A i \in 1..Len(s) : s[i] \in Range(s)
    BY <1>1 DEF Range
  <2> QED  BY <1>1, <2>1
<1>4. s # <<>> => Len(s) \in 1..Len(s)
  BY <1>1
<1>5. s # <<>> => Last(s) \in Range(s)
  BY <1>1, <1>4 DEF Range, Last
<1>6. s = <<>> => Range(s) = {}
  BY DEF Range
<1> QED  BY <1>2, <1>3, <1>5, <1>6

\* The walk down ends at a message, if every list it passes is one of messages.
LEMMA LeafIsKnown ==
  ASSUME NEW h, NEW S, h.order \in Seq(S), NEW start \in Known(h),
         \A m \in Known(h) : h.msg[m].children \in Seq(Known(h))
  PROVE  LastLeaf(h, start) \in Known(h)
<1> DEFINE N == Len(h.order)
           K == Known(h)
           Down(m) == IF m \in K /\ h.msg[m].children # <<>> THEN Last(h.msg[m].children) ELSE m
           step == [i \in 1..N |-> [m \in K |-> Down(m)]]
           Fits(f) == f = [n \in 0..N |-> IF n = 0 THEN start ELSE Down(f[n - 1])]
           walk == CHOOSE f : Fits(f)
<1>1. N \in Nat
  OBVIOUS
<1>2. \A m \in K : Down(m) \in K
  <2>1. ASSUME NEW m \in K, h.msg[m].children # <<>> PROVE Last(h.msg[m].children) \in K
    <3>1. h.msg[m].children \in Seq(K)
      OBVIOUS
    <3> HIDE DEF K
    <3> QED  BY <2>1, <3>1, ListIs
  <2> QED  BY <2>1
<1>3. LastLeaf(h, start) = walk[N]
  BY DEF LastLeaf
<1> HIDE DEF Down, N, K
<1>4. step \in [1..N -> [K -> K]] /\ \A i \in 1..N, m \in K : step[i][m] = Down(m)
  BY <1>2
<1> HIDE DEF step
<1>5. PICK g \in [0..N -> K] : g[0] = start /\ \A i \in 1..N : g[i] = step[i][g[i - 1]]
  <2>1. start \in K
    BY DEF K
  <2>2. Defined(K, N, start, step) # {}
    BY <1>1, <1>4, <2>1, Steps
  <2> QED  BY <2>2 DEF Defined
<1>6. Fits(g)
  <2>1. \A n \in 0..N : n # 0 => n \in 1..N /\ n - 1 \in 0..N
    BY <1>1
  <2>2. \A n \in 0..N : g[n] = IF n = 0 THEN start ELSE Down(g[n - 1])
    BY <1>4, <1>5, <2>1
  <2> QED  BY <1>5, <2>2
<1>7. Fits(walk)
  <2> HIDE DEF Fits
  <2> QED  BY <1>6
<1> HIDE DEF walk
<1>8. walk[0] = start /\ \A n \in 1..N : walk[n] = Down(walk[n - 1])
  <2>1. 0 \in 0..N /\ \A n \in 1..N : n \in 0..N /\ n # 0
    BY <1>1
  <2> QED  BY <1>7, <2>1
<1> DEFINE P == {n \in 0..N : walk[n] \in K}
<1>9. 0 \in P /\ P \in SUBSET (0..N)
  BY <1>1, <1>8 DEF K
<1>10. ASSUME NEW n \in P, n < N PROVE n + 1 \in P
  <2>1. n + 1 \in 1..N /\ n + 1 \in 0..N /\ n = (n + 1) - 1
    BY <1>1, <1>10
  <2>2. walk[n] \in K
    OBVIOUS
  <2> QED  BY <1>2, <1>8, <2>1, <2>2
<1> HIDE DEF P
<1>11. N \in P
  BY <1>1, <1>9, <1>10, UpTo
<1> QED  BY <1>3, <1>11 DEF P, K
-----------------------------------------------------------------------------
\* A set of messages has a newest one: what came after it shrinks, and finite
\* sets do not shrink for ever.
LEMMA Newest ==
  ASSUME NEW S \in SUBSET Nat, IsFiniteSet(S), S # {}
  PROVE  Max(S) \in S
<1> DEFINE After(x) == {y \in S : y >= x}
           Chains == {After(x) : x \in S}
<1>1. \A x \in S : After(x) \in FiniteSubsetsOf(S)
  BY FS_Subset DEF FiniteSubsetsOf
<1>2. PICK C \in Chains : \A D \in Chains : <<D, C>> \notin StrictSubsetOrdering(S)
  <2>1. Chains \subseteq FiniteSubsetsOf(S) /\ Chains # {}
    BY <1>1
  <2> HIDE DEF Chains
  <2> QED  BY <2>1, WFMin, FS_StrictSubsetOrderingWellFounded
<1>3. PICK x \in S : C = After(x)
  BY <1>2
<1>4. ASSUME NEW y \in S PROVE x >= y
  <2> SUFFICES ASSUME y > x PROVE FALSE
    OBVIOUS
  <2>1. After(y) \subseteq After(x) /\ After(y) # After(x)
    <3>1. ASSUME NEW z \in S, z >= y PROVE z >= x
      BY <3>1
    <3>2. x \in After(x) /\ x \notin After(y)
      OBVIOUS
    <3> QED  BY <3>1, <3>2
  <2>2. After(y) \in SUBSET S /\ After(x) \in SUBSET S
    OBVIOUS
  <2>3. <<After(y), After(x)>> \in StrictSubsetOrdering(S)
    BY <2>1, <2>2 DEF StrictSubsetOrdering
  <2> QED  BY <1>2, <1>3, <2>3
<1> QED  BY <1>4 DEF Max

LEMMA MessagesAreNumbers == Messages \subseteq Nat /\ None \notin Messages
<1>1. ASSUME NEW t \in Turns PROVE Ids(t) \subseteq Nat
  <2>1. t.user \in Nat /\ t.replies \in Seq(Nat)
    BY StoreAssumption
  <2>2. Range(t.replies) \subseteq Nat
    BY <2>1, ListIs
  <2> QED  BY <2>1, <2>2 DEF Ids
<1>2. Known(Old) \subseteq Nat /\ None \notin Nat
  BY StoreAssumption
<1> QED  BY <1>1, <1>2 DEF Messages

\* A history as every writer leaves it: its selected message is one of it.
Hist(h) ==
    /\ IsHistory(h)
    /\ Known(h) \subseteq Nat /\ IsFiniteSet(Known(h))
    /\ h.current \in Known(h) \cup {None}

\* The fields that an operation may write.
Fields(data) ==
    /\ DOMAIN data \subseteq {"parent", "children", "done"}
    /\ "parent" \in DOMAIN data => data.parent \in Messages \cup {None}
    /\ "children" \in DOMAIN data => data.children \in Seq(Messages)
    /\ "done" \in DOMAIN data => data.done \in BOOLEAN

LEMMA OverIsStored ==
  ASSUME NEW data, Fields(data), NEW old \in Stored
  PROVE  /\ Over(data, old) \in Stored
         /\ Over(data, old).parent = IF "parent" \in DOMAIN data THEN data.parent ELSE old.parent
         /\ Over(data, old).children =
              IF "children" \in DOMAIN data THEN data.children ELSE old.children
<1> DEFINE x == Over(data, old)
<1>1. DOMAIN old = {"parent", "children", "done"}
  BY DEF Stored
<1>2. DOMAIN data \cup DOMAIN old = {"parent", "children", "done"}
  BY <1>1 DEF Fields
<1>3. x = [f \in {"parent", "children", "done"} |-> IF f \in DOMAIN data THEN data[f] ELSE old[f]]
  BY <1>2 DEF Over
<1>4. /\ x.parent = IF "parent" \in DOMAIN data THEN data.parent ELSE old.parent
      /\ x.children = IF "children" \in DOMAIN data THEN data.children ELSE old.children
      /\ x.done = IF "done" \in DOMAIN data THEN data.done ELSE old.done
  BY <1>3
<1>5. /\ old.parent \in Messages \cup {None} /\ old.children \in Seq(Messages)
      /\ old.done \in BOOLEAN
  BY DEF Stored
<1>6. /\ x.parent \in Messages \cup {None} /\ x.children \in Seq(Messages)
      /\ x.done \in BOOLEAN
  BY <1>4, <1>5 DEF Fields
<1>7. x = [parent |-> x.parent, children |-> x.children, done |-> x.done]
  BY <1>3
<1> HIDE DEF x
<1>8. x \in Stored
  BY <1>6, <1>7 DEF Stored
<1> QED  BY <1>4, <1>8 DEF x

LEMMA RepairKeeps ==
  ASSUME NEW h, Hist(h)
  PROVE  Hist(RepairCurrent(h)) /\ RepairCurrent(h).msg = h.msg
<1> DEFINE leaves == {m \in Known(h) : h.msg[m].children = <<>>}
<1>1. leaves # {} => Max(leaves) \in leaves
  <2>1. leaves \in SUBSET Nat /\ IsFiniteSet(leaves)
    BY FS_Subset DEF Hist
  <2> HIDE DEF leaves
  <2> QED  BY <2>1, Newest
<1>2. CASE h.current \in Known(h) \/ leaves = {}
  BY <1>2 DEF RepairCurrent
<1>3. CASE ~(h.current \in Known(h) \/ leaves = {})
  <2> DEFINE r == RepairCurrent(h)
  <2>1. r = [h EXCEPT !.current = Max(leaves)] /\ Max(leaves) \in Known(h)
    BY <1>1, <1>3 DEF RepairCurrent
  <2> HIDE DEF leaves, r
  <2>2. /\ DOMAIN r = {"order", "msg", "current"} /\ r.order = h.order /\ r.msg = h.msg
        /\ r.current \in Known(h)
    BY <2>1 DEF Hist, IsHistory
  <2> QED  BY <2>2 DEF Hist, IsHistory, Known, r
<1> QED  BY <1>2, <1>3

\* A history is put together from its parts.
LEMMA HistIs ==
  ASSUME NEW h, DOMAIN h = {"order", "msg", "current"},
         Known(h) \subseteq Messages, IsFiniteSet(Known(h)), h.msg \in [Known(h) -> Stored],
         h.order \in Seq(Messages), Range(h.order) = Known(h), IsInjective(h.order),
         h.current \in Known(h) \cup {None}
  PROVE  Hist(h)
  BY MessagesAreNumbers DEF Hist, IsHistory

LEMMA InsertedIs ==
  ASSUME NEW h, Hist(h), NEW m \in Messages \ Known(h), NEW data, Fields(data)
  PROVE  /\ Inserted(h, m, data) \in Stored
         /\ Inserted(h, m, data).children =
              IF "children" \in DOMAIN data THEN data.children ELSE <<>>
         /\ "parent" \in DOMAIN data /\ data.parent # None
              => Inserted(h, m, data).parent = data.parent
         /\ (\A p \in Known(h) : m \notin Range(h.msg[p].children))
              => Inserted(h, m, data).parent = IF "parent" \in DOMAIN data
                                               THEN data.parent ELSE None
<1> DEFINE empty == Message(None, <<>>, FALSE)
           full == Over(data, empty)
           S == {p \in Known(h) : m \in Range(h.msg[p].children)}
           by == Sublist(h.order, S)
           new == Inserted(h, m, data)
<1>1. empty \in Stored /\ empty.parent = None /\ empty.children = <<>>
  BY DEF Message, Stored
<1> HIDE DEF empty
<1>2. /\ full \in Stored
      /\ full.parent = IF "parent" \in DOMAIN data THEN data.parent ELSE None
      /\ full.children = IF "children" \in DOMAIN data THEN data.children ELSE <<>>
  BY <1>1, OverIsStored
<1> HIDE DEF full
<1>3. by \in Seq(Messages) /\ Range(by) = Known(h) \cap S
  BY SublistIs DEF Hist, IsHistory
<1>4. ListedBy(h, m) \in Messages \cup {None} /\ (S = {} => ListedBy(h, m) = None)
  <2>1. ListedBy(h, m) = IF by = <<>> THEN None ELSE Head(by)
    BY DEF ListedBy
  <2> HIDE DEF by, S
  <2>2. by # <<>> => Head(by) \in Messages
    BY <1>3
  <2>3. S = {} => by = <<>>
    BY <1>3, ListIs
  <2> QED  BY <2>1, <2>2, <2>3
<1>5. new = [full EXCEPT !.parent = IF @ = None THEN ListedBy(h, m) ELSE @]
  BY DEF Inserted, full, empty
<1>6. S = {} <=> \A p \in Known(h) : m \notin Range(h.msg[p].children)
  OBVIOUS
<1> HIDE DEF new, S
<1>7. /\ new.parent = IF full.parent = None THEN ListedBy(h, m) ELSE full.parent
      /\ new.children = full.children /\ new \in Stored
  BY <1>2, <1>4, <1>5 DEF Stored
<1> QED  BY <1>2, <1>4, <1>6, <1>7 DEF new

LEMMA UpsertKeeps ==
  ASSUME NEW h, Hist(h), NEW m \in Messages, NEW data, Fields(data)
  PROVE  LET u == UpsertMessage(h, m, data) IN
         /\ Hist(u) /\ u.current = m
         /\ Known(u) = Known(h) \cup {m}
         /\ \A x \in Known(h) \ {m} : u.msg[x] = h.msg[x]
         /\ u.msg[m] = IF m \in Known(h) THEN Over(data, h.msg[m]) ELSE Inserted(h, m, data)
<1> DEFINE u == UpsertMessage(h, m, data)
<1>1. /\ DOMAIN h = {"order", "msg", "current"} /\ IsFiniteSet(Known(h))
      /\ Known(h) \subseteq Messages /\ h.msg \in [Known(h) -> Stored]
      /\ h.order \in Seq(Messages) /\ Range(h.order) = Known(h) /\ IsInjective(h.order)
  BY DEF Hist, IsHistory
<1>2. CASE m \in Known(h)
  <2> DEFINE new == Over(data, h.msg[m])
  <2>1. u = [h EXCEPT !.msg = [h.msg EXCEPT ![m] = new], !.current = m]
    BY <1>2 DEF UpsertMessage
  <2>2. new \in Stored
    BY <1>1, <1>2, OverIsStored
  <2> HIDE DEF u, new
  <2>3. /\ DOMAIN u = {"order", "msg", "current"} /\ u.current = m /\ u.order = h.order
        /\ u.msg = [h.msg EXCEPT ![m] = new]
    BY <1>1, <2>1
  <2>4. /\ Known(u) = Known(h) /\ u.msg \in [Known(h) -> Stored] /\ u.msg[m] = new
        /\ \A x \in Known(h) \ {m} : u.msg[x] = h.msg[x]
    BY <1>1, <1>2, <2>2, <2>3 DEF Known
  <2>5. Hist(u)
    BY <1>1, <1>2, <2>3, <2>4, HistIs
  <2> QED  BY <1>2, <2>3, <2>4, <2>5 DEF u, new
<1>3. CASE m \notin Known(h)
  <2> DEFINE new == Inserted(h, m, data)
  <2>1. /\ DOMAIN u = {"order", "msg", "current"} /\ u.current = m
        /\ u.order = Append(h.order, m)
        /\ u.msg = [x \in Known(h) \cup {m} |-> IF x = m THEN new ELSE h.msg[x]]
    BY <1>3 DEF UpsertMessage
  <2>2. new \in Stored
    BY <1>3, InsertedIs
  <2> HIDE DEF u, new
  <2>3. /\ Known(u) = Known(h) \cup {m} /\ u.msg \in [Known(u) -> Stored] /\ u.msg[m] = new
        /\ \A x \in Known(h) \ {m} : u.msg[x] = h.msg[x]
    BY <1>1, <1>3, <2>1, <2>2 DEF Known
  <2>4. /\ u.order \in Seq(Messages) /\ Range(u.order) = Known(h) \cup {m}
        /\ IsInjective(u.order)
    BY <1>1, <1>3, <2>1, AddedAtEnd
  <2>5. IsFiniteSet(Known(u))
    BY <1>1, <2>3, FS_AddElement
  <2>6. Hist(u)
    BY <1>1, <2>1, <2>3, <2>4, <2>5, HistIs
  <2> QED  BY <1>3, <2>1, <2>3, <2>6 DEF u, new
<1> QED  BY <1>2, <1>3

LEMMA MergeKeeps ==
  ASSUME NEW h, Hist(h), NEW incoming, Hist(incoming)
  PROVE  LET u == MergeHistory(h, incoming)
             msg == Over(incoming.msg, h.msg) IN
         /\ Hist(u)
         /\ Known(u) = Known(h) \cup Known(incoming) /\ DOMAIN msg = Known(u)
         /\ \A m \in Known(u) : /\ u.msg[m].parent = msg[m].parent
                                /\ Range(u.msg[m].children) = Born(msg, m)
         /\ \A m \in Known(u) : msg[m] = IF m \in Known(incoming) THEN incoming.msg[m]
                                         ELSE h.msg[m]
         /\ u.current = None => h.current = None /\ incoming.current = None
<1> DEFINE u == MergeHistory(h, incoming)
           msg == Over(incoming.msg, h.msg)
           new == Known(incoming) \ Known(h)
           tail == Sublist(incoming.order, new)
           order == h.order \o tail
           Written(m) == [msg[m] EXCEPT !.children = Sublist(order, Born(msg, m))]
           K == Known(h) \cup Known(incoming)
<1>1. /\ IsFiniteSet(Known(h)) /\ Known(h) \subseteq Messages /\ h.msg \in [Known(h) -> Stored]
      /\ h.order \in Seq(Messages) /\ Range(h.order) = Known(h) /\ IsInjective(h.order)
      /\ h.current \in Known(h) \cup {None}
  BY DEF Hist, IsHistory
<1>2. /\ IsFiniteSet(Known(incoming)) /\ Known(incoming) \subseteq Messages
      /\ incoming.msg \in [Known(incoming) -> Stored]
      /\ incoming.order \in Seq(Messages) /\ Range(incoming.order) = Known(incoming)
      /\ IsInjective(incoming.order) /\ incoming.current \in Known(incoming) \cup {None}
  BY DEF Hist, IsHistory
<1>3. IsFiniteSet(K) /\ K \subseteq Messages
  BY <1>1, <1>2, FS_Union
<1>4. msg = [m \in K |-> IF m \in Known(incoming) THEN incoming.msg[m] ELSE h.msg[m]]
  BY DEF Over, Known
<1>5. msg \in [K -> Stored]
  BY <1>1, <1>2, <1>4
<1>6. tail \in Seq(Messages) /\ Range(tail) = new /\ IsInjective(tail)
  <2>1. Range(incoming.order) \cap new = new
    BY <1>2
  <2> HIDE DEF new
  <2> QED  BY <1>2, <2>1, SublistIs
<1>7. order \in Seq(Messages) /\ Range(order) = K /\ IsInjective(order)
  <2>1. Range(h.order) \cap Range(tail) = {} /\ Range(h.order) \cup Range(tail) = K
    BY <1>1, <1>6
  <2> DEFINE first == h.order
  <2>2. first \in Seq(Messages) /\ tail \in Seq(Messages) /\ IsInjective(first)
        /\ IsInjective(tail)
    BY <1>1, <1>6
  <2> HIDE DEF tail, K, first
  <2>3. /\ first \o tail \in Seq(Messages) /\ Range(first \o tail) = Range(first) \cup Range(tail)
        /\ Range(first) \cap Range(tail) = {} => IsInjective(first \o tail)
    BY <2>2, JoinedIs
  <2> QED  BY <2>1, <2>3 DEF first
<1>8. /\ DOMAIN u = {"order", "msg", "current"} /\ u.order = order
      /\ u.msg = [m \in DOMAIN msg |-> Written(m)]
      /\ u.current = IF incoming.current \in DOMAIN msg THEN incoming.current
                     ELSE IF h.current \in DOMAIN msg THEN h.current ELSE None
  BY DEF MergeHistory
<1>9. DOMAIN msg = K
  BY <1>4
<1> HIDE DEF order, msg, u, tail, new
<1>10. ASSUME NEW m \in K
       PROVE  /\ Written(m) \in Stored /\ Written(m).parent = msg[m].parent
              /\ Range(Written(m).children) = Born(msg, m)
  <2> DEFINE kids == Sublist(order, Born(msg, m))
  <2>1. kids \in Seq(Messages) /\ Range(kids) = K \cap Born(msg, m)
    BY <1>7, SublistIs
  <2>2. Born(msg, m) \subseteq K
    BY <1>9 DEF Born
  <2> HIDE DEF kids
  <2>3. /\ [msg[m] EXCEPT !.children = kids] \in Stored
        /\ [msg[m] EXCEPT !.children = kids].parent = msg[m].parent
        /\ [msg[m] EXCEPT !.children = kids].children = kids
    BY <1>5, <2>1 DEF Stored
  <2>4. K \cap Born(msg, m) = Born(msg, m)
    BY <2>2
  <2> QED  BY <2>1, <2>3, <2>4 DEF kids
<1> HIDE DEF Written
<1>11. /\ Known(u) = K /\ u.msg \in [K -> Stored] /\ \A m \in K : u.msg[m] = Written(m)
  BY <1>8, <1>9, <1>10 DEF Known
<1>12. u.current \in K \cup {None}
  BY <1>8, <1>9
<1>13. Hist(u)
  BY <1>3, <1>7, <1>8, <1>11, <1>12, HistIs
<1>14. u.current = None => h.current = None /\ incoming.current = None
  BY <1>1, <1>2, <1>8, <1>9, <1>3, MessagesAreNumbers
<1>15. \A m \in K : msg[m] = IF m \in Known(incoming) THEN incoming.msg[m] ELSE h.msg[m]
  BY <1>4
<1> HIDE DEF K
<1> QED  BY <1>9, <1>10, <1>11, <1>13, <1>14, <1>15 DEF u, msg, K

\* What a deletion takes away, moves and leaves.
LEMMA WithoutIs ==
  ASSUME NEW h, Hist(h), NEW m \in Known(h)
  PROVE  LET left == Without(h, m)
             gone == DeletedWith(h, m)
             taken == Range(h.msg[m].children) \cap Known(h)
             moved == UNION {Range(h.msg[c].children) \cap Known(h) : c \in taken}
             parent == h.msg[m].parent IN
         /\ DOMAIN left = {"order", "msg", "current"}
         /\ gone = {m} \cup taken /\ Known(left) = Known(h) \ gone
         /\ left.msg \in [Known(left) -> Stored]
         /\ left.order \in Seq(Messages) /\ Range(left.order) = Known(left)
         /\ IsInjective(left.order)
         /\ \A x \in Known(left) :
              /\ left.msg[x].parent = IF x \in moved THEN parent ELSE h.msg[x].parent
              /\ Range(left.msg[x].children) =
                   IF x = parent THEN (Range(h.msg[x].children) \ {m}) \cup moved
                   ELSE Range(h.msg[x].children)
<1> DEFINE left == Without(h, m)
           gone == DeletedWith(h, m)
           listed == Listed(h, m)
           taken == Range(h.msg[m].children) \cap Known(h)
           moved == UNION {Range(h.msg[c].children) \cap Known(h) : c \in taken}
           grand == Grandchildren(h, m)
           parent == h.msg[m].parent
           Kept(x) == Sublist(h.msg[x].children, Range(h.msg[x].children) \ {m}) \o grand
           Rest(x) == [h.msg[x] EXCEPT
                        !.parent = IF x \in Range(grand) THEN parent ELSE @,
                        !.children = IF x = parent
                                     THEN Sublist(@, Range(@) \ {m}) \o grand ELSE @]
<1>1. /\ DOMAIN h = {"order", "msg", "current"} /\ IsFiniteSet(Known(h))
      /\ Known(h) \subseteq Messages /\ h.msg \in [Known(h) -> Stored]
      /\ h.order \in Seq(Messages) /\ Range(h.order) = Known(h) /\ IsInjective(h.order)
  BY DEF Hist, IsHistory
<1>2. \A x \in Known(h) : /\ h.msg[x].parent \in Messages \cup {None}
                          /\ h.msg[x].children \in Seq(Messages)
  BY <1>1 DEF Stored
<1>3. \A x \in Known(h) : /\ Listed(h, x) \in Seq(Messages)
                          /\ Range(Listed(h, x)) = Range(h.msg[x].children) \cap Known(h)
  BY <1>2, SublistIs DEF Listed
<1>4. listed \in Seq(Messages) /\ Range(listed) = taken
  BY <1>3
<1>5. gone = {m} \cup taken
  BY <1>4 DEF DeletedWith
<1>6. grand \in Seq(Messages) /\ Range(grand) = moved
  <2> DEFINE ss == [i \in DOMAIN listed |-> Listed(h, listed[i])]
  <2>1. /\ DOMAIN listed = 1..Len(listed) /\ Len(listed) \in Nat
        /\ \A i \in DOMAIN listed : listed[i] \in taken
    BY <1>4 DEF Range
  <2>2. \A i \in DOMAIN listed : Listed(h, listed[i]) \in Seq(Messages)
    BY <1>3, <2>1
  <2>3. ss \in Seq(Seq(Messages)) /\ DOMAIN ss = DOMAIN listed
    <3> DEFINE N == Len(listed)
    <3>1. ss = [i \in 1..N |-> Listed(h, listed[i])]
      BY <2>1
    <3> HIDE DEF listed, N
    <3> QED  BY <2>1, <2>2, <3>1 DEF N
  <2>4. grand = FlattenSeq(ss)
    BY DEF Grandchildren
  <2>5. \A i \in DOMAIN listed : Range(ss[i]) = Range(h.msg[listed[i]].children) \cap Known(h)
    BY <1>3, <2>1
  <2> HIDE DEF ss, grand
  <2>6. grand \in Seq(Messages) /\ Range(grand) = UNION {Range(ss[i]) : i \in DOMAIN ss}
    BY <2>3, <2>4, FlattenIs
  <2>7. \A c \in taken : \E i \in DOMAIN listed : c = listed[i]
    BY <1>4 DEF Range
  <2> HIDE DEF listed, taken
  <2> QED  BY <2>1, <2>3, <2>5, <2>6, <2>7
<1>7. /\ DOMAIN left = {"order", "msg", "current"}
      /\ left.order = Sublist(h.order, Known(h) \ gone)
      /\ left.msg = [x \in Known(h) \ gone |-> Rest(x)]
  BY <1>1 DEF Without
<1>8. /\ left.order \in Seq(Messages) /\ Range(left.order) = Known(h) \ gone
      /\ IsInjective(left.order)
  <2> DEFINE stay == Known(h) \ gone
             whole == h.order
  <2>1. stay = Range(whole) \cap stay /\ whole \in Seq(Messages) /\ IsInjective(whole)
    BY <1>1
  <2> HIDE DEF stay, whole
  <2>2. /\ Sublist(whole, stay) \in Seq(Messages) /\ Range(Sublist(whole, stay)) = stay
        /\ IsInjective(Sublist(whole, stay))
    BY <2>1, SublistIs
  <2> QED  BY <1>7, <2>2 DEF stay, whole
<1> HIDE DEF grand, moved
<1>9. ASSUME NEW x \in Known(h)
      PROVE  /\ Kept(x) \in Seq(Messages)
             /\ Range(Kept(x)) = (Range(h.msg[x].children) \ {m}) \cup moved
  <2> DEFINE kids == h.msg[x].children
             others == Sublist(kids, Range(kids) \ {m})
  <2>1. kids \in Seq(Messages)
    BY <1>2
  <2> HIDE DEF kids
  <2>2. others \in Seq(Messages) /\ Range(others) = Range(kids) \ {m}
    BY <2>1, SublistIs
  <2> HIDE DEF others
  <2>3. others \o grand \in Seq(Messages) /\ Range(others \o grand) = Range(others) \cup moved
    BY <1>6, <2>2, JoinedIs
  <2> QED  BY <2>2, <2>3 DEF others, kids
<1>10. ASSUME NEW x \in Known(h)
       PROVE  /\ Rest(x) \in Stored
              /\ Rest(x).parent = IF x \in moved THEN parent ELSE h.msg[x].parent
              /\ Rest(x).children = IF x = parent THEN Kept(x) ELSE h.msg[x].children
  <2> DEFINE old == h.msg[x]
  <2>1. old \in Stored /\ parent \in Messages \cup {None}
    BY <1>1, <1>2
  <2>2. Kept(x) \in Seq(Messages)
    BY <1>9
  <2>3. Rest(x) = [old EXCEPT !.parent = IF x \in moved THEN parent ELSE old.parent,
                              !.children = IF x = parent THEN Kept(x) ELSE old.children]
    BY <1>6
  <2> HIDE DEF old, Kept, parent, Rest
  <2> QED  BY <2>1, <2>2, <2>3 DEF Stored, old
<1> HIDE DEF left, gone, Rest, Kept
<1>11. Known(left) = Known(h) \ gone /\ left.msg \in [Known(left) -> Stored]
  BY <1>7, <1>10 DEF Known
<1>12. \A x \in Known(left) :
         /\ left.msg[x].parent = IF x \in moved THEN parent ELSE h.msg[x].parent
         /\ Range(left.msg[x].children) =
              IF x = parent THEN (Range(h.msg[x].children) \ {m}) \cup moved
              ELSE Range(h.msg[x].children)
  <2>1. ASSUME NEW x \in Known(left)
        PROVE  /\ left.msg[x].parent = IF x \in moved THEN parent ELSE h.msg[x].parent
               /\ Range(left.msg[x].children) =
                    IF x = parent THEN (Range(h.msg[x].children) \ {m}) \cup moved
                    ELSE Range(h.msg[x].children)
    <3>1. x \in Known(h) /\ left.msg[x] = Rest(x)
      BY <1>7, <1>11
    <3> QED  BY <1>9, <1>10, <3>1
  <2> QED  BY <2>1
<1> QED  BY <1>5, <1>7, <1>8, <1>11, <1>12 DEF left, gone, moved

LEMMA DeleteKeeps ==
  ASSUME NEW h, Hist(h), NEW m \in Known(h)
  PROVE  LET u == DeleteMessage(h, m)
             left == Without(h, m) IN
         /\ Hist(u) /\ u.msg = left.msg
         /\ Known(u) = Known(h) \ DeletedWith(h, m)
         /\ u.current = SelectedBelow(left, h.msg[m].parent)
<1> DEFINE u == DeleteMessage(h, m)
           left == Without(h, m)
           parent == h.msg[m].parent
<1>1. /\ DOMAIN left = {"order", "msg", "current"}
      /\ Known(left) = Known(h) \ DeletedWith(h, m)
      /\ left.msg \in [Known(left) -> Stored]
      /\ left.order \in Seq(Messages) /\ Range(left.order) = Known(left)
      /\ IsInjective(left.order)
  BY WithoutIs
<1>2. SelectedBelow(left, parent) \in Known(left) \cup {None}
  BY DEF SelectedBelow
<1>3. u = [left EXCEPT !.current = SelectedBelow(left, parent)]
  BY DEF DeleteMessage
<1> HIDE DEF u, left, parent
<1>4. /\ DOMAIN u = {"order", "msg", "current"} /\ u.msg = left.msg /\ u.order = left.order
      /\ u.current = SelectedBelow(left, parent) /\ Known(u) = Known(left)
  BY <1>1, <1>3 DEF Known
<1>5. IsFiniteSet(Known(u)) /\ Known(u) \subseteq Messages
  BY <1>1, <1>4, FS_Subset DEF Hist, IsHistory
<1>6. Hist(u)
  BY <1>1, <1>2, <1>4, <1>5, HistIs
<1> QED  BY <1>1, <1>4, <1>6 DEF u, left, parent
-----------------------------------------------------------------------------
\* What a job still has to do: the history it saves is one, and it writes
\* messages only.
OpOk(op) ==
    /\ op.do = "upsert" => op.m \in Messages /\ Fields(op.data)
    /\ op.do \in {"link", "tasks"} => op.data \in Seq(Messages)
    /\ op.do = "save" => Hist(op.data)

Program(ops) == \E S : ops \in Seq(S) /\ \A op \in S : OpOk(op)

JobOk(t) ==
    /\ DOMAIN t = {"ops", "pc", "snap", "todo", "gone", "map"}
    /\ Hist(t.snap) /\ Program(t.ops)
    /\ t.pc # "idle" => t.ops # <<>>
    /\ t.pc \in {"idle", "next", "row", "write", "rows", "chat"}
    /\ t.todo \subseteq Messages

HistInv ==
    /\ Hist(doc) /\ Hist(tab)
    /\ DOMAIN job = Jobs /\ \A j \in Jobs : JobOk(job[j])

LEMMA OldIsHist == Hist(Old)
  BY StoreAssumption DEF Hist

LEMMA IdleOk == JobOk(Idle) /\ Idle.pc = "idle" /\ Idle.gone = {}
<1>1. Program(<<>>)
  <2> DEFINE S == {}
  <2>1. <<>> \in Seq(S) /\ \A op \in S : OpOk(op)
    OBVIOUS
  <2> HIDE DEF S
  <2> QED  BY <2>1, ZenonT(30) DEF Program
<1>2. /\ DOMAIN Idle = {"ops", "pc", "snap", "todo", "gone", "map"}
      /\ Idle.snap = Old /\ Idle.ops = <<>> /\ Idle.pc = "idle" /\ Idle.gone = {}
      /\ Idle.todo = {}
  BY DEF Idle
<1> QED  BY <1>1, <1>2, OldIsHist DEF JobOk

LEMMA InitHist == Init => HistInv
  BY OldIsHist, IdleOk DEF Init, HistInv

\* The first operation of a job, and the job after it.
LEMMA HeadOk ==
  ASSUME NEW t, JobOk(t), t.pc # "idle"
  PROVE  OpOk(Head(t.ops)) /\ Program(Tail(t.ops))
<1>1. PICK S : t.ops \in Seq(S) /\ \A op \in S : OpOk(op)
  BY DEF JobOk, Program
<1>2. t.ops # <<>>
  BY DEF JobOk
<1>3. Head(t.ops) \in S /\ Tail(t.ops) \in Seq(S)
  BY <1>1, <1>2
<1> QED  BY <1>1, <1>3 DEF Program

LEMMA DoneOk ==
  ASSUME NEW j \in Jobs, JobOk(job[j]), job[j].pc # "idle"
  PROVE  /\ JobOk(Done(j)) /\ Done(j).gone = {} /\ Done(j).pc \in {"idle", "next"}
         /\ Done(j).ops = Tail(job[j].ops)
<1> DEFINE rest == Tail(job[j].ops)
           pc == IF rest = <<>> THEN "idle" ELSE "next"
<1>1. Program(rest)
  BY HeadOk
<1>2. Done(j) = [Idle EXCEPT !.ops = rest, !.pc = pc]
  BY DEF Done
<1> HIDE DEF rest
<1>3. /\ DOMAIN Done(j) = DOMAIN Idle /\ Done(j).snap = Idle.snap /\ Done(j).ops = rest
      /\ Done(j).pc = pc /\ Done(j).gone = Idle.gone /\ Done(j).todo = Idle.todo
  BY <1>2, IdleOk DEF JobOk
<1> QED  BY <1>1, <1>3, IdleOk DEF JobOk, rest

LEMMA BeginOk ==
  ASSUME HistInv, NEW j \in Jobs, NEW ops, Program(ops), ops # <<>>, Begin(j, ops)
  PROVE  /\ job' = [job EXCEPT ![j] = [Idle EXCEPT !.ops = ops, !.pc = "next"]]
         /\ JobOk([Idle EXCEPT !.ops = ops, !.pc = "next"])
<1> DEFINE t == [Idle EXCEPT !.ops = ops, !.pc = "next"]
<1>1. /\ DOMAIN t = DOMAIN Idle /\ t.snap = Idle.snap /\ t.ops = ops /\ t.pc = "next"
      /\ t.todo = Idle.todo
  BY IdleOk DEF JobOk
<1> HIDE DEF t
<1>2. JobOk(t)
  BY <1>1, IdleOk DEF JobOk
<1> QED  BY <1>2 DEF t, Begin

\* A job goes on, and the document is a history again.
LEMMA JobStep ==
  ASSUME HistInv, NEW j \in Jobs, NEW t, JobOk(t), job' = [job EXCEPT ![j] = t],
         Hist(doc'), Hist(tab')
  PROVE  HistInv'
<1>1. DOMAIN job' = Jobs /\ \A i \in Jobs : job'[i] = IF i = j THEN t ELSE job[i]
  BY DEF HistInv
<1>2. \A i \in Jobs : JobOk(job'[i])
  BY <1>1 DEF HistInv
<1> QED  BY <1>1, <1>2 DEF HistInv, JobOk, Hist, Known, Program

\* A turn has messages of its own.
LEMMA TurnIs ==
  ASSUME NEW t \in Turns
  PROVE  /\ t.user \in Messages /\ t.replies \in Seq(Messages)
         /\ Range(t.replies) \subseteq Messages
         /\ \A i \in DOMAIN t.replies : t.replies[i] \in Messages
         /\ Ids(t) \subseteq Messages
<1>1. Ids(t) \subseteq Messages
  BY DEF Messages
<1>2. t.user \in Messages /\ Range(t.replies) \subseteq Messages
  BY <1>1 DEF Ids
<1>3. t.replies \in Seq(Nat)
  BY StoreAssumption
<1>4. t.replies \in Seq(Range(t.replies))
  BY <1>3, ListIs
<1>5. \A i \in DOMAIN t.replies : t.replies[i] \in Messages
  BY <1>2 DEF Range
<1>6. t.replies \in Seq(Messages)
  <2>1. Len(t.replies) \in Nat /\ t.replies = [i \in 1..Len(t.replies) |-> t.replies[i]]
        /\ DOMAIN t.replies = 1..Len(t.replies)
    BY <1>3
  <2> QED  BY <1>5, <2>1
<1> QED  BY <1>1, <1>2, <1>5, <1>6

LEMMA MessageIs ==
  ASSUME NEW parent \in Messages \cup {None}, NEW children \in Seq(Messages), NEW done \in BOOLEAN
  PROVE  /\ Fields(Message(parent, children, done))
         /\ DOMAIN Message(parent, children, done) = {"parent", "children", "done"}
         /\ Message(parent, children, done).parent = parent
         /\ Message(parent, children, done).children = children
         /\ <<>> \in Seq(Messages)
  BY DEF Message, Fields

\* The programs of the requests.
LEMMA SendProgram ==
  ASSUME HistInv, NEW t \in Turns
  PROVE  LET ops == <<Touch, Upsert(t.user, Message(tab.current, t.replies, TRUE))>>
                    \o (IF tab.current = None THEN <<>>
                        ELSE <<Link(tab.current, <<t.user>>)>>)
                    \o <<Link(t.user, t.replies)>> \o Placeholders(t)
                    \o <<Tasks(t.replies)>>
         IN  Program(ops) /\ ops # <<>> /\ Head(ops) = Touch
<1> DEFINE user == Upsert(t.user, Message(tab.current, t.replies, TRUE))
           up == Link(tab.current, <<t.user>>)
           down == Link(t.user, t.replies)
           placed == {Upsert(t.replies[i], Message(t.user, <<>>, FALSE)) : i \in DOMAIN t.replies}
           tasks == Tasks(t.replies)
           S == {Touch, user, up, down, tasks} \cup placed
           ups == IF tab.current = None THEN <<>> ELSE <<up>>
           rest == ups \o <<down>> \o Placeholders(t) \o <<tasks>>
<1>1. /\ t.user \in Messages /\ t.replies \in Seq(Messages)
      /\ \A i \in DOMAIN t.replies : t.replies[i] \in Messages
      /\ tab.current \in Messages \cup {None}
  BY TurnIs DEF HistInv, Hist, IsHistory
<1>2. OpOk(Touch) /\ OpOk(user) /\ OpOk(up) /\ OpOk(down) /\ OpOk(tasks)
  <2>1. Fields(Message(tab.current, t.replies, TRUE))
    BY <1>1, MessageIs
  <2>2. <<t.user>> \in Seq(Messages)
    BY <1>1
  <2> QED  BY <1>1, <2>1, <2>2 DEF OpOk, Touch, Upsert, Link, Tasks, Op
<1>3. \A op \in placed : OpOk(op)
  <2>1. ASSUME NEW i \in DOMAIN t.replies
        PROVE  OpOk(Upsert(t.replies[i], Message(t.user, <<>>, FALSE)))
    <3>1. t.replies[i] \in Messages /\ Fields(Message(t.user, <<>>, FALSE))
      BY <1>1, MessageIs
    <3> QED  BY <3>1 DEF OpOk, Upsert, Op
  <2> QED  BY <2>1
<1>4. \A op \in S : OpOk(op)
  <2> HIDE DEF user, up, down, placed, tasks
  <2> QED  BY <1>2, <1>3
<1>5. Placeholders(t) \in Seq(S)
  <2> DEFINE placeholder(i) == Upsert(t.replies[i], Message(t.user, <<>>, FALSE))
  <2>1. \A i \in DOMAIN t.replies : placeholder(i) \in S
    OBVIOUS
  <2>2. DOMAIN t.replies = 1..Len(t.replies) /\ Len(t.replies) \in Nat
    BY <1>1
  <2>3. Placeholders(t) = [i \in 1..Len(t.replies) |-> placeholder(i)]
    BY <2>2 DEF Placeholders
  <2> HIDE DEF placeholder, S
  <2> QED  BY <2>1, <2>2, <2>3
<1>6. {Touch, user, up, down, tasks} \subseteq S
  OBVIOUS
<1> HIDE DEF S, user, up, down, tasks, placed
<1>7. ups \in Seq(S)
  BY <1>6
<1> HIDE DEF ups
<1> DEFINE ops == <<Touch, user>> \o ups \o <<down>> \o Placeholders(t) \o <<tasks>>
<1>8. ops \in Seq(S) /\ ops # <<>> /\ Head(ops) = Touch
  <2>1. <<Touch, user>> \in Seq(S) /\ <<down>> \in Seq(S) /\ <<tasks>> \in Seq(S)
    BY <1>6
  <2>2. <<Touch, user>> \o ups \in Seq(S) /\ (<<Touch, user>> \o ups) # <<>>
        /\ Head(<<Touch, user>> \o ups) = Touch
    BY <1>7, <2>1
  <2> DEFINE a == <<Touch, user>> \o ups
  <2> HIDE DEF a
  <2>3. a \o <<down>> \in Seq(S) /\ a \o <<down>> # <<>> /\ Head(a \o <<down>>) = Touch
    BY <2>1, <2>2 DEF a
  <2> DEFINE b == a \o <<down>>
  <2> HIDE DEF b
  <2>4. b \o Placeholders(t) \in Seq(S) /\ b \o Placeholders(t) # <<>>
        /\ Head(b \o Placeholders(t)) = Touch
    BY <1>5, <2>3 DEF b
  <2> DEFINE c == b \o Placeholders(t)
  <2> HIDE DEF c
  <2>5. c \o <<tasks>> \in Seq(S) /\ c \o <<tasks>> # <<>> /\ Head(c \o <<tasks>>) = Touch
    BY <2>1, <2>4 DEF c
  <2> QED  BY <2>5 DEF a, b, c
<1>9. Program(ops)
  <2> HIDE DEF ops
  <2>1. ops \in Seq(S)
    BY <1>8
  <2> QED  BY <1>4, <2>1, ZenonT(30) DEF Program
<1> QED  BY <1>8, <1>9 DEF ops, ups, user, up, down, tasks

LEMMA ReplyProgram ==
  ASSUME NEW t \in Turns, NEW m \in Messages, NEW data, Fields(data)
  PROVE  LET ops == <<Walk(t.user), Upsert(m, data)>>
         IN  Program(ops) /\ ops # <<>> /\ Head(ops).do = "walk"
<1> DEFINE walk == Walk(t.user)
           write == Upsert(m, data)
           S == {walk, write}
           ops == <<walk, write>>
<1>1. OpOk(walk) /\ OpOk(write) /\ walk.do = "walk"
  BY DEF OpOk, Walk, Upsert, Op
<1> HIDE DEF walk, write
<1>2. ops \in Seq(S) /\ \A op \in S : OpOk(op)
  BY <1>1
<1>3. Program(ops)
  <2> HIDE DEF ops, S
  <2> QED  BY <1>2, ZenonT(30) DEF Program
<1>4. ops # <<>> /\ Head(ops) = walk
  OBVIOUS
<1> QED  BY <1>1, <1>3, <1>4 DEF walk, write

LEMMA SoleProgram ==
  ASSUME NEW op, OpOk(op)
  PROVE  Program(<<op>>) /\ <<op>> # <<>> /\ Head(<<op>>) = op
<1> DEFINE S == {op}
<1>1. <<op>> \in Seq(S) /\ \A x \in S : OpOk(x)
  OBVIOUS
<1> HIDE DEF S
<1>2. Program(<<op>>)
  BY <1>1 DEF Program
<1> QED  BY <1>2

\* What an operation writes back is a history.
LEMMA ChangedKeeps ==
  ASSUME NEW h, Hist(h), NEW op, OpOk(op),
         op.do \in {"touch", "upsert", "save", "delete"},
         op.do = "delete" => op.m \in Known(h)
  PROVE  Hist(Changed(op, h))
<1>1. CASE op.do = "touch"
  BY <1>1 DEF Changed
<1>2. CASE op.do = "upsert"
  <2>1. Changed(op, h) = UpsertMessage(h, op.m, op.data) /\ op.m \in Messages /\ Fields(op.data)
    BY <1>2 DEF Changed, OpOk
  <2> QED  BY <2>1, UpsertKeeps
<1>3. CASE op.do = "save"
  <2>1. Changed(op, h) = MergeHistory(h, op.data) /\ Hist(op.data)
    BY <1>3 DEF Changed, OpOk
  <2> QED  BY <2>1, MergeKeeps
<1>4. CASE op.do = "delete"
  <2>1. Changed(op, h) = DeleteMessage(h, op.m) /\ op.m \in Known(h)
    BY <1>4 DEF Changed
  <2> QED  BY <2>1, DeleteKeeps
<1> QED  BY <1>1, <1>2, <1>3, <1>4

LEMMA ReadKeeps ==
  ASSUME HistInv, Read
  PROVE  Hist(doc') /\ doc'.msg = doc.msg /\ Known(doc') = Known(doc)
  BY RepairKeeps DEF HistInv, Read, Known

LEMMA LoadHist ==
  ASSUME HistInv, NEW j \in Jobs, Load(j)
  PROVE  HistInv'
<1> DEFINE op == Head(job[j].ops)
           h == RepairCurrent(doc)
           changed == Changed(op, h)
           pc == IF op.do = "upsert" THEN "row" ELSE "write"
           gone == IF op.do = "delete" THEN DeletedWith(h, op.m) ELSE {}
           t == [job[j] EXCEPT !.snap = changed, !.pc = pc, !.gone = gone]
<1>1. JobOk(job[j]) /\ job[j].pc = "next" /\ tab' = tab /\ Hist(tab)
  BY DEF HistInv, Load
<1>2. OpOk(op) /\ op.do \in {"touch", "upsert", "save", "delete"}
  BY <1>1, HeadOk DEF Load
<1>3. Hist(doc') /\ Hist(h)
  BY ReadKeeps, RepairKeeps DEF Load, HistInv
<1>4. (op.do = "delete" => op.m \in Known(doc)) => Hist(changed)
  <2>1. Known(h) = Known(doc)
    BY RepairKeeps DEF HistInv, Known
  <2> QED  BY <1>2, <1>3, <2>1, ChangedKeeps
<1>5. \/ job' = [job EXCEPT ![j] = Done(j)]
      \/ job' = [job EXCEPT ![j] = t] /\ (op.do = "delete" => op.m \in Known(doc))
  BY DEF Load
<1>6. pc \in {"row", "write"}
  OBVIOUS
<1> HIDE DEF changed, pc, gone, op, h
<1>8. Hist(changed) => JobOk(t)
  <2>1. /\ DOMAIN t = {"ops", "pc", "snap", "todo", "gone", "map"}
        /\ t.snap = changed /\ t.ops = job[j].ops /\ t.pc = pc /\ t.todo = job[j].todo
    BY <1>1 DEF JobOk
  <2> HIDE DEF t
  <2> QED  BY <1>1, <1>6, <2>1 DEF JobOk
<1>7. JobOk(Done(j))
  BY <1>1, DoneOk
<1> HIDE DEF t
<1> QED  BY <1>1, <1>3, <1>4, <1>5, <1>7, <1>8, JobStep

LEMMA LoadLinkHist ==
  ASSUME HistInv, NEW j \in Jobs, LoadLink(j)
  PROVE  HistInv'
<1> DEFINE op == Head(job[j].ops)
           ids == doc.msg[op.m].children
           added == ids \o Sublist(op.data, Range(op.data) \ Range(ids))
           write == Upsert(op.m, [children |-> added])
           ops == <<write>> \o Tail(job[j].ops)
           t == [job[j] EXCEPT !.ops = ops]
<1>1. JobOk(job[j]) /\ job[j].pc = "next" /\ tab' = tab /\ Hist(tab)
  BY DEF HistInv, LoadLink, Doing
<1>2. Hist(doc')
  BY ReadKeeps DEF LoadLink
<1>3. \/ job' = [job EXCEPT ![j] = Done(j)]
      \/ op.m \in Known(doc) /\ job' = [job EXCEPT ![j] = t]
  BY DEF LoadLink
<1>6. ASSUME op.m \in Known(doc) PROVE op.m \in Messages /\ added \in Seq(Messages)
  <2>1. op.data \in Seq(Messages)
    BY <1>1, HeadOk DEF OpOk, LoadLink, Doing
  <2>2. ids \in Seq(Messages) /\ op.m \in Messages
    BY <1>6 DEF HistInv, Hist, IsHistory, Stored
  <2> DEFINE new == Sublist(op.data, Range(op.data) \ Range(ids))
  <2>3. new \in Seq(Messages)
    BY <2>1, SublistIs
  <2> HIDE DEF ids, new
  <2> QED  BY <2>2, <2>3 DEF new
<1> HIDE DEF added, op
<1>4. ASSUME op.m \in Known(doc) PROVE JobOk(t)
  <2>1. OpOk(write)
    <3>1. Fields([children |-> added])
      BY <1>4, <1>6 DEF Fields
    <3> QED  BY <1>4, <1>6, <3>1 DEF OpOk, Upsert, Op
  <2>2. Program(Tail(job[j].ops))
    BY <1>1, HeadOk
  <2> HIDE DEF write
  <2>3. Program(ops) /\ ops # <<>>
    <3>1. PICK S : Tail(job[j].ops) \in Seq(S) /\ \A x \in S : OpOk(x)
      BY <2>2 DEF Program
    <3> DEFINE R == S \cup {write}
    <3>2. \A x \in R : OpOk(x)
      BY <2>1, <3>1
    <3>3. Tail(job[j].ops) \in Seq(R) /\ <<write>> \in Seq(R)
      BY <3>1
    <3> HIDE DEF R
    <3>4. ops \in Seq(R) /\ ops # <<>>
      BY <3>3
    <3> HIDE DEF ops
    <3> QED  BY <3>2, <3>4, ZenonT(30) DEF Program
  <2> HIDE DEF ops
  <2>4. /\ DOMAIN t = {"ops", "pc", "snap", "todo", "gone", "map"}
        /\ t.snap = job[j].snap /\ t.ops = ops /\ t.pc = job[j].pc /\ t.todo = job[j].todo
    BY <1>1 DEF JobOk
  <2> HIDE DEF t
  <2> QED  BY <1>1, <2>3, <2>4 DEF JobOk
<1>5. JobOk(Done(j))
  BY <1>1, DoneOk
<1> HIDE DEF t
<1> QED  BY <1>1, <1>2, <1>3, <1>4, <1>5, JobStep

\* A job of which only `pc`, `todo` and the like change.
LEMMA AfterWriteOk ==
  ASSUME HistInv, NEW j \in Jobs, job[j].pc # "idle"
  PROVE  JobOk(AfterWrite(j))
<1> DEFINE t == [job[j] EXCEPT !.pc = "rows", !.todo = Known(job[j].snap)]
<1>1. JobOk(job[j])
  BY DEF HistInv
<1>2. AfterWrite(j) = t \/ AfterWrite(j) = Done(j)
  BY DEF AfterWrite
<1>3. JobOk(t)
  <2>1. /\ DOMAIN t = {"ops", "pc", "snap", "todo", "gone", "map"}
        /\ t.snap = job[j].snap /\ t.ops = job[j].ops /\ t.pc = "rows"
        /\ t.todo = Known(job[j].snap)
    BY <1>1 DEF JobOk
  <2>2. Known(job[j].snap) \subseteq Messages
    BY <1>1 DEF JobOk, Hist, IsHistory
  <2> HIDE DEF t
  <2> QED  BY <1>1, <2>1, <2>2 DEF JobOk
<1> HIDE DEF t
<1> QED  BY <1>1, <1>2, <1>3, DoneOk

LEMMA AfterRowOk ==
  ASSUME HistInv, NEW j \in Jobs, job[j].pc # "idle", NEW m
  PROVE  JobOk(AfterRow(j, m))
<1> DEFINE t == [job[j] EXCEPT !.todo = job[j].todo \ {m}]
<1>1. JobOk(job[j])
  BY DEF HistInv
<1>2. AfterRow(j, m) = t \/ AfterRow(j, m) = Done(j)
  BY DEF AfterRow
<1>3. JobOk(t)
  <2>1. /\ DOMAIN t = {"ops", "pc", "snap", "todo", "gone", "map"}
        /\ t.snap = job[j].snap /\ t.ops = job[j].ops /\ t.pc = job[j].pc
        /\ t.todo = job[j].todo \ {m}
    BY <1>1 DEF JobOk
  <2> HIDE DEF t
  <2> QED  BY <1>1, <2>1 DEF JobOk
<1> HIDE DEF t
<1> QED  BY <1>1, <1>2, <1>3, DoneOk

LEMMA PhaseOk ==
  ASSUME HistInv, NEW j \in Jobs, job[j].pc # "idle", NEW map,
         NEW pc \in {"row", "write", "rows", "chat"}
  PROVE  JobOk([job[j] EXCEPT !.pc = pc]) /\ JobOk([job[j] EXCEPT !.pc = pc, !.map = map])
<1>1. JobOk(job[j])
  BY DEF HistInv
<1> DEFINE t == [job[j] EXCEPT !.pc = pc]
           u == [job[j] EXCEPT !.pc = pc, !.map = map]
<1>2. /\ DOMAIN t = {"ops", "pc", "snap", "todo", "gone", "map"}
      /\ t.snap = job[j].snap /\ t.ops = job[j].ops /\ t.pc = pc /\ t.todo = job[j].todo
  BY <1>1 DEF JobOk
<1>3. /\ DOMAIN u = {"ops", "pc", "snap", "todo", "gone", "map"}
      /\ u.snap = job[j].snap /\ u.ops = job[j].ops /\ u.pc = pc /\ u.todo = job[j].todo
  BY <1>1 DEF JobOk
<1> HIDE DEF t, u
<1> QED  BY <1>1, <1>2, <1>3 DEF JobOk, t, u

LEMMA WalkChatOk ==
  ASSUME HistInv, NEW j \in Jobs, job[j].pc # "idle", NEW missing \in SUBSET Known(doc)
  PROVE  JobOk([job[j] EXCEPT !.pc = "rows", !.snap = doc, !.map = <<>>, !.todo = missing])
<1>1. JobOk(job[j]) /\ Hist(doc)
  BY DEF HistInv
<1> DEFINE t == [job[j] EXCEPT !.pc = "rows", !.snap = doc, !.map = <<>>, !.todo = missing]
<1>2. /\ DOMAIN t = {"ops", "pc", "snap", "todo", "gone", "map"}
      /\ t.snap = doc /\ t.ops = job[j].ops /\ t.pc = "rows" /\ t.todo = missing
  BY <1>1 DEF JobOk
<1>3. missing \subseteq Messages
  BY DEF HistInv, Hist, IsHistory
<1> HIDE DEF t
<1> QED  BY <1>1, <1>2, <1>3 DEF JobOk, t

LEMMA StepHist ==
  ASSUME HistInv, NEW j \in Jobs, Step(j)
  PROVE  HistInv'
<1> USE DEF Doing
<1>0. /\ Hist(doc) /\ Hist(tab) /\ JobOk(job[j])
      /\ tab' = tab
  BY DEF HistInv, Step, Load, LoadLink, WriteRow, WriteDoc, BackfillRow, DeleteRows,
         WalkRows, WalkChat, CreateTasks
<1>1. CASE Load(j)
  BY <1>1, LoadHist
<1>2. CASE LoadLink(j)
  BY <1>2, LoadLinkHist
<1>3. CASE WriteRow(j)
  <2> DEFINE t == [job[j] EXCEPT !.pc = "write"]
  <2>1. job' = [job EXCEPT ![j] = t] /\ doc' = doc /\ job[j].pc # "idle"
    BY <1>3 DEF WriteRow
  <2>2. JobOk(t)
    BY <2>1, PhaseOk
  <2> HIDE DEF t
  <2> QED  BY <1>0, <2>1, <2>2, JobStep
<1>4. CASE WriteDoc(j)
  <2>1. /\ job' = [job EXCEPT ![j] = AfterWrite(j)] /\ doc' = job[j].snap
        /\ job[j].pc # "idle"
    BY <1>4 DEF WriteDoc
  <2>2. JobOk(AfterWrite(j)) /\ Hist(job[j].snap)
    BY <1>0, <2>1, AfterWriteOk DEF JobOk
  <2> QED  BY <1>0, <2>1, <2>2, JobStep
<1>5. CASE DeleteRows(j)
  <2>1. job' = [job EXCEPT ![j] = Done(j)] /\ doc' = doc /\ job[j].pc # "idle"
    BY <1>5 DEF DeleteRows
  <2> QED  BY <1>0, <2>1, DoneOk, JobStep
<1>6. ASSUME NEW m \in job[j].todo, BackfillRow(j, m) PROVE HistInv'
  <2>1. job' = [job EXCEPT ![j] = AfterRow(j, m)] /\ doc' = doc /\ job[j].pc # "idle"
    BY <1>6 DEF BackfillRow
  <2> QED  BY <1>0, <2>1, AfterRowOk, JobStep
<1>7. CASE WalkRows(j)
  <2> DEFINE t == [job[j] EXCEPT !.pc = "chat", !.map = rows]
  <2>1. /\ \/ job' = [job EXCEPT ![j].pc = "chat", ![j].map = rows]
           \/ job' = [job EXCEPT ![j] = Done(j)]
        /\ doc' = doc /\ job[j].pc # "idle"
    BY <1>7 DEF WalkRows
  <2>2. [job EXCEPT ![j].pc = "chat", ![j].map = rows] = [job EXCEPT ![j] = t]
    BY <1>0 DEF HistInv, JobOk
  <2>3. JobOk(t)
    BY <2>1, PhaseOk
  <2> HIDE DEF t
  <2>4. CASE job' = [job EXCEPT ![j] = t]
    BY <1>0, <2>1, <2>3, <2>4, JobStep
  <2>5. CASE job' = [job EXCEPT ![j] = Done(j)]
    BY <1>0, <2>1, <2>5, DoneOk, JobStep
  <2> QED  BY <2>1, <2>2, <2>4, <2>5
<1>8. CASE WalkChat(j)
  <2> DEFINE missing == IF job[j].map = <<>> THEN Known(doc)
                        ELSE Unresolved(job[j].map) \cap Known(doc)
             t == [job[j] EXCEPT !.pc = "rows", !.snap = doc, !.map = <<>>, !.todo = missing]
  <2>1. /\ job' = [job EXCEPT ![j] = Done(j)] \/ job' = [job EXCEPT ![j] = t]
        /\ Read /\ job[j].pc # "idle"
    BY <1>8 DEF WalkChat
  <2>2. Hist(doc')
    BY <2>1, ReadKeeps
  <2>3. JobOk(t)
    BY <2>1, WalkChatOk
  <2> HIDE DEF t
  <2> QED  BY <1>0, <2>1, <2>2, <2>3, DoneOk, JobStep
<1>9. CASE CreateTasks(j)
  <2>1. job' = [job EXCEPT ![j] = Done(j)] /\ doc' = doc /\ job[j].pc # "idle"
    BY <1>9 DEF CreateTasks
  <2> QED  BY <1>0, <2>1, DoneOk, JobStep
<1> QED  BY <1>1, <1>2, <1>3, <1>4, <1>5, <1>6, <1>7, <1>8, <1>9 DEF Step

LEMMA FaultHist ==
  ASSUME HistInv, NEW j \in Jobs, RowFails(j) \/ DocFails(j) \/ Abort(j)
  PROVE  HistInv'
<1>0. Hist(doc) /\ Hist(tab) /\ JobOk(job[j]) /\ doc' = doc /\ tab' = tab
  BY DEF HistInv, RowFails, DocFails, Abort
<1>1. CASE RowFails(j)
  <2> DEFINE t == [job[j] EXCEPT !.pc = "write"]
  <2>1. /\ \/ job' = [job EXCEPT ![j] = t]
           \/ \E m \in job[j].todo : job' = [job EXCEPT ![j] = AfterRow(j, m)]
        /\ job[j].pc # "idle"
    BY <1>1 DEF RowFails, Doing
  <2>2. JobOk(t)
    BY <2>1, PhaseOk
  <2> HIDE DEF t
  <2> QED  BY <1>0, <2>1, <2>2, AfterRowOk, JobStep
<1>2. CASE DocFails(j)
  <2>1. job' = [job EXCEPT ![j] = AfterWrite(j)] /\ job[j].pc # "idle"
    BY <1>2 DEF DocFails
  <2> QED  BY <1>0, <2>1, AfterWriteOk, JobStep
<1>3. CASE Abort(j)
  <2>1. job' = [job EXCEPT ![j] = Idle]
    BY <1>3 DEF Abort
  <2> QED  BY <1>0, <2>1, IdleOk, JobStep
<1> QED  BY <1>1, <1>2, <1>3

\* What a request does: it begins a program, and leaves the chat alone.
Begun(j, ops) ==
    /\ Program(ops) /\ ops # <<>> /\ Begin(j, ops)
    /\ Head(ops).do \in {"touch", "walk", "save", "delete"}
    /\ UNCHANGED <<doc, rows, tab>>
    /\ calm' => calm /\ Quiet

LEMMA RequestBegins ==
  ASSUME HistInv, NEW j \in Jobs,
         \/ \E t \in Turns : Send(j, t)
         \/ Answer(j) \/ Fail(j) \/ SaveTab(j)
         \/ \E m \in Messages : DeleteFromTab(j, m)
  PROVE  \E ops : Begun(j, ops)
<1>1. ASSUME NEW t \in Turns, Send(j, t) PROVE \E ops : Begun(j, ops)
  <2> DEFINE ops == <<Touch, Upsert(t.user, Message(tab.current, t.replies, TRUE))>>
                    \o (IF tab.current = None THEN <<>>
                        ELSE <<Link(tab.current, <<t.user>>)>>)
                    \o <<Link(t.user, t.replies)>> \o Placeholders(t)
                    \o <<Tasks(t.replies)>>
  <2>1. Program(ops) /\ ops # <<>> /\ Head(ops) = Touch
    BY SendProgram
  <2>2. Touch.do = "touch"
    BY DEF Touch, Op
  <2>3. Begin(j, ops) /\ UNCHANGED <<doc, rows, tab>> /\ (calm' => calm /\ Quiet)
    BY <1>1 DEF Send
  <2> HIDE DEF ops
  <2>4. Begun(j, ops)
    BY <2>1, <2>2, <2>3 DEF Begun
  <2> QED  BY <2>4
<1>2. ASSUME NEW t \in Turns, NEW m \in Range(t.replies), NEW data, Fields(data),
             Reply(j, t, m, data)
      PROVE  \E ops : Begun(j, ops)
  <2> DEFINE ops == <<Walk(t.user), Upsert(m, data)>>
  <2>1. m \in Messages
    BY TurnIs
  <2>2. Program(ops) /\ ops # <<>> /\ Head(ops).do = "walk"
    BY <1>2, <2>1, ReplyProgram
  <2>3. Begin(j, ops) /\ UNCHANGED <<doc, rows, tab>> /\ (calm' => calm /\ Quiet)
    BY <1>2 DEF Reply
  <2> HIDE DEF ops
  <2>4. Begun(j, ops)
    BY <2>2, <2>3 DEF Begun
  <2> QED  BY <2>4
<1>3. CASE SaveTab(j)
  <2> DEFINE op == Save(tab)
  <2>1. OpOk(op) /\ op.do = "save"
    BY DEF OpOk, Save, Op, HistInv
  <2>2. Begin(j, <<op>>) /\ UNCHANGED <<doc, rows, tab>> /\ (calm' => calm /\ Quiet)
    BY <1>3 DEF SaveTab
  <2> HIDE DEF op
  <2>3. Begun(j, <<op>>)
    BY <2>1, <2>2, SoleProgram DEF Begun
  <2> QED  BY <2>3
<1>4. ASSUME NEW m \in Messages, DeleteFromTab(j, m) PROVE \E ops : Begun(j, ops)
  <2> DEFINE op == Delete(m)
  <2>1. OpOk(op) /\ op.do = "delete"
    BY DEF OpOk, Delete, Op
  <2>2. Begin(j, <<op>>) /\ UNCHANGED <<doc, rows, tab>> /\ (calm' => calm /\ Quiet)
    BY <1>4 DEF DeleteFromTab
  <2> HIDE DEF op
  <2>3. Begun(j, <<op>>)
    BY <2>1, <2>2, SoleProgram DEF Begun
  <2> QED  BY <2>3
<1>5. Fields([done |-> TRUE]) /\ \A t \in Turns : Fields([parent |-> t.user])
  BY TurnIs DEF Fields
<1> QED  BY <1>1, <1>2, <1>3, <1>4, <1>5 DEF Answer, Fail

LEMMA NextHist == HistInv /\ [Next]_vars => HistInv'
<1> SUFFICES ASSUME HistInv, [Next]_vars PROVE HistInv'
  OBVIOUS
<1>1. CASE Reload
  <2>1. doc' = RepairCurrent(doc) /\ tab' = doc' /\ job' = job
    BY <1>1 DEF Reload
  <2>2. Hist(doc')
    BY <2>1, RepairKeeps DEF HistInv
  <2>3. Hist(tab')
    BY <2>1, <2>2 DEF Hist, Known
  <2> QED  BY <2>1, <2>2, <2>3 DEF HistInv, JobOk, Hist, Known, Program
<1>2. ASSUME NEW j \in Jobs,
             \/ \E t \in Turns : Send(j, t)
             \/ Answer(j) \/ Fail(j) \/ SaveTab(j)
             \/ \E m \in Messages : DeleteFromTab(j, m)
      PROVE  HistInv'
  <2>1. PICK ops : Begun(j, ops)
    BY <1>2, RequestBegins
  <2>2. Hist(doc') /\ Hist(tab')
    BY <2>1 DEF HistInv, Begun
  <2> QED  BY <2>1, <2>2, BeginOk, JobStep DEF Begun
<1>3. ASSUME NEW j \in Jobs, Step(j) PROVE HistInv'
  BY <1>3, StepHist
<1>4. ASSUME NEW j \in Jobs, RowFails(j) \/ DocFails(j) \/ Abort(j) PROVE HistInv'
  BY <1>4, FaultHist
<1>5. CASE UNCHANGED vars
  BY <1>5 DEF HistInv, JobOk, Hist, Known, Program, vars
<1> QED  BY <1>1, <1>2, <1>3, <1>4, <1>5 DEF Next

LEMMA HistoriesStayHistories == Spec => []HistInv
  BY InitHist, NextHist, PTL DEF Spec

(* The selected message of the stored document exists: every writer leaves *)
(* a history, and what it had read before it computed it was one as well.  *)
(* That holds whatever number of them overlap, fail or are cut off.        *)
THEOREM SelectionExists == Spec => []CurrentIsMessage
<1>1. HistInv => CurrentIsMessage
  BY DEF HistInv, Hist, CurrentIsMessage
<1> QED  BY <1>1, HistoriesStayHistories, PTL
-----------------------------------------------------------------------------
\* What is left of the types when the histories have theirs.
Counts ==
    /\ DOMAIN rows \subseteq Messages
    /\ sent \subseteq Turns /\ due \subseteq Messages
    /\ loads \in 0..MaxLoads /\ saves \in 0..MaxSaves
    /\ deletes \in 0..MaxDeletes /\ faults \in 0..MaxFaults
    /\ calm \in BOOLEAN

LEMMA InitCounts == Init => Counts
<1> SUFFICES ASSUME Init PROVE Counts
  OBVIOUS
<1>1. {MaxLoads, MaxSaves, MaxDeletes, MaxFaults} \subseteq Nat
  BY StoreAssumption
<1>2. DOMAIN rows \subseteq Messages
  <2>1. PICK had \in Migrated : rows = [m \in had |-> RowOf(Old.msg[m])]
    BY DEF Init
  <2> QED  BY <2>1, StoreAssumption DEF Messages
<1> QED  BY <1>1, <1>2 DEF Init, Counts

LEMMA NextCounts == HistInv /\ Counts /\ [Next]_vars => Counts'
<1> SUFFICES ASSUME HistInv, Counts, [Next]_vars PROVE Counts'
  OBVIOUS
<1> USE DEF Counts
<1>0. {MaxLoads, MaxSaves, MaxDeletes, MaxFaults} \subseteq Nat
  BY StoreAssumption
<1>1. CASE Reload
  BY <1>0, <1>1 DEF Reload
<1>2. ASSUME NEW j \in Jobs, NEW t \in Turns, Send(j, t) PROVE Counts'
  <2>1. /\ sent' = sent \cup {t} /\ calm' \in BOOLEAN
        /\ UNCHANGED <<rows, due, loads, saves, deletes, faults>>
    BY <1>2 DEF Send
  <2> QED  BY <2>1
<1>3. ASSUME NEW j \in Jobs, Answer(j) \/ Fail(j) PROVE Counts'
  <2>1. PICK t, m, data : Reply(j, t, m, data)
    BY <1>3 DEF Answer, Fail
  <2>2. /\ due' = due \ {m} /\ calm' \in BOOLEAN
        /\ UNCHANGED <<rows, sent, loads, saves, deletes, faults>>
    BY <2>1 DEF Reply
  <2> QED  BY <2>2
<1>4. ASSUME NEW j \in Jobs, SaveTab(j) PROVE Counts'
  <2>1. /\ saves < MaxSaves /\ saves' = saves + 1 /\ calm' \in BOOLEAN
        /\ UNCHANGED <<rows, sent, due, loads, deletes, faults>>
    BY <1>4 DEF SaveTab
  <2> QED  BY <1>0, <2>1
<1>5. ASSUME NEW j \in Jobs, NEW m \in Messages, DeleteFromTab(j, m) PROVE Counts'
  <2>1. /\ deletes < MaxDeletes /\ deletes' = deletes + 1 /\ calm' \in BOOLEAN
        /\ UNCHANGED <<rows, sent, due, loads, saves, faults>>
    BY <1>5 DEF DeleteFromTab
  <2> QED  BY <1>0, <2>1
<1>6. ASSUME NEW j \in Jobs, Step(j) PROVE Counts'
  <2> DEFINE op == Head(job[j].ops)
  <2>1. JobOk(job[j])
    BY DEF HistInv
  <2>2. CASE Load(j) \/ LoadLink(j) \/ WriteDoc(j) \/ WalkRows(j) \/ WalkChat(j)
    BY <2>2 DEF Load, LoadLink, WriteDoc, WalkRows, WalkChat, counts
  <2>3. CASE WriteRow(j)
    <3>1. op.m \in Messages
      BY <2>1, <2>3, HeadOk DEF WriteRow, Doing, OpOk
    <3>2. DOMAIN rows' = DOMAIN rows \cup {op.m} /\ UNCHANGED <<counts, calm>>
      BY <2>3 DEF WriteRow, PutRow
    <3> QED  BY <3>1, <3>2 DEF counts
  <2>4. ASSUME NEW m \in job[j].todo, BackfillRow(j, m) PROVE Counts'
    <3>1. m \in Messages
      BY <2>1, <2>4 DEF JobOk
    <3>2. DOMAIN rows' = DOMAIN rows \cup {m} /\ UNCHANGED <<counts, calm>>
      BY <2>4 DEF BackfillRow, PutRow
    <3> QED  BY <3>1, <3>2 DEF counts
  <2>5. CASE DeleteRows(j)
    <3>1. DOMAIN rows' \subseteq DOMAIN rows /\ UNCHANGED <<counts, calm>>
      BY <2>5 DEF DeleteRows
    <3> QED  BY <3>1 DEF counts
  <2>6. CASE CreateTasks(j)
    <3>1. op.data \in Seq(Messages)
      BY <2>1, <2>6, HeadOk DEF CreateTasks, Doing, OpOk
    <3>2. Range(op.data) \subseteq Messages
      BY <3>1, ListIs
    <3>3. /\ due' = due \cup Range(op.data)
          /\ UNCHANGED <<rows, sent, loads, saves, deletes, faults, calm>>
      BY <2>6 DEF CreateTasks
    <3> QED  BY <3>2, <3>3
  <2> QED  BY <1>6, <2>2, <2>3, <2>4, <2>5, <2>6 DEF Step
<1>7. ASSUME NEW j \in Jobs, RowFails(j) \/ DocFails(j) \/ Abort(j) PROVE Counts'
  <2>1. /\ faults < MaxFaults /\ faults' = faults + 1 /\ calm' \in BOOLEAN
        /\ UNCHANGED <<rows, sent, due, loads, saves, deletes>>
    BY <1>7 DEF RowFails, DocFails, Abort, Fault
  <2> QED  BY <1>0, <2>1
<1>8. CASE UNCHANGED vars
  BY <1>8 DEF vars
<1> QED  BY <1>1, <1>2, <1>3, <1>4, <1>5, <1>6, <1>7, <1>8 DEF Next

(* The types, and that the dictionary of the stored document has every     *)
(* message once: an insertion, a merge with a copy of any age and a        *)
(* deletion keep a history a history.                                      *)
THEOREM StoreTypeCorrect == Spec => []TypeOK
<1>1. HistInv /\ Counts => TypeOK
  BY DEF HistInv, Hist, JobOk, Counts, TypeOK
<1> QED  BY <1>1, HistoriesStayHistories, InitCounts, NextCounts, PTL DEF Spec
-----------------------------------------------------------------------------
\* The rows of a document: none without its message, none of another state
\* of it, and one for every message that came since.
Agree(msg, kept) ==
    /\ DOMAIN kept \subseteq DOMAIN msg
    /\ \A m \in DOMAIN kept : kept[m] = RowOf(msg[m])
    /\ DOMAIN msg \ Known(Old) \subseteq DOMAIN kept

\* What is between a document and its rows while the only job is at work on
\* them: a row may be ahead of the document by the message it is about; a
\* written document may be ahead of the rows by those still to be written
\* (`todo`) or removed (`gone`).
Progress(t, msg, kept) ==
    LET op  == Head(t.ops)
        new == t.snap.msg IN
    /\ t.pc \in {"idle", "next", "chat"} => Agree(msg, kept) /\ t.gone = {}
    /\ t.pc = "row" =>
         /\ op.do = "upsert" /\ Agree(msg, kept)
         /\ DOMAIN new = DOMAIN msg \cup {op.m}
         /\ \A m \in DOMAIN msg \ {op.m} : new[m] = msg[m]
    /\ t.pc = "write" /\ op.do \in {"save", "delete"} =>
         /\ Agree(msg, kept)
         /\ DOMAIN msg \subseteq DOMAIN new \cup t.gone
         /\ t.gone \cap DOMAIN new = {}
    /\ t.pc = "write" /\ op.do \notin {"save", "delete"} => Agree(new, kept)
    /\ t.pc = "rows" =>
         /\ new = msg /\ t.todo \subseteq DOMAIN msg /\ t.gone \cap DOMAIN msg = {}
         /\ DOMAIN kept \subseteq DOMAIN msg \cup t.gone
         /\ \A m \in DOMAIN msg \ t.todo :
              /\ m \in DOMAIN kept => kept[m] = RowOf(msg[m])
              /\ m \notin Known(Old) => m \in DOMAIN kept

RowsInv ==
    calm =>
      /\ \A i, j \in Jobs : job[i].pc # "idle" /\ job[j].pc # "idle" => i = j
      /\ Quiet => Agree(doc.msg, rows)
      /\ \A j \in Jobs : job[j].pc # "idle" => Progress(job[j], doc.msg, rows)

\* The only job goes from one state to the next.
Moves(j, t) ==
    /\ job' = [job EXCEPT ![j] = t]
    /\ UNCHANGED calm
    /\ Progress(t, doc'.msg, rows')

LEMMA DoneRows ==
  ASSUME HistInv, NEW j \in Jobs, job[j].pc # "idle", Agree(doc'.msg, rows'),
         job' = [job EXCEPT ![j] = Done(j)], UNCHANGED calm
  PROVE  \E t : Moves(j, t)
<1>1. Done(j).pc \in {"idle", "next"} /\ Done(j).gone = {}
  BY DoneOk DEF HistInv
<1>2. Moves(j, Done(j))
  BY <1>1 DEF Moves, Progress
<1> QED  BY <1>2

LEMMA LoadRows ==
  ASSUME HistInv, NEW j \in Jobs, Load(j), Progress(job[j], doc.msg, rows)
  PROVE  \E t : Moves(j, t)
<1> DEFINE op == Head(job[j].ops)
           h == RepairCurrent(doc)
           changed == Changed(op, h)
           pc == IF op.do = "upsert" THEN "row" ELSE "write"
           gone == IF op.do = "delete" THEN DeletedWith(h, op.m) ELSE {}
           t == [job[j] EXCEPT !.snap = changed, !.pc = pc, !.gone = gone]
<1>1. /\ JobOk(job[j]) /\ job[j].pc = "next" /\ rows' = rows /\ calm' = calm
      /\ op.do \in {"touch", "upsert", "save", "delete"} /\ OpOk(op)
  BY HeadOk DEF HistInv, Load
<1>2. /\ Hist(h) /\ h.msg = doc.msg /\ Known(h) = DOMAIN doc.msg
      /\ doc'.msg = doc.msg
  BY RepairKeeps DEF Load, Read, HistInv, Known
<1>3. Agree(doc.msg, rows)
  BY <1>1 DEF Progress
<1>4. CASE job' = [job EXCEPT ![j] = Done(j)]
  <2>1. Agree(doc'.msg, rows') /\ job[j].pc # "idle"
    BY <1>1, <1>2, <1>3
  <2> QED  BY <1>1, <1>4, <2>1, DoneRows
<1>5. CASE /\ job' = [job EXCEPT ![j] = t]
           /\ op.do = "delete" => op.m \in Known(doc)
  <2>1. t.pc = pc /\ t.gone = gone /\ t.snap = changed /\ Head(t.ops) = op
    <3> HIDE DEF changed, pc, gone
    <3> QED  BY <1>1 DEF JobOk
  <2>2. ASSUME op.do = "touch" PROVE Moves(j, t)
    <3>1. changed = h /\ pc = "write"
      BY <2>2 DEF Changed
    <3> HIDE DEF t, pc, gone, changed, h, op
    <3> QED  BY <1>1, <1>2, <1>3, <1>5, <2>1, <2>2, <3>1 DEF Moves, Progress
  <2>3. ASSUME op.do = "upsert" PROVE Moves(j, t)
    <3>1. /\ changed = UpsertMessage(h, op.m, op.data) /\ op.m \in Messages /\ Fields(op.data)
          /\ pc = "row" /\ gone = {}
      BY <1>1, <2>3 DEF Changed, OpOk
    <3>2. /\ DOMAIN changed.msg = DOMAIN doc.msg \cup {op.m}
          /\ \A m \in DOMAIN doc.msg \ {op.m} : changed.msg[m] = doc.msg[m]
      BY <1>2, <3>1, UpsertKeeps DEF Known
    <3> HIDE DEF t, pc, gone, changed, h, op
    <3> QED  BY <1>1, <1>2, <1>3, <1>5, <2>1, <2>3, <3>1, <3>2 DEF Moves, Progress
  <2>4. ASSUME op.do = "save" PROVE Moves(j, t)
    <3>1. changed = MergeHistory(h, op.data) /\ Hist(op.data) /\ pc = "write" /\ gone = {}
      BY <1>1, <2>4 DEF Changed, OpOk
    <3>2. DOMAIN doc.msg \subseteq DOMAIN changed.msg
      BY <1>2, <3>1, MergeKeeps DEF Known
    <3> HIDE DEF t, pc, gone, changed, h, op
    <3> QED  BY <1>1, <1>2, <1>3, <1>5, <2>1, <2>4, <3>1, <3>2 DEF Moves, Progress
  <2>5. ASSUME op.do = "delete" PROVE Moves(j, t)
    <3>1. changed = DeleteMessage(h, op.m) /\ pc = "write" /\ gone = DeletedWith(h, op.m)
      BY <2>5 DEF Changed
    <3>2. DOMAIN changed.msg = DOMAIN doc.msg \ gone
      <4>1. op.m \in Known(h)
        BY <1>2, <1>5, <2>5 DEF Known
      <4> QED  BY <1>2, <3>1, <4>1, DeleteKeeps DEF Known
    <3> HIDE DEF t, pc, gone, changed, h, op
    <3> QED  BY <1>1, <1>2, <1>3, <1>5, <2>1, <2>5, <3>1, <3>2 DEF Moves, Progress
  <2> HIDE DEF t, op
  <2>6. Moves(j, t)
    BY <1>1, <2>2, <2>3, <2>4, <2>5
  <2> QED  BY <2>6
<1> QED  BY <1>4, <1>5 DEF Load

LEMMA LoadLinkRows ==
  ASSUME HistInv, NEW j \in Jobs, LoadLink(j), Progress(job[j], doc.msg, rows)
  PROVE  \E t : Moves(j, t)
<1> DEFINE op == Head(job[j].ops)
           ids == doc.msg[op.m].children
           added == ids \o Sublist(op.data, Range(op.data) \ Range(ids))
           ops == <<Upsert(op.m, [children |-> added])>> \o Tail(job[j].ops)
           t == [job[j] EXCEPT !.ops = ops]
<1>1. JobOk(job[j]) /\ job[j].pc = "next" /\ rows' = rows /\ calm' = calm
  BY DEF HistInv, LoadLink, Doing
<1>2. doc'.msg = doc.msg
  BY ReadKeeps DEF LoadLink
<1>3. Agree(doc'.msg, rows') /\ job[j].gone = {}
  BY <1>1, <1>2 DEF Progress
<1>4. CASE job' = [job EXCEPT ![j] = Done(j)]
  BY <1>1, <1>3, <1>4, DoneRows
<1>5. CASE job' = [job EXCEPT ![j] = t]
  <2> HIDE DEF ops
  <2>1. t.pc = "next" /\ t.gone = {}
    BY <1>1, <1>3 DEF JobOk
  <2> HIDE DEF t
  <2>2. Moves(j, t)
    BY <1>1, <1>3, <1>5, <2>1 DEF Moves, Progress
  <2> QED  BY <2>2
<1> QED  BY <1>4, <1>5 DEF LoadLink

LEMMA WriteRowRows ==
  ASSUME HistInv, NEW j \in Jobs, WriteRow(j), Progress(job[j], doc.msg, rows)
  PROVE  \E t : Moves(j, t)
<1> DEFINE m == Head(job[j].ops).m
           new == job[j].snap.msg
           t == [job[j] EXCEPT !.pc = "write"]
<1>1. JobOk(job[j]) /\ job[j].pc = "row" /\ doc' = doc /\ calm' = calm
  BY DEF HistInv, WriteRow, Doing
<1>2. /\ rows' = [x \in DOMAIN rows \cup {m} |-> IF x = m THEN RowOf(new[m]) ELSE rows[x]]
      /\ job' = [job EXCEPT ![j] = t]
  BY <1>1 DEF WriteRow, PutRow, HistInv
<1>3. /\ Head(job[j].ops).do = "upsert" /\ Agree(doc.msg, rows)
      /\ DOMAIN new = DOMAIN doc.msg \cup {m}
      /\ \A x \in DOMAIN doc.msg \ {m} : new[x] = doc.msg[x]
  BY <1>1 DEF Progress
<1>4. Agree(new, rows')
  <2> HIDE DEF m, new
  <2> QED  BY <1>2, <1>3 DEF Agree
<1>5. t.pc = "write" /\ t.snap = job[j].snap /\ t.ops = job[j].ops
  BY <1>1 DEF JobOk
<1> HIDE DEF t
<1>6. Moves(j, t)
  BY <1>1, <1>2, <1>3, <1>4, <1>5 DEF Moves, Progress
<1> QED  BY <1>6

LEMMA WriteDocRows ==
  ASSUME HistInv, NEW j \in Jobs, WriteDoc(j), Progress(job[j], doc.msg, rows)
  PROVE  \E t : Moves(j, t)
<1> DEFINE op == Head(job[j].ops)
           new == job[j].snap.msg
           t == [job[j] EXCEPT !.pc = "rows", !.todo = Known(job[j].snap)]
<1>1. /\ JobOk(job[j]) /\ job[j].pc = "write" /\ doc'.msg = new /\ rows' = rows
      /\ calm' = calm /\ job' = [job EXCEPT ![j] = AfterWrite(j)]
  BY DEF HistInv, WriteDoc
<1>2. CASE op.do \notin {"save", "delete"}
  <2>1. AfterWrite(j) = Done(j) /\ Agree(doc'.msg, rows')
    BY <1>1, <1>2 DEF AfterWrite, Progress
  <2> QED  BY <1>1, <2>1, DoneRows
<1>3. CASE op.do \in {"save", "delete"} /\ DOMAIN new \cup job[j].gone = {}
  <2>1. AfterWrite(j) = Done(j)
    BY <1>3 DEF AfterWrite, Known
  <2>2. Agree(doc.msg, rows) /\ DOMAIN doc.msg = {} /\ DOMAIN new = {}
    BY <1>1, <1>3 DEF Progress
  <2>3. Agree(doc'.msg, rows')
    BY <1>1, <2>2 DEF Agree
  <2> QED  BY <1>1, <2>1, <2>3, DoneRows
<1>4. CASE op.do \in {"save", "delete"} /\ DOMAIN new \cup job[j].gone # {}
  <2>1. AfterWrite(j) = t
    BY <1>4 DEF AfterWrite, Known
  <2>2. /\ Agree(doc.msg, rows)
        /\ DOMAIN doc.msg \subseteq DOMAIN new \cup job[j].gone
        /\ job[j].gone \cap DOMAIN new = {}
    BY <1>1, <1>4 DEF Progress
  <2>3. t.pc = "rows" /\ t.todo = DOMAIN new /\ t.gone = job[j].gone /\ t.snap = job[j].snap
    BY <1>1 DEF JobOk, Known
  <2> HIDE DEF t
  <2>4. Moves(j, t)
    BY <1>1, <2>1, <2>2, <2>3 DEF Moves, Progress, Agree
  <2> QED  BY <2>4
<1> QED  BY <1>2, <1>3, <1>4

LEMMA BackfillRows ==
  ASSUME HistInv, NEW j \in Jobs, NEW m \in job[j].todo, BackfillRow(j, m),
         Progress(job[j], doc.msg, rows)
  PROVE  \E t : Moves(j, t)
<1> DEFINE msg == doc.msg
           t == [job[j] EXCEPT !.todo = job[j].todo \ {m}]
<1>1. /\ JobOk(job[j]) /\ job[j].pc = "rows" /\ doc' = doc /\ calm' = calm
      /\ job' = [job EXCEPT ![j] = AfterRow(j, m)]
  BY DEF HistInv, BackfillRow
<1>2. /\ job[j].snap.msg = msg /\ job[j].todo \subseteq DOMAIN msg
      /\ job[j].gone \cap DOMAIN msg = {}
      /\ DOMAIN rows \subseteq DOMAIN msg \cup job[j].gone
      /\ \A x \in DOMAIN msg \ job[j].todo :
           /\ x \in DOMAIN rows => rows[x] = RowOf(msg[x])
           /\ x \notin Known(Old) => x \in DOMAIN rows
  BY <1>1 DEF Progress
<1>3. rows' = [x \in DOMAIN rows \cup {m} |-> IF x = m THEN RowOf(msg[m]) ELSE rows[x]]
  BY <1>2 DEF BackfillRow, PutRow
<1>4. /\ DOMAIN rows' \subseteq DOMAIN msg \cup job[j].gone
      /\ \A x \in DOMAIN msg \ (job[j].todo \ {m}) :
           /\ x \in DOMAIN rows' => rows'[x] = RowOf(msg[x])
           /\ x \notin Known(Old) => x \in DOMAIN rows'
  <2> HIDE DEF msg
  <2> QED  BY <1>2, <1>3
<1>5. CASE job[j].todo = {m} /\ job[j].gone = {}
  <2>1. AfterRow(j, m) = Done(j)
    BY <1>5 DEF AfterRow
  <2>2. Agree(msg, rows')
    <3> HIDE DEF msg
    <3> QED  BY <1>4, <1>5 DEF Agree
  <2> QED  BY <1>1, <2>1, <2>2, DoneRows
<1>6. CASE ~(job[j].todo = {m} /\ job[j].gone = {})
  <2>1. AfterRow(j, m) = t
    BY <1>6 DEF AfterRow
  <2>2. /\ t.pc = "rows" /\ t.todo = job[j].todo \ {m} /\ t.gone = job[j].gone
        /\ t.snap = job[j].snap
    BY <1>1 DEF JobOk
  <2> HIDE DEF t
  <2>3. Moves(j, t)
    BY <1>1, <1>2, <1>4, <2>1, <2>2 DEF Moves, Progress
  <2> QED  BY <2>3
<1> QED  BY <1>5, <1>6

LEMMA DeleteRowsRows ==
  ASSUME HistInv, NEW j \in Jobs, DeleteRows(j), Progress(job[j], doc.msg, rows)
  PROVE  \E t : Moves(j, t)
<1>1. /\ job[j].pc = "rows" /\ job[j].todo = {} /\ doc' = doc /\ calm' = calm
      /\ job' = [job EXCEPT ![j] = Done(j)]
      /\ rows' = [m \in DOMAIN rows \ job[j].gone |-> rows[m]]
  BY DEF DeleteRows
<1>2. Agree(doc.msg, rows')
  BY <1>1 DEF Progress, Agree
<1> QED  BY <1>1, <1>2, DoneRows

LEMMA WalkRowsRows ==
  ASSUME HistInv, NEW j \in Jobs, WalkRows(j), Progress(job[j], doc.msg, rows)
  PROVE  \E t : Moves(j, t)
<1> DEFINE t == [job[j] EXCEPT !.pc = "chat", !.map = rows]
<1>1. /\ JobOk(job[j]) /\ job[j].pc = "next" /\ doc' = doc /\ rows' = rows /\ calm' = calm
  BY DEF HistInv, WalkRows, Doing
<1>2. Agree(doc'.msg, rows') /\ job[j].gone = {}
  BY <1>1 DEF Progress
<1>3. CASE job' = [job EXCEPT ![j] = Done(j)]
  BY <1>1, <1>2, <1>3, DoneRows
<1>4. CASE job' = [job EXCEPT ![j].pc = "chat", ![j].map = rows]
  <2>1. job' = [job EXCEPT ![j] = t]
    BY <1>1, <1>4 DEF HistInv, JobOk
  <2>2. t.pc = "chat" /\ t.gone = {}
    BY <1>1, <1>2 DEF JobOk
  <2> HIDE DEF t
  <2>3. Moves(j, t)
    BY <1>1, <1>2, <2>1, <2>2 DEF Moves, Progress
  <2> QED  BY <2>3
<1> QED  BY <1>3, <1>4 DEF WalkRows

LEMMA WalkChatRows ==
  ASSUME HistInv, NEW j \in Jobs, WalkChat(j), Progress(job[j], doc.msg, rows)
  PROVE  \E t : Moves(j, t)
<1> DEFINE missing == IF job[j].map = <<>> THEN Known(doc)
                      ELSE Unresolved(job[j].map) \cap Known(doc)
           t == [job[j] EXCEPT !.pc = "rows", !.snap = doc, !.map = <<>>, !.todo = missing]
<1>1. /\ JobOk(job[j]) /\ job[j].pc = "chat" /\ rows' = rows /\ calm' = calm
      /\ doc'.msg = doc.msg
  BY ReadKeeps DEF HistInv, WalkChat, Doing
<1>2. Agree(doc.msg, rows) /\ job[j].gone = {}
  BY <1>1 DEF Progress
<1>3. missing \subseteq DOMAIN doc.msg
  BY DEF Known
<1>4. job' = [job EXCEPT ![j] = Done(j)] \/ job' = [job EXCEPT ![j] = t]
  BY DEF WalkChat
<1> HIDE DEF missing
<1>5. CASE job' = [job EXCEPT ![j] = Done(j)]
  BY <1>1, <1>2, <1>5, DoneRows
<1>6. CASE job' = [job EXCEPT ![j] = t]
  <2>1. t.pc = "rows" /\ t.todo = missing /\ t.gone = {} /\ t.snap = doc
    BY <1>1, <1>2 DEF JobOk
  <2> HIDE DEF t
  <2>2. Moves(j, t)
    BY <1>1, <1>2, <1>3, <1>6, <2>1 DEF Moves, Progress, Agree
  <2> QED  BY <2>2
<1> QED  BY <1>4, <1>5, <1>6

LEMMA CreateTasksRows ==
  ASSUME HistInv, NEW j \in Jobs, CreateTasks(j), Progress(job[j], doc.msg, rows)
  PROVE  \E t : Moves(j, t)
<1>1. /\ job[j].pc = "next" /\ doc' = doc /\ rows' = rows /\ calm' = calm
      /\ job' = [job EXCEPT ![j] = Done(j)]
  BY DEF CreateTasks, Doing
<1>2. Agree(doc.msg, rows)
  BY <1>1 DEF Progress
<1> QED  BY <1>1, <1>2, DoneRows

LEMMA StepRows ==
  ASSUME HistInv, NEW j \in Jobs, Step(j), Progress(job[j], doc.msg, rows)
  PROVE  \E t : Moves(j, t)
  BY LoadRows, LoadLinkRows, WriteRowRows, WriteDocRows, BackfillRows, DeleteRowsRows,
     WalkRowsRows, WalkChatRows, CreateTasksRows DEF Step

LEMMA NextRows == HistInv /\ RowsInv /\ [Next]_vars => RowsInv'
<1> SUFFICES ASSUME HistInv, RowsInv, [Next]_vars, calm' PROVE RowsInv'
  BY DEF RowsInv
<1>1. CASE UNCHANGED vars
  <2>1. doc' = doc /\ rows' = rows /\ job' = job /\ calm' = calm
    BY <1>1 DEF vars
  <2> QED  BY <2>1 DEF RowsInv, Quiet
<1>2. CASE Reload
  <2>1. doc'.msg = doc.msg /\ rows' = rows /\ job' = job /\ calm' = calm
    BY <1>2, RepairKeeps DEF Reload, HistInv
  <2> QED  BY <2>1 DEF RowsInv, Quiet
<1>3. ASSUME NEW j \in Jobs,
             \/ \E t \in Turns : Send(j, t)
             \/ Answer(j) \/ Fail(j) \/ SaveTab(j)
             \/ \E m \in Messages : DeleteFromTab(j, m)
      PROVE  RowsInv'
  <2>1. PICK ops : Begun(j, ops)
    BY <1>3, RequestBegins
  <2> DEFINE t == [Idle EXCEPT !.ops = ops, !.pc = "next"]
  <2>2. /\ calm /\ Quiet /\ doc' = doc /\ rows' = rows
        /\ job' = [job EXCEPT ![j] = t]
    BY <2>1 DEF Begun, Begin
  <2>3. t.pc = "next" /\ t.gone = {}
    BY IdleOk DEF JobOk
  <2> HIDE DEF t
  <2>4. Agree(doc.msg, rows)
    BY <2>2 DEF RowsInv
  <2>5. Progress(t, doc'.msg, rows')
    BY <2>2, <2>3, <2>4 DEF Progress
  <2>6. job'[j] = t /\ \A i \in Jobs \ {j} : job'[i].pc = "idle"
    BY <2>2 DEF Quiet, HistInv
  <2> QED  BY <2>3, <2>5, <2>6 DEF RowsInv, Quiet
<1>4. ASSUME NEW j \in Jobs, Step(j) PROVE RowsInv'
  <2>1. job[j].pc # "idle" /\ (calm' = calm)
    BY <1>4 DEF Step, Load, LoadLink, WriteRow, WriteDoc, BackfillRow, DeleteRows,
                WalkRows, WalkChat, CreateTasks, Doing
  <2>2. Progress(job[j], doc.msg, rows) /\ \A i \in Jobs \ {j} : job[i].pc = "idle"
    BY <2>1 DEF RowsInv
  <2>3. PICK t : Moves(j, t)
    BY <1>4, <2>2, StepRows
  <2>4. /\ job'[j] = t /\ \A i \in Jobs \ {j} : job'[i].pc = "idle"
        /\ Progress(t, doc'.msg, rows')
    BY <2>2, <2>3 DEF Moves, HistInv
  <2>5. t.pc = "idle" => Agree(doc'.msg, rows')
    BY <2>4 DEF Progress
  <2> QED  BY <2>4, <2>5 DEF RowsInv, Quiet
<1>5. ASSUME NEW j \in Jobs, RowFails(j) \/ DocFails(j) \/ Abort(j) PROVE FALSE
  BY <1>5 DEF RowFails, DocFails, Abort, Fault
<1> QED  BY <1>1, <1>2, <1>3, <1>4, <1>5 DEF Next

LEMMA InitRows == Init => RowsInv
<1> SUFFICES ASSUME Init PROVE RowsInv
  OBVIOUS
<1>1. PICK had \in Migrated : rows = [m \in had |-> RowOf(Old.msg[m])]
  BY DEF Init
<1>2. doc = Old /\ \A j \in Jobs : job[j].pc = "idle"
  BY IdleOk DEF Init
<1>3. Agree(doc.msg, rows)
  BY <1>1, <1>2, StoreAssumption DEF Agree, Known
<1> QED  BY <1>2, <1>3 DEF RowsInv

(* Requests that do not overlap keep the rows equal to the document: at    *)
(* every moment the difference is what the one request at work has still   *)
(* to write or to remove, and when it ends there is none.                  *)
THEOREM RowsFollowTheChat == Spec => []RowsMatchWhenCalm
<1>1. RowsInv => RowsMatchWhenCalm
  BY DEF RowsInv, RowsMatchWhenCalm, Agree, Known
<1> QED  BY <1>1, InitRows, NextRows, HistoriesStayHistories, PTL DEF Spec
-----------------------------------------------------------------------------
\* A set of messages has an oldest one.
LEMMA Oldest ==
  ASSUME NEW S \in SUBSET Nat, S # {}
  PROVE  \E x \in S : \A y \in S : x =< y
<1> SUFFICES ASSUME \A x \in S : \E y \in S : y < x PROVE FALSE
  OBVIOUS
<1>1. PICK N \in S : TRUE
  OBVIOUS
<1> DEFINE P == {n \in 0..N : \A k \in 0..n : k \notin S}
<1>2. 0 \in P
  <2>1. 0 \notin S /\ 0 \in 0..N
    OBVIOUS
  <2>2. \A k \in 0..0 : k = 0
    OBVIOUS
  <2> QED  BY <2>1, <2>2
<1>3. ASSUME NEW n \in P, n < N PROVE n + 1 \in P
  <2>1. n \in Nat /\ n + 1 \in 0..N /\ \A k \in 0..(n + 1) : k \in 0..n \/ k = n + 1
    BY <1>3
  <2>2. ASSUME n + 1 \in S PROVE FALSE
    <3>1. PICK y \in S : y < n + 1
      BY <2>2
    <3>2. y \in 0..n
      BY <2>1, <3>1
    <3> QED  BY <3>2
  <2> QED  BY <2>1, <2>2
<1>4. P \in SUBSET (0..N) /\ N \in Nat
  OBVIOUS
<1> HIDE DEF P
<1>5. N \in 0..N
  BY <1>4
<1>6. N \in P
  BY <1>2, <1>3, <1>4, <1>5, UpTo
<1> QED  BY <1>5, <1>6 DEF P

\* Among the messages `ids` every parent is there and older, and something is
\* selected when there is anything.
Grown(h, ids) ==
    /\ Known(h) \subseteq ids
    /\ \A m \in Known(h) : \/ h.msg[m].parent = None
                           \/ h.msg[m].parent \in Known(h) /\ h.msg[m].parent < m
    /\ h.current = None => Known(h) = {}

\* p lists c among its childrenIds; c names p as its parent.
Lists(msg, p, c) == p \in DOMAIN msg /\ c \in Range(msg[p].children)
Child(msg, p, c) == c \in DOMAIN msg /\ msg[c].parent = p

\* The same of an operation that is still to be done.
Links(op, p, c) ==
    \/ op.do = "link" /\ op.m = p /\ c \in Range(op.data)
    \/ /\ op.do = "upsert" /\ op.m = p
       /\ "children" \in DOMAIN op.data /\ c \in Range(op.data.children)
Names(op, p, c) ==
    op.do = "upsert" /\ op.m = c /\ "parent" \in DOMAIN op.data /\ op.data.parent = p

\* What is listed, or will be, is what names its parent, or will.
Balanced(ops, msg) ==
    \A p, c \in Messages :
        Lists(msg, p, c) \/ (\E op \in Range(ops) : Links(op, p, c))
          <=> Child(msg, p, c) \/ (\E op \in Range(ops) : Names(op, p, c))

LEMMA BalancedIs ==
  ASSUME NEW h, Hist(h), NEW ids, Grown(h, ids)
  PROVE  Balanced(<<>>, h.msg) <=>
           \A p \in Known(h) : Range(h.msg[p].children) = Born(h.msg, p)
<1>1. Range(<<>>) = {}
  BY DEF Range
<1>2. Balanced(<<>>, h.msg) <=>
        \A p, c \in Messages : Lists(h.msg, p, c) <=> Child(h.msg, p, c)
  BY <1>1 DEF Balanced
<1>3. Known(h) \subseteq Messages /\ \A p \in Known(h) : Range(h.msg[p].children) \subseteq Messages
  <2>1. ASSUME NEW p \in Known(h) PROVE Range(h.msg[p].children) \subseteq Messages
    <3>1. h.msg[p].children \in Seq(Messages)
      BY DEF Hist, IsHistory, Stored
    <3> QED  BY <3>1, ListIs
  <2> QED  BY <2>1 DEF Hist, IsHistory
<1>4. ASSUME \A p, c \in Messages : Lists(h.msg, p, c) <=> Child(h.msg, p, c),
             NEW p \in Known(h)
      PROVE  Range(h.msg[p].children) = Born(h.msg, p)
  <2>1. p \in Messages /\ Range(h.msg[p].children) \subseteq Messages
        /\ Born(h.msg, p) \subseteq Messages
    BY <1>3 DEF Born, Known
  <2> QED  BY <1>4, <2>1 DEF Lists, Child, Born, Known
<1>5. ASSUME \A p \in Known(h) : Range(h.msg[p].children) = Born(h.msg, p),
             NEW p \in Messages, NEW c \in Messages
      PROVE  Lists(h.msg, p, c) <=> Child(h.msg, p, c)
  <2>1. Child(h.msg, p, c) => p \in Known(h)
    BY MessagesAreNumbers DEF Child, Grown, Known
  <2> QED  BY <1>5, <2>1 DEF Lists, Child, Born, Known
<1> QED  BY <1>2, <1>4, <1>5

\* A deletion from the middle of a tree, as a change of two functions.
Rewires(K, Par, Kid, m, taken, moved, L, Par2, Kid2) ==
    /\ K \in SUBSET Nat /\ m \in K
    /\ \A p \in K : Kid[p] = {c \in K : Par[c] = p}
    /\ \A x \in K : Par[x] = None \/ (Par[x] \in K /\ Par[x] < x)
    /\ taken = {c \in K : Par[c] = m}
    /\ moved = {c \in K : Par[c] \in taken}
    /\ L = K \ ({m} \cup taken)
    /\ \A x \in L : Par2[x] = IF x \in moved THEN Par[m] ELSE Par[x]
    /\ \A x \in L : Kid2[x] = IF x = Par[m] THEN (Kid[x] \ {m}) \cup moved ELSE Kid[x]

LEMMA Rewired ==
  ASSUME NEW K, NEW Par, NEW Kid, NEW m, NEW taken, NEW moved, NEW L, NEW Par2, NEW Kid2,
         Rewires(K, Par, Kid, m, taken, moved, L, Par2, Kid2)
  PROVE  /\ Par[m] = None \/ Par[m] \in L
         /\ \A x \in L : Par2[x] = None \/ (Par2[x] \in L /\ Par2[x] < x)
         /\ \A p \in L : Kid2[p] = {c \in L : Par2[c] = p}
<1> USE DEF Rewires
<1> DEFINE P == Par[m]
<1>0. None \notin K
  BY StoreAssumption
<1>e. ASSUME NEW x \in K, Par[x] # None PROVE Par[x] \in K /\ Par[x] < x /\ x \in Nat
  BY <1>e
<1> HIDE DEF P
<1>p. P = Par[m]
  BY DEF P
<1>1. P = None \/ (P \in L /\ P < m)
  <2>1. P # None => P \in K /\ P < m
    BY <1>e, <1>p
  <2>2. P # None => P \notin taken
    <3>1. ASSUME P \in taken, P # None PROVE FALSE
      <4>1. Par[P] = m /\ P \in K
        BY <3>1
      <4>2. m < P
        BY <1>0, <1>e, <4>1
      <4> QED  BY <2>1, <3>1, <4>1, <4>2
    <3> QED  BY <3>1
  <2> QED  BY <2>1, <2>2
<1>2. m \notin taken /\ moved \subseteq L
  <2>1. m \notin taken
    BY <1>0, <1>1
  <2>2. ASSUME NEW g \in moved PROVE g \in L
    <3>1. g \in K /\ Par[g] \in taken
      OBVIOUS
    <3>2. g # m
      BY <1>0, <1>1, <1>p, <3>1
    <3>3. g \notin taken
      BY <2>1, <3>1
    <3> QED  BY <3>1, <3>2, <3>3
  <2> QED  BY <2>1, <2>2
<1>3. ASSUME NEW x \in L PROVE Par2[x] = None \/ (Par2[x] \in L /\ Par2[x] < x)
  <2>1. CASE x \in moved
    <3>1. Par2[x] = P /\ x \in K /\ Par[x] \in taken /\ Par[x] \in K
      BY <1>p, <2>1
    <3>2. Par[x] < x
      BY <1>0, <1>e, <3>1
    <3>3. PICK c \in K : c = Par[x] /\ Par[c] = m
      BY <3>1
    <3>4. m < c
      BY <1>0, <1>e, <3>3
    <3>5. c \in Nat /\ x \in Nat /\ m \in Nat /\ c < x
      BY <3>1, <3>2, <3>3
    <3>6. m < x
      BY <3>4, <3>5
    <3>7. P # None => P \in L /\ P \in Nat /\ P < m
      BY <1>1
    <3>8. P # None => P < x
      BY <3>5, <3>6, <3>7
    <3>9. P = None \/ (P \in L /\ P < x)
      BY <3>7, <3>8
    <3> QED  BY <3>1, <3>9
  <2>2. CASE x \notin moved
    <3>1. Par2[x] = Par[x] /\ x \in K /\ Par[x] # m /\ Par[x] \notin taken
      BY <2>2
    <3>2. Par[x] # None => Par[x] \in K /\ Par[x] < x
      BY <1>e, <3>1
    <3>3. Par[x] # None => Par[x] \in L
      BY <3>1, <3>2
    <3> DEFINE q == Par[x]
    <3>4. Par2[x] = q /\ (q = None \/ (q \in L /\ q < x))
      BY <3>1, <3>2, <3>3
    <3> HIDE DEF q
    <3> QED  BY <3>4
  <2> QED  BY <2>1, <2>2
<1>4. ASSUME NEW p \in L, p = P PROVE Kid2[p] = {c \in L : Par2[c] = p}
  <2>0. p \in K /\ p # m /\ p = Par[m]
    BY <1>4, <1>p
  <2>4. Kid2[p] = (Kid[p] \ {m}) \cup moved
    BY <2>0
  <2>1. p \in K /\ p # m /\ Kid2[p] = (Kid[p] \ {m}) \cup moved /\ Kid[p] = {c \in K : Par[c] = p}
    BY <2>0, <2>4
  <2>2. ASSUME NEW c \in Kid2[p] PROVE c \in L /\ Par2[c] = p
    <3>1. CASE c \in moved
      BY <1>2, <1>4, <1>p, <3>1
    <3>2. CASE c \notin moved
      <4>1. c \in K /\ Par[c] = p /\ c # m /\ c \notin taken
        BY <2>1, <2>2, <3>2
      <4> QED  BY <3>2, <4>1
    <3> QED  BY <3>1, <3>2
  <2>3. ASSUME NEW c \in L, Par2[c] = p PROVE c \in Kid2[p]
    BY <1>4, <1>p, <2>1, <2>3
  <2> QED  BY <2>2, <2>3
<1>5. ASSUME NEW p \in L, p # P PROVE Kid2[p] = {c \in L : Par2[c] = p}
  <2>0. p \in K /\ p # m /\ p \notin taken /\ p # Par[m]
    BY <1>5, <1>p
  <2>4. Kid2[p] = Kid[p] /\ Kid[p] = {c \in K : Par[c] = p}
    BY <2>0
  <2>1. p \in K /\ p # m /\ p \notin taken /\ Kid2[p] = {c \in K : Par[c] = p}
    BY <2>0, <2>4
  <2>2. ASSUME NEW c \in Kid2[p] PROVE c \in L /\ Par2[c] = p
    <3>1. c \in K /\ Par[c] = p
      BY <2>1, <2>2
    <3>2. c # m /\ c \notin taken
      BY <2>0, <3>1
    <3>3. c \notin moved
      BY <2>0, <3>1
    <3>4. c \in L
      BY <3>1, <3>2
    <3> QED  BY <3>1, <3>3, <3>4
  <2>3. ASSUME NEW c \in L, Par2[c] = p PROVE c \in Kid2[p]
    <3>1. c \notin moved
      BY <1>5, <1>p, <2>3
    <3> QED  BY <2>1, <2>3, <3>1
  <2> QED  BY <2>2, <2>3
<1> QED  BY <1>1, <1>3, <1>4, <1>5, <1>p

\* In a tree something is found to be selected.
Linked(left) ==
    /\ left.order \in Seq(Messages) /\ Range(left.order) = Known(left)
    /\ Known(left) \subseteq Messages /\ left.msg \in [Known(left) -> Stored]
    /\ \A m \in Known(left) : \/ left.msg[m].parent = None
                              \/ left.msg[m].parent \in Known(left) /\ left.msg[m].parent < m
    /\ \A p \in Known(left) : Range(left.msg[p].children) = Born(left.msg, p)

LEMMA SelectedIs ==
  ASSUME NEW left, Linked(left), NEW parent \in Known(left) \cup {None}
  PROVE  SelectedBelow(left, parent) \in Known(left) \/ Known(left) = {}
<1> USE DEF Linked
<1> DEFINE below == IF parent = None THEN Roots(left)
                    ELSE IF parent \in Known(left) THEN left.msg[parent].children ELSE <<>>
           leaf == IF below = <<>> THEN parent ELSE LastLeaf(left, Last(below))
<1>1. SelectedBelow(left, parent) = IF leaf \in Known(left) THEN leaf ELSE None
  BY DEF SelectedBelow
<1>2. \A m \in Known(left) : left.msg[m].children \in Seq(Known(left))
  <2>1. ASSUME NEW m \in Known(left) PROVE left.msg[m].children \in Seq(Known(left))
    <3> DEFINE kids == left.msg[m].children
    <3>1. kids \in Seq(Messages) /\ Range(kids) \subseteq Known(left)
      BY DEF Stored, Born, Known
    <3> HIDE DEF kids
    <3>2. kids \in Seq(Range(kids))
      BY <3>1, ListIs
    <3>3. kids \in Seq(Known(left))
      BY <3>1, <3>2
    <3> QED  BY <3>3 DEF kids
  <2> QED  BY <2>1
<1>3. Roots(left) \in Seq(Messages) /\ Range(Roots(left)) = Born(left.msg, None)
  <2> DEFINE T == Born(left.msg, None)
             whole == left.order
  <2>1. whole \in Seq(Messages) /\ Range(whole) \cap T = T
    BY DEF Born, Known
  <2> HIDE DEF T, whole
  <2>2. Sublist(whole, T) \in Seq(Messages) /\ Range(Sublist(whole, T)) = T
    BY <2>1, SublistIs
  <2> QED  BY <2>2 DEF T, whole, Roots
<1>4. below \in Seq(Messages) /\ Range(below) \subseteq Known(left)
  <2>1. Range(Roots(left)) \subseteq Known(left)
    BY <1>3 DEF Born, Known
  <2>2. CASE parent = None
    BY <1>3, <2>1, <2>2
  <2>3. CASE parent # None
    <3>1. below = left.msg[parent].children /\ parent \in Known(left)
      BY <2>3
    <3> QED  BY <3>1 DEF Stored, Born, Known
  <2> QED  BY <2>2, <2>3
<1>5. CASE below # <<>>
  <2> HIDE DEF below
  <2>1. Last(below) \in Known(left)
    BY <1>4, <1>5, ListIs
  <2>2. LastLeaf(left, Last(below)) \in Known(left)
    BY <1>2, <2>1, LeafIsKnown
  <2> QED  BY <1>1, <1>5, <2>2
<1>6. CASE below = <<>> /\ parent # None
  BY <1>1, <1>6
<1>7. CASE below = <<>> /\ parent = None /\ Known(left) # {}
  <2>1. Range(Roots(left)) = {}
    BY <1>7 DEF Range
  <2>2. Known(left) \in SUBSET Nat
    BY MessagesAreNumbers
  <2>3. PICK m \in Known(left) : \A y \in Known(left) : m =< y
    BY <1>7, <2>2, Oldest
  <2>4. left.msg[m].parent = None
    BY <2>2, <2>3
  <2>5. m \in Born(left.msg, None)
    BY <2>4 DEF Born, Known
  <2> QED  BY <1>3, <2>1, <2>5
<1> QED  BY <1>5, <1>6, <1>7

LEMMA RepairChangesNothing ==
  ASSUME NEW h, Hist(h), NEW ids, Grown(h, ids)
  PROVE  RepairCurrent(h) = h
<1> DEFINE leaves == {m \in Known(h) : h.msg[m].children = <<>>}
<1>1. h.current \in Known(h) \/ Known(h) = {}
  BY DEF Hist, Grown
<1>2. h.current \in Known(h) \/ leaves = {}
  BY <1>1
<1> QED  BY <1>2 DEF RepairCurrent

LEMMA DeleteIsTree ==
  ASSUME NEW h, Hist(h), NEW ids, Grown(h, ids), Balanced(<<>>, h.msg), NEW m \in Known(h)
  PROVE  LET u == DeleteMessage(h, m) IN Grown(u, ids) /\ Balanced(<<>>, u.msg)
<1> DEFINE u == DeleteMessage(h, m)
           left == Without(h, m)
           K == Known(h)
           L == Known(left)
           taken == Range(h.msg[m].children) \cap Known(h)
           moved == UNION {Range(h.msg[c].children) \cap Known(h) : c \in taken}
           parent == h.msg[m].parent
<1>1. /\ L = K \ ({m} \cup taken)
      /\ left.msg \in [L -> Stored] /\ left.order \in Seq(Messages) /\ Range(left.order) = L
      /\ \A x \in L :
           /\ left.msg[x].parent = IF x \in moved THEN parent ELSE h.msg[x].parent
           /\ Range(left.msg[x].children) =
                IF x = parent THEN (Range(h.msg[x].children) \ {m}) \cup moved
                ELSE Range(h.msg[x].children)
  <2>1. /\ DeletedWith(h, m) = {m} \cup taken /\ Known(left) = Known(h) \ DeletedWith(h, m)
        /\ left.msg \in [Known(left) -> Stored]
        /\ left.order \in Seq(Messages) /\ Range(left.order) = Known(left)
    BY WithoutIs
  <2>2. \A x \in Known(left) :
          /\ left.msg[x].parent = IF x \in moved THEN parent ELSE h.msg[x].parent
          /\ Range(left.msg[x].children) =
               IF x = parent THEN (Range(h.msg[x].children) \ {m}) \cup moved
               ELSE Range(h.msg[x].children)
    BY WithoutIs
  <2> HIDE DEF left, taken, moved, parent
  <2> QED  BY <2>1, <2>2
<1> DEFINE Par == [x \in K |-> h.msg[x].parent]
           Kid == [x \in K |-> Range(h.msg[x].children)]
           Par2 == [x \in L |-> left.msg[x].parent]
           Kid2 == [x \in L |-> Range(left.msg[x].children)]
<1>2. Hist(u) /\ u.msg = left.msg /\ Known(u) = L /\ u.current = SelectedBelow(left, parent)
  <2>1. /\ Hist(u) /\ u.msg = left.msg /\ u.current = SelectedBelow(left, parent)
        /\ Known(u) = Known(h) \ DeletedWith(h, m)
    BY DeleteKeeps
  <2>2. L = Known(h) \ DeletedWith(h, m)
    BY WithoutIs
  <2> QED  BY <2>1, <2>2
<1>3. \A p \in K : Range(h.msg[p].children) = Born(h.msg, p)
  BY BalancedIs
<1>4. \A p \in K : Kid[p] = {c \in K : Par[c] = p}
  BY <1>3 DEF Born, Known
<1>5. \A x \in K : Par[x] = None \/ (Par[x] \in K /\ Par[x] < x)
  BY DEF Grown
<1>6. taken = {c \in K : Par[c] = m}
  <2>1. taken = Kid[m] \cap K
    OBVIOUS
  <2> HIDE DEF taken, Par, Kid
  <2> QED  BY <1>4, <2>1
<1>7. moved = {c \in K : Par[c] \in taken}
  <2>1. moved = UNION {Kid[c] \cap K : c \in taken} /\ taken \subseteq K
    OBVIOUS
  <2> HIDE DEF taken, moved, Par, Kid
  <2>2. ASSUME NEW g \in moved PROVE g \in K /\ Par[g] \in taken
    <3>1. PICK c \in taken : g \in Kid[c] \cap K
      BY <2>1, <2>2
    <3> QED  BY <1>4, <2>1, <3>1
  <2>3. ASSUME NEW g \in K, Par[g] \in taken PROVE g \in moved
    <3>1. g \in Kid[Par[g]]
      BY <1>4, <2>1, <2>3
    <3> QED  BY <2>1, <2>3, <3>1
  <2> QED  BY <2>2, <2>3
<1>8. /\ \A x \in L : Par2[x] = IF x \in moved THEN Par[m] ELSE Par[x]
      /\ \A x \in L : Kid2[x] = IF x = Par[m] THEN (Kid[x] \ {m}) \cup moved ELSE Kid[x]
  <2>1. ASSUME NEW x \in L
        PROVE  /\ Par2[x] = IF x \in moved THEN Par[m] ELSE Par[x]
               /\ Kid2[x] = IF x = Par[m] THEN (Kid[x] \ {m}) \cup moved ELSE Kid[x]
    <3>1. x \in K
      BY <1>1
    <3>2. Par2[x] = left.msg[x].parent /\ Kid2[x] = Range(left.msg[x].children)
          /\ Par[x] = h.msg[x].parent /\ Kid[x] = Range(h.msg[x].children) /\ Par[m] = parent
      BY <3>1
    <3> HIDE DEF Par, Kid, Par2, Kid2, moved, parent, left, L, K
    <3> QED  BY <1>1, <3>2 DEF parent
  <2> QED  BY <2>1
<1>9. K \in SUBSET Nat
  BY DEF Hist
<1>10. /\ Par[m] = None \/ Par[m] \in L
       /\ \A x \in L : Par2[x] = None \/ (Par2[x] \in L /\ Par2[x] < x)
       /\ \A p \in L : Kid2[p] = {c \in L : Par2[c] = p}
  <2> HIDE DEF Par, Kid, Par2, Kid2, moved, taken, L, K
  <2>1. m \in K
    BY DEF K
  <2>2. Rewires(K, Par, Kid, m, taken, moved, L, Par2, Kid2)
    BY <1>1, <1>4, <1>5, <1>6, <1>7, <1>8, <1>9, <2>1 DEF Rewires
  <2> QED  BY <2>2, Rewired
<1>11. /\ parent \in L \cup {None}
       /\ \A x \in L : left.msg[x].parent = None
                       \/ (left.msg[x].parent \in L /\ left.msg[x].parent < x)
       /\ \A p \in L : Range(left.msg[p].children) = Born(left.msg, p)
  <2>1. parent \in L \cup {None}
    BY <1>10
  <2>2. ASSUME NEW p \in L PROVE Range(left.msg[p].children) = Born(left.msg, p)
    <3>1. Range(left.msg[p].children) = {c \in L : Par2[c] = p}
      BY <1>10
    <3> QED  BY <3>1 DEF Born, Known
  <2>3. \A x \in L : Par2[x] = left.msg[x].parent
    OBVIOUS
  <2> HIDE DEF Par2, Kid2, left, L
  <2> QED  BY <1>10, <2>1, <2>2, <2>3
<1>12. L \subseteq Messages
  BY <1>1 DEF Hist, IsHistory
<1>13. u.current \in L \/ L = {}
  <2> HIDE DEF left, parent
  <2>1. Linked(left)
    BY <1>1, <1>11, <1>12 DEF Linked
  <2>2. SelectedBelow(left, parent) \in Known(left) \/ Known(left) = {}
    BY <1>11, <2>1, SelectedIs
  <2> QED  BY <1>2, <2>2
<1>14. Grown(u, ids)
  <2>1. L \subseteq ids /\ None \notin L
    BY <1>1, <1>12, MessagesAreNumbers DEF Grown
  <2> HIDE DEF left, L, u
  <2> QED  BY <1>2, <1>11, <1>13, <2>1 DEF Grown
<1>15. Balanced(<<>>, u.msg)
  <2> HIDE DEF left, L, u
  <2> QED  BY <1>2, <1>11, <1>14, BalancedIs
<1> QED  BY <1>14, <1>15

LEMMA MergeIsTree ==
  ASSUME NEW h, Hist(h), NEW ids, Grown(h, ids), NEW incoming, Hist(incoming),
         Grown(incoming, ids)
  PROVE  LET u == MergeHistory(h, incoming) IN Grown(u, ids) /\ Balanced(<<>>, u.msg)
<1> DEFINE u == MergeHistory(h, incoming)
           msg == Over(incoming.msg, h.msg)
<1>1. /\ Hist(u)
      /\ Known(u) = Known(h) \cup Known(incoming) /\ DOMAIN msg = Known(u)
      /\ \A m \in Known(u) : /\ u.msg[m].parent = msg[m].parent
                             /\ Range(u.msg[m].children) = Born(msg, m)
      /\ \A m \in Known(u) : msg[m] = IF m \in Known(incoming) THEN incoming.msg[m]
                                      ELSE h.msg[m]
      /\ u.current = None => h.current = None /\ incoming.current = None
  BY MergeKeeps
<1> HIDE DEF u, msg
<1>2. ASSUME NEW m \in Known(u)
      PROVE  \/ u.msg[m].parent = None
             \/ u.msg[m].parent \in Known(u) /\ u.msg[m].parent < m
  <2>1. CASE m \in Known(incoming)
    <3>1. u.msg[m].parent = incoming.msg[m].parent
      BY <1>1, <2>1
    <3> QED  BY <1>1, <2>1, <3>1 DEF Grown
  <2>2. CASE m \notin Known(incoming)
    <3>1. u.msg[m].parent = h.msg[m].parent /\ m \in Known(h)
      BY <1>1, <2>2
    <3> QED  BY <1>1, <3>1 DEF Grown
  <2> QED  BY <2>1, <2>2
<1>3. Grown(u, ids)
  BY <1>1, <1>2 DEF Grown
<1>4. \A p \in Known(u) : Range(u.msg[p].children) = Born(u.msg, p)
  <2>1. \A p \in Known(u) : Born(u.msg, p) = Born(msg, p)
    BY <1>1 DEF Born, Known
  <2> QED  BY <1>1, <2>1
<1>5. Balanced(<<>>, u.msg)
  BY <1>1, <1>3, <1>4, BalancedIs
<1> QED  BY <1>3, <1>5 DEF u
-----------------------------------------------------------------------------
\* What an operation may do to the messages: one that is not there it writes
\* as a whole, new and younger than its parent; of one that is there it keeps
\* the parent and what it lists.
Fits(op, msg, ids) ==
    op.do = "upsert" =>
      IF op.m \notin DOMAIN msg
      THEN /\ DOMAIN op.data = {"parent", "children", "done"}
           /\ op.m \in ids
           /\ op.data.parent # None => op.data.parent < op.m
      ELSE /\ "parent" \in DOMAIN op.data => op.data.parent = msg[op.m].parent
           /\ "children" \in DOMAIN op.data =>
                Range(msg[op.m].children) \subseteq Range(op.data.children)

\* The same after the operations `before`: they write other messages, and the
\* one that a link or a parent needs is there or written by them.
Placed(op, before, msg, ids) ==
    /\ Fits(op, msg, ids)
    /\ op.do = "upsert" => \A x \in before : x.m # op.m
    /\ op.do = "link" => \/ op.m \in DOMAIN msg
                         \/ \E x \in before : x.do = "upsert" /\ x.m = op.m
    /\ op.do = "upsert" /\ op.m \notin DOMAIN msg /\ op.data.parent # None =>
         \/ op.data.parent \in DOMAIN msg
         \/ \E x \in before : x.do = "upsert" /\ x.m = op.data.parent

Before(ops, k) == {ops[i] : i \in 1..(k - 1)}

AllPlaced(ops, before, msg, ids) ==
    \A k \in DOMAIN ops : Placed(ops[k], before \cup Before(ops, k), msg, ids)

\* These operations leave a tree.
Ready(ops, msg, ids) ==
    /\ Balanced(ops, msg)
    /\ AllPlaced(ops, {}, msg, ids)
    /\ \A op \in Range(ops) : /\ op.do \in {"save", "delete"} => Len(ops) = 1
                              /\ op.do = "save" => Grown(op.data, ids)

LEMMA AllPlacedNone ==
  ASSUME NEW before, NEW msg, NEW ids
  PROVE  AllPlaced(<<>>, before, msg, ids)
  BY DEF AllPlaced

LEMMA AllPlacedOne ==
  ASSUME NEW op, NEW before, NEW msg, NEW ids, Placed(op, before, msg, ids)
  PROVE  AllPlaced(<<op>>, before, msg, ids)
<1>1. DOMAIN <<op>> = {1} /\ <<op>>[1] = op
  OBVIOUS
<1>2. Before(<<op>>, 1) = {}
  BY DEF Before
<1> QED  BY <1>1, <1>2 DEF AllPlaced

\* A program in two parts.
LEMMA AllPlacedJoined ==
  ASSUME NEW S, NEW a \in Seq(S), NEW b \in Seq(S), NEW before, NEW msg, NEW ids,
         AllPlaced(a, before, msg, ids), AllPlaced(b, before \cup Range(a), msg, ids)
  PROVE  AllPlaced(a \o b, before, msg, ids)
<1> DEFINE ops == a \o b
           N == Len(a)
<1>1. /\ N \in Nat /\ DOMAIN a = 1..N /\ Len(b) \in Nat /\ DOMAIN b = 1..Len(b)
      /\ DOMAIN ops = 1..(N + Len(b))
      /\ \A i \in 1..N : ops[i] = a[i]
      /\ \A i \in 1..Len(b) : ops[N + i] = b[i]
  OBVIOUS
<1> HIDE DEF ops, N
<1>2. ASSUME NEW k \in DOMAIN ops, k =< N
      PROVE  Placed(ops[k], before \cup Before(ops, k), msg, ids)
  <2>1. k \in DOMAIN a /\ ops[k] = a[k] /\ \A i \in 1..(k - 1) : ops[i] = a[i]
    BY <1>1, <1>2
  <2>2. Before(ops, k) = Before(a, k)
    BY <2>1 DEF Before
  <2> QED  BY <2>1, <2>2 DEF AllPlaced
<1>3. ASSUME NEW k \in DOMAIN ops, k > N
      PROVE  Placed(ops[k], before \cup Before(ops, k), msg, ids)
  <2> DEFINE l == k - N
  <2>1. l \in DOMAIN b /\ k = N + l /\ ops[k] = b[l]
    BY <1>1, <1>3
  <2>2. Before(ops, k) = Range(a) \cup Before(b, l)
    <3>1. \A i \in 1..(k - 1) : \/ i \in 1..N /\ ops[i] = a[i]
                                \/ i - N \in 1..(l - 1) /\ ops[i] = b[i - N]
      BY <1>1, <1>3
    <3>2. \A i \in 1..N : i \in 1..(k - 1) /\ ops[i] = a[i]
      BY <1>1, <1>3
    <3>3. \A i \in 1..(l - 1) : N + i \in 1..(k - 1) /\ ops[N + i] = b[i]
      BY <1>1, <1>3
    <3> HIDE DEF l
    <3>4. Before(ops, k) \subseteq Range(a) \cup Before(b, l)
      BY <1>1, <3>1 DEF Before, Range
    <3>5. Range(a) \subseteq Before(ops, k)
      BY <1>1, <3>2 DEF Before, Range
    <3>6. Before(b, l) \subseteq Before(ops, k)
      BY <3>3 DEF Before
    <3> QED  BY <3>4, <3>5, <3>6
  <2> HIDE DEF l
  <2>3. Placed(b[l], (before \cup Range(a)) \cup Before(b, l), msg, ids)
    BY <2>1 DEF AllPlaced
  <2>4. (before \cup Range(a)) \cup Before(b, l) = before \cup Before(ops, k)
    BY <2>2
  <2> QED  BY <2>1, <2>3, <2>4
<1>4. \A k \in DOMAIN ops : k =< N \/ k > N
  BY <1>1
<1> QED  BY <1>2, <1>3, <1>4 DEF AllPlaced, ops

LEMMA FirstOfAll ==
  ASSUME NEW S, NEW ops \in Seq(S), ops # <<>>
  PROVE  /\ Range(ops) = {Head(ops)} \cup Range(Tail(ops))
         /\ 1 \in DOMAIN ops /\ ops[1] = Head(ops) /\ Before(ops, 1) = {}
         /\ \A k \in DOMAIN Tail(ops) :
              /\ k + 1 \in DOMAIN ops /\ ops[k + 1] = Tail(ops)[k]
              /\ Before(ops, k + 1) = {Head(ops)} \cup Before(Tail(ops), k)
<1> DEFINE N == Len(ops)
           rest == Tail(ops)
<1>1. /\ N \in Nat /\ N # 0 /\ DOMAIN ops = 1..N /\ ops[1] = Head(ops)
      /\ DOMAIN rest = 1..(N - 1) /\ \A i \in 1..(N - 1) : rest[i] = ops[i + 1]
  OBVIOUS
<1> HIDE DEF rest, N
<1>2. 1 \in DOMAIN ops /\ Before(ops, 1) = {}
  BY <1>1 DEF Before
<1>3. Range(ops) = {Head(ops)} \cup Range(rest)
  <2>1. \A i \in 1..N : i = 1 \/ (i - 1 \in 1..(N - 1) /\ rest[i - 1] = ops[i])
    BY <1>1
  <2>2. \A i \in 1..(N - 1) : i + 1 \in 1..N /\ ops[i + 1] = rest[i]
    BY <1>1
  <2>3. ASSUME NEW x \in Range(ops) PROVE x \in {Head(ops)} \cup Range(rest)
    <3>1. PICK i \in 1..N : x = ops[i]
      BY <1>1 DEF Range
    <3>2. CASE i = 1
      BY <1>1, <3>1, <3>2
    <3>3. CASE i - 1 \in 1..(N - 1) /\ rest[i - 1] = ops[i]
      <4> DEFINE l == i - 1
      <4>1. l \in DOMAIN rest /\ x = rest[l]
        BY <1>1, <3>1, <3>3
      <4> HIDE DEF l
      <4> QED  BY <4>1 DEF Range
    <3> QED  BY <2>1, <3>2, <3>3
  <2>4. Range(rest) \subseteq Range(ops)
    BY <1>1, <2>2 DEF Range
  <2>5. Head(ops) \in Range(ops)
    BY <1>1, <1>2 DEF Range
  <2> QED  BY <2>3, <2>4, <2>5
<1>4. ASSUME NEW k \in DOMAIN rest
      PROVE  /\ k + 1 \in DOMAIN ops /\ ops[k + 1] = rest[k]
             /\ Before(ops, k + 1) = {Head(ops)} \cup Before(rest, k)
  <2>1. k \in Nat /\ k + 1 \in DOMAIN ops /\ ops[k + 1] = rest[k] /\ (k + 1) - 1 = k
    BY <1>1
  <2>2. \A i \in 1..k : i = 1 \/ (i - 1 \in 1..(k - 1) /\ rest[i - 1] = ops[i])
    BY <1>1
  <2>3. \A i \in 1..(k - 1) : i + 1 \in 1..k /\ ops[i + 1] = rest[i]
    BY <1>1
  <2>4. 1 \in 1..k
    BY <1>1
  <2>5. Before(ops, k + 1) = {ops[i] : i \in 1..k}
    BY <2>1 DEF Before
  <2>6. {ops[i] : i \in 1..k} = {ops[1]} \cup {rest[i] : i \in 1..(k - 1)}
    BY <2>2, <2>3, <2>4
  <2> QED  BY <1>1, <2>1, <2>5, <2>6 DEF Before
<1> QED  BY <1>1, <1>2, <1>3, <1>4 DEF rest

\* One operation done: what it was to list and to name is listed and named.
Performed(op, msg, new) ==
    /\ DOMAIN new = DOMAIN msg \cup (IF op.do = "upsert" THEN {op.m} ELSE {})
    /\ \A x \in DOMAIN msg : ~(op.do = "upsert" /\ x = op.m) => new[x] = msg[x]
    /\ \A p, c \in Messages :
         /\ Lists(new, p, c) <=> Lists(msg, p, c) \/ Links(op, p, c)
         /\ Child(new, p, c) <=> Child(msg, p, c) \/ Names(op, p, c)

LEMMA ReadyNext ==
  ASSUME NEW S, NEW ops \in Seq(S), ops # <<>>, NEW msg, NEW ids, Ready(ops, msg, ids),
         NEW new, Performed(Head(ops), msg, new)
  PROVE  Ready(Tail(ops), new, ids)
<1> DEFINE op == Head(ops)
           rest == Tail(ops)
<1>1. /\ Range(ops) = {op} \cup Range(rest)
      /\ \A k \in DOMAIN rest : /\ k + 1 \in DOMAIN ops /\ ops[k + 1] = rest[k]
                                /\ Before(ops, k + 1) = {op} \cup Before(rest, k)
  BY FirstOfAll
<1> HIDE DEF op, rest
<1>2. Performed(op, msg, new)
  BY DEF op
<1>3. Balanced(rest, new)
  <2>1. ASSUME NEW p \in Messages, NEW c \in Messages
        PROVE  Lists(new, p, c) \/ (\E x \in Range(rest) : Links(x, p, c))
               <=> Child(new, p, c) \/ (\E x \in Range(rest) : Names(x, p, c))
    <3>1. Lists(msg, p, c) \/ (\E x \in Range(ops) : Links(x, p, c))
          <=> Child(msg, p, c) \/ (\E x \in Range(ops) : Names(x, p, c))
      BY DEF Ready, Balanced
    <3>2. /\ (\E x \in Range(ops) : Links(x, p, c))
               <=> Links(op, p, c) \/ (\E x \in Range(rest) : Links(x, p, c))
          /\ (\E x \in Range(ops) : Names(x, p, c))
               <=> Names(op, p, c) \/ (\E x \in Range(rest) : Names(x, p, c))
      BY <1>1
    <3>3. /\ Lists(new, p, c) <=> Lists(msg, p, c) \/ Links(op, p, c)
          /\ Child(new, p, c) <=> Child(msg, p, c) \/ Names(op, p, c)
      BY <1>2 DEF Performed
    <3> QED  BY <3>1, <3>2, <3>3
  <2> QED  BY <2>1 DEF Balanced
<1>4. ASSUME NEW k \in DOMAIN rest PROVE Placed(rest[k], {} \cup Before(rest, k), new, ids)
  <2> DEFINE x == rest[k]
             before == Before(rest, k)
  <2>1. Placed(x, {op} \cup before, msg, ids)
    <3>1. Placed(ops[k + 1], {} \cup Before(ops, k + 1), msg, ids)
      BY <1>1 DEF Ready, AllPlaced
    <3>2. {} \cup Before(ops, k + 1) = {op} \cup before
      BY <1>1
    <3> QED  BY <1>1, <3>1, <3>2
  <2> HIDE DEF x, before
  <2>2. Fits(x, new, ids)
    <3>1. CASE x.do # "upsert"
      BY <3>1 DEF Fits
    <3>2. CASE x.do = "upsert"
      <4>1. x.m # op.m
        BY <2>1, <3>2 DEF Placed
      <4>2. x.m \in DOMAIN new <=> x.m \in DOMAIN msg
        BY <1>2, <4>1 DEF Performed
      <4>3. x.m \in DOMAIN msg => new[x.m] = msg[x.m]
        BY <1>2, <4>1 DEF Performed
      <4> QED  BY <2>1, <3>2, <4>2, <4>3 DEF Placed, Fits
    <3> QED  BY <3>1, <3>2
  <2>3. DOMAIN msg \subseteq DOMAIN new /\ (op.do = "upsert" => op.m \in DOMAIN new)
    BY <1>2 DEF Performed
  <2>4. Placed(x, before, new, ids)
    BY <2>1, <2>2, <2>3 DEF Placed
  <2> QED  BY <2>4 DEF x, before
<1>5. \A x \in Range(rest) : /\ x.do \notin {"save", "delete"}
                             /\ x.do = "save" => Grown(x.data, ids)
  <2>1. ASSUME NEW x \in Range(rest), x.do \in {"save", "delete"} PROVE FALSE
    <3>1. Len(ops) = 1
      BY <1>1, <2>1 DEF Ready
    <3>2. DOMAIN Tail(ops) = 1..(Len(ops) - 1)
      OBVIOUS
    <3>3. DOMAIN rest = 1..0
      BY <3>1, <3>2 DEF rest
    <3>4. \A i \in 1..0 : FALSE
      OBVIOUS
    <3> QED  BY <2>1, <3>3, <3>4 DEF Range
  <2> QED  BY <2>1
<1> QED  BY <1>3, <1>4, <1>5 DEF Ready, AllPlaced, rest

\* An operation that writes no message has nothing to list either, or what it
\* lists is listed.
LEMMA NothingPerformed ==
  ASSUME NEW op, op.do # "upsert", NEW msg,
         \A p, c \in Messages : Links(op, p, c) => Lists(msg, p, c)
  PROVE  Performed(op, msg, msg)
  BY DEF Performed, Names

LEMMA UpsertPerforms ==
  ASSUME NEW h, Hist(h), NEW ids, Grown(h, ids), NEW S, NEW ops \in Seq(S), ops # <<>>,
         Ready(ops, h.msg, ids), Head(ops).do = "upsert", OpOk(Head(ops))
  PROVE  LET op == Head(ops)
             u == UpsertMessage(h, op.m, op.data) IN
         Grown(u, ids) /\ Performed(op, h.msg, u.msg)
<1> DEFINE op == Head(ops)
           m == op.m
           data == op.data
           u == UpsertMessage(h, m, data)
           rest == Tail(ops)
<1>1. m \in Messages /\ Fields(data) /\ m \in Nat /\ None \notin Messages
  BY MessagesAreNumbers DEF OpOk
<1>2. /\ Hist(u) /\ u.current = m /\ Known(u) = Known(h) \cup {m}
      /\ \A x \in Known(h) \ {m} : u.msg[x] = h.msg[x]
      /\ u.msg[m] = IF m \in Known(h) THEN Over(data, h.msg[m]) ELSE Inserted(h, m, data)
  BY <1>1, UpsertKeeps
<1>3. Placed(op, {}, h.msg, ids)
  <2>1. 1 \in DOMAIN ops /\ ops[1] = op /\ Before(ops, 1) = {}
    BY FirstOfAll
  <2>2. Placed(ops[1], {} \cup Before(ops, 1), h.msg, ids)
    BY <2>1 DEF Ready, AllPlaced
  <2> QED  BY <2>1, <2>2
<1>4. /\ Range(ops) = {op} \cup Range(rest)
      /\ \A x \in Range(rest) : x.do = "upsert" => x.m # m
  <2>1. /\ Range(ops) = {op} \cup Range(rest)
        /\ \A k \in DOMAIN rest : /\ k + 1 \in DOMAIN ops /\ ops[k + 1] = rest[k]
                                  /\ Before(ops, k + 1) = {op} \cup Before(rest, k)
    BY FirstOfAll
  <2> HIDE DEF op, rest
  <2>2. ASSUME NEW k \in DOMAIN rest, rest[k].do = "upsert" PROVE rest[k].m # op.m
    <3>1. Placed(ops[k + 1], {} \cup Before(ops, k + 1), h.msg, ids)
      BY <2>1 DEF Ready, AllPlaced
    <3>2. op \in {} \cup Before(ops, k + 1) /\ ops[k + 1] = rest[k]
      BY <2>1
    <3> QED  BY <2>2, <3>1, <3>2 DEF Placed
  <2> QED  BY <2>1, <2>2 DEF Range
<1> HIDE DEF u, rest
<1>5. CASE m \in Known(h)
  <2>1. /\ u.msg[m].parent = h.msg[m].parent
        /\ u.msg[m].children = IF "children" \in DOMAIN data THEN data.children
                               ELSE h.msg[m].children
    <3>1. h.msg[m] \in Stored
      BY <1>5 DEF Hist, IsHistory
    <3>2. /\ Over(data, h.msg[m]).parent = IF "parent" \in DOMAIN data THEN data.parent
                                           ELSE h.msg[m].parent
          /\ Over(data, h.msg[m]).children = IF "children" \in DOMAIN data THEN data.children
                                             ELSE h.msg[m].children
      BY <1>1, <3>1, OverIsStored
    <3>3. "parent" \in DOMAIN data => data.parent = h.msg[m].parent
      BY <1>3, <1>5 DEF Placed, Fits, Known
    <3> QED  BY <1>2, <1>5, <3>2, <3>3
  <2>2. "children" \in DOMAIN data => Range(h.msg[m].children) \subseteq Range(data.children)
    BY <1>3, <1>5 DEF Placed, Fits, Known
  <2>3. "parent" \in DOMAIN data => data.parent = h.msg[m].parent
    BY <1>3, <1>5 DEF Placed, Fits, Known
  <2>4. Grown(u, ids)
    <3>1. Known(u) = Known(h) /\ u.current # None
      BY <1>1, <1>2, <1>5
    <3>2. \A x \in Known(h) : u.msg[x].parent = h.msg[x].parent
      BY <1>2, <2>1
    <3> QED  BY <3>1, <3>2 DEF Grown
  <2>5. DOMAIN u.msg = DOMAIN h.msg /\ m \in DOMAIN h.msg
        /\ \A x \in DOMAIN h.msg : x # m => u.msg[x] = h.msg[x]
    BY <1>2, <1>5 DEF Known
  <2> HIDE DEF op
  <2>7. op.do = "upsert"
    BY DEF op
  <2>6. ASSUME NEW p \in Messages, NEW c \in Messages
        PROVE  /\ Lists(u.msg, p, c) <=> Lists(h.msg, p, c) \/ Links(op, p, c)
               /\ Child(u.msg, p, c) <=> Child(h.msg, p, c) \/ Names(op, p, c)
    <3>1. Lists(u.msg, p, c) <=> Lists(h.msg, p, c) \/ Links(op, p, c)
      BY <2>1, <2>2, <2>5, <2>7 DEF Lists, Links
    <3>2. Child(u.msg, p, c) <=> Child(h.msg, p, c) \/ Names(op, p, c)
      BY <2>1, <2>3, <2>5, <2>7 DEF Child, Names
    <3> QED  BY <3>1, <3>2
  <2>8. Performed(op, h.msg, u.msg)
    BY <2>5, <2>6, <2>7 DEF Performed
  <2> QED  BY <2>4, <2>8 DEF u, op
<1>6. CASE m \notin Known(h)
  <2>1. /\ DOMAIN data = {"parent", "children", "done"} /\ m \in ids
        /\ data.parent # None => (data.parent < m /\ data.parent \in Known(h))
    BY <1>3, <1>6 DEF Placed, Fits, Known
  <2>2. data.parent = None => \A p \in Known(h) : m \notin Range(h.msg[p].children)
    <3>1. ASSUME data.parent = None, NEW p \in Known(h), m \in Range(h.msg[p].children)
          PROVE  FALSE
      <4>1. p \in Messages /\ Lists(h.msg, p, m)
        BY <3>1 DEF Hist, IsHistory, Lists, Known
      <4>2. Child(h.msg, p, m) \/ (\E x \in Range(ops) : Names(x, p, m))
        BY <1>1, <4>1 DEF Ready, Balanced
      <4>3. ~Child(h.msg, p, m)
        BY <1>6 DEF Child, Known
      <4>4. PICK x \in Range(ops) : Names(x, p, m)
        BY <4>2, <4>3
      <4>5. x = op
        BY <1>4, <4>4 DEF Names
      <4> QED  BY <1>1, <3>1, <4>1, <4>4, <4>5 DEF Names
    <3> QED  BY <3>1
  <2>3. u.msg[m].parent = data.parent /\ u.msg[m].children = data.children
    <3>1. m \in Messages \ Known(h)
      BY <1>1, <1>6
    <3>2. /\ Inserted(h, m, data).children = data.children
          /\ data.parent # None => Inserted(h, m, data).parent = data.parent
          /\ (\A p \in Known(h) : m \notin Range(h.msg[p].children))
               => Inserted(h, m, data).parent = data.parent
      BY <1>1, <2>1, <3>1, InsertedIs
    <3> QED  BY <1>2, <1>6, <2>2, <3>2
  <2>4. Grown(u, ids)
    <3>1. u.current # None /\ Known(u) \subseteq ids
      BY <1>1, <1>2, <2>1 DEF Grown
    <3>2. ASSUME NEW x \in Known(u)
          PROVE  \/ u.msg[x].parent = None
                 \/ u.msg[x].parent \in Known(u) /\ u.msg[x].parent < x
      <4>1. CASE x = m
        BY <1>2, <2>1, <2>3, <4>1
      <4>2. CASE x # m
        <5>1. x \in Known(h) /\ u.msg[x] = h.msg[x]
          BY <1>2, <4>2
        <5> QED  BY <1>2, <5>1 DEF Grown
      <4> QED  BY <4>1, <4>2
    <3> QED  BY <3>1, <3>2 DEF Grown
  <2>5. DOMAIN u.msg = DOMAIN h.msg \cup {m} /\ m \notin DOMAIN h.msg
        /\ \A x \in DOMAIN h.msg : u.msg[x] = h.msg[x]
    BY <1>2, <1>6 DEF Known
  <2> HIDE DEF op
  <2>7. op.do = "upsert"
    BY DEF op
  <2>6. ASSUME NEW p \in Messages, NEW c \in Messages
        PROVE  /\ Lists(u.msg, p, c) <=> Lists(h.msg, p, c) \/ Links(op, p, c)
               /\ Child(u.msg, p, c) <=> Child(h.msg, p, c) \/ Names(op, p, c)
    <3>1. Lists(u.msg, p, c) <=> Lists(h.msg, p, c) \/ Links(op, p, c)
      BY <2>1, <2>3, <2>5, <2>7 DEF Lists, Links
    <3>2. Child(u.msg, p, c) <=> Child(h.msg, p, c) \/ Names(op, p, c)
      BY <2>1, <2>3, <2>5, <2>7 DEF Child, Names
    <3> QED  BY <3>1, <3>2
  <2>8. Performed(op, h.msg, u.msg)
    BY <2>5, <2>6, <2>7 DEF Performed
  <2> QED  BY <2>4, <2>8 DEF u, op
<1> QED  BY <1>5, <1>6
\* Nothing comes with a save or a deletion.
LEMMA OnlyAlone ==
  ASSUME NEW S, NEW ops \in Seq(S), ops # <<>>, NEW msg, NEW ids, Ready(ops, msg, ids)
  PROVE  /\ \A x \in Range(Tail(ops)) : x.do \notin {"save", "delete"}
         /\ Head(ops).do \in {"save", "delete"} => Tail(ops) = <<>>
<1>1. Range(ops) = {Head(ops)} \cup Range(Tail(ops))
  BY FirstOfAll
<1>2. Tail(ops) \in Seq(S) /\ Len(Tail(ops)) = Len(ops) - 1 /\ Len(ops) \in Nat
  OBVIOUS
<1>3. ASSUME NEW x \in Range(ops), x.do \in {"save", "delete"} PROVE Tail(ops) = <<>>
  <2>1. Len(ops) = 1
    BY <1>3 DEF Ready
  <2> DEFINE rest == Tail(ops)
  <2>2. rest \in Seq(S) /\ Len(rest) = 0
    BY <1>2, <2>1
  <2> HIDE DEF rest
  <2>3. rest = <<>>
    BY <2>2
  <2> QED  BY <2>3 DEF rest
<1>4. ASSUME NEW x \in Range(Tail(ops)), x.do \in {"save", "delete"} PROVE FALSE
  <2>1. Tail(ops) = <<>>
    BY <1>1, <1>3, <1>4
  <2> QED  BY <1>4, <2>1 DEF Range
<1> QED  BY <1>1, <1>3, <1>4

LEMMA NothingLeft ==
  ASSUME NEW msg, NEW ids
  PROVE  Ready(<<>>, msg, ids) <=> Balanced(<<>>, msg)
<1>1. Range(<<>>) = {}
  BY DEF Range
<1> QED  BY <1>1, AllPlacedNone DEF Ready

LEMMA Passed ==
  ASSUME NEW S, NEW ops \in Seq(S), ops # <<>>, NEW msg, NEW ids, Ready(ops, msg, ids),
         Head(ops).do \notin {"upsert", "link"}
  PROVE  Ready(Tail(ops), msg, ids)
<1> DEFINE op == Head(ops)
<1>1. \A p, c \in Messages : Links(op, p, c) => Lists(msg, p, c)
  BY DEF Links
<1> HIDE DEF op
<1>2. Performed(op, msg, msg)
  BY <1>1, NothingPerformed DEF op
<1> QED  BY <1>2, ReadyNext DEF op

\* What the document has been brought to, and the operations still to be done
\* on it leave a tree; while one is at work, those after it do on what it
\* writes.
Stage(t, h, ids) ==
    /\ t.pc = "idle" => Balanced(<<>>, h.msg)
    /\ t.pc = "next" => Ready(t.ops, h.msg, ids)
    /\ t.pc \in {"row", "write"} =>
         Grown(t.snap, ids) /\ Ready(Tail(t.ops), t.snap.msg, ids)
    /\ t.pc \in {"chat", "rows"} => Ready(Tail(t.ops), h.msg, ids)

TreeInv ==
    calm =>
      /\ Grown(doc, Arrived) /\ Grown(tab, Arrived)
      /\ Quiet => Balanced(<<>>, doc.msg)
      /\ \A j \in Jobs : job[j].pc # "idle" => Stage(job[j], doc, Arrived)

\* The only job goes from one stage to the next.
Grows(j, t) ==
    /\ job' = [job EXCEPT ![j] = t]
    /\ UNCHANGED <<calm, sent, tab>>
    /\ Grown(doc', Arrived) /\ Stage(t, doc', Arrived)

LEMMA DoneTree ==
  ASSUME HistInv, NEW j \in Jobs, job[j].pc # "idle", job' = [job EXCEPT ![j] = Done(j)],
         UNCHANGED <<calm, sent, tab>>, Grown(doc', Arrived),
         Ready(Tail(job[j].ops), doc'.msg, Arrived)
  PROVE  \E t : Grows(j, t)
<1> DEFINE rest == Tail(job[j].ops)
           pc == IF rest = <<>> THEN "idle" ELSE "next"
<1>1. Done(j) = [Idle EXCEPT !.ops = rest, !.pc = pc]
  BY DEF Done
<1>2. Ready(rest, doc'.msg, Arrived)
  OBVIOUS
<1> HIDE DEF rest
<1>3. Done(j).ops = rest /\ Done(j).pc = pc
  BY <1>1, IdleOk DEF JobOk
<1>4. Stage(Done(j), doc', Arrived)
  BY <1>2, <1>3, NothingLeft DEF Stage
<1>5. Grows(j, Done(j))
  BY <1>4 DEF Grows
<1> QED  BY <1>5

LEMMA ProgramIs ==
  ASSUME NEW t, JobOk(t), t.pc # "idle"
  PROVE  t.ops # <<>> /\ \E S : t.ops \in Seq(S)
  BY DEF JobOk, Program

LEMMA LoadTree ==
  ASSUME HistInv, NEW j \in Jobs, Load(j), Grown(doc, Arrived), Stage(job[j], doc, Arrived)
  PROVE  \E t : Grows(j, t)
<1> DEFINE op == Head(job[j].ops)
           changed == Changed(op, doc)
           pc == IF op.do = "upsert" THEN "row" ELSE "write"
           gone == IF op.do = "delete" THEN DeletedWith(doc, op.m) ELSE {}
           t == [job[j] EXCEPT !.snap = changed, !.pc = pc, !.gone = gone]
<1>1. /\ JobOk(job[j]) /\ job[j].pc = "next" /\ tab' = tab /\ calm' = calm /\ sent' = sent
      /\ op.do \in {"touch", "upsert", "save", "delete"} /\ OpOk(op) /\ Hist(doc)
  BY HeadOk DEF HistInv, Load, counts
<1>2. RepairCurrent(doc) = doc
  BY <1>1, RepairChangesNothing
<1>3. doc' = doc
  BY <1>2 DEF Load, Read
<1>4. PICK S : job[j].ops \in Seq(S)
  BY <1>1, ProgramIs
<1>5. job[j].ops # <<>> /\ Ready(job[j].ops, doc.msg, Arrived)
  BY <1>1, ProgramIs DEF Stage
<1>6. op.do # "upsert" => Ready(Tail(job[j].ops), doc.msg, Arrived)
  BY <1>1, <1>4, <1>5, Passed
<1>7. CASE op.do = "delete" /\ op.m \notin Known(doc)
  <2>1. job' = [job EXCEPT ![j] = Done(j)]
    BY <1>7 DEF Load
  <2> QED  BY <1>1, <1>3, <1>6, <1>7, <2>1, DoneTree
<1>8. CASE op.do = "delete" => op.m \in Known(doc)
  <2>1. job' = [job EXCEPT ![j] = t]
    BY <1>2, <1>8 DEF Load
  <2>2. t.pc = pc /\ t.snap = changed /\ t.ops = job[j].ops
    <3> HIDE DEF changed, pc, gone
    <3> QED  BY <1>1 DEF JobOk
  <2>3. Grown(changed, Arrived) /\ Ready(Tail(job[j].ops), changed.msg, Arrived)
    <3>1. CASE op.do = "touch"
      <4>1. changed = doc
        BY <3>1 DEF Changed
      <4> QED  BY <1>6, <3>1, <4>1
    <3>2. CASE op.do = "upsert"
      <4>1. changed = UpsertMessage(doc, op.m, op.data)
        BY <3>2 DEF Changed
      <4>2. Grown(changed, Arrived) /\ Performed(op, doc.msg, changed.msg)
        BY <1>1, <1>4, <1>5, <3>2, <4>1, UpsertPerforms
      <4> HIDE DEF changed
      <4> QED  BY <1>4, <1>5, <4>2, ReadyNext
    <3>3. CASE op.do \in {"save", "delete"}
      <4>1. Tail(job[j].ops) = <<>>
        BY <1>4, <1>5, <3>3, OnlyAlone
      <4>2. Balanced(<<>>, doc.msg)
        BY <1>6, <3>3, <4>1, NothingLeft
      <4>3. ASSUME op.do = "save" PROVE Grown(changed, Arrived) /\ Balanced(<<>>, changed.msg)
        <5>1. changed = MergeHistory(doc, op.data) /\ Hist(op.data)
          BY <1>1, <4>3 DEF Changed, OpOk
        <5>2. Grown(op.data, Arrived)
          <6>1. op \in Range(job[j].ops)
            BY <1>4, <1>5, FirstOfAll
          <6> QED  BY <1>5, <4>3, <6>1 DEF Ready
        <5> QED  BY <1>1, <5>1, <5>2, MergeIsTree
      <4>4. ASSUME op.do = "delete" PROVE Grown(changed, Arrived) /\ Balanced(<<>>, changed.msg)
        <5>1. changed = DeleteMessage(doc, op.m) /\ op.m \in Known(doc)
          BY <1>8, <4>4 DEF Changed
        <5> QED  BY <1>1, <4>2, <5>1, DeleteIsTree
      <4>5. Grown(changed, Arrived) /\ Balanced(<<>>, changed.msg)
        BY <3>3, <4>3, <4>4
      <4> HIDE DEF changed
      <4> QED  BY <4>1, <4>5, NothingLeft
    <3> QED  BY <1>1, <3>1, <3>2, <3>3
  <2>4. pc \in {"row", "write"}
    OBVIOUS
  <2> HIDE DEF t, changed, pc
  <2>5. Stage(t, doc', Arrived)
    BY <2>2, <2>3, <2>4 DEF Stage
  <2>6. Grows(j, t)
    BY <1>1, <1>3, <2>1, <2>5 DEF Grows
  <2> QED  BY <2>6
<1> QED  BY <1>7, <1>8
\* A link is replaced by the writing of the list it makes longer.
LEMMA LinkRead ==
  ASSUME NEW S, NEW ops \in Seq(S), ops # <<>>, NEW msg, NEW ids, Ready(ops, msg, ids),
         Head(ops).do = "link", Head(ops).m \in DOMAIN msg, NEW added,
         Range(added) = Range(msg[Head(ops).m].children) \cup Range(Head(ops).data)
  PROVE  Ready(<<Upsert(Head(ops).m, [children |-> added])>> \o Tail(ops), msg, ids)
<1> DEFINE op == Head(ops)
           rest == Tail(ops)
           write == Upsert(op.m, [children |-> added])
           new == <<write>> \o rest
           R == S \cup {write}
<1>1. /\ Range(ops) = {op} \cup Range(rest)
      /\ \A k \in DOMAIN rest : /\ k + 1 \in DOMAIN ops /\ ops[k + 1] = rest[k]
                                /\ Before(ops, k + 1) = {op} \cup Before(rest, k)
  BY FirstOfAll
<1>2. \A x \in Range(rest) : x.do \notin {"save", "delete"}
  BY OnlyAlone
<1>3. <<write>> \in Seq(R) /\ rest \in Seq(R) /\ Range(<<write>>) = {write}
  <2>1. rest \in Seq(S) /\ <<write>> \in Seq({write})
    OBVIOUS
  <2>2. DOMAIN <<write>> = {1} /\ <<write>>[1] = write
    OBVIOUS
  <2> HIDE DEF rest, write
  <2> QED  BY <2>1, <2>2 DEF Range
<1>4. /\ write.do = "upsert" /\ write.m = op.m /\ DOMAIN write.data = {"children"}
      /\ write.data.children = added
  BY DEF Upsert, Op
<1>5. op.do = "link" /\ op.m \in DOMAIN msg
      /\ Range(added) = Range(msg[op.m].children) \cup Range(op.data)
  OBVIOUS
<1> HIDE DEF op, rest, write, R
<1>6. Range(new) = {write} \cup Range(rest)
  <2> DEFINE one == <<write>>
  <2>1. one \in Seq(R) /\ Range(one) = {write} /\ new = one \o rest
    BY <1>3
  <2> HIDE DEF one, new
  <2> QED  BY <1>3, <2>1, JoinedIs
<1>7. Balanced(new, msg)
  <2>1. ASSUME NEW p \in Messages, NEW c \in Messages
        PROVE  Lists(msg, p, c) \/ (\E x \in Range(new) : Links(x, p, c))
               <=> Child(msg, p, c) \/ (\E x \in Range(new) : Names(x, p, c))
    <3>1. Lists(msg, p, c) \/ (\E x \in Range(ops) : Links(x, p, c))
          <=> Child(msg, p, c) \/ (\E x \in Range(ops) : Names(x, p, c))
      BY DEF Ready, Balanced
    <3>2. Lists(msg, p, c) \/ Links(write, p, c) <=> Lists(msg, p, c) \/ Links(op, p, c)
      BY <1>4, <1>5 DEF Lists, Links
    <3>3. ~Names(write, p, c) /\ ~Names(op, p, c)
      BY <1>4, <1>5 DEF Names
    <3> HIDE DEF new
    <3>4. /\ (\E x \in Range(new) : Links(x, p, c))
               <=> Links(write, p, c) \/ (\E x \in Range(rest) : Links(x, p, c))
          /\ (\E x \in Range(new) : Names(x, p, c))
               <=> Names(write, p, c) \/ (\E x \in Range(rest) : Names(x, p, c))
      BY <1>6
    <3>5. /\ (\E x \in Range(ops) : Links(x, p, c))
               <=> Links(op, p, c) \/ (\E x \in Range(rest) : Links(x, p, c))
          /\ (\E x \in Range(ops) : Names(x, p, c))
               <=> Names(op, p, c) \/ (\E x \in Range(rest) : Names(x, p, c))
      BY <1>1
    <3> QED  BY <3>1, <3>2, <3>3, <3>4, <3>5
  <2> QED  BY <2>1 DEF Balanced
<1>8. AllPlaced(<<write>>, {}, msg, ids)
  <2>1. Placed(write, {}, msg, ids)
    BY <1>4, <1>5 DEF Placed, Fits
  <2> QED  BY <2>1, AllPlacedOne
<1>9. AllPlaced(rest, {} \cup Range(<<write>>), msg, ids)
  <2>1. ASSUME NEW k \in DOMAIN rest
        PROVE  Placed(rest[k], ({} \cup Range(<<write>>)) \cup Before(rest, k), msg, ids)
    <3> DEFINE x == rest[k]
               before == Before(rest, k)
    <3>1. Placed(ops[k + 1], {} \cup Before(ops, k + 1), msg, ids)
      BY <1>1 DEF Ready, AllPlaced
    <3>2. {} \cup Before(ops, k + 1) = {op} \cup before /\ ops[k + 1] = x
      BY <1>1
    <3>3. Placed(x, {op} \cup before, msg, ids)
      BY <3>1, <3>2
    <3> HIDE DEF x, before
    <3>4. Placed(x, {write} \cup before, msg, ids)
      BY <1>4, <1>5, <3>3 DEF Placed
    <3>5. ({} \cup Range(<<write>>)) \cup before = {write} \cup before
      BY <1>3
    <3> QED  BY <3>4, <3>5 DEF x, before
  <2> QED  BY <2>1 DEF AllPlaced
<1>10. AllPlaced(new, {}, msg, ids)
  BY <1>3, <1>8, <1>9, AllPlacedJoined
<1>11. \A x \in Range(new) : x.do \notin {"save", "delete"}
  BY <1>2, <1>4, <1>6
<1> HIDE DEF new
<1>12. Ready(new, msg, ids)
  BY <1>7, <1>10, <1>11 DEF Ready
<1> QED  BY <1>12 DEF new, write, rest, op

LEMMA LoadLinkTree ==
  ASSUME HistInv, NEW j \in Jobs, LoadLink(j), Grown(doc, Arrived),
         Stage(job[j], doc, Arrived)
  PROVE  \E t : Grows(j, t)
<1> DEFINE op == Head(job[j].ops)
           ids == doc.msg[op.m].children
           new == Sublist(op.data, Range(op.data) \ Range(ids))
           added == ids \o new
           ops == <<Upsert(op.m, [children |-> added])>> \o Tail(job[j].ops)
           t == [job[j] EXCEPT !.ops = ops]
<1>1. /\ JobOk(job[j]) /\ job[j].pc = "next" /\ tab' = tab /\ calm' = calm /\ sent' = sent
      /\ op.do = "link" /\ OpOk(op) /\ Hist(doc)
  BY HeadOk DEF HistInv, LoadLink, Doing, counts
<1>2. doc' = doc
  BY <1>1, RepairChangesNothing DEF LoadLink, Read
<1>3. PICK S : job[j].ops \in Seq(S)
  BY <1>1, ProgramIs
<1>4. job[j].ops # <<>> /\ Ready(job[j].ops, doc.msg, Arrived)
  BY <1>1, ProgramIs DEF Stage
<1>5. op.m \in DOMAIN doc.msg
  <2>1. 1 \in DOMAIN job[j].ops /\ job[j].ops[1] = op /\ Before(job[j].ops, 1) = {}
    BY <1>3, <1>4, FirstOfAll
  <2>2. Placed(op, {} \cup Before(job[j].ops, 1), doc.msg, Arrived)
    BY <1>4, <2>1 DEF Ready, AllPlaced
  <2> QED  BY <1>1, <2>1, <2>2 DEF Placed
<1>6. Range(added) = Range(ids) \cup Range(op.data)
  <2>1. op.data \in Seq(Messages) /\ ids \in Seq(Messages)
    BY <1>1, <1>5 DEF OpOk, Hist, IsHistory, Stored, Known
  <2> HIDE DEF op, ids
  <2>2. new \in Seq(Messages)
        /\ Range(new) = Range(op.data) \cap (Range(op.data) \ Range(ids))
    BY <2>1, SublistIs
  <2> HIDE DEF new
  <2>3. Range(added) = Range(ids) \cup Range(new)
    BY <2>1, <2>2, JoinedIs
  <2> QED  BY <2>2, <2>3
<1>7. CASE job' = [job EXCEPT ![j] = Done(j)] /\ added = ids
  <2>1. Range(op.data) \subseteq Range(ids)
    BY <1>6, <1>7
  <2>2. \A p, c \in Messages : Links(op, p, c) => Lists(doc.msg, p, c)
    BY <1>1, <1>5, <2>1 DEF Links, Lists
  <2>3. Performed(op, doc.msg, doc.msg)
    <3> HIDE DEF op
    <3> QED  BY <1>1, <2>2, NothingPerformed
  <2>4. Ready(Tail(job[j].ops), doc.msg, Arrived)
    BY <1>3, <1>4, <2>3, ReadyNext
  <2> QED  BY <1>1, <1>2, <1>7, <2>4, DoneTree
<1>8. CASE job' = [job EXCEPT ![j] = t]
  <2>1. Ready(ops, doc.msg, Arrived)
    <3> HIDE DEF added
    <3> QED  BY <1>1, <1>3, <1>4, <1>5, <1>6, LinkRead
  <2> HIDE DEF ops
  <2>2. t.pc = "next" /\ t.ops = ops
    BY <1>1 DEF JobOk
  <2> HIDE DEF t
  <2>3. Stage(t, doc', Arrived)
    BY <1>2, <2>1, <2>2 DEF Stage
  <2>4. Grows(j, t)
    BY <1>1, <1>2, <1>8, <2>3 DEF Grows
  <2> QED  BY <2>4
<1>9. op.m \in Known(doc)
  BY <1>5 DEF Known
<1> QED  BY <1>7, <1>8, <1>9 DEF LoadLink

\* The steps that write rows, and those that end an operation.
LEMMA RowStepsTree ==
  ASSUME HistInv, NEW j \in Jobs, Grown(doc, Arrived), Stage(job[j], doc, Arrived),
         \/ WriteRow(j) \/ DeleteRows(j) \/ WalkRows(j) \/ CreateTasks(j)
         \/ \E m \in job[j].todo : BackfillRow(j, m)
  PROVE  \E t : Grows(j, t)
<1>1. /\ JobOk(job[j]) /\ job[j].pc # "idle" /\ doc' = doc /\ tab' = tab /\ calm' = calm
      /\ sent' = sent /\ DOMAIN job = Jobs
  BY DEF HistInv, WriteRow, DeleteRows, WalkRows, CreateTasks, BackfillRow, Doing, counts
<1>2. PICK S : job[j].ops \in Seq(S)
  BY <1>1, ProgramIs
<1>3. ASSUME job[j].pc = "next", Head(job[j].ops).do \in {"walk", "tasks"}
      PROVE  Ready(Tail(job[j].ops), doc.msg, Arrived)
  <2>1. job[j].ops # <<>> /\ Ready(job[j].ops, doc.msg, Arrived)
    BY <1>1, <1>3, ProgramIs DEF Stage
  <2> QED  BY <1>2, <1>3, <2>1, Passed
<1>4. ASSUME NEW t, job' = [job EXCEPT ![j] = t], t.pc \in {"chat", "rows"},
             t.ops = job[j].ops, Ready(Tail(job[j].ops), doc.msg, Arrived)
      PROVE  \E u : Grows(j, u)
  <2>1. Grows(j, t)
    BY <1>1, <1>4 DEF Grows, Stage
  <2> QED  BY <2>1
<1>5. CASE WriteRow(j)
  <2> DEFINE t == [job[j] EXCEPT !.pc = "write"]
  <2>1. job' = [job EXCEPT ![j] = t] /\ job[j].pc = "row"
    BY <1>1, <1>5 DEF WriteRow, Doing
  <2>2. t.pc = "write" /\ t.ops = job[j].ops /\ t.snap = job[j].snap
    BY <1>1 DEF JobOk
  <2> HIDE DEF t
  <2>3. Grows(j, t)
    BY <1>1, <2>1, <2>2 DEF Grows, Stage
  <2> QED  BY <2>3
<1>6. CASE DeleteRows(j)
  <2>1. job' = [job EXCEPT ![j] = Done(j)] /\ Ready(Tail(job[j].ops), doc.msg, Arrived)
    BY <1>6 DEF DeleteRows, Stage
  <2> QED  BY <1>1, <2>1, DoneTree
<1>7. CASE CreateTasks(j)
  <2>1. job' = [job EXCEPT ![j] = Done(j)] /\ Ready(Tail(job[j].ops), doc.msg, Arrived)
    BY <1>3, <1>7 DEF CreateTasks, Doing
  <2> QED  BY <1>1, <2>1, DoneTree
<1>8. CASE WalkRows(j)
  <2> DEFINE t == [job[j] EXCEPT !.pc = "chat", !.map = rows]
  <2>1. Ready(Tail(job[j].ops), doc.msg, Arrived)
    BY <1>3, <1>8 DEF WalkRows, Doing
  <2>2. \/ job' = [job EXCEPT ![j] = Done(j)]
        \/ job' = [job EXCEPT ![j].pc = "chat", ![j].map = rows]
    BY <1>8 DEF WalkRows
  <2>3. [job EXCEPT ![j].pc = "chat", ![j].map = rows] = [job EXCEPT ![j] = t]
    BY <1>1 DEF JobOk
  <2>4. t.pc = "chat" /\ t.ops = job[j].ops
    BY <1>1 DEF JobOk
  <2> HIDE DEF t
  <2> QED  BY <1>1, <1>4, <2>1, <2>2, <2>3, <2>4, DoneTree
<1>9. ASSUME NEW m \in job[j].todo, BackfillRow(j, m) PROVE \E t : Grows(j, t)
  <2> DEFINE t == [job[j] EXCEPT !.todo = job[j].todo \ {m}]
  <2>1. job[j].pc = "rows" /\ Ready(Tail(job[j].ops), doc.msg, Arrived)
    BY <1>9 DEF BackfillRow, Stage
  <2>2. job' = [job EXCEPT ![j] = Done(j)] \/ job' = [job EXCEPT ![j] = t]
    BY <1>9 DEF BackfillRow, AfterRow
  <2>3. t.pc = "rows" /\ t.ops = job[j].ops
    BY <1>1, <2>1 DEF JobOk
  <2> HIDE DEF t
  <2> QED  BY <1>1, <1>4, <2>1, <2>2, <2>3, DoneTree
<1> QED  BY <1>5, <1>6, <1>7, <1>8, <1>9

LEMMA WriteDocTree ==
  ASSUME HistInv, NEW j \in Jobs, WriteDoc(j), Stage(job[j], doc, Arrived)
  PROVE  \E t : Grows(j, t)
<1> DEFINE t == [job[j] EXCEPT !.pc = "rows", !.todo = Known(job[j].snap)]
<1>1. /\ JobOk(job[j]) /\ job[j].pc = "write" /\ tab' = tab /\ calm' = calm
      /\ sent' = sent /\ doc' = job[j].snap
      /\ job' = [job EXCEPT ![j] = Done(j)] \/ job' = [job EXCEPT ![j] = t]
  BY DEF HistInv, WriteDoc, AfterWrite, counts
<1>2. Grown(doc', Arrived) /\ Ready(Tail(job[j].ops), doc'.msg, Arrived)
  BY <1>1 DEF Stage
<1>3. t.pc = "rows" /\ t.ops = job[j].ops
  BY <1>1 DEF JobOk
<1> HIDE DEF t
<1>4. CASE job' = [job EXCEPT ![j] = t]
  <2>1. Grows(j, t)
    BY <1>1, <1>2, <1>3, <1>4 DEF Grows, Stage
  <2> QED  BY <2>1
<1> QED  BY <1>1, <1>2, <1>4, DoneTree

LEMMA WalkChatTree ==
  ASSUME HistInv, NEW j \in Jobs, WalkChat(j), Grown(doc, Arrived),
         Stage(job[j], doc, Arrived)
  PROVE  \E t : Grows(j, t)
<1> DEFINE missing == IF job[j].map = <<>> THEN Known(doc)
                      ELSE Unresolved(job[j].map) \cap Known(doc)
           t == [job[j] EXCEPT !.pc = "rows", !.snap = doc, !.map = <<>>, !.todo = missing]
<1>1. /\ JobOk(job[j]) /\ job[j].pc = "chat" /\ tab' = tab /\ calm' = calm
      /\ sent' = sent
      /\ job' = [job EXCEPT ![j] = Done(j)] \/ job' = [job EXCEPT ![j] = t]
  BY DEF HistInv, WalkChat, Doing, counts
<1>2. doc' = doc
  BY RepairChangesNothing DEF WalkChat, Read, HistInv
<1>3. Ready(Tail(job[j].ops), doc'.msg, Arrived)
  BY <1>1, <1>2 DEF Stage
<1> HIDE DEF missing
<1>4. t.pc = "rows" /\ t.ops = job[j].ops
  BY <1>1 DEF JobOk
<1> HIDE DEF t
<1>5. CASE job' = [job EXCEPT ![j] = t]
  <2>1. Grows(j, t)
    BY <1>1, <1>2, <1>3, <1>4, <1>5 DEF Grows, Stage
  <2> QED  BY <2>1
<1> QED  BY <1>1, <1>2, <1>3, <1>5, DoneTree

LEMMA StepTree ==
  ASSUME HistInv, NEW j \in Jobs, Step(j), Grown(doc, Arrived), Stage(job[j], doc, Arrived)
  PROVE  \E t : Grows(j, t)
  BY LoadTree, LoadLinkTree, RowStepsTree, WriteDocTree, WalkChatTree DEF Step
\* What a request is to do leaves a tree, when it is alone.
Starts(j, ops) ==
    /\ Begin(j, ops)
    /\ UNCHANGED <<doc, tab>>
    /\ calm' => /\ calm /\ Quiet
                /\ Arrived \subseteq Arrived'
                /\ Ready(ops, doc.msg, Arrived')

LEMMA GrownWithMore ==
  ASSUME NEW h, NEW ids, NEW more, ids \subseteq more, Grown(h, ids)
  PROVE  Grown(h, more)
  BY DEF Grown

\* Programs that add no link and name no new parent.
LEMMA PlainProgram ==
  ASSUME NEW S, NEW ops \in Seq(S), NEW msg, Balanced(<<>>, msg),
         \A op \in Range(ops) : \A p, c \in Messages :
             ~Links(op, p, c) /\ (Names(op, p, c) => Child(msg, p, c))
  PROVE  Balanced(ops, msg)
<1>1. Range(<<>>) = {}
  BY DEF Range
<1>2. \A p, c \in Messages : Lists(msg, p, c) <=> Child(msg, p, c)
  BY <1>1 DEF Balanced
<1> QED  BY <1>2 DEF Balanced

LEMMA SoleReady ==
  ASSUME NEW op, op.do \in {"save", "delete"}, NEW msg, NEW ids, Balanced(<<>>, msg),
         op.do = "save" => Grown(op.data, ids)
  PROVE  Ready(<<op>>, msg, ids)
<1>1. <<op>> \in Seq({op}) /\ DOMAIN <<op>> = {1} /\ <<op>>[1] = op /\ Len(<<op>>) = 1
  OBVIOUS
<1>2. Range(<<op>>) = {op}
  BY <1>1 DEF Range
<1>3. Placed(op, {}, msg, ids)
  BY DEF Placed, Fits
<1>4. AllPlaced(<<op>>, {}, msg, ids)
  BY <1>3, AllPlacedOne
<1>5. \A x \in Range(<<op>>) : \A p, c \in Messages : ~Links(x, p, c) /\ ~Names(x, p, c)
  BY <1>2 DEF Links, Names
<1>6. Balanced(<<op>>, msg)
  BY <1>1, <1>5, PlainProgram
<1> QED  BY <1>1, <1>2, <1>4, <1>6 DEF Ready

LEMMA ReplyReady ==
  ASSUME NEW t \in Turns, NEW m, NEW msg, NEW ids, Balanced(<<>>, msg),
         m \in DOMAIN msg, msg[m].parent = t.user, t.user # m,
         NEW data, data = [done |-> TRUE] \/ data = [parent |-> t.user]
  PROVE  Ready(<<Walk(t.user), Upsert(m, data)>>, msg, ids)
<1> DEFINE walk == Walk(t.user)
           write == Upsert(m, data)
           ops == <<walk, write>>
           S == {walk, write}
<1>1. /\ walk.do = "walk" /\ walk.m = t.user
      /\ write.do = "upsert" /\ write.m = m /\ write.data = data
  BY DEF Walk, Upsert, Op
<1>2. /\ "children" \notin DOMAIN data
      /\ "parent" \in DOMAIN data => data.parent = t.user
  OBVIOUS
<1> HIDE DEF walk, write
<1>3. ops \in Seq(S) /\ DOMAIN ops = 1..2 /\ ops[1] = walk /\ ops[2] = write /\ Len(ops) = 2
  OBVIOUS
<1> HIDE DEF ops
<1>4. Range(ops) = S /\ Before(ops, 1) = {} /\ Before(ops, 2) = {walk}
  <2>1. 1..2 = {1, 2} /\ 1..(1 - 1) = {} /\ 1..(2 - 1) = {1}
    OBVIOUS
  <2> QED  BY <1>3, <2>1 DEF Range, Before
<1>5. AllPlaced(ops, {}, msg, ids)
  <2>1. Placed(walk, {}, msg, ids)
    BY <1>1 DEF Placed, Fits
  <2>2. Placed(write, {walk}, msg, ids)
    BY <1>1, <1>2 DEF Placed, Fits
  <2>3. \A k \in DOMAIN ops : k = 1 \/ k = 2
    BY <1>3
  <2>4. {} \cup {} = {} /\ {} \cup {walk} = {walk}
    OBVIOUS
  <2> QED  BY <1>3, <1>4, <2>1, <2>2, <2>3, <2>4 DEF AllPlaced
<1>6. ASSUME NEW x \in Range(ops), NEW p \in Messages, NEW c \in Messages
      PROVE  ~Links(x, p, c) /\ (Names(x, p, c) => Child(msg, p, c))
  BY <1>1, <1>2, <1>4 DEF Links, Names, Child
<1>7. Balanced(ops, msg)
  BY <1>3, <1>6, PlainProgram
<1>8. \A x \in Range(ops) : x.do \notin {"save", "delete"}
  BY <1>1, <1>4
<1>9. Ready(ops, msg, ids)
  BY <1>5, <1>7, <1>8 DEF Ready
<1> QED  BY <1>9 DEF ops, walk, write

\* The program of a turn: every message is new, the user's is written before
\* those that name it, and each is listed as often as it names its parent.
LEMMA TurnReady ==
  ASSUME NEW t \in Turns, NEW h, Hist(h), NEW ids, Grown(h, ids), Balanced(<<>>, h.msg),
         Ids(t) \subseteq ids, \A m \in Known(h) : m < t.user,
         NEW current \in Known(h) \cup {None}
  PROVE  Ready(<<Touch, Upsert(t.user, Message(current, t.replies, TRUE))>>
                 \o (IF current = None THEN <<>> ELSE <<Link(current, <<t.user>>)>>)
                 \o <<Link(t.user, t.replies)>> \o Placeholders(t)
                 \o <<Tasks(t.replies)>>, h.msg, ids)
<1> DEFINE user == Upsert(t.user, Message(current, t.replies, TRUE))
           up == Link(current, <<t.user>>)
           ups == IF current = None THEN <<>> ELSE <<up>>
           down == Link(t.user, t.replies)
           place(i) == Upsert(t.replies[i], Message(t.user, <<>>, FALSE))
           tasks == Tasks(t.replies)
           msg == h.msg
           placed == {place(i) : i \in DOMAIN t.replies}
           S == {Touch, user, up, down, tasks} \cup placed
<1>1. /\ t.user \in Messages /\ t.replies \in Seq(Messages)
      /\ \A i \in DOMAIN t.replies : t.replies[i] \in Messages
      /\ DOMAIN t.replies = 1..Len(t.replies) /\ Len(t.replies) \in Nat
  BY TurnIs
<1>2. /\ t.user \in Nat /\ None \notin Nat /\ DOMAIN msg \subseteq Nat
      /\ Messages \subseteq Nat /\ DOMAIN msg \subseteq Messages
      /\ \A m \in DOMAIN msg : m < t.user
      /\ \A i \in DOMAIN t.replies : t.user < t.replies[i]
      /\ \A i, k \in DOMAIN t.replies : t.replies[i] = t.replies[k] => i = k
      /\ t.user \in ids /\ \A i \in DOMAIN t.replies : t.replies[i] \in ids
  <2>1. t.user \in Nat /\ None \notin Nat /\ Messages \subseteq Nat
    BY StoreAssumption, MessagesAreNumbers
  <2>2. DOMAIN msg \subseteq Messages /\ \A m \in DOMAIN msg : m < t.user
    BY DEF Hist, IsHistory, Known
  <2>3. \A i \in DOMAIN t.replies : t.replies[i] \in Range(t.replies)
    BY DEF Range
  <2>4. \A i \in DOMAIN t.replies : t.user < t.replies[i]
    BY <2>3, StoreAssumption
  <2>5. \A i, k \in DOMAIN t.replies : t.replies[i] = t.replies[k] => i = k
    BY StoreAssumption DEF IsInjective
  <2>6. t.user \in ids /\ \A i \in DOMAIN t.replies : t.replies[i] \in ids
    BY <2>3 DEF Ids
  <2> QED  BY <2>1, <2>2, <2>4, <2>5, <2>6
<1>3. /\ t.user \notin DOMAIN msg
      /\ \A i \in DOMAIN t.replies : t.replies[i] \notin DOMAIN msg /\ t.replies[i] # t.user
  <2>1. \A m \in DOMAIN msg : m \in Nat /\ m < t.user
    BY <1>2
  <2>2. \A i \in DOMAIN t.replies : t.replies[i] \in Nat /\ t.user < t.replies[i]
    BY <1>1, <1>2
  <2> HIDE DEF msg
  <2> QED  BY <1>2, <2>1, <2>2
<1>4. current # None => current \in DOMAIN msg /\ current < t.user /\ current \in Nat
  BY <1>2 DEF Known
<1>5. /\ Touch.do = "touch" /\ Touch.m = None
      /\ user.do = "upsert" /\ user.m = t.user
      /\ user.data.parent = current /\ user.data.children = t.replies
      /\ DOMAIN user.data = {"parent", "children", "done"}
      /\ up.do = "link" /\ up.m = current /\ up.data = <<t.user>>
      /\ down.do = "link" /\ down.m = t.user /\ down.data = t.replies
      /\ tasks.do = "tasks"
  BY DEF Touch, Upsert, Link, Tasks, Op, Message
<1>6. \A i \in DOMAIN t.replies :
        /\ place(i).do = "upsert" /\ place(i).m = t.replies[i]
        /\ place(i).data.parent = t.user /\ place(i).data.children = <<>>
        /\ DOMAIN place(i).data = {"parent", "children", "done"}
  BY DEF Upsert, Op, Message
<1>7. Placeholders(t) = [i \in 1..Len(t.replies) |-> place(i)]
  BY <1>1 DEF Placeholders
<1> DEFINE phs == Placeholders(t)
<1> HIDE DEF user, up, down, place, tasks
<1>8. /\ phs \in Seq(S) /\ Range(phs) = placed /\ DOMAIN phs = DOMAIN t.replies
      /\ \A i \in DOMAIN t.replies : phs[i] = place(i)
  <2>1. \A i \in 1..Len(t.replies) : place(i) \in placed
    BY <1>1
  <2>2. phs \in Seq(placed) /\ DOMAIN phs = 1..Len(t.replies)
        /\ \A i \in 1..Len(t.replies) : phs[i] = place(i)
    <3> HIDE DEF placed
    <3> QED  BY <1>1, <1>7, <2>1
  <2>3. phs \in Seq(S)
    <3>1. placed \subseteq S
      OBVIOUS
    <3> HIDE DEF phs, placed, S
    <3> QED  BY <2>2, <3>1
  <2>4. Range(phs) = placed
    <3> HIDE DEF phs
    <3> QED  BY <1>1, <2>2 DEF Range
  <2> QED  BY <1>1, <2>2, <2>3, <2>4
<1> HIDE DEF phs
<1>9. /\ <<Touch, user>> \in Seq(S) /\ Range(<<Touch, user>>) = {Touch, user}
      /\ <<down>> \in Seq(S) /\ Range(<<down>>) = {down}
      /\ <<tasks>> \in Seq(S) /\ Range(<<tasks>>) = {tasks}
      /\ <<up>> \in Seq(S) /\ Range(<<up>>) = {up}
      /\ <<>> \in Seq(S) /\ Range(<<>>) = {}
  <2>0. {Touch, user, up, down, tasks} \subseteq S
    OBVIOUS
  <2> HIDE DEF S
  <2>1. <<Touch, user>> \in Seq(S) /\ <<down>> \in Seq(S) /\ <<tasks>> \in Seq(S)
        /\ <<up>> \in Seq(S) /\ <<>> \in Seq(S)
    BY <2>0
  <2>2. DOMAIN <<Touch, user>> = {1, 2} /\ <<Touch, user>>[1] = Touch
        /\ <<Touch, user>>[2] = user
    OBVIOUS
  <2>3. \A x : DOMAIN <<x>> = {1} /\ <<x>>[1] = x
    OBVIOUS
  <2> QED  BY <2>1, <2>2, <2>3 DEF Range
<1>10. /\ ups \in Seq(S)
       /\ Range(ups) = IF current = None THEN {} ELSE {up}
  BY <1>9
<1> HIDE DEF ups, S, placed
<1> DEFINE a == <<Touch, user>>
           b == a \o ups
           c == b \o <<down>>
           d == c \o phs
           ops == d \o <<tasks>>
<1>11. b \in Seq(S) /\ Range(b) = {Touch, user} \cup Range(ups)
  <2>1. a \in Seq(S) /\ Range(a) = {Touch, user}
    BY <1>9
  <2> HIDE DEF a
  <2> QED  BY <1>10, <2>1, JoinedIs
<1> HIDE DEF b
<1>12. c \in Seq(S) /\ Range(c) = {Touch, user, down} \cup Range(ups)
  <2> DEFINE one == <<down>>
  <2>1. one \in Seq(S) /\ Range(one) = {down} /\ c = b \o one
    BY <1>9
  <2> HIDE DEF one, c
  <2> QED  BY <1>11, <2>1, JoinedIs
<1> HIDE DEF c
<1>13. d \in Seq(S) /\ Range(d) = {Touch, user, down} \cup Range(ups) \cup placed
  BY <1>8, <1>12, JoinedIs
<1> HIDE DEF d
<1>14. ops \in Seq(S)
       /\ Range(ops) = {Touch, user, down, tasks} \cup Range(ups) \cup placed
  BY <1>9, <1>13, JoinedIs
<1> HIDE DEF ops, msg
\* each in its place
<1>15. AllPlaced(a, {}, msg, ids)
  <2>1. Placed(Touch, {}, msg, ids)
    BY <1>5 DEF Placed, Fits
  <2>2. Placed(user, {Touch}, msg, ids)
    <3>1. Fits(user, msg, ids)
      BY <1>2, <1>3, <1>4, <1>5 DEF Fits
    <3>2. Touch.m # user.m
      BY <1>2, <1>5
    <3> QED  BY <1>3, <1>4, <1>5, <3>1, <3>2 DEF Placed
  <2>3. /\ \A k \in DOMAIN a : k = 1 \/ k = 2
        /\ a[1] = Touch /\ a[2] = user
    OBVIOUS
  <2>4. {} \cup Before(a, 1) = {} /\ {} \cup Before(a, 2) = {Touch}
    <3>1. 1..(1 - 1) = {} /\ 1..(2 - 1) = {1}
      OBVIOUS
    <3> QED  BY <2>3, <3>1 DEF Before
  <2> HIDE DEF a
  <2> QED  BY <2>1, <2>2, <2>3, <2>4 DEF AllPlaced
<1>16. AllPlaced(ups, {} \cup Range(a), msg, ids)
  <2>1. current # None => Placed(up, {} \cup Range(a), msg, ids)
    BY <1>4, <1>5 DEF Placed, Fits
  <2> QED  BY <2>1, AllPlacedNone, AllPlacedOne DEF ups
<1>17. AllPlaced(b, {}, msg, ids)
  <2> HIDE DEF a
  <2> QED  BY <1>9, <1>10, <1>15, <1>16, AllPlacedJoined DEF b, a
<1>18. AllPlaced(<<down>>, {} \cup Range(b), msg, ids)
  <2>1. Placed(down, {} \cup Range(b), msg, ids)
    BY <1>5, <1>11 DEF Placed, Fits
  <2> QED  BY <2>1, AllPlacedOne
<1>19. AllPlaced(c, {}, msg, ids)
  BY <1>9, <1>11, <1>17, <1>18, AllPlacedJoined DEF c
<1>20. AllPlaced(phs, {} \cup Range(c), msg, ids)
  <2>1. ASSUME NEW i \in DOMAIN phs
        PROVE  Placed(phs[i], ({} \cup Range(c)) \cup Before(phs, i), msg, ids)
    <3> DEFINE before == ({} \cup Range(c)) \cup Before(phs, i)
               x == place(i)
    <3>1. i \in DOMAIN t.replies /\ phs[i] = x /\ x.m = t.replies[i] /\ x.do = "upsert"
          /\ x.data.parent = t.user /\ x.data.children = <<>>
          /\ DOMAIN x.data = {"parent", "children", "done"}
      BY <1>6, <1>8, <2>1
    <3>2. user \in before
      BY <1>12
    <3>3. ASSUME NEW y \in before PROVE y.m # t.replies[i]
      <4>1. CASE y \in {Touch, user, down}
        <5>1. t.replies[i] # None /\ t.replies[i] # t.user
          BY <1>1, <1>2, <1>3, <3>1
        <5>2. y.m = None \/ y.m = t.user
          BY <1>5, <4>1
        <5> QED  BY <5>1, <5>2
      <4>2. CASE y \in Range(ups)
        <5>1. y = up /\ current # None
          BY <1>10, <4>2
        <5> QED  BY <1>3, <1>4, <1>5, <3>1, <5>1
      <4>3. CASE y \in Before(phs, i)
        <5>1. PICK k \in 1..(i - 1) : y = phs[k]
          BY <4>3 DEF Before
        <5>2. k \in DOMAIN t.replies /\ k # i
          BY <1>1, <3>1, <5>1
        <5>3. y.m = t.replies[k]
          BY <1>6, <1>8, <5>1, <5>2
        <5> QED  BY <1>2, <3>1, <5>2, <5>3
      <4> QED  BY <1>12, <3>3, <4>1, <4>2, <4>3
    <3>4. x.m \notin DOMAIN msg /\ x.m \in ids /\ t.user < x.m
      BY <1>2, <1>3, <3>1
    <3> HIDE DEF before, x
    <3>5. Fits(x, msg, ids)
      BY <3>1, <3>4 DEF Fits
    <3>6. Placed(x, before, msg, ids)
      BY <1>5, <3>1, <3>2, <3>3, <3>4, <3>5 DEF Placed
    <3> QED  BY <3>1, <3>6 DEF before
  <2> QED  BY <2>1 DEF AllPlaced
<1>21. AllPlaced(d, {}, msg, ids)
  BY <1>8, <1>12, <1>19, <1>20, AllPlacedJoined DEF d
<1>22. AllPlaced(<<tasks>>, {} \cup Range(d), msg, ids)
  <2>1. Placed(tasks, {} \cup Range(d), msg, ids)
    BY <1>5 DEF Placed, Fits
  <2> QED  BY <2>1, AllPlacedOne
<1>23. AllPlaced(ops, {}, msg, ids)
  BY <1>9, <1>13, <1>21, <1>22, AllPlacedJoined DEF ops
\* listed as often as named
<1>24. Balanced(ops, msg)
  <2>1. ASSUME NEW p \in Messages, NEW x \in Messages
        PROVE  Lists(msg, p, x) \/ (\E op \in Range(ops) : Links(op, p, x))
               <=> Child(msg, p, x) \/ (\E op \in Range(ops) : Names(op, p, x))
    <3>1. Lists(msg, p, x) <=> Child(msg, p, x)
      <4>1. Range(<<>>) = {}
        BY DEF Range
      <4> QED  BY <4>1 DEF Balanced, msg
    <3> DEFINE first == p = t.user /\ x \in Range(t.replies)
               top == p = current /\ x = t.user
    <3>0. p # None /\ \A l : l \in Range(<<t.user>>) <=> l = t.user
      <4>1. DOMAIN <<t.user>> = {1} /\ <<t.user>>[1] = t.user
        OBVIOUS
      <4> QED  BY <1>2, <4>1 DEF Range
    <3>2. (\E op \in Range(ops) : Links(op, p, x)) <=> first \/ top
      <4>1. ASSUME NEW op \in Range(ops), Links(op, p, x) PROVE first \/ top
        <5>1. op # Touch /\ op # tasks
          BY <1>5, <4>1 DEF Links
        <5>2. CASE op = user \/ op = down
          BY <1>5, <4>1, <5>2 DEF Links
        <5>3. CASE op \in Range(ups)
          <6>1. op = up /\ current # None
            BY <1>10, <5>3
          <6> QED  BY <1>5, <3>0, <4>1, <6>1 DEF Links
        <5>4. CASE op \in placed
          <6>1. PICK i \in DOMAIN t.replies : op = place(i)
            BY <5>4 DEF placed
          <6>2. op.do = "upsert" /\ op.data.children = <<>>
            BY <1>6, <6>1
          <6>3. Range(<<>>) = {}
            BY DEF Range
          <6> QED  BY <4>1, <6>2, <6>3 DEF Links
        <5> QED  BY <1>14, <4>1, <5>1, <5>2, <5>3, <5>4
      <4>2. ASSUME first PROVE \E op \in Range(ops) : Links(op, p, x)
        <5>1. down \in Range(ops) /\ Links(down, p, x)
          BY <1>5, <1>14, <4>2 DEF Links
        <5> QED  BY <5>1
      <4>3. ASSUME top PROVE \E op \in Range(ops) : Links(op, p, x)
        <5>1. current # None
          BY <3>0, <4>3
        <5>2. up \in Range(ops) /\ Links(up, p, x)
          BY <1>5, <1>10, <1>14, <3>0, <4>3, <5>1 DEF Links
        <5> QED  BY <5>2
      <4> QED  BY <4>1, <4>2, <4>3
    <3>3. (\E op \in Range(ops) : Names(op, p, x)) <=> first \/ top
      <4>1. ASSUME NEW op \in Range(ops), Names(op, p, x) PROVE first \/ top
        <5>1. op # Touch /\ op # tasks /\ op # down /\ op \notin Range(ups)
          <6>1. op.do = "upsert"
            BY <4>1 DEF Names
          <6> QED  BY <1>5, <1>10, <6>1
        <5>2. CASE op = user
          BY <1>5, <4>1, <5>2 DEF Names
        <5>3. CASE op \in placed
          <6>1. PICK i \in DOMAIN t.replies : op = place(i)
            BY <5>3 DEF placed
          <6>2. op.m = t.replies[i] /\ op.data.parent = t.user
            BY <1>6, <6>1
          <6> QED  BY <4>1, <6>1, <6>2 DEF Names, Range
        <5> QED  BY <1>14, <4>1, <5>1, <5>2, <5>3
      <4>2. ASSUME first PROVE \E op \in Range(ops) : Names(op, p, x)
        <5>1. PICK i \in DOMAIN t.replies : x = t.replies[i]
          BY <4>2 DEF Range
        <5>2. place(i) \in Range(ops) /\ Names(place(i), p, x)
          BY <1>6, <1>14, <4>2, <5>1 DEF Names, placed
        <5> QED  BY <5>2
      <4>3. ASSUME top PROVE \E op \in Range(ops) : Names(op, p, x)
        <5>1. user \in Range(ops) /\ Names(user, p, x)
          BY <1>5, <1>14, <4>3 DEF Names
        <5> QED  BY <5>1
      <4> QED  BY <4>1, <4>2, <4>3
    <3> QED  BY <3>1, <3>2, <3>3
  <2> QED  BY <2>1 DEF Balanced
<1>25. \A x \in Range(ops) : x.do \notin {"save", "delete"}
  <2>1. \A x \in placed : x.do = "upsert"
    BY <1>6 DEF placed
  <2> QED  BY <1>5, <1>10, <1>14, <2>1
<1>26. Ready(ops, msg, ids)
  BY <1>23, <1>24, <1>25 DEF Ready
<1> QED  BY <1>26 DEF ops, d, c, b, a, ups, phs, msg, user, up, down, tasks
LEMMA SendStarts ==
  ASSUME HistInv, TreeInv, NEW j \in Jobs, NEW t \in Turns, Send(j, t)
  PROVE  \E ops : Starts(j, ops)
<1> DEFINE ops == <<Touch, Upsert(t.user, Message(tab.current, t.replies, TRUE))>>
                    \o (IF tab.current = None THEN <<>>
                        ELSE <<Link(tab.current, <<t.user>>)>>)
                    \o <<Link(t.user, t.replies)>> \o Placeholders(t)
                    \o <<Tasks(t.replies)>>
<1>1. /\ Begin(j, ops) /\ doc' = doc /\ tab' = tab /\ sent' = sent \cup {t}
      /\ calm' = (calm /\ Quiet /\ tab.current \in Known(doc) \cup {None})
      /\ \A m \in Arrived : m < t.user
  BY DEF Send
<1>2. Arrived' = Arrived \cup Ids(t)
  BY <1>1 DEF Arrived
<1>3. ASSUME calm' PROVE Ready(ops, doc.msg, Arrived')
  <2>1. calm /\ Quiet /\ tab.current \in Known(doc) \cup {None}
    BY <1>1, <1>3
  <2>2. Grown(doc, Arrived) /\ Balanced(<<>>, doc.msg) /\ Hist(doc)
    BY <2>1 DEF TreeInv, HistInv
  <2>3. Grown(doc, Arrived') /\ Ids(t) \subseteq Arrived'
    BY <1>2, <2>2, GrownWithMore
  <2>4. \A m \in Known(doc) : m < t.user
    BY <1>1, <2>2 DEF Grown
  <2> QED  BY <2>1, <2>2, <2>3, <2>4, TurnReady
<1> HIDE DEF ops
<1>4. Starts(j, ops)
  BY <1>1, <1>2, <1>3 DEF Starts
<1> QED  BY <1>4

LEMMA ReplyStarts ==
  ASSUME HistInv, TreeInv, NEW j \in Jobs, NEW t \in Turns, NEW m \in Range(t.replies),
         NEW data, data = [done |-> TRUE] \/ data = [parent |-> t.user], Reply(j, t, m, data)
  PROVE  \E ops : Starts(j, ops)
<1> DEFINE ops == <<Walk(t.user), Upsert(m, data)>>
<1>1. /\ Begin(j, ops) /\ doc' = doc /\ tab' = tab /\ sent' = sent
      /\ calm' = (calm /\ Quiet /\ m \in Known(doc) /\ doc.msg[m].parent = t.user)
  BY DEF Reply
<1>2. Arrived' = Arrived
  BY <1>1 DEF Arrived
<1>3. ASSUME calm' PROVE Ready(ops, doc.msg, Arrived')
  <2>1. calm /\ Quiet /\ m \in DOMAIN doc.msg /\ doc.msg[m].parent = t.user
    BY <1>1, <1>3 DEF Known
  <2>2. Balanced(<<>>, doc.msg)
    BY <2>1 DEF TreeInv
  <2>3. t.user # m
    <3>1. t.user \in Nat /\ t.replies \in Seq(Nat) /\ t.user < m
      BY StoreAssumption
    <3>2. m \in Nat
      BY <3>1, ListIs
    <3> QED  BY <3>1, <3>2
  <2> QED  BY <2>1, <2>2, <2>3, ReplyReady
<1> HIDE DEF ops
<1>4. Starts(j, ops)
  BY <1>1, <1>2, <1>3 DEF Starts
<1> QED  BY <1>4

LEMMA SoleStarts ==
  ASSUME HistInv, TreeInv, NEW j \in Jobs, NEW op, op = Save(tab) \/ (\E m : op = Delete(m)),
         Begin(j, <<op>>), UNCHANGED <<doc, tab, sent>>, calm' => calm /\ Quiet
  PROVE  \E ops : Starts(j, ops)
<1>1. /\ op.do \in {"save", "delete"}
      /\ op.do = "save" => op.data = tab
  BY DEF Save, Delete, Op
<1>2. Arrived' = Arrived
  BY DEF Arrived
<1>3. ASSUME calm' PROVE Ready(<<op>>, doc.msg, Arrived')
  <2>1. Balanced(<<>>, doc.msg) /\ Grown(tab, Arrived)
    BY <1>3 DEF TreeInv
  <2> QED  BY <1>1, <1>2, <2>1, SoleReady
<1>4. Starts(j, <<op>>)
  BY <1>2, <1>3 DEF Starts
<1> QED  BY <1>4

LEMMA RequestStarts ==
  ASSUME HistInv, TreeInv, NEW j \in Jobs,
         \/ \E t \in Turns : Send(j, t)
         \/ Answer(j) \/ Fail(j) \/ SaveTab(j)
         \/ \E m \in Messages : DeleteFromTab(j, m)
  PROVE  \E ops : Starts(j, ops)
<1>1. ASSUME NEW t \in Turns, Send(j, t) PROVE \E ops : Starts(j, ops)
  BY <1>1, SendStarts
<1>2. CASE Answer(j)
  BY <1>2, ReplyStarts DEF Answer
<1>3. CASE Fail(j)
  BY <1>3, ReplyStarts DEF Fail
<1>4. CASE SaveTab(j)
  BY <1>4, SoleStarts DEF SaveTab
<1>5. ASSUME NEW m \in Messages, DeleteFromTab(j, m) PROVE \E ops : Starts(j, ops)
  BY <1>5, SoleStarts DEF DeleteFromTab
<1> QED  BY <1>1, <1>2, <1>3, <1>4, <1>5

LEMMA NextTree == HistInv /\ RowsInv /\ TreeInv /\ [Next]_vars => TreeInv'
<1> SUFFICES ASSUME HistInv, RowsInv, TreeInv, [Next]_vars, calm' PROVE TreeInv'
  BY DEF TreeInv
<1>1. CASE UNCHANGED vars
  <2>1. doc' = doc /\ tab' = tab /\ job' = job /\ calm' = calm /\ Arrived' = Arrived
    BY <1>1 DEF vars, Arrived
  <2> QED  BY <2>1 DEF TreeInv, Quiet
<1>2. CASE Reload
  <2>1. doc' = RepairCurrent(doc) /\ tab' = doc' /\ job' = job /\ calm' = calm
        /\ Arrived' = Arrived
    BY <1>2 DEF Reload, Arrived
  <2>2. Grown(doc, Arrived)
    BY <2>1 DEF TreeInv
  <2>3. doc' = doc
    BY <2>1, <2>2, RepairChangesNothing DEF HistInv
  <2>4. tab' = doc
    BY <2>1, <2>3
  <2> QED  BY <2>1, <2>2, <2>3, <2>4 DEF TreeInv, Quiet
<1>3. ASSUME NEW j \in Jobs,
             \/ \E t \in Turns : Send(j, t)
             \/ Answer(j) \/ Fail(j) \/ SaveTab(j)
             \/ \E m \in Messages : DeleteFromTab(j, m)
      PROVE  TreeInv'
  <2>1. PICK ops : Starts(j, ops)
    BY <1>3, RequestStarts
  <2> DEFINE t == [Idle EXCEPT !.ops = ops, !.pc = "next"]
  <2>2. /\ calm /\ Quiet /\ doc' = doc /\ tab' = tab /\ job' = [job EXCEPT ![j] = t]
        /\ Ready(ops, doc.msg, Arrived') /\ Arrived \subseteq Arrived'
    BY <2>1 DEF Starts, Begin
  <2>3. t.pc = "next" /\ t.ops = ops
    BY IdleOk DEF JobOk
  <2> HIDE DEF t
  <2>4. Grown(doc', Arrived') /\ Grown(tab', Arrived')
    BY <2>2, GrownWithMore DEF TreeInv
  <2>5. Stage(t, doc', Arrived')
    BY <2>2, <2>3 DEF Stage
  <2>6. job'[j] = t /\ \A i \in Jobs \ {j} : job'[i].pc = "idle"
    BY <2>2 DEF Quiet, HistInv
  <2> QED  BY <2>3, <2>4, <2>5, <2>6 DEF TreeInv, Quiet
<1>4. ASSUME NEW j \in Jobs, Step(j) PROVE TreeInv'
  <2>1. job[j].pc # "idle" /\ (calm' = calm)
    BY <1>4 DEF Step, Load, LoadLink, WriteRow, WriteDoc, BackfillRow, DeleteRows,
                WalkRows, WalkChat, CreateTasks, Doing
  <2>2. \A i \in Jobs \ {j} : job[i].pc = "idle"
    BY <2>1 DEF RowsInv
  <2>3. Grown(doc, Arrived) /\ Grown(tab, Arrived) /\ Stage(job[j], doc, Arrived)
    BY <2>1 DEF TreeInv
  <2>4. PICK t : Grows(j, t)
    BY <1>4, <2>3, StepTree
  <2>5. Arrived' = Arrived /\ tab' = tab
    BY <2>4 DEF Grows, Arrived
  <2>6. /\ job'[j] = t /\ \A i \in Jobs \ {j} : job'[i].pc = "idle"
        /\ Grown(doc', Arrived) /\ Stage(t, doc', Arrived)
    BY <2>2, <2>4 DEF Grows, HistInv
  <2>7. t.pc = "idle" => Balanced(<<>>, doc'.msg)
    BY <2>6 DEF Stage
  <2> QED  BY <2>3, <2>5, <2>6, <2>7 DEF TreeInv, Quiet
<1>5. ASSUME NEW j \in Jobs, RowFails(j) \/ DocFails(j) \/ Abort(j) PROVE FALSE
  BY <1>5 DEF RowFails, DocFails, Abort, Fault
<1> QED  BY <1>1, <1>2, <1>3, <1>4, <1>5 DEF Next

LEMMA InitTree == Init => TreeInv
<1> SUFFICES ASSUME Init PROVE TreeInv
  OBVIOUS
<1>1. doc = Old /\ tab = Old /\ \A j \in Jobs : job[j].pc = "idle"
  BY IdleOk DEF Init
<1>2. Grown(Old, Arrived)
  <2>1. ASSUME NEW m \in Known(Old), Old.msg[m].parent # None
        PROVE  Old.msg[m].parent \in Known(Old) /\ Old.msg[m].parent < m
    BY <2>1, OldTreeAssumption DEF IsTree, Unresolved, Known
  <2> QED  BY <2>1, OldTreeAssumption DEF Grown, Arrived, IsTree
<1>3. Balanced(<<>>, Old.msg)
  BY <1>2, OldIsHist, BalancedIs, OldTreeAssumption DEF IsTree
<1> QED  BY <1>1, <1>2, <1>3 DEF TreeInv

(* Requests that do not overlap leave a tree: every parent is there, every *)
(* message lists just those that name it, and there is a selected message. *)
(* While one is at work, what it has still to do on the document makes it  *)
(* one again (Ready, Balanced); and no cycle can come, as every message is *)
(* younger than its parent.                                                *)
THEOREM ChatIsATree == Spec => []TreeWhenCalm
<1>1. HistInv /\ TreeInv => TreeWhenCalm
  <2> SUFFICES ASSUME HistInv, TreeInv, calm, Quiet PROVE IsTree(doc)
    BY DEF TreeWhenCalm
  <2>1. Hist(doc) /\ Grown(doc, Arrived) /\ Balanced(<<>>, doc.msg)
    BY DEF HistInv, TreeInv
  <2>2. Unresolved(doc.msg) = {}
    BY <2>1 DEF Grown, Unresolved, Known
  <2>3. \A p \in Known(doc) : Range(doc.msg[p].children) = Born(doc.msg, p)
    BY <2>1, BalancedIs
  <2> QED  BY <2>1, <2>2, <2>3 DEF IsTree, Grown
<1> QED  BY <1>1, InitRows, NextRows, InitTree, NextTree, HistoriesStayHistories, PTL DEF Spec
====
