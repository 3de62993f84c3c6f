------------------------ MODULE SequencesExt_proofs -------------------------
(***************************************************************************)
(* Induction over numbers and sequences in a form that can be cited (over  *)
(* sets, where the library's theorems are over operators), and with it     *)
(* what FlattenSeq does to any sequence of sequences, that a function      *)
(* defined by itself further along a sequence exists, and how sequences    *)
(* are cut and put together.                                               *)
(***************************************************************************)
EXTENDS Integers, SequencesExt, SequenceTheorems, WellFoundedInduction, TLAPS

\* Induction over the numbers, for a set of them.
LEMMA SetInduct ==
    ASSUME NEW T \in SUBSET Nat, 0 \in T, \A n \in T : n + 1 \in T
    PROVE  T = Nat
<1> DEFINE R == {p \in Nat \X Nat : p[1] < p[2]}
           U == Nat \ T
<1>1. IsWellFoundedOn(R, Nat)
  <2>1. R = OpToRel(<, Nat)
    BY DEF OpToRel
  <2> QED
    BY <2>1, NatLessThanWellFounded
<1> SUFFICES ASSUME U # {} PROVE FALSE
  OBVIOUS
<1>2. U \subseteq Nat
  OBVIOUS
<1> HIDE DEF R, U
<1>3. \E x \in U : \A y \in U : <<y, x>> \notin R
  BY <1>1, <1>2, WFMin
<1> USE DEF R, U
<1>4. PICK x \in U : \A y \in U : <<y, x>> \notin R
  BY <1>3
<1>5. x \in Nat /\ x # 0 /\ x - 1 \in Nat /\ x - 1 < x
  OBVIOUS
<1>6. x - 1 \in T
  BY <1>4, <1>5
<1> QED
  BY <1>5, <1>6

\* Induction over sequences: a set that has the empty one and, with a sequence,
\* each that is longer by one element, has all of them.
LEMMA SeqInduct ==
    ASSUME NEW S, NEW T \in SUBSET Seq(S), <<>> \in T, \A s \in T, e \in S : Append(s, e) \in T
    PROVE  T = Seq(S)
<1> DEFINE N == {n \in Nat : \A s \in Seq(S) : Len(s) = n => s \in T}
<1>1. 0 \in N
  BY EmptySeq
<1>2. ASSUME NEW n \in N PROVE n + 1 \in N
  <2> SUFFICES ASSUME NEW s \in Seq(S), Len(s) = n + 1 PROVE s \in T
    OBVIOUS
  <2>1. s # <<>>
    OBVIOUS
  <2>2. PICK t \in Seq(S), e \in S : s = Append(t, e)
    BY <2>1, SequenceEmptyOrAppend
  <2>3. Len(s) = Len(t) + 1 /\ Len(t) \in Nat
    BY <2>2, AppendProperties, LenProperties
  <2>4. t \in T
    BY <2>3
  <2> QED
    BY <2>2, <2>4
<1> HIDE DEF N
<1>3. N = Nat
  BY <1>1, <1>2, SetInduct DEF N
<1> QED
  BY <1>3, LenProperties DEF N

-----------------------------------------------------------------------------
(* Where the elements of a concatenation come from *)

\* Elements of a concatenation.
LEMMA Joined ==
    ASSUME NEW S, NEW a \in Seq(S), NEW b \in Seq(S), NEW w, w = a \o b
    PROVE  /\ w \in Seq(S)
           /\ Len(a) \in Nat /\ Len(b) \in Nat /\ Len(w) = Len(a) + Len(b)
           /\ \A i \in 1..Len(a) : w[i] = a[i]
           /\ \A i \in 1..Len(b) : w[Len(a) + i] = b[i]
<1> DEFINE n == Len(a)
           m == Len(b)
<1>1. /\ w \in Seq(S) /\ Len(w) = n + m /\ n \in Nat /\ m \in Nat
      /\ \A i \in 1..n + m : w[i] = IF i <= n THEN a[i] ELSE b[i - n]
  BY ConcatProperties, LenProperties
<1> HIDE DEF n, m
<1>2. \A i \in 1..n : i \in 1..n + m /\ i <= n
  BY <1>1
<1>3. \A i \in 1..m : n + i \in 1..n + m /\ ~ n + i <= n /\ (n + i) - n = i
  BY <1>1
<1>4. \A i \in 1..n : w[i] = a[i]
  BY <1>1, <1>2
<1>5. \A i \in 1..m : w[n + i] = b[i]
  BY <1>1, <1>3
<1> QED
  BY <1>1, <1>4, <1>5 DEF n, m

\* Names for equations between concatenations, as the provers do not find their
\* instances otherwise.
Regroups(a, b, c) == (a \o b) \o c = a \o (b \o c)

\* Concatenation is associative.
LEMMA Regrouped ==
    ASSUME NEW S, NEW a \in Seq(S), NEW b \in Seq(S), NEW c \in Seq(S)
    PROVE  Regroups(a, b, c)
BY ConcatAssociative DEF Regroups

Regroups4(a, b, c, d) ==
  /\ (a \o b) \o (c \o d) = ((a \o b) \o c) \o d
  /\ (a \o (b \o c)) \o d = ((a \o b) \o c) \o d

LEMMA Regrouped4 ==
    ASSUME NEW S, NEW a \in Seq(S), NEW b \in Seq(S), NEW c \in Seq(S), NEW d \in Seq(S)
    PROVE  Regroups4(a, b, c, d)
<1> DEFINE e == a \o b
<1>1. Regroups(a, b, c)
  BY Regrouped
<1>2. e \in Seq(S)
  BY ConcatProperties
<1> HIDE DEF e
<1>3. Regroups(e, c, d)
  BY <1>2, Regrouped
<1> QED
  BY <1>1, <1>3 DEF Regroups, Regroups4, e

\* What is longer by one element than s, and like it otherwise, is appended to.
LEMMA ExtendedByOne ==
    ASSUME NEW S, NEW s \in Seq(S), NEW t \in Seq(S), NEW e \in S,
           Len(t) = Len(s) + 1, t[Len(s) + 1] = e, \A i \in 1..Len(s) : t[i] = s[i]
    PROVE  t = Append(s, e)
<1> DEFINE u == Append(s, e)
<1>1. /\ u \in Seq(S) /\ Len(u) = Len(s) + 1 /\ u[Len(s) + 1] = e
      /\ \A i \in 1..Len(s) : u[i] = s[i]
  BY AppendProperties
<1>2. Len(s) \in Nat
  BY LenProperties
<1> HIDE DEF u
<1>3. ASSUME NEW i \in 1..Len(t) PROVE t[i] = u[i]
  <2>1. i \in 1..Len(s) \/ i = Len(s) + 1
    BY <1>2
  <2> QED
    BY <1>1, <2>1
<1>4. Len(t) = Len(u)
  BY <1>1
<1>5. t = u
  BY <1>1, <1>3, <1>4, SeqEqual
<1> QED
  BY <1>5 DEF u

\* The first of three parts is a prefix, and all if the others are empty.
LEMMA PrefixOfThree ==
    ASSUME NEW S, NEW s \in Seq(S), NEW x \in Seq(S), NEW y \in Seq(S), NEW t, t = (s \o x) \o y
    PROVE  IsPrefix(s, t) /\ (x = <<>> /\ y = <<>> => t = s)
<1> DEFINE u == s \o x
<1>1. /\ u \in Seq(S) /\ Len(s) \in Nat /\ Len(x) \in Nat /\ Len(u) = Len(s) + Len(x)
      /\ \A i \in 1..Len(s) : u[i] = s[i]
  BY Joined
<1>2. t = u \o y
  OBVIOUS
<1>3. x = <<>> /\ y = <<>> => t = s
  BY ConcatEmptySeq
<1> HIDE DEF u
<1>4. u \in Seq(S)
  BY <1>1
<1>5. /\ t \in Seq(S) /\ Len(y) \in Nat /\ Len(t) = Len(u) + Len(y)
      /\ \A i \in 1..Len(u) : t[i] = u[i]
  BY <1>2, <1>4, Joined
<1> DEFINE n == Len(s)
<1>6. n \in Nat /\ n <= Len(t) /\ \A i \in 1..n : t[i] = s[i]
  BY <1>1, <1>5
<1> HIDE DEF n
<1>7. SubSeq(s, 1, n) = [i \in 1..n |-> s[i]]
  BY <1>6
<1>8. SubSeq(t, 1, n) = [i \in 1..n |-> t[i]]
  BY <1>6
<1>9. SubSeq(s, 1, n) = SubSeq(t, 1, n)
  BY <1>6, <1>7, <1>8
<1> QED
  BY <1>3, <1>6, <1>9 DEF IsPrefix, n

-----------------------------------------------------------------------------
(* FlattenSeq *)

\* The function by which FlattenSeq is defined.
Flattens(f, s, n) == f = [i \in 1..n |-> IF i = 1 THEN s[i] ELSE f[i - 1] \o s[i]]

\* Such a function exists.
LEMMA FlattenDefined ==
    ASSUME NEW s, NEW n \in Nat
    PROVE  \E f : Flattens(f, s, n)
<1> DEFINE N == {m \in Nat : \E f : Flattens(f, s, m)}
<1>1. 0 \in N
  <2>1. Flattens([i \in 1..0 |-> s[i]], s, 0)
    BY DEF Flattens
  <2> QED
    BY <2>1
<1>2. ASSUME NEW m \in N PROVE m + 1 \in N
  <2>1. PICK f : Flattens(f, s, m)
    OBVIOUS
  <2> DEFINE g == [i \in 1..m + 1 |-> IF i \in 1..m THEN f[i]
                                      ELSE IF i = 1 THEN s[i] ELSE f[i - 1] \o s[i]]
  <2>2. ASSUME NEW i \in 1..m + 1
        PROVE  g[i] = IF i = 1 THEN s[i] ELSE g[i - 1] \o s[i]
    <3>1. CASE i = 1
      BY <2>1, <3>1 DEF Flattens
    <3>2. CASE i # 1
      <4>1. i - 1 \in 1..m
        BY <3>2
      <4>2. g[i - 1] = f[i - 1]
        BY <4>1
      <4>3. g[i] = f[i - 1] \o s[i]
        BY <2>1, <3>2 DEF Flattens
      <4> QED
        BY <3>2, <4>2, <4>3
    <3> QED
      BY <3>1, <3>2
  <2>3. g = [i \in 1..m + 1 |-> g[i]]
    OBVIOUS
  <2> HIDE DEF g
  <2>4. g = [i \in 1..m + 1 |-> IF i = 1 THEN s[i] ELSE g[i - 1] \o s[i]]
    BY <2>2, <2>3
  <2>5. Flattens(g, s, m + 1)
    BY <2>4 DEF Flattens
  <2> QED
    BY <2>5
<1> HIDE DEF N
<1>3. N = Nat
  BY <1>1, <1>2, SetInduct DEF N
<1> QED
  BY <1>3 DEF N

LEMMA FlattenEmpty == FlattenSeq(<<>>) = <<>>
BY DEF FlattenSeq

LEMMA FlattenBy ==
    ASSUME NEW S, NEW s \in Seq(S), s # <<>>
    PROVE  \E f : Flattens(f, s, Len(s)) /\ FlattenSeq(s) = f[Len(s)]
<1>1. Len(s) \in Nat /\ Len(s) # 0
  BY EmptySeq
<1> DEFINE F == CHOOSE f : Flattens(f, s, Len(s))
<1>2. Flattens(F, s, Len(s))
  BY <1>1, FlattenDefined
<1>3. FlattenSeq(s) = F[Len(s)]
  BY <1>1 DEF FlattenSeq, Flattens
<1> QED
  BY <1>2, <1>3

\* One sequence more.
LEMMA FlattenAppend ==
    ASSUME NEW S, NEW s \in Seq(Seq(S)), NEW x \in Seq(S)
    PROVE  FlattenSeq(Append(s, x)) = FlattenSeq(s) \o x
<1> DEFINE n == Len(s)
           t == Append(s, x)
<1>1. /\ t \in Seq(Seq(S)) /\ t # <<>> /\ Len(t) = n + 1 /\ t[n + 1] = x
      /\ n \in Nat /\ \A i \in 1..n : t[i] = s[i]
  BY AppendProperties, LenProperties
<1>2. PICK g : Flattens(g, t, Len(t)) /\ FlattenSeq(t) = g[Len(t)]
  BY <1>1, FlattenBy
<1>3. \A i \in 1..n + 1 : g[i] = IF i = 1 THEN t[i] ELSE g[i - 1] \o t[i]
  BY <1>1, <1>2 DEF Flattens
<1> HIDE DEF n, t
<1>4. CASE s = <<>>
  <2>1. n = 0
    BY <1>4 DEF n
  <2>2. FlattenSeq(t) = x
    BY <1>1, <1>2, <1>3, <2>1
  <2> QED
    BY <1>4, <2>2, FlattenEmpty, ConcatEmptySeq DEF t
<1>5. CASE s # <<>>
  <2>1. PICK f : Flattens(f, s, n) /\ FlattenSeq(s) = f[n]
    BY <1>5, FlattenBy DEF n
  <2>2. \A i \in 1..n : f[i] = IF i = 1 THEN s[i] ELSE f[i - 1] \o s[i]
    BY <1>1, <2>1 DEF Flattens
  <2> DEFINE N == {m \in Nat : m \in 1..n => g[m] = f[m]}
  <2>3. 0 \in N
    OBVIOUS
  <2>4. ASSUME NEW m \in N PROVE m + 1 \in N
    <3> SUFFICES ASSUME m + 1 \in 1..n PROVE g[m + 1] = f[m + 1]
      OBVIOUS
    <3>1. m + 1 \in 1..n + 1 /\ m \in Nat /\ n \in Nat /\ t[m + 1] = s[m + 1]
      BY <1>1
    <3>2. CASE m = 0
      BY <1>3, <2>2, <3>1, <3>2
    <3>3. CASE m # 0
      <4>1. m \in 1..n /\ m + 1 # 1 /\ (m + 1) - 1 = m
        BY <3>1, <3>3
      <4>2. g[m] = f[m]
        BY <4>1
      <4>3. g[m + 1] = g[m] \o t[m + 1]
        BY <1>3, <3>1, <4>1
      <4>4. f[m + 1] = f[m] \o s[m + 1]
        BY <2>2, <4>1
      <4> QED
        BY <3>1, <4>2, <4>3, <4>4
    <3> QED
      BY <3>2, <3>3
  <2> HIDE DEF N
  <2>5. N = Nat
    BY <2>3, <2>4, SetInduct DEF N
  <2>6. n \in 1..n /\ n # 0
    BY <1>1, <1>5, EmptySeq DEF n
  <2>7. g[n] = f[n]
    BY <1>1, <2>5, <2>6 DEF N
  <2>8. n + 1 \in 1..n + 1 /\ n + 1 # 1 /\ (n + 1) - 1 = n
    BY <1>1, <2>6
  <2>9. g[n + 1] = g[n] \o x
    BY <1>1, <1>3, <2>8
  <2> QED
    BY <1>1, <1>2, <2>1, <2>7, <2>9 DEF t
<1> QED
  BY <1>4, <1>5

LEMMA FlattenType ==
    ASSUME NEW S, NEW s \in Seq(Seq(S))
    PROVE  FlattenSeq(s) \in Seq(S)
<1> DEFINE T == {t \in Seq(Seq(S)) : FlattenSeq(t) \in Seq(S)}
<1>1. <<>> \in T
  BY FlattenEmpty, EmptySeq
<1>2. ASSUME NEW t \in T, NEW e \in Seq(S) PROVE Append(t, e) \in T
  BY FlattenAppend, ConcatProperties, AppendProperties
<1>3. T \in SUBSET Seq(Seq(S))
  OBVIOUS
<1> HIDE DEF T
<1>4. T = Seq(Seq(S))
  BY <1>1, <1>2, <1>3, SeqInduct
<1> QED
  BY <1>4 DEF T

-----------------------------------------------------------------------------
(* What f makes of each element of s, one after the other *)

Flat(f, s) == FlattenSeq([i \in DOMAIN s |-> f[s[i]]])

LEMMA MapType ==
    ASSUME NEW A, NEW B, NEW f \in [A -> B], NEW s \in Seq(A)
    PROVE  /\ [i \in DOMAIN s |-> f[s[i]]] \in Seq(B)
           /\ Len([i \in DOMAIN s |-> f[s[i]]]) = Len(s)
<1>1. Len(s) \in Nat /\ DOMAIN s = 1..Len(s) /\ \A i \in 1..Len(s) : s[i] \in A
  BY LenProperties, ElementOfSeq
<1>2. \A i \in 1..Len(s) : f[s[i]] \in B
  BY <1>1
<1> QED
  BY <1>1, <1>2

LEMMA FlatEmpty == ASSUME NEW f PROVE Flat(f, <<>>) = <<>>
<1>1. [i \in DOMAIN <<>> |-> f[<<>>[i]]] = <<>>
  OBVIOUS
<1> QED
  BY <1>1, FlattenEmpty DEF Flat

LEMMA FlatType ==
    ASSUME NEW A, NEW S, NEW f \in [A -> Seq(S)], NEW s \in Seq(A)
    PROVE  Flat(f, s) \in Seq(S)
<1> DEFINE m == [i \in DOMAIN s |-> f[s[i]]]
<1>1. m \in Seq(Seq(S))
  BY MapType
<1> HIDE DEF m
<1>2. FlattenSeq(m) \in Seq(S)
  BY <1>1, FlattenType
<1> QED
  BY <1>2 DEF Flat, m

\* One element more.
LEMMA FlatAppend ==
    ASSUME NEW A, NEW S, NEW f \in [A -> Seq(S)], NEW s \in Seq(A), NEW x \in A
    PROVE  Flat(f, Append(s, x)) = Flat(f, s) \o f[x]
<1> DEFINE t == Append(s, x)
           m == [i \in DOMAIN s |-> f[s[i]]]
           n == [i \in DOMAIN t |-> f[t[i]]]
<1>1. /\ t \in Seq(A) /\ Len(t) = Len(s) + 1 /\ t[Len(s) + 1] = x
      /\ \A i \in 1..Len(s) : t[i] = s[i]
  BY AppendProperties
<1>2. Len(s) \in Nat /\ DOMAIN s = 1..Len(s) /\ DOMAIN t = 1..Len(s) + 1
  BY <1>1, LenProperties
<1>3. m \in Seq(Seq(S)) /\ Len(m) = Len(s) /\ \A i \in 1..Len(s) : m[i] = f[s[i]]
  BY <1>2, MapType
<1>4. n \in Seq(Seq(S)) /\ Len(n) = Len(s) + 1 /\ \A i \in 1..Len(s) + 1 : n[i] = f[t[i]]
  <2> HIDE DEF t
  <2> QED
    BY <1>1, <1>2, MapType
<1>5. f[x] \in Seq(S)
  OBVIOUS
<1> HIDE DEF m, n, t
<1>6. /\ Append(m, f[x]) \in Seq(Seq(S)) /\ Len(Append(m, f[x])) = Len(m) + 1
      /\ Append(m, f[x])[Len(m) + 1] = f[x]
      /\ \A i \in 1..Len(m) : Append(m, f[x])[i] = m[i]
  BY <1>3, <1>5, AppendProperties
<1>7. ASSUME NEW i \in 1..Len(s) + 1 PROVE n[i] = Append(m, f[x])[i]
  <2>1. CASE i \in 1..Len(s)
    <3>1. n[i] = f[t[i]] /\ t[i] = s[i]
      BY <1>1, <1>4, <2>1
    <3>2. Append(m, f[x])[i] = m[i] /\ m[i] = f[s[i]]
      BY <1>3, <1>6, <2>1
    <3> QED
      BY <3>1, <3>2
  <2>2. CASE i = Len(s) + 1
    <3>1. n[i] = f[t[i]] /\ t[i] = x
      BY <1>1, <1>4, <2>2
    <3>2. Append(m, f[x])[i] = f[x]
      BY <1>3, <1>6, <2>2
    <3> QED
      BY <3>1, <3>2
  <2>3. i \in 1..Len(s) \/ i = Len(s) + 1
    BY <1>2
  <2> QED
    BY <2>1, <2>2, <2>3
<1>8. n = Append(m, f[x])
  BY <1>3, <1>4, <1>6, <1>7, SeqEqual
<1>9. FlattenSeq(n) = FlattenSeq(m) \o f[x]
  BY <1>3, <1>5, <1>8, FlattenAppend
<1> QED
  BY <1>9 DEF Flat, m, n, t

LEMMA FlatLen ==
    ASSUME NEW A, NEW S, NEW f \in [A -> Seq(S)], NEW s \in Seq(A), NEW x \in A
    PROVE  /\ Len(Flat(f, Append(s, x))) = Len(Flat(f, s)) + Len(f[x])
           /\ Len(Flat(f, s)) \in Nat /\ Len(f[x]) \in Nat
<1> DEFINE t == Flat(f, Append(s, x))
           a == Flat(f, s)
           b == f[x]
<1>1. t = a \o b
  BY FlatAppend
<1>2. a \in Seq(S) /\ b \in Seq(S)
  BY FlatType
<1> HIDE DEF t, a, b
<1>3. Len(t) = Len(a) + Len(b) /\ Len(a) \in Nat /\ Len(b) \in Nat
  BY <1>1, <1>2, ConcatProperties, LenProperties
<1> QED
  BY <1>3 DEF t, a, b

\* Flat of a concatenation.
LEMMA FlatConcat ==
    ASSUME NEW A, NEW S, NEW f \in [A -> Seq(S)], NEW s \in Seq(A), NEW t \in Seq(A)
    PROVE  Flat(f, s \o t) = Flat(f, s) \o Flat(f, t)
<1> DEFINE T == {u \in Seq(A) : Flat(f, s \o u) = Flat(f, s) \o Flat(f, u)}
<1>1. <<>> \in T
  <2>1. s \o <<>> = s /\ Flat(f, <<>>) = <<>> /\ <<>> \in Seq(A)
    BY FlatEmpty, ConcatEmptySeq, EmptySeq
  <2>2. Flat(f, s) \in Seq(S)
    BY FlatType
  <2>3. Flat(f, s) \o <<>> = Flat(f, s)
    BY <2>2, ConcatEmptySeq
  <2> QED
    BY <2>1, <2>3
<1>2. ASSUME NEW u \in T, NEW e \in A PROVE Append(u, e) \in T
  <2>1. u \in Seq(A) /\ Flat(f, s \o u) = Flat(f, s) \o Flat(f, u)
    OBVIOUS
  <2>2. s \o u \in Seq(A) /\ <<e>> \in Seq(A) /\ Append(u, e) \in Seq(A)
    BY <2>1, ConcatProperties
  <2>3. s \o Append(u, e) = Append(s \o u, e)
    <3>1. Append(u, e) = u \o <<e>> /\ Append(s \o u, e) = (s \o u) \o <<e>>
      BY <2>1, <2>2, AppendIsConcat
    <3>2. (s \o u) \o <<e>> = s \o (u \o <<e>>)
      BY <2>1, <2>2, ConcatAssociative
    <3> QED
      BY <3>1, <3>2
  <2>4. Flat(f, s \o Append(u, e)) = (Flat(f, s) \o Flat(f, u)) \o f[e]
    BY <2>1, <2>2, <2>3, FlatAppend
  <2>5. Flat(f, Append(u, e)) = Flat(f, u) \o f[e]
    BY <2>1, FlatAppend
  <2>6. Flat(f, s) \in Seq(S) /\ Flat(f, u) \in Seq(S) /\ f[e] \in Seq(S)
    BY <2>1, FlatType
  <2> HIDE DEF T
  <2>7. (Flat(f, s) \o Flat(f, u)) \o f[e] = Flat(f, s) \o (Flat(f, u) \o f[e])
    <3> DEFINE a == Flat(f, s)
               b == Flat(f, u)
               c == f[e]
    <3>1. a \in Seq(S) /\ b \in Seq(S) /\ c \in Seq(S)
      BY <2>6
    <3> HIDE DEF a, b, c
    <3>2. (a \o b) \o c = a \o (b \o c)
      BY <3>1, ConcatAssociative
    <3> QED
      BY <3>2 DEF a, b, c
  <2>8. Flat(f, s \o Append(u, e)) = Flat(f, s) \o Flat(f, Append(u, e))
    BY <2>4, <2>5, <2>7
  <2> QED
    BY <2>2, <2>8 DEF T
<1>3. T \in SUBSET Seq(A)
  OBVIOUS
<1> HIDE DEF T
<1>4. T = Seq(A)
  BY <1>1, <1>2, <1>3, SeqInduct
<1> QED
  BY <1>4 DEF T

\* A name for what follows, without which the provers do not find its instances.
Joins(f, w, s, t) == Flat(f, w) = Flat(f, s) \o Flat(f, t)

LEMMA FlatJoins ==
    ASSUME NEW A, NEW S, NEW f \in [A -> Seq(S)], NEW s \in Seq(A), NEW t \in Seq(A),
           NEW w, w = s \o t
    PROVE  Joins(f, w, s, t)
BY FlatConcat DEF Joins

LEMMA FlatOne ==
    ASSUME NEW A, NEW S, NEW f \in [A -> Seq(S)], NEW x \in A
    PROVE  Flat(f, <<x>>) = f[x]
<1>1. Append(<<>>, x) = <<x>> /\ <<>> \in Seq(A)
  BY EmptySeq
<1>2. Flat(f, <<x>>) = Flat(f, <<>>) \o f[x]
  BY <1>1, FlatAppend
<1>3. f[x] \in Seq(S)
  OBVIOUS
<1> QED
  BY <1>2, <1>3, FlatEmpty, ConcatEmptySeq

\* A sequence is its head and then its tail.
LEMMA HeadThenTail ==
    ASSUME NEW A, NEW s \in Seq(A), s # <<>>
    PROVE  s = <<Head(s)>> \o Tail(s) /\ Head(s) \in A /\ Tail(s) \in Seq(A)
<1>1. /\ Head(s) \in A /\ Tail(s) \in Seq(A) /\ Len(Tail(s)) = Len(s) - 1
      /\ \A i \in 1..Len(Tail(s)) : Tail(s)[i] = s[i + 1]
  BY HeadTailProperties
<1>2. Len(s) \in Nat \ {0} /\ Head(s) = s[1]
  BY EmptySeq
<1>3. <<Head(s)>> \in Seq(A) /\ Len(<<Head(s)>>) = 1 /\ <<Head(s)>>[1] = s[1]
  BY <1>1, <1>2
<1> DEFINE h == <<Head(s)>>
           t == Tail(s)
<1> HIDE DEF h, t
<1>4. /\ h \o t \in Seq(A) /\ Len(h \o t) = Len(s)
      /\ \A i \in 1..Len(s) : (h \o t)[i] = IF i <= 1 THEN h[i] ELSE t[i - 1]
  <2>1. /\ h \o t \in Seq(A) /\ Len(h \o t) = Len(h) + Len(t)
        /\ \A i \in 1..Len(h) + Len(t) : (h \o t)[i] = IF i <= Len(h) THEN h[i] ELSE t[i - Len(h)]
    BY <1>1, <1>3, ConcatProperties DEF h, t
  <2>2. Len(h) = 1 /\ Len(h) + Len(t) = Len(s)
    BY <1>1, <1>2, <1>3 DEF h, t
  <2> QED
    BY <2>1, <2>2
<1>5. ASSUME NEW i \in 1..Len(s) PROVE s[i] = (h \o t)[i]
  <2>1. CASE i = 1
    BY <1>3, <1>4, <2>1 DEF h
  <2>2. CASE i # 1
    <3>1. i - 1 \in 1..Len(t) /\ (i - 1) + 1 = i /\ ~ i <= 1
      BY <1>1, <1>2, <2>2 DEF t
    <3>2. t[i - 1] = s[i]
      BY <1>1, <3>1 DEF t
    <3> QED
      BY <1>4, <3>1, <3>2
  <2> QED
    BY <2>1, <2>2
<1>6. s = h \o t
  BY <1>4, <1>5, SeqEqual
<1> QED
  BY <1>1, <1>6 DEF h, t

Before(x, t) == <<x>> \o t

LEMMA FlatBefore ==
    ASSUME NEW A, NEW S, NEW f \in [A -> Seq(S)], NEW x \in A, NEW t \in Seq(A)
    PROVE  Flat(f, Before(x, t)) = f[x] \o Flat(f, t)
<1> DEFINE h == <<x>>
<1>1. h \in Seq(A)
  OBVIOUS
<1>2. Flat(f, h) = f[x]
  BY FlatOne
<1> HIDE DEF h
<1>3. Flat(f, h \o t) = Flat(f, h) \o Flat(f, t)
  BY <1>1, FlatConcat
<1> QED
  BY <1>2, <1>3 DEF h, Before

LEMMA FlatHead ==
    ASSUME NEW A, NEW S, NEW f \in [A -> Seq(S)], NEW s \in Seq(A), s # <<>>
    PROVE  Flat(f, s) = f[Head(s)] \o Flat(f, Tail(s))
<1> DEFINE x == Head(s)
           t == Tail(s)
<1>1. s = Before(x, t)
  BY HeadThenTail DEF Before
<1>2. x \in A /\ t \in Seq(A)
  BY HeadThenTail
<1> HIDE DEF x, t
<1>3. Flat(f, Before(x, t)) = f[x] \o Flat(f, t)
  BY <1>2, FlatBefore
<1> QED
  BY <1>1, <1>3 DEF x, t

\* f leaves each element of s as it is.
LEMMA FlatSame ==
    ASSUME NEW A, NEW S, NEW f \in [A -> Seq(S)], NEW s \in Seq(A),
           \A i \in 1..Len(s) : f[s[i]] = <<s[i]>>
    PROVE  Flat(f, s) = s
<1> DEFINE Same(u) == \A i \in 1..Len(u) : f[u[i]] = <<u[i]>>
           T == {u \in Seq(A) : Same(u) => Flat(f, u) = u}
<1>1. <<>> \in T
  BY FlatEmpty, EmptySeq
<1>2. ASSUME NEW u \in T, NEW e \in A PROVE Append(u, e) \in T
  <2> DEFINE t == Append(u, e)
  <2>1. /\ t \in Seq(A) /\ Len(t) = Len(u) + 1
        /\ t[Len(u) + 1] = e /\ \A i \in 1..Len(u) : t[i] = u[i]
    BY AppendProperties
  <2>2. Len(u) \in Nat /\ u \in Seq(A)
    BY LenProperties
  <2>3. Flat(f, t) = Flat(f, u) \o f[e]
    BY <2>2, FlatAppend
  <2>4. t = u \o <<e>>
    BY <2>2, AppendIsConcat
  <2> HIDE DEF t
  <2>5. ASSUME Same(t) PROVE Flat(f, t) = t
    <3>1. \A i \in 1..Len(u) + 1 : f[t[i]] = <<t[i]>>
      BY <2>1, <2>5
    <3>2. Same(u)
      <4> SUFFICES ASSUME NEW i \in 1..Len(u) PROVE f[u[i]] = <<u[i]>>
        OBVIOUS
      <4>1. i \in 1..Len(u) + 1
        BY <2>2
      <4> QED
        BY <2>1, <3>1, <4>1
    <3>3. Len(u) + 1 \in 1..Len(u) + 1
      BY <2>2
    <3>4. f[e] = <<e>>
      BY <2>1, <3>1, <3>3
    <3> QED
      BY <2>3, <2>4, <3>2, <3>4
  <2> HIDE DEF Same
  <2> QED
    BY <2>1, <2>5 DEF t
<1>3. T \in SUBSET Seq(A)
  OBVIOUS
<1> HIDE DEF T
<1>4. T = Seq(A)
  BY <1>1, <1>2, <1>3, SeqInduct
<1> QED
  BY <1>4 DEF T

\* f leaves nothing of s.
LEMMA FlatNone ==
    ASSUME NEW A, NEW S, NEW f \in [A -> Seq(S)], NEW B \in SUBSET A, NEW s \in Seq(B),
           \A b \in B : f[b] = <<>>
    PROVE  Flat(f, s) = <<>>
<1> DEFINE T == {u \in Seq(B) : Flat(f, u) = <<>>}
<1>1. <<>> \in T
  BY FlatEmpty, EmptySeq
<1>2. ASSUME NEW u \in T, NEW e \in B PROVE Append(u, e) \in T
  <2>1. u \in Seq(B) /\ Flat(f, u) = <<>> /\ f[e] = <<>>
    OBVIOUS
  <2>2. u \in Seq(A) /\ e \in A /\ Append(u, e) \in Seq(B)
    BY <2>1, SeqMonotonic, AppendProperties
  <2>3. Flat(f, Append(u, e)) = Flat(f, u) \o f[e]
    BY <2>2, FlatAppend
  <2>4. <<>> \o <<>> = <<>>
    BY EmptySeq, ConcatEmptySeq
  <2> QED
    BY <2>1, <2>2, <2>3, <2>4
<1>3. T \in SUBSET Seq(B)
  OBVIOUS
<1> HIDE DEF T
<1>4. T = Seq(B)
  BY <1>1, <1>2, <1>3, SeqInduct
<1> QED
  BY <1>4 DEF T
-----------------------------------------------------------------------------
(* Walks: functions on 1..n + 1 that are defined by themselves further on *)

\* Induction from n + 1 downwards.
LEMMA DownInduct ==
    ASSUME NEW n \in Nat, NEW T,
           \A i \in 1..n + 1 : (\A j \in i + 1..n + 1 : j \in T) => i \in T
    PROVE  \A i \in 1..n + 1 : i \in T
<1> DEFINE N == {k \in Nat : \A i \in 1..n + 1 : n + 1 - i <= k => i \in T}
<1>1. 0 \in N
  <2> SUFFICES ASSUME NEW i \in 1..n + 1, n + 1 - i <= 0 PROVE i \in T
    OBVIOUS
  <2>1. \A j \in i + 1..n + 1 : j \in T
    OBVIOUS
  <2> QED
    BY <2>1
<1>2. ASSUME NEW k \in N PROVE k + 1 \in N
  <2> SUFFICES ASSUME NEW i \in 1..n + 1, n + 1 - i <= k + 1 PROVE i \in T
    OBVIOUS
  <2>1. k \in Nat /\ \A j \in 1..n + 1 : n + 1 - j <= k => j \in T
    OBVIOUS
  <2>2. \A j \in i + 1..n + 1 : j \in T
    BY <2>1
  <2> QED
    BY <2>2
<1>3. N \in SUBSET Nat
  OBVIOUS
<1> HIDE DEF N
<1>4. N = Nat
  BY <1>1, <1>2, <1>3, SetInduct
<1>5. n \in N
  BY <1>4
<1> QED
  BY <1>5 DEF N

\* What a walk finds at its end, and what it makes at i of what it found at
\* next[i].
Walks(f, n, base, next, step) ==
  f[n + 1] = base /\ \A i \in 1..n : f[i] = step[i][f[next[i]]]

LEMMA WalkDefined ==
    ASSUME NEW n \in Nat, NEW V, NEW base \in V, NEW next \in [1..n -> 1..n + 1],
           \A i \in 1..n : next[i] > i, NEW step \in [1..n -> [V -> V]]
    PROVE  \E f \in [1..n + 1 -> V] : Walks(f, n, base, next, step)
<1> DEFINE Part(f, k) == /\ f \in [k..n + 1 -> V] /\ f[n + 1] = base
                         /\ \A i \in k..n : f[i] = step[i][f[next[i]]]
           N == {m \in Nat : m <= n => \E f : Part(f, n + 1 - m)}
<1>1. 0 \in N
  <2> DEFINE f == [i \in n + 1..n + 1 |-> base]
  <2>1. Part(f, n + 1)
    OBVIOUS
  <2>2. n + 1 - 0 = n + 1
    OBVIOUS
  <2> HIDE DEF f, Part
  <2> QED
    BY <2>1, <2>2
<1>2. ASSUME NEW m \in N PROVE m + 1 \in N
  <2>0. m \in Nat /\ m + 1 \in Nat /\ (m <= n => \E f : Part(f, n + 1 - m))
    OBVIOUS
  <2> SUFFICES ASSUME m + 1 <= n PROVE \E f : Part(f, n + 1 - (m + 1))
    BY <2>0, Zenon
  <2> DEFINE k == n - m
  <2>1. k \in 1..n /\ n + 1 - (m + 1) = k /\ n + 1 - m = k + 1
    BY <2>0
  <2>2. PICK f : Part(f, n + 1 - m)
    BY <2>0
  <2> HIDE DEF k
  <2>3. /\ f \in [k + 1..n + 1 -> V] /\ f[n + 1] = base
        /\ \A i \in k + 1..n : f[i] = step[i][f[next[i]]]
    BY <2>1, <2>2
  <2> DEFINE v == step[k][f[next[k]]]
             g == [i \in k..n + 1 |-> IF i = k THEN v ELSE f[i]]
  <2>4. next[k] \in k + 1..n + 1
    BY <2>1
  <2>5. v \in V
    <3>1. f[next[k]] \in V
      BY <2>3, <2>4
    <3>2. step[k] \in [V -> V]
      BY <2>1
    <3> QED
      BY <3>1, <3>2
  <2>6. g \in [k..n + 1 -> V] /\ g[n + 1] = base
    <3>1. \A i \in k + 1..n + 1 : f[i] \in V
      BY <2>3
    <3> HIDE DEF v
    <3> QED
      BY <2>1, <2>3, <2>5, <3>1
  <2>7. ASSUME NEW i \in k..n PROVE g[i] = step[i][g[next[i]]]
    <3>1. i \in 1..n /\ next[i] \in k + 1..n + 1 /\ g[next[i]] = f[next[i]]
      <4>1. i \in 1..n
        BY <2>1
      <4>2. next[i] \in 1..n + 1 /\ next[i] > i
        BY <4>1
      <4> HIDE DEF v
      <4> QED
        BY <2>1, <4>1, <4>2
    <3>2. CASE i = k
      <4>1. g[i] = v
        BY <3>2
      <4> HIDE DEF g
      <4> QED
        BY <3>1, <3>2, <4>1
    <3>3. CASE i # k
      <4>1. g[i] = f[i] /\ i \in k + 1..n
        BY <2>1, <3>3
      <4> HIDE DEF g
      <4> QED
        BY <2>3, <3>1, <4>1
    <3> QED
      BY <3>2, <3>3
  <2> HIDE DEF g
  <2>8. Part(g, k)
    BY <2>6, <2>7
  <2> HIDE DEF Part
  <2> QED
    BY <2>1, <2>8
<1>3. N \in SUBSET Nat
  OBVIOUS
<1> HIDE DEF N
<1>4. N = Nat
  BY <1>1, <1>2, <1>3, SetInduct
<1>5. n \in N /\ n + 1 - n = 1
  BY <1>4
<1>6. PICK f : Part(f, 1)
  BY <1>5 DEF N
<1> QED
  BY <1>6 DEF Walks

\* A set of numbers up to n has a greatest member, and a least one.
LEMMA MaxIs ==
    ASSUME NEW n \in Nat, NEW S \in SUBSET (1..n), S # {}
    PROVE  Max(S) \in S /\ \A y \in S : Max(S) >= y
<1> DEFINE T == {i \in 1..n + 1 : S \cap (i..n) # {} => \E x \in S : \A y \in S : x >= y}
<1>1. ASSUME NEW i \in 1..n + 1, \A j \in i + 1..n + 1 : j \in T PROVE i \in T
  <2> SUFFICES ASSUME S \cap (i..n) # {} PROVE \E x \in S : \A y \in S : x >= y
    OBVIOUS
  <2>0. i <= n /\ i + 1 \in i + 1..n + 1
    OBVIOUS
  <2>1. CASE S \cap (i + 1..n) # {}
    BY <1>1, <2>1, <2>0
  <2>2. CASE S \cap (i + 1..n) = {}
    <3>1. i \in S
      BY <2>2
    <3>2. \A y \in S : i >= y
      BY <2>2
    <3> QED
      BY <3>1, <3>2
  <2> QED
    BY <2>1, <2>2
<1> HIDE DEF T
<1>2. \A i \in 1..n + 1 : i \in T
  BY <1>1, DownInduct
<1>3. 1 \in T
  BY <1>2
<1>4. \E x \in S : \A y \in S : x >= y
  BY <1>3 DEF T
<1> QED
  BY <1>4 DEF Max

LEMMA MinIs ==
    ASSUME NEW n \in Nat, NEW S \in SUBSET (1..n), S # {}
    PROVE  Min(S) \in S /\ \A y \in S : Min(S) <= y
<1> DEFINE T == {k \in Nat : S \cap (1..k) # {} => \E x \in S : \A y \in S : x <= y}
<1>1. 0 \in T
  OBVIOUS
<1>2. ASSUME NEW k \in T PROVE k + 1 \in T
  <2> SUFFICES ASSUME S \cap (1..k + 1) # {} PROVE \E x \in S : \A y \in S : x <= y
    OBVIOUS
  <2>1. CASE S \cap (1..k) # {}
    BY <2>1
  <2>2. CASE S \cap (1..k) = {}
    <3>1. k + 1 \in S
      BY <2>2
    <3>2. \A y \in S : k + 1 <= y
      BY <2>2
    <3> QED
      BY <3>1, <3>2
  <2> QED
    BY <2>1, <2>2
<1>3. T \in SUBSET Nat
  OBVIOUS
<1> HIDE DEF T
<1>4. T = Nat
  BY <1>1, <1>2, <1>3, SetInduct
<1>5. n \in T
  BY <1>4
<1>6. \E x \in S : \A y \in S : x <= y
  BY <1>5 DEF T
<1> QED
  BY <1>6 DEF Min

-----------------------------------------------------------------------------
(* Cutting sequences *)

Glued(t, x, y) == t = x \o y

Halved(S, s, n, x, y) == x \in Seq(S) /\ y \in Seq(S) /\ Len(x) = n /\ Glued(s, x, y)

LEMMA Halves ==
    ASSUME NEW S, NEW s \in Seq(S), NEW n \in 0..Len(s)
    PROVE  Halved(S, s, n, SubSeq(s, 1, n), SubSeq(s, n + 1, Len(s)))
<1> DEFINE l == Len(s)
           x == SubSeq(s, 1, n)
           y == SubSeq(s, n + 1, l)
<1>1. l \in Nat /\ n \in Nat /\ n <= l /\ \A i \in 1..l : s[i] \in S
  BY LenProperties, ElementOfSeq
<1>2. x \in Seq(S) /\ Len(x) = n
  <2>1. \A i \in 1..n : s[i] \in S
    BY <1>1
  <2>2. Len(x) = IF 1 <= n THEN n - 1 + 1 ELSE 0
    BY <1>1, <2>1, SubSeqProperties
  <2>3. x \in Seq(S)
    BY <1>1, <2>1, SubSeqProperties
  <2> HIDE DEF x
  <2>5. Len(x) = n
    <3> DEFINE k == Len(x)
    <3>1. k = IF 1 <= n THEN n - 1 + 1 ELSE 0
      BY <2>2
    <3> HIDE DEF k
    <3>2. k = n
      BY <1>1, <3>1
    <3> QED
      BY <3>2 DEF k
  <2> QED
    BY <2>3, <2>5
<1>3. y \in Seq(S)
  <2>1. \A i \in n + 1..l : s[i] \in S
    BY <1>1
  <2> QED
    BY <1>1, <2>1, SubSeqProperties
<1>4. s = x \o y
  <2>1. SubSeq(s, 1, n) \o SubSeq(s, n + 1, l) = SubSeq(s, 1, l)
    <3>1. 1 \in 1..Len(s) + 1 /\ n \in 1 - 1..Len(s) /\ l \in n..Len(s)
      BY <1>1
    <3> HIDE DEF l
    <3> QED
      BY <3>1, ConcatAdjacentSubSeq
  <2> QED
    BY <2>1, SubSeqFull
<1> QED
  BY <1>2, <1>3, <1>4, Zenon DEF Halved, Glued

LEMMA GluedIs ==
    ASSUME NEW S, NEW a \in Seq(S), NEW b \in Seq(S), NEW t, Glued(t, a, b)
    PROVE  /\ t \in Seq(S)
           /\ Len(a) \in Nat /\ Len(b) \in Nat /\ Len(t) = Len(a) + Len(b)
           /\ \A i \in 1..Len(a) : t[i] = a[i]
           /\ \A i \in 1..Len(b) : t[Len(a) + i] = b[i]
<1>1. t = a \o b
  BY DEF Glued
<1> QED
  BY <1>1, Joined

LEMMA SplitSame ==
    ASSUME NEW S, NEW y \in Seq(S), NEW q \in Seq(S), NEW w \in Seq(S), NEW v \in Seq(S),
           NEW t, Glued(t, y, q), Glued(t, w, v), Len(y) = Len(w)
    PROVE  y = w /\ q = v
<1> DEFINE a == Len(y)
           b == Len(q)
           c == Len(v)
<1>1. a \in Nat /\ b \in Nat /\ Len(t) = a + b
      /\ (\A i \in 1..a : t[i] = y[i]) /\ \A i \in 1..b : t[a + i] = q[i]
  BY GluedIs
<1>2. a = Len(w) /\ c \in Nat /\ Len(t) = Len(w) + c
      /\ (\A i \in 1..Len(w) : t[i] = w[i]) /\ \A i \in 1..c : t[Len(w) + i] = v[i]
  BY GluedIs
<1>3. y = w
  <2>1. \A i \in 1..Len(y) : y[i] = w[i]
    BY <1>1, <1>2
  <2> QED
    BY <2>1, SeqEqual
<1>4. b = c
  BY <1>1, <1>2
<1>5. q = v
  <2>1. \A i \in 1..b : q[i] = v[i]
    BY <1>1, <1>2, <1>4
  <2> QED
    BY <1>4, <2>1, SeqEqual
<1> QED
  BY <1>3, <1>5

LEMMA Wider ==
    ASSUME NEW S, NEW T, S \in SUBSET T, NEW s \in Seq(S)
    PROVE  s \in Seq(T)
<1>1. s \in [1..Len(s) -> S] /\ Len(s) \in Nat
  BY LenProperties
<1>2. s \in [1..Len(s) -> T]
  BY <1>1
<1> QED
  BY <1>1, <1>2, SeqDef

-----------------------------------------------------------------------------
(* Where the parts of Flat(f, s) and of FlattenSeq(m) are *)

\* Where f of the elements of s is found in Flat(f, s).
FlatPos(f, s, m) == Len(Flat(f, SubSeq(s, 1, m)))

Places(f, s, m) ==
  /\ FlatPos(f, s, m) \in Nat /\ Len(f[s[m + 1]]) \in Nat
  /\ FlatPos(f, s, m + 1) = FlatPos(f, s, m) + Len(f[s[m + 1]])
  /\ FlatPos(f, s, m + 1) <= Len(Flat(f, s))
  /\ \A k \in 1..Len(f[s[m + 1]]) : Flat(f, s)[FlatPos(f, s, m) + k] = f[s[m + 1]][k]

LEMMA FlatPlaces ==
    ASSUME NEW A, NEW S, NEW f \in [A -> Seq(S)], NEW s \in Seq(A), NEW m \in 0..Len(s) - 1
    PROVE  Places(f, s, m)
<1> DEFINE n == Len(s)
           x == s[m + 1]
           a == SubSeq(s, 1, m)
           b == SubSeq(s, 1, m + 1)
           c == SubSeq(s, m + 2, n)
           fa == Flat(f, a)
           fx == f[x]
           fb == Flat(f, b)
           fc == Flat(f, c)
<1>1. n \in Nat /\ m \in Nat /\ x \in A /\ \A i \in 1..n : s[i] \in A
  BY LenProperties, ElementOfSeq
<1>2. a \in Seq(A) /\ Len(a) = m /\ \A i \in 1..m : a[i] = s[i]
  BY <1>1, SubSeqProperties
<1>3. b \in Seq(A) /\ Len(b) = m + 1 /\ \A i \in 1..m + 1 : b[i] = s[i]
  BY <1>1, SubSeqProperties
<1>4. c \in Seq(A)
  BY <1>1, SubSeqProperties
<1>5. b = Append(a, x)
  <2> HIDE DEF a, b
  <2>1. \A i \in 1..m : i \in 1..m + 1
    BY <1>1
  <2>2. \A i \in 1..Len(a) : b[i] = a[i]
    BY <1>2, <1>3, <2>1
  <2>3. b[Len(a) + 1] = x
    BY <1>1, <1>2, <1>3
  <2> HIDE DEF x
  <2> QED
    BY <1>1, <1>2, <1>3, <2>2, <2>3, ExtendedByOne
<1>6. s = b \o c
  <2>1. SubSeq(s, 1, m + 1) \o SubSeq(s, (m + 1) + 1, n) = SubSeq(s, 1, n)
    <3>1. /\ 1 \in 1..Len(s) + 1 /\ m + 1 \in 1 - 1..Len(s)
          /\ n \in m + 1..Len(s)
      BY <1>1
    <3> HIDE DEF n
    <3> QED
      BY <3>1, ConcatAdjacentSubSeq
  <2>2. (m + 1) + 1 = m + 2
    OBVIOUS
  <2> QED
    BY <2>1, <2>2, SubSeqFull
<1> HIDE DEF a, b, c, n, x
<1>7. fb = fa \o fx
  <2>1. Flat(f, Append(a, x)) = Flat(f, a) \o f[x]
    BY <1>1, <1>2, FlatAppend
  <2> QED
    BY <1>5, <2>1
<1>8. Flat(f, s) = fb \o fc
  <2>1. Joins(f, s, b, c)
    BY <1>3, <1>4, <1>6, FlatJoins
  <2> QED
    BY <2>1 DEF Joins
<1>9. fa \in Seq(S) /\ fb \in Seq(S) /\ fc \in Seq(S) /\ fx \in Seq(S)
  BY <1>1, <1>2, <1>3, <1>4, FlatType
<1> DEFINE w == Flat(f, s)
<1> HIDE DEF fa, fb, fc, fx
<1>10. /\ Len(fa) \in Nat /\ Len(fx) \in Nat /\ Len(fb) = Len(fa) + Len(fx)
       /\ \A i \in 1..Len(fx) : fb[Len(fa) + i] = fx[i]
  BY <1>7, <1>9, Joined
<1>11. /\ Len(fc) \in Nat /\ Len(w) = Len(fb) + Len(fc)
       /\ \A i \in 1..Len(fb) : w[i] = fb[i]
  <2> HIDE DEF w
  <2>1. w = fb \o fc
    BY <1>8 DEF w
  <2> QED
    BY <1>9, <2>1, Joined
<1> HIDE DEF w
<1>12. \A k \in 1..Len(fx) : w[Len(fa) + k] = fx[k]
  <2> SUFFICES ASSUME NEW k \in 1..Len(fx) PROVE w[Len(fa) + k] = fx[k]
    OBVIOUS
  <2>1. Len(fa) + k \in 1..Len(fb)
    BY <1>10
  <2> QED
    BY <1>10, <1>11, <2>1
<1>13. FlatPos(f, s, m) = Len(fa) /\ FlatPos(f, s, m + 1) = Len(fb)
  BY DEF FlatPos, fa, fb, a, b
<1>14. Len(fb) <= Len(w)
  BY <1>9, <1>10, <1>11
<1> QED
  BY <1>10, <1>12, <1>13, <1>14 DEF w, fx, x, Places

-----------------------------------------------------------------------------
(* FlattenSeq from the front *)

LEMMA FlattenIsFlat ==
    ASSUME NEW S, NEW s \in Seq(Seq(S))
    PROVE  Flat([x \in Seq(S) |-> x], s) = FlattenSeq(s)
<1> DEFINE id == [x \in Seq(S) |-> x]
           t == [i \in DOMAIN s |-> id[s[i]]]
<1>1. DOMAIN s = 1..Len(s) /\ \A i \in 1..Len(s) : s[i] \in Seq(S)
  BY LenProperties, ElementOfSeq
<1>2. \A i \in DOMAIN s : id[s[i]] = s[i]
  BY <1>1
<1> HIDE DEF id
<1>3. t = [i \in DOMAIN s |-> s[i]]
  BY <1>2
<1>4. t = s
  BY <1>3, LenProperties
<1> QED
  BY <1>4, Zenon DEF id, Flat

\* The rest of a sequence from its i-th element.
Rest(m, i) == FlattenSeq(SubSeq(m, i, Len(m)))

LEMMA RestStep ==
    ASSUME NEW S, NEW m \in Seq(Seq(S)), NEW i \in 1..Len(m)
    PROVE  /\ Rest(m, i) = m[i] \o Rest(m, i + 1)
           /\ m[i] \in Seq(S) /\ Rest(m, i + 1) \in Seq(S)
<1> DEFINE n == Len(m)
           x == m[i]
           t == SubSeq(m, i + 1, n)
           id == [y \in Seq(S) |-> y]
<1>1. n \in Nat /\ x \in Seq(S) /\ n \in i..Len(m)
  BY LenProperties, ElementOfSeq
<1>2. SubSeq(m, i, n) = <<x>> \o t
  BY <1>1, SubSeqRecursiveFirst
<1>3. t \in Seq(Seq(S))
  <2>1. \A j \in i + 1..n : m[j] \in Seq(S)
    BY <1>1, ElementOfSeq
  <2> HIDE DEF n
  <2> QED
    BY <1>1, <2>1, SubSeqProperties
<1>4. id \in [Seq(S) -> Seq(S)] /\ id[x] = x
  BY <1>1
<1> DEFINE u == SubSeq(m, i, n)
<1>5. u = Before(x, t)
  BY <1>2 DEF Before
<1>6. u \in Seq(Seq(S))
  <2>1. \A j \in i..n : m[j] \in Seq(S)
    BY <1>1, ElementOfSeq
  <2> HIDE DEF n
  <2> QED
    BY <1>1, <2>1, SubSeqProperties
<1>7. Flat(id, u) = FlattenSeq(u) /\ Flat(id, t) = FlattenSeq(t)
  BY <1>3, <1>6, FlattenIsFlat
<1>8. FlattenSeq(t) \in Seq(S)
  BY <1>3, FlattenType
<1> HIDE DEF n, x, t, id, u
<1>9. Flat(id, Before(x, t)) = id[x] \o Flat(id, t)
  BY <1>1, <1>3, <1>4, FlatBefore
<1>10. FlattenSeq(u) = x \o FlattenSeq(t)
  BY <1>4, <1>5, <1>7, <1>9
<1> QED
  BY <1>1, <1>8, <1>10 DEF n, x, t, u, Rest

LEMMA RestEnds ==
    ASSUME NEW S, NEW m \in Seq(Seq(S))
    PROVE  Rest(m, Len(m) + 1) = <<>> /\ Rest(m, 1) = FlattenSeq(m)
<1>1. Len(m) \in Nat
  BY LenProperties
<1>2. SubSeq(m, Len(m) + 1, Len(m)) = <<>>
  BY <1>1, SubSeqEmpty
<1>3. SubSeq(m, 1, Len(m)) = m
  BY SubSeqFull
<1> QED
  BY <1>2, <1>3, FlattenEmpty DEF Rest

\* Four that are empty, and four of one element.
LEMMA RestSkips ==
    ASSUME NEW S, NEW m \in Seq(Seq(S)), NEW i \in Nat \ {0}, i + 3 <= Len(m),
           \A k \in i..i + 3 : m[k] = <<>>
    PROVE  Rest(m, i) = Rest(m, i + 4)
<1>1. Len(m) \in Nat
  BY LenProperties
<1>2. ASSUME NEW k \in i..i + 3 PROVE Rest(m, k) = Rest(m, k + 1)
  <2>1. k \in 1..Len(m)
    BY <1>1
  <2>2. Rest(m, k) = m[k] \o Rest(m, k + 1) /\ Rest(m, k + 1) \in Seq(S)
    BY <2>1, RestStep
  <2>3. m[k] = <<>>
    OBVIOUS
  <2> QED
    BY <2>2, <2>3, ConcatEmptySeq
<1>3. Rest(m, i) = Rest(m, i + 1) /\ Rest(m, i + 1) = Rest(m, (i + 1) + 1)
      /\ Rest(m, i + 2) = Rest(m, (i + 2) + 1) /\ Rest(m, i + 3) = Rest(m, (i + 3) + 1)
  <2>1. i \in i..i + 3 /\ i + 1 \in i..i + 3 /\ i + 2 \in i..i + 3 /\ i + 3 \in i..i + 3
    OBVIOUS
  <2> QED
    BY <1>2, <2>1
<1>4. (i + 1) + 1 = i + 2 /\ (i + 2) + 1 = i + 3 /\ (i + 3) + 1 = i + 4
  OBVIOUS
<1> QED
  BY <1>3, <1>4

OneByOne(a, b, c, d, t) ==
  <<a>> \o (<<b>> \o (<<c>> \o (<<d>> \o t))) = <<a, b, c, d>> \o t

LEMMA FourThen ==
    ASSUME NEW S, NEW a \in S, NEW b \in S, NEW c \in S, NEW d \in S, NEW t \in Seq(S)
    PROVE  OneByOne(a, b, c, d, t)
<1> DEFINE t1 == <<d>> \o t
           t2 == <<c>> \o t1
           t3 == <<b>> \o t2
           u == <<a>> \o t3
           h == <<a, b, c, d>>
           v == h \o t
           n == Len(t)
<1>0. n \in Nat
  BY LenProperties
<1>1. t1 \in Seq(S) /\ Len(t1) = n + 1 /\ t1[1] = d /\ \A i \in 1..n : t1[i + 1] = t[i]
  <2>1. <<d>> \in Seq(S) /\ Len(<<d>>) = 1 /\ <<d>>[1] = d
    OBVIOUS
  <2>2. /\ t1 \in Seq(S) /\ Len(t1) = Len(<<d>>) + Len(t)
        /\ \A i \in 1..Len(<<d>>) : t1[i] = <<d>>[i]
        /\ \A i \in 1..Len(t) : t1[Len(<<d>>) + i] = t[i]
    BY <2>1, Joined
  <2> HIDE DEF t1
  <2> QED
    BY <1>0, <2>1, <2>2
<1>2. t2 \in Seq(S) /\ Len(t2) = n + 2 /\ t2[1] = c /\ \A i \in 1..n + 1 : t2[i + 1] = t1[i]
  <2>1. <<c>> \in Seq(S) /\ Len(<<c>>) = 1 /\ <<c>>[1] = c
    OBVIOUS
  <2> HIDE DEF t1
  <2>2. /\ t2 \in Seq(S) /\ Len(t2) = Len(<<c>>) + Len(t1)
        /\ \A i \in 1..Len(<<c>>) : t2[i] = <<c>>[i]
        /\ \A i \in 1..Len(t1) : t2[Len(<<c>>) + i] = t1[i]
    BY <1>1, <2>1, Joined
  <2> HIDE DEF t2
  <2> QED
    BY <1>0, <1>1, <2>1, <2>2
<1>3. t3 \in Seq(S) /\ Len(t3) = n + 3 /\ t3[1] = b /\ \A i \in 1..n + 2 : t3[i + 1] = t2[i]
  <2>1. <<b>> \in Seq(S) /\ Len(<<b>>) = 1 /\ <<b>>[1] = b
    OBVIOUS
  <2> HIDE DEF t2
  <2>2. /\ t3 \in Seq(S) /\ Len(t3) = Len(<<b>>) + Len(t2)
        /\ \A i \in 1..Len(<<b>>) : t3[i] = <<b>>[i]
        /\ \A i \in 1..Len(t2) : t3[Len(<<b>>) + i] = t2[i]
    BY <1>2, <2>1, Joined
  <2> HIDE DEF t3
  <2> QED
    BY <1>0, <1>2, <2>1, <2>2
<1>4. u \in Seq(S) /\ Len(u) = n + 4 /\ u[1] = a /\ \A i \in 1..n + 3 : u[i + 1] = t3[i]
  <2>1. <<a>> \in Seq(S) /\ Len(<<a>>) = 1 /\ <<a>>[1] = a
    OBVIOUS
  <2> HIDE DEF t3
  <2>2. /\ u \in Seq(S) /\ Len(u) = Len(<<a>>) + Len(t3)
        /\ \A i \in 1..Len(<<a>>) : u[i] = <<a>>[i]
        /\ \A i \in 1..Len(t3) : u[Len(<<a>>) + i] = t3[i]
    BY <1>3, <2>1, Joined
  <2> HIDE DEF u
  <2> QED
    BY <1>0, <1>3, <2>1, <2>2
<1>5. /\ v \in Seq(S) /\ Len(v) = n + 4 /\ v[1] = a /\ v[2] = b /\ v[3] = c /\ v[4] = d
      /\ \A i \in 1..n : v[i + 4] = t[i]
  <2>1. /\ h \in Seq(S) /\ Len(h) = 4 /\ h[1] = a /\ h[2] = b /\ h[3] = c /\ h[4] = d
    OBVIOUS
  <2>0. v = h \o t /\ h \in Seq(S)
    BY <2>1
  <2> HIDE DEF h, v
  <2>2. /\ v \in Seq(S) /\ Len(v) = Len(h) + Len(t)
        /\ \A i \in 1..Len(h) : v[i] = h[i]
        /\ \A i \in 1..Len(t) : v[Len(h) + i] = t[i]
    BY <2>0, Joined
  <2> QED
    BY <1>0, <2>1, <2>2
<1> HIDE DEF t1, t2, t3, u, h, v, n
<1>6. ASSUME NEW i \in 1..n + 4 PROVE u[i] = v[i]
  <2>1. CASE i = 1
    BY <1>4, <1>5, <2>1
  <2>2. CASE i # 1
    <3>1. i - 1 \in 1..n + 3 /\ (i - 1) + 1 = i
      BY <1>0, <2>2
    <3>2. u[i] = t3[i - 1]
      BY <1>4, <3>1
    <3>3. CASE i = 2
      BY <1>3, <1>5, <3>2, <3>3
    <3>4. CASE i # 2
      <4>1. i - 2 \in 1..n + 2 /\ (i - 2) + 1 = i - 1
        BY <1>0, <2>2, <3>4
      <4>2. u[i] = t2[i - 2]
        BY <1>3, <3>2, <4>1
      <4>3. CASE i = 3
        BY <1>2, <1>5, <4>2, <4>3
      <4>4. CASE i # 3
        <5>1. i - 3 \in 1..n + 1 /\ (i - 3) + 1 = i - 2
          BY <1>0, <2>2, <3>4, <4>4
        <5>2. u[i] = t1[i - 3]
          BY <1>2, <4>2, <5>1
        <5>3. CASE i = 4
          BY <1>1, <1>5, <5>2, <5>3
        <5>4. CASE i # 4
          <6>1. i - 4 \in 1..n /\ (i - 4) + 1 = i - 3 /\ (i - 4) + 4 = i
            BY <1>0, <2>2, <3>4, <4>4, <5>4
          <6> QED
            BY <1>1, <1>5, <5>2, <6>1
        <5> QED
          BY <5>3, <5>4
      <4> QED
        BY <4>3, <4>4
    <3> QED
      BY <3>3, <3>4
  <2> QED
    BY <2>1, <2>2
<1>7. u = v
  BY <1>4, <1>5, <1>6, SeqEqual
<1> QED
  BY <1>7 DEF u, v, h, t1, t2, t3, OneByOne

\* The rest from i is four elements and then the rest.
Four(m, i, w) == Rest(m, i) = w \o Rest(m, i + 4)

LEMMA RestKeeps ==
    ASSUME NEW S, NEW m \in Seq(Seq(S)), NEW i \in Nat \ {0}, i + 3 <= Len(m),
           NEW a \in S, NEW b \in S, NEW c \in S, NEW d \in S,
           m[i] = <<a>>, m[i + 1] = <<b>>, m[i + 2] = <<c>>, m[i + 3] = <<d>>,
           NEW w, w = <<a, b, c, d>>
    PROVE  Four(m, i, w)
<1>1. Len(m) \in Nat
  BY LenProperties
<1>2. i \in 1..Len(m) /\ i + 1 \in 1..Len(m) /\ i + 2 \in 1..Len(m) /\ i + 3 \in 1..Len(m)
  <2> DEFINE n == Len(m)
  <2>1. n \in Nat /\ i + 3 <= n
    BY <1>1
  <2> HIDE DEF n
  <2>2. i \in 1..n /\ i + 1 \in 1..n /\ i + 2 \in 1..n /\ i + 3 \in 1..n
    BY <2>1
  <2> QED
    BY <2>2 DEF n
<1>3. (i + 1) + 1 = i + 2 /\ (i + 2) + 1 = i + 3 /\ (i + 3) + 1 = i + 4
  OBVIOUS
<1>4. Rest(m, i) = <<a>> \o Rest(m, i + 1)
  BY <1>2, RestStep
<1>5. Rest(m, i + 1) = <<b>> \o Rest(m, (i + 1) + 1)
  BY <1>2, RestStep
<1>6. Rest(m, i + 2) = <<c>> \o Rest(m, (i + 2) + 1)
  BY <1>2, RestStep
<1>7. Rest(m, i + 3) = <<d>> \o Rest(m, (i + 3) + 1) /\ Rest(m, (i + 3) + 1) \in Seq(S)
  BY <1>2, RestStep
<1> DEFINE r1 == Rest(m, i + 1)
           r2 == Rest(m, i + 2)
           r3 == Rest(m, i + 3)
           r4 == Rest(m, i + 4)
<1>8. r1 = <<b>> \o r2 /\ r2 = <<c>> \o r3 /\ r3 = <<d>> \o r4 /\ r4 \in Seq(S)
  BY <1>3, <1>5, <1>6, <1>7
<1> HIDE DEF r1, r2, r3, r4
<1>9. OneByOne(a, b, c, d, r4)
  BY <1>8, FourThen
<1>10. Rest(m, i) = <<a>> \o r1
  BY <1>4 DEF r1
<1> QED
  BY <1>8, <1>9, <1>10 DEF r4, OneByOne, Four

LEMMA FlattenOne ==
    ASSUME NEW S, NEW w \in Seq(S), NEW m \in Seq(Seq(S)), Len(m) = 1, m[1] = w
    PROVE  FlattenSeq(m) = w
<1>1. m = Append(<<>>, w)
  OBVIOUS
<1>2. <<>> \in Seq(Seq(S))
  OBVIOUS
<1>3. FlattenSeq(Append(<<>>, w)) = FlattenSeq(<<>>) \o w
  BY <1>2, FlattenAppend
<1>4. <<>> \o w = w
  OBVIOUS
<1> QED
  BY <1>1, <1>3, <1>4, FlattenEmpty

LEMMA RestType ==
    ASSUME NEW S, NEW m \in Seq(Seq(S)), NEW i \in 1..Len(m) + 1
    PROVE  Rest(m, i) \in Seq(S)
<1> DEFINE n == Len(m)
           x == SubSeq(m, i, n)
<1>1. n \in Nat /\ i \in Int
  BY LenProperties
<1>2. \A k \in i..n : m[k] \in Seq(S)
  BY <1>1, ElementOfSeq
<1>3. x \in Seq(Seq(S))
  <2> HIDE DEF n
  <2> QED
    BY <1>1, <1>2, SubSeqProperties
<1> HIDE DEF x
<1>4. FlattenSeq(x) \in Seq(S)
  BY <1>3, FlattenType
<1> QED
  BY <1>4 DEF Rest, x

LEMMA RestSame ==
    ASSUME NEW S, NEW m \in Seq(S), NEW q \in Seq(S), NEW i \in Nat \ {0},
           Len(m) = Len(q), \A k \in i..Len(m) : m[k] = q[k]
    PROVE  Rest(m, i) = Rest(q, i)
<1> DEFINE n == Len(m)
           x == SubSeq(m, i, n)
           y == SubSeq(q, i, n)
<1>1. n \in Nat /\ i \in Int /\ n \in Int
  BY LenProperties
<1>2. \A k \in i..n : m[k] \in S /\ q[k] \in S
  BY <1>1, ElementOfSeq
<1> HIDE DEF n
<1>3. /\ x \in Seq(S) /\ Len(x) = (IF i <= n THEN n - i + 1 ELSE 0)
      /\ \A k \in 1..n - i + 1 : x[k] = m[i + k - 1]
  BY <1>1, <1>2, SubSeqProperties
<1>4. /\ y \in Seq(S) /\ Len(y) = (IF i <= n THEN n - i + 1 ELSE 0)
      /\ \A k \in 1..n - i + 1 : y[k] = q[i + k - 1]
  BY <1>1, <1>2, SubSeqProperties
<1> HIDE DEF x, y
<1>5. ASSUME NEW k \in 1..Len(x) PROVE x[k] = y[k]
  <2>1. k \in 1..n - i + 1 /\ i + k - 1 \in i..n
    BY <1>1, <1>3
  <2>2. m[i + k - 1] = q[i + k - 1]
    BY <2>1 DEF n
  <2> QED
    BY <1>3, <1>4, <2>1, <2>2
<1>6. Len(x) = Len(y)
  BY <1>3, <1>4
<1>7. x = y
  BY <1>3, <1>4, <1>5, <1>6, SeqEqual
<1> QED
  BY <1>7, Zenon DEF Rest, x, y, n

LEMMA RestAppend ==
    ASSUME NEW S, NEW m \in Seq(Seq(S)), NEW w \in Seq(S), NEW i \in 1..Len(m) + 1
    PROVE  Glued(Rest(Append(m, w), i), Rest(m, i), w)
<1> DEFINE n == Len(m)
           q == Append(m, w)
           x == SubSeq(m, i, n)
           y == SubSeq(q, i, n + 1)
<1>1. n \in Nat /\ i \in Int /\ n \in Int /\ i \in 1..n + 1
  BY LenProperties
<1>2. /\ q \in Seq(Seq(S)) /\ Len(q) = n + 1
      /\ (\A k \in 1..n : q[k] = m[k]) /\ q[n + 1] = w
  BY AppendProperties
<1>3. (\A k \in i..n : m[k] \in Seq(S)) /\ \A k \in i..n + 1 : q[k] \in Seq(S)
  BY <1>1, <1>2, ElementOfSeq
<1> HIDE DEF n, q
<1>4. /\ x \in Seq(Seq(S)) /\ Len(x) = (IF i <= n THEN n - i + 1 ELSE 0)
      /\ \A k \in 1..n - i + 1 : x[k] = m[i + k - 1]
  BY <1>1, <1>3, SubSeqProperties
<1>5. /\ y \in Seq(Seq(S)) /\ Len(y) = (IF i <= n + 1 THEN n + 1 - i + 1 ELSE 0)
      /\ \A k \in 1..n + 1 - i + 1 : y[k] = q[i + k - 1]
  BY <1>1, <1>3, SubSeqProperties
<1> HIDE DEF x, y
<1>6. Len(x) = n - i + 1 /\ Len(y) = Len(x) + 1
  BY <1>1, <1>4, <1>5
<1>7. y = Append(x, w)
  <2>1. ASSUME NEW k \in 1..Len(x) PROVE y[k] = x[k]
    <3>1. k \in 1..n - i + 1 /\ k \in 1..n + 1 - i + 1 /\ i + k - 1 \in 1..n
      BY <1>1, <1>6
    <3> QED
      BY <1>2, <1>4, <1>5, <3>1
  <2>2. y[Len(x) + 1] = w
    <3>1. Len(x) + 1 \in 1..n + 1 - i + 1 /\ i + (Len(x) + 1) - 1 = n + 1
      BY <1>1, <1>6
    <3> QED
      BY <1>2, <1>5, <3>1
  <2>3. x \in Seq(Seq(S)) /\ y \in Seq(Seq(S))
    BY <1>4, <1>5
  <2> QED
    BY <1>6, <2>1, <2>2, <2>3, ExtendedByOne
<1>8. FlattenSeq(Append(x, w)) = FlattenSeq(x) \o w
  BY <1>4, FlattenAppend
<1>9. Rest(q, i) = FlattenSeq(y) /\ Rest(m, i) = FlattenSeq(x)
  BY <1>2, Zenon DEF Rest, x, y, n
<1> QED
  BY <1>7, <1>8, <1>9, Zenon DEF Glued, q
=============================================================================
