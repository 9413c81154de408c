---------------------------- MODULE CommandsProofs ----------------------------
(***************************************************************************)
(* StatementsKept, RedirectionsKept and SettingsKept, for a pipeline of    *)
(* any number of commands: what the server reads is what the client's      *)
(* program has put together.                                               *)
(***************************************************************************)
EXTENDS PipelinePrograms, FiniteSetTheorems, WellFoundedInduction, NaturalsInduction, TLAPS
-----------------------------------------------------------------------------
(* Numbers, sets and folds *)

LEMMA LeastOf ==
    ASSUME NEW T \in SUBSET Nat, T # {}
    PROVE  \E n \in T : \A m \in T : n <= m
<1>1. IsWellFoundedOn(OpToRel(<, Nat), Nat)
  BY NatLessThanWellFounded
<1>2. PICK x \in T : \A y \in T : ~(<<y, x>> \in OpToRel(<, Nat))
  BY <1>1, WFMin
<1>3. \A y \in T : ~(y < x)
  BY <1>2 DEF OpToRel
<1> QED
  BY <1>3

\* The greatest and the least of a part of 1 .. n.
LEMMA GreatestOf ==
    ASSUME NEW n \in Nat, NEW s \in SUBSET (1..n), s # {}
    PROVE  Max(s) \in s /\ \A x \in s : Max(s) >= x
<1> DEFINE T == {d \in Nat : d <= n /\ n - d \in s}
<1>1. T \in SUBSET Nat /\ T # {}
  <2>1. PICK x \in s : TRUE
    OBVIOUS
  <2>2. n - x \in T
    BY <2>1
  <2> QED
    BY <2>2
<1>2. PICK d \in T : \A e \in T : d <= e
  <2> HIDE DEF T
  <2> QED
    BY <1>1, LeastOf
<1>3. n - d \in s /\ \A x \in s : n - d >= x
  <2>1. \A x \in s : n - x \in T
    OBVIOUS
  <2> QED
    BY <1>2, <2>1
<1> QED
  BY <1>3 DEF Max

LEMMA LeastElement ==
    ASSUME NEW n \in Nat, NEW s \in SUBSET (1..n), s # {}
    PROVE  Min(s) \in s /\ \A x \in s : Min(s) <= x
<1>1. PICK x \in s : \A y \in s : x <= y
  BY LeastOf
<1> QED
  BY <1>1 DEF Min

\* The first n places, of which n is the last.
LEMMA UpTo ==
    ASSUME NEW N \in Nat, NEW n \in 1..N
    PROVE  1..n \in SUBSET (1..N) /\ 1..n # {} /\ (1..n) \ {n} = 1..(n - 1) /\ Max(1..n) = n
<1>1. n \in Nat /\ n >= 1 /\ n <= N
  OBVIOUS
<1>2. (1..n) \ {n} = 1..(n - 1) /\ 1..n \in SUBSET (1..N) /\ n \in 1..n
  BY <1>1
<1> DEFINE x == Max(1..n)
<1>3. x \in 1..n /\ x >= n
  <2>1. \A s \in SUBSET (1..n) : s # {} => Max(s) \in s /\ \A y \in s : Max(s) >= y
    BY <1>1, GreatestOf
  <2>2. 1..n \in SUBSET (1..n)
    OBVIOUS
  <2> QED
    BY <1>2, <2>1, <2>2, Zenon
<1> HIDE DEF x
<1>4. x = n
  BY <1>1, <1>3
<1> QED
  BY <1>2, <1>4 DEF x

\* F is what a fold goes by that puts the places 1 .. N together with G, one after
\* the other.
Folding(F, N, base, G) ==
    \A s \in SUBSET (1..N) : F[s] = IF s = {} THEN base ELSE G[<<F[s \ {Max(s)}], Max(s)>>]

LEMMA FoldExists ==
    ASSUME NEW N \in Nat, NEW Y, NEW base \in Y, NEW G \in [Y \X (1..N) -> Y]
    PROVE  \E F \in [SUBSET (1..N) -> Y] : Folding(F, N, base, G)
<1> DEFINE Folds(n, F) == \A s \in SUBSET (1..n) :
                             F[s] = IF s = {} THEN base ELSE G[<<F[s \ {Max(s)}], Max(s)>>]
           T == {n \in Nat : n <= N /\ ~\E F \in [SUBSET (1..n) -> Y] : Folds(n, F)}
<1>1. T = {}
  <2> SUFFICES ASSUME T # {} PROVE FALSE
    OBVIOUS
  <2>1. PICK n \in T : \A m \in T : n <= m
    <3>1. T \in SUBSET Nat
      OBVIOUS
    <3> HIDE DEF T
    <3> QED
      BY <3>1, LeastOf
  <2>2. n \in Nat /\ n <= N
    BY <2>1
  <2>3. n # 0
    <3> SUFFICES ASSUME n = 0 PROVE FALSE
      OBVIOUS
    <3> DEFINE F == [s \in SUBSET (1..0) |-> base]
    <3>1. SUBSET (1..0) = {{}}
      OBVIOUS
    <3>2. F \in [SUBSET (1..0) -> Y] /\ Folds(0, F)
      BY <3>1
    <3> QED
      BY <2>1, <3>2
  <2>4. n - 1 \in Nat /\ n - 1 <= N /\ n - 1 \notin T
    <3> HIDE DEF T
    <3> QED
      BY <2>1, <2>2, <2>3
  <2>5. PICK F \in [SUBSET (1..(n - 1)) -> Y] : Folds(n - 1, F)
    BY <2>4
  <2> DEFINE H == [s \in SUBSET (1..n) |-> IF n \in s THEN G[<<F[s \ {n}], n>>] ELSE F[s]]
  <2>6. ASSUME NEW s \in SUBSET (1..n), n \in s
        PROVE  /\ s \ {n} \in SUBSET (1..(n - 1)) /\ Max(s) = n
               /\ H[s] = G[<<F[s \ {n}], n>>] /\ F[s \ {n}] \in Y /\ H[s \ {n}] = F[s \ {n}]
               /\ H[s] \in Y
    <3>1. s \ {n} \in SUBSET (1..(n - 1)) /\ s \ {n} \in SUBSET (1..n)
      BY <2>2, <2>6
    <3>2. Max(s) = n
      <4>1. Max(s) \in s /\ Max(s) >= n
        BY <2>2, <2>6, GreatestOf
      <4> DEFINE x == Max(s)
      <4>2. x \in 1..n /\ x >= n
        BY <4>1
      <4> HIDE DEF x
      <4>3. x = n
        BY <2>2, <4>2
      <4> QED
        BY <4>3 DEF x
    <3>3. F[s \ {n}] \in Y
      BY <2>5, <3>1
    <3>4. n \in 1..N
      BY <2>2, <2>3
    <3> QED
      BY <2>6, <3>1, <3>2, <3>3, <3>4
  <2>7. ASSUME NEW s \in SUBSET (1..n), n \notin s
        PROVE  /\ s \in SUBSET (1..(n - 1)) /\ H[s] = F[s] /\ H[s] \in Y
               /\ s # {} => /\ s \ {Max(s)} \in SUBSET (1..(n - 1))
                            /\ H[s \ {Max(s)}] = F[s \ {Max(s)}]
    <3>1. s \in SUBSET (1..(n - 1))
      BY <2>2, <2>7
    <3>2. s \ {Max(s)} \in SUBSET (1..(n - 1)) /\ s \ {Max(s)} \in SUBSET (1..n) /\ n \notin s \ {Max(s)}
      BY <2>7, <3>1
    <3> QED
      BY <2>5, <2>7, <3>1, <3>2
  <2>8. H \in [SUBSET (1..n) -> Y]
    BY <2>6, <2>7
  <2>9. Folds(n, H)
    <3> SUFFICES ASSUME NEW s \in SUBSET (1..n)
                 PROVE  H[s] = IF s = {} THEN base ELSE G[<<H[s \ {Max(s)}], Max(s)>>]
      OBVIOUS
    <3>1. CASE n \in s
      BY <2>6, <3>1
    <3>2. CASE n \notin s
      <4> HIDE DEF H
      <4> QED
        BY <2>5, <2>7, <3>2
    <3> QED
      BY <3>1, <3>2
  <2> QED
    BY <2>1, <2>8, <2>9
<1>2. N \notin T
  BY <1>1
<1>3. \E F \in [SUBSET (1..N) -> Y] : Folds(N, F)
  <2> HIDE DEF Folds
  <2>1. N \in Nat /\ N <= N
    OBVIOUS
  <2> QED
    BY <1>2, <2>1, Zenon
<1> QED
  BY <1>3 DEF Folding
-----------------------------------------------------------------------------
(* Lists *)

\* A sequence of anything.
IsList(s) == \E n \in Nat : s = [i \in 1..n |-> s[i]]

LEMMA ListIsSeq ==
    ASSUME NEW s, IsList(s)
    PROVE  /\ s \in Seq({s[i] : i \in DOMAIN s}) /\ Len(s) \in Nat /\ DOMAIN s = 1..Len(s)
           /\ s = [i \in 1..Len(s) |-> s[i]] /\ (s = <<>> <=> Len(s) = 0)
<1>1. PICK n \in Nat : s = [i \in 1..n |-> s[i]]
  BY DEF IsList
<1>2. DOMAIN s = 1..n
  BY <1>1
<1> DEFINE A == {s[i] : i \in DOMAIN s}
<1>3. \A i \in 1..n : s[i] \in A
  BY <1>2
<1> HIDE DEF A
<1>4. s \in [1..n -> A]
  BY <1>1, <1>3
<1>5. s \in Seq(A) /\ Len(s) = n /\ (s = <<>> <=> n = 0)
  BY <1>4
<1> QED
  BY <1>1, <1>2, <1>5 DEF A

LEMMA MakeList ==
    ASSUME NEW n \in Nat, NEW s, s = [i \in 1..n |-> s[i]]
    PROVE  IsList(s) /\ Len(s) = n /\ DOMAIN s = 1..n
<1>1. IsList(s)
  BY DEF IsList
<1>2. DOMAIN s = 1..n /\ DOMAIN s = 1..Len(s) /\ Len(s) \in Nat
  BY <1>1, ListIsSeq
<1> QED
  BY <1>1, <1>2

LEMMA SeqIsList ==
    ASSUME NEW X, NEW s \in Seq(X)
    PROVE  IsList(s)
BY DEF IsList

LEMMA SameList ==
    ASSUME NEW s, NEW t, IsList(s), IsList(t), Len(s) = Len(t), \A i \in 1..Len(s) : s[i] = t[i]
    PROVE  s = t
<1>1. s = [i \in 1..Len(s) |-> s[i]] /\ t = [i \in 1..Len(s) |-> t[i]]
  BY ListIsSeq
<1> QED
  BY <1>1

LEMMA ConcatList ==
    ASSUME NEW s, NEW t, IsList(s), IsList(t)
    PROVE  /\ IsList(s \o t) /\ Len(s \o t) = Len(s) + Len(t)
           /\ \A i \in 1..Len(s) : (s \o t)[i] = s[i]
           /\ \A i \in 1..Len(t) : (s \o t)[Len(s) + i] = t[i]
<1> DEFINE X == {s[i] : i \in DOMAIN s} \union {t[i] : i \in DOMAIN t}
<1>1. s \in Seq({s[i] : i \in DOMAIN s}) /\ t \in Seq({t[i] : i \in DOMAIN t})
  BY ListIsSeq
<1>2. s \in Seq(X) /\ t \in Seq(X)
  <2> DEFINE A == {s[i] : i \in DOMAIN s}
             B == {t[i] : i \in DOMAIN t}
  <2>1. s \in Seq(A) /\ t \in Seq(B) /\ A \subseteq A \union B /\ B \subseteq A \union B
    BY <1>1
  <2> HIDE DEF A, B
  <2>2. s \in Seq(A \union B) /\ t \in Seq(A \union B)
    BY <2>1
  <2> QED
    BY <2>2 DEF A, B
<1> HIDE DEF X
<1>3. s \o t \in Seq(X) /\ Len(s \o t) = Len(s) + Len(t)
  BY <1>2
<1>4. \A i \in 1..Len(s) : (s \o t)[i] = s[i]
  BY <1>2
<1>5. \A i \in 1..Len(t) : (s \o t)[Len(s) + i] = t[i]
  BY <1>2
<1> QED
  BY <1>3, <1>4, <1>5, SeqIsList

LEMMA AppendList ==
    ASSUME NEW s, NEW x, IsList(s)
    PROVE  /\ IsList(Append(s, x)) /\ Len(Append(s, x)) = Len(s) + 1
           /\ \A i \in 1..Len(s) : Append(s, x)[i] = s[i]
           /\ Append(s, x)[Len(s) + 1] = x
<1> DEFINE A == {s[i] : i \in DOMAIN s}
<1>1. s \in Seq(A) /\ A \subseteq A \union {x} /\ x \in A \union {x}
  BY ListIsSeq
<1> HIDE DEF A
<1>2. s \in Seq(A \union {x})
  BY <1>1
<1>3. Append(s, x) \in Seq(A \union {x}) /\ Len(Append(s, x)) = Len(s) + 1
  BY <1>1, <1>2
<1>4. \A i \in 1..Len(s) : Append(s, x)[i] = s[i]
  BY <1>1, <1>2
<1>5. Append(s, x)[Len(s) + 1] = x
  BY <1>1, <1>2
<1> QED
  BY <1>3, <1>4, <1>5, SeqIsList

Changed(s, k, x) == [s EXCEPT ![k] = x]

LEMMA ChangeList ==
    ASSUME NEW s, NEW k, NEW x, IsList(s), k \in 1..Len(s)
    PROVE  /\ IsList(Changed(s, k, x)) /\ Len(Changed(s, k, x)) = Len(s) /\ Changed(s, k, x)[k] = x
           /\ \A i \in 1..Len(s) : i # k => Changed(s, k, x)[i] = s[i]
<1> DEFINE n == Len(s)
           t == Changed(s, k, x)
<1>1. n \in Nat /\ DOMAIN s = 1..n
  BY ListIsSeq
<1> HIDE DEF n
<1>2. t = [i \in 1..n |-> IF i = k THEN x ELSE s[i]]
  BY <1>1 DEF Changed
<1> HIDE DEF t
<1>3. t[k] = x /\ \A i \in 1..n : i # k => t[i] = s[i]
  BY <1>2 DEF n
<1>4. t = [i \in 1..n |-> t[i]]
  BY <1>2
<1>5. IsList(t) /\ Len(t) = n
  BY <1>1, <1>4, MakeList
<1> QED
  BY <1>3, <1>5 DEF n, t

LEMMA EmptyList == IsList(<<>>) /\ Len(<<>>) = 0
<1>1. <<>> = [i \in 1..0 |-> <<>>[i]]
  OBVIOUS
<1> QED
  BY <1>1 DEF IsList

\* A list of one element.
LEMMA OneElement == \A x : IsList(<<x>>) /\ Len(<<x>>) = 1 /\ <<x>>[1] = x
<1> TAKE x
<1>1. <<x>> \in Seq({x})
  OBVIOUS
<1> QED
  BY <1>1, SeqIsList
-----------------------------------------------------------------------------
(* A list of parts: part k of s has what is behind off[k], up to off[k + 1] *)

Piece(s, from, to) == [j \in 1..(to - from) |-> s[from + j]]

Splits(parts, off, s, n) ==
    /\ IsList(parts) /\ DOMAIN off = 1..(Len(parts) + 1)
    /\ off[1] = 0 /\ off[Len(parts) + 1] = n
    /\ \A k \in 1..(Len(parts) + 1) : off[k] \in 0..n
    /\ \A k \in 1..Len(parts) :
          /\ off[k] <= off[k + 1] /\ (k < Len(parts) => off[k] < off[k + 1])
          /\ parts[k] = Piece(s, off[k], off[k + 1])

\* Up to m, exactly the last element of each part but the last is in ends.
EndsOf(parts, off, ends, m) ==
    \A i \in 1..m : i \in ends <=> \E k \in 2..Len(parts) : off[k] = i

LEMMA PieceIsList ==
    ASSUME NEW s, NEW o \in Nat, NEW n \in Nat, o <= n
    PROVE  /\ IsList(Piece(s, o, n)) /\ Len(Piece(s, o, n)) = n - o
           /\ \A j \in 1..Len(Piece(s, o, n)) : Piece(s, o, n)[j] = s[o + j]
<1> DEFINE a == Piece(s, o, n)
           m == n - o
<1>1. a = [j \in 1..m |-> s[o + j]] /\ m \in Nat
  BY DEF Piece
<1>2. a = [j \in 1..m |-> a[j]] /\ \A j \in 1..m : a[j] = s[o + j]
  BY <1>1
<1> HIDE DEF a, m
<1>3. IsList(a) /\ Len(a) = m
  BY <1>1, <1>2, MakeList
<1> QED
  BY <1>2, <1>3 DEF a, m

LEMMA SamePiece ==
    ASSUME NEW s, NEW t, NEW o \in Nat, NEW n \in Nat, o <= n,
           IsList(t), Len(t) = n - o, \A j \in 1..Len(t) : t[j] = s[o + j]
    PROVE  t = Piece(s, o, n)
<1> DEFINE p == Piece(s, o, n)
<1>1. IsList(p) /\ Len(p) = n - o /\ \A j \in 1..Len(p) : p[j] = s[o + j]
  BY PieceIsList
<1> HIDE DEF p
<1>2. t = p
  BY <1>1, SameList
<1> QED
  BY <1>2 DEF p

\* One element more.
LEMMA ExtendPiece ==
    ASSUME NEW s, NEW o \in Nat, NEW n \in Nat, o <= n
    PROVE  Append(Piece(s, o, n), s[n + 1]) = Piece(s, o, n + 1)
<1> DEFINE a == Piece(s, o, n)
           b == Append(a, s[n + 1])
<1>1. PICK m \in Nat : n = o + m
  <2>1. n - o \in Nat /\ n = o + (n - o)
    OBVIOUS
  <2> QED
    BY <2>1
<1>2. IsList(a) /\ Len(a) = m /\ \A j \in 1..m : a[j] = s[o + j]
  <2>1. IsList(a) /\ Len(a) = n - o /\ \A j \in 1..Len(a) : a[j] = s[o + j]
    BY PieceIsList
  <2> HIDE DEF a
  <2> QED
    BY <1>1, <2>1
<1> HIDE DEF a
<1>3. IsList(b) /\ Len(b) = m + 1 /\ (\A j \in 1..m : b[j] = a[j]) /\ b[m + 1] = s[n + 1]
  BY <1>2, AppendList
<1> HIDE DEF b
<1>4. \A j \in 1..(m + 1) : b[j] = s[o + j]
  <2> TAKE j \in 1..(m + 1)
  <2>1. CASE j \in 1..m
    BY <1>2, <1>3, <2>1
  <2>2. CASE j = m + 1
    <3>1. o + (m + 1) = n + 1
      BY <1>1
    <3> QED
      BY <1>3, <2>2, <3>1
  <2> QED
    BY <1>1, <2>1, <2>2
<1>5. b = Piece(s, o, n + 1)
  <2>1. n + 1 \in Nat /\ o <= n + 1 /\ Len(b) = (n + 1) - o /\ \A j \in 1..Len(b) : b[j] = s[o + j]
    BY <1>1, <1>3, <1>4
  <2> QED
    BY <1>3, <2>1, SamePiece
<1> QED
  BY <1>5 DEF b, a

\* The last part has one element more.
LEMMA SplitsLonger ==
    ASSUME NEW parts, NEW off, NEW s, NEW n \in Nat, Splits(parts, off, s, n), Len(parts) # 0
    PROVE  LET K == Len(parts)
               longer == [parts EXCEPT ![K] = Append(@, s[n + 1])]
           IN  /\ Splits(longer, [off EXCEPT ![K + 1] = n + 1], s, n + 1)
               /\ Len(longer) = K
<1> DEFINE K == Len(parts)
           x == Append(parts[K], s[n + 1])
           longer == Changed(parts, K, x)
           off2 == [off EXCEPT ![K + 1] = n + 1]
<1>1. IsList(parts) /\ K \in Nat \ {0}
  BY ListIsSeq DEF Splits
<1>2. /\ DOMAIN off = 1..(K + 1) /\ off[1] = 0 /\ off[K + 1] = n
      /\ \A k \in 1..(K + 1) : off[k] \in 0..n
      /\ \A k \in 1..K : /\ off[k] <= off[k + 1] /\ (k < K => off[k] < off[k + 1])
                         /\ parts[k] = Piece(s, off[k], off[k + 1])
  BY DEF Splits
<1>3. x = Piece(s, off[K], n + 1)
  <2>1. K \in 1..K /\ K \in 1..(K + 1)
    BY <1>1
  <2>2. off[K] \in Nat /\ off[K] <= n /\ parts[K] = Piece(s, off[K], n)
    BY <1>2, <2>1
  <2> QED
    BY <2>2, ExtendPiece
<1> HIDE DEF K, x
<1>4. /\ IsList(longer) /\ Len(longer) = K /\ longer[K] = x
      /\ \A k \in 1..K : k # K => longer[k] = parts[k]
  <2>1. K \in 1..Len(parts)
    BY <1>1 DEF K
  <2> QED
    <3>1. /\ IsList(longer) /\ Len(longer) = Len(parts) /\ longer[K] = x
          /\ \A k \in 1..Len(parts) : k # K => longer[k] = parts[k]
      BY <1>1, <2>1, ChangeList
    <3> QED
      BY <3>1 DEF K
<1>5. /\ DOMAIN off2 = 1..(K + 1) /\ off2[K + 1] = n + 1
      /\ \A k \in 1..(K + 1) : k <= K => off2[k] = off[k]
  BY <1>1, <1>2
<1> HIDE DEF longer, off2
<1>7. ASSUME NEW k \in 1..K
      PROVE  /\ off2[k] <= off2[k + 1] /\ (k < K => off2[k] < off2[k + 1])
             /\ longer[k] = Piece(s, off2[k], off2[k + 1])
  <2>1. CASE k < K
    <3>1. k \in 1..(K + 1) /\ k + 1 \in 1..(K + 1) /\ k <= K /\ k + 1 <= K
      BY <1>1, <2>1
    <3>2. off2[k] = off[k] /\ off2[k + 1] = off[k + 1] /\ longer[k] = parts[k]
      BY <1>4, <1>5, <2>1, <3>1
    <3> QED
      BY <1>2, <3>2, <2>1
  <2>2. CASE k = K
    <3>1. off2[k] = off[k] /\ off2[k] \in 0..n /\ off2[k + 1] = n + 1 /\ longer[k] = x
      BY <1>1, <1>2, <1>4, <1>5, <2>2
    <3> QED
      BY <1>1, <1>3, <2>2, <3>1
  <2> QED
    BY <1>1, <2>1, <2>2
<1>8. off2[1] = 0 /\ \A k \in 1..(K + 1) : off2[k] \in 0..(n + 1)
  BY <1>1, <1>2, <1>5
<1> QED
  BY <1>4, <1>5, <1>7, <1>8 DEF Splits, K, x, longer, off2, Changed

\* A part more, behind the others.
LEMMA SplitsMore ==
    ASSUME NEW parts, NEW off, NEW s, NEW n \in Nat, NEW n2 \in Nat, Splits(parts, off, s, n),
           n <= n2, Len(parts) # 0 => off[Len(parts)] < n
    PROVE  LET K == Len(parts)
               off2 == [k \in 1..(K + 2) |-> IF k <= K + 1 THEN off[k] ELSE n2]
           IN  /\ Splits(Append(parts, Piece(s, n, n2)), off2, s, n2)
               /\ Len(Append(parts, Piece(s, n, n2))) = K + 1
<1> DEFINE K == Len(parts)
           x == Piece(s, n, n2)
           more == Append(parts, x)
           off2 == [k \in 1..(K + 2) |-> IF k <= K + 1 THEN off[k] ELSE n2]
<1>1. IsList(parts) /\ K \in Nat
  BY ListIsSeq DEF Splits
<1>2. /\ DOMAIN off = 1..(K + 1) /\ off[1] = 0 /\ off[K + 1] = n
      /\ \A k \in 1..(K + 1) : off[k] \in 0..n
      /\ \A k \in 1..K : /\ off[k] <= off[k + 1] /\ (k < K => off[k] < off[k + 1])
                         /\ parts[k] = Piece(s, off[k], off[k + 1])
      /\ K # 0 => off[K] < n
  BY DEF Splits
<1> HIDE DEF x
<1>3. /\ IsList(more) /\ Len(more) = K + 1 /\ more[K + 1] = x
      /\ \A k \in 1..K : more[k] = parts[k]
  BY <1>1, AppendList
<1> HIDE DEF K, more
<1>4. /\ DOMAIN off2 = 1..(K + 2) /\ off2[K + 2] = n2
      /\ \A k \in 1..(K + 1) : off2[k] = off[k]
  BY <1>1
<1> HIDE DEF off2
<1>5. ASSUME NEW k \in 1..(K + 1)
      PROVE  /\ off2[k] <= off2[k + 1] /\ (k < K + 1 => off2[k] < off2[k + 1])
             /\ more[k] = Piece(s, off2[k], off2[k + 1])
  <2>1. CASE k <= K
    <3>1. k \in 1..K /\ k + 1 \in 1..(K + 1)
      BY <1>1, <2>1
    <3>2. off2[k] = off[k] /\ off2[k + 1] = off[k + 1] /\ more[k] = parts[k]
      BY <1>3, <1>4, <3>1
    <3>3. off[k] < off[k + 1]
      BY <1>1, <1>2, <3>1
    <3> QED
      BY <1>2, <3>1, <3>2, <3>3
  <2>2. CASE k = K + 1
    <3>1. off2[k] = n /\ k + 1 = K + 2
      BY <1>1, <1>2, <1>4, <2>2
    <3>2. off2[k + 1] = n2 /\ more[k] = x
      BY <1>3, <1>4, <2>2, <3>1
    <3> QED
      BY <3>1, <3>2, <2>2 DEF x
  <2> QED
    BY <1>1, <2>1, <2>2
<1>6. off2[1] = 0 /\ \A k \in 1..(K + 2) : off2[k] \in 0..n2
  BY <1>1, <1>2, <1>4
<1>7. (K + 1) + 1 = K + 2
  BY <1>1
<1>8. Splits(more, off2, s, n2)
  BY <1>3, <1>4, <1>5, <1>6, <1>7 DEF Splits
<1> QED
  BY <1>3, <1>8 DEF K, x, more, off2
-----------------------------------------------------------------------------
(* The batches of a message *)

\* What Joined makes of the commands, one after the other: F[n] of the first n.
LEMMA JoinedOneByOne ==
    ASSUME NEW cmds, IsList(cmds)
    PROVE  \E F : /\ F[0] = <<<<>>>>
                  /\ \A n \in 1..Len(cmds) : F[n] = Joined(F[n - 1], cmds[n])
                  /\ FoldLeft(Joined, <<<<>>>>, cmds) = F[Len(cmds)]
<1> DEFINE N == Len(cmds)
           X == {cmds[i] : i \in DOMAIN cmds}
           Y == Seq(Seq(X))
           G == [p \in Y \X (1..N) |-> Joined(p[1], cmds[p[2]])]
           Goes(I) == I = [s \in SUBSET (1..N) |->
                             IF s = {} THEN <<<<>>>>
                             ELSE LET x == Max(s) IN Joined(I[s \ {x}], cmds[x])]
           I == CHOOSE I : Goes(I)
<1>1. N \in Nat /\ DOMAIN cmds = 1..N /\ cmds \in Seq(X)
  BY ListIsSeq
<1>2. <<<<>>>> \in Y
  OBVIOUS
<1>3. \A b \in Y, i \in 1..N : Joined(b, cmds[i]) \in Y
  <2> SUFFICES ASSUME NEW b \in Y, NEW i \in 1..N PROVE Joined(b, cmds[i]) \in Y
    OBVIOUS
  <2>1. cmds[i] \in X
    BY <1>1
  <2> HIDE DEF X
  <2> DEFINE l == Len(b)
             e == Append(b[l], cmds[i])
  <2>2. CASE b = <<>>
    <3>1. [b EXCEPT ![l] = e] = b
      BY <2>2
    <3> HIDE DEF l, e
    <3>2. Append(b, <<>>) \in Seq(Seq(X))
      OBVIOUS
    <3> QED
      BY <3>1, <3>2 DEF Joined, l, e
  <2>3. CASE b # <<>>
    <3>1. l \in 1..Len(b) /\ b[l] \in Seq(X)
      BY <2>3
    <3>2. e \in Seq(X)
      BY <2>1, <3>1
    <3> HIDE DEF l, e
    <3>3. [b EXCEPT ![l] = e] \in Seq(Seq(X))
      BY <3>1, <3>2
    <3>4. Append([b EXCEPT ![l] = e], <<>>) \in Seq(Seq(X))
      BY <3>3
    <3> QED
      BY <3>3, <3>4 DEF Joined, l, e
  <2> QED
    BY <2>2, <2>3
<1>4. FoldLeft(Joined, <<<<>>>>, cmds) = I[1..N]
  BY <1>1 DEF FoldLeft, MapThenFoldSet
<1>5. \E J : Goes(J)
  <2>1. G \in [Y \X (1..N) -> Y]
    BY <1>3
  <2> HIDE DEF Y
  <2>2. PICK J \in [SUBSET (1..N) -> Y] : \A s \in SUBSET (1..N) :
                 J[s] = IF s = {} THEN <<<<>>>> ELSE G[<<J[s \ {Max(s)}], Max(s)>>]
    <3> DEFINE base == <<<<>>>>
    <3>1. base \in Y /\ N \in Nat
      BY <1>1, <1>2
    <3> HIDE DEF G, N, base
    <3>2. \E J \in [SUBSET (1..N) -> Y] : Folding(J, N, base, G)
      BY <2>1, <3>1, FoldExists
    <3> QED
      BY <3>2 DEF base, Folding
  <2>3. ASSUME NEW s \in SUBSET (1..N), s # {}
        PROVE  G[<<J[s \ {Max(s)}], Max(s)>>] = Joined(J[s \ {Max(s)}], cmds[Max(s)])
    <3>1. Max(s) \in 1..N
      BY <1>1, <2>3, GreatestOf
    <3>2. J[s \ {Max(s)}] \in Y
      BY <2>2
    <3> QED
      BY <3>1, <3>2
  <2>4. J = [s \in SUBSET (1..N) |->
               IF s = {} THEN <<<<>>>> ELSE LET x == Max(s) IN Joined(J[s \ {x}], cmds[x])]
    <3> HIDE DEF G
    <3> QED
      BY <2>2, <2>3
  <2> QED
    BY <2>4
<1>6. Goes(I)
  BY <1>5
<1> DEFINE F == [n \in 0..N |-> I[1..n]]
<1>7. F[0] = <<<<>>>>
  <2>1. 1..0 = {} /\ {} \in SUBSET (1..N) /\ 0 \in 0..N
    BY <1>1
  <2>2. I[{}] = <<<<>>>>
    BY <1>6, <2>1
  <2> QED
    BY <2>1, <2>2
<1> HIDE DEF N, X, Y, G
<1>8. ASSUME NEW n \in 1..N PROVE F[n] = Joined(F[n - 1], cmds[n])
  <2>1. 1..n \in SUBSET (1..N) /\ 1..n # {} /\ (1..n) \ {n} = 1..(n - 1) /\ Max(1..n) = n
    BY <1>1, UpTo
  <2>2. n \in 0..N /\ n - 1 \in 0..N
    BY <1>1
  <2>3. I[1..n] = Joined(I[(1..n) \ {n}], cmds[n])
    BY <1>6, <2>1
  <2> HIDE DEF I, Goes
  <2>4. F[n] = I[1..n] /\ F[n - 1] = I[1..(n - 1)]
    BY <2>2
  <2> QED
    BY <2>1, <2>3, <2>4
<1>9. F[N] = I[1..N]
  BY <1>1
<1> HIDE DEF F, I
<1> QED
  BY <1>4, <1>7, <1>8, <1>9 DEF N

\* The places of the parts are in order.
LEMMA SplitsOrdered ==
    ASSUME NEW parts, NEW off, NEW s, NEW n \in Nat, Splits(parts, off, s, n)
    PROVE  \A j, k \in 1..(Len(parts) + 1) :
              /\ j <= k => off[j] <= off[k]
              /\ j < k /\ k <= Len(parts) => off[j] < off[k]
<1> DEFINE K == Len(parts)
           Fails(j, k) == ~(/\ j <= k => off[j] <= off[k]
                            /\ j < k /\ k <= K => off[j] < off[k])
           T == {k \in 1..(K + 1) : \E j \in 1..(K + 1) : Fails(j, k)}
<1>1. K \in Nat
  BY ListIsSeq DEF Splits
<1>2. /\ \A k \in 1..(K + 1) : off[k] \in 0..n
      /\ \A k \in 1..K : off[k] <= off[k + 1] /\ (k < K => off[k] < off[k + 1])
  BY DEF Splits
<1> HIDE DEF K
<1>3. T = {}
  <2> SUFFICES ASSUME T # {} PROVE FALSE
    OBVIOUS
  <2>1. T \in SUBSET Nat
    BY <1>1
  <2>2. PICK k \in T : \A m \in T : k <= m
    <3> HIDE DEF T
    <3> QED
      BY <2>1, LeastOf
  <2>3. PICK j \in 1..(K + 1) : Fails(j, k)
    BY <2>2
  <2>4. k \in 1..(K + 1)
    BY <2>2
  <2>5. j < k
    BY <1>1, <1>2, <2>3, <2>4
  <2>6. k - 1 \in 1..K /\ k - 1 \in 1..(K + 1) /\ j <= k - 1 /\ (k - 1) + 1 = k
    BY <1>1, <2>3, <2>4, <2>5
  <2>7. k - 1 \notin T
    <3> HIDE DEF T
    <3> QED
      BY <2>1, <2>2, <2>4
  <2>8. ~Fails(j, k - 1)
    BY <2>6, <2>7
  <2>9. off[k - 1] <= off[k] /\ (k - 1 < K => off[k - 1] < off[k])
    BY <1>2, <2>6
  <2>10. off[j] <= off[k - 1]
    BY <2>6, <2>8
  <2>11. off[j] \in Nat /\ off[k] \in Nat /\ off[k - 1] \in Nat
    BY <1>2, <2>3, <2>4, <2>6
  <2> QED
    BY <1>1, <2>3, <2>4, <2>9, <2>10, <2>11
<1> QED
  BY <1>3 DEF K

\* The places where a list of commands has the end of a statement.
EndsIn(cmds) == {i \in DOMAIN cmds : cmds[i].end_of_statement}

\* A batch ends where a statement does.
LEMMA Batches ==
    ASSUME NEW cmds, IsList(cmds)
    PROVE  LET batches == FoldLeft(Joined, <<<<>>>>, cmds)
           IN  /\ IsList(batches) /\ Len(batches) >= 1
               /\ \E off : /\ Splits(batches, off, cmds, Len(cmds))
                           /\ EndsOf(batches, off, EndsIn(cmds), Len(cmds))
<1> DEFINE N == Len(cmds)
           E == EndsIn(cmds)
<1>1. N \in Nat /\ DOMAIN cmds = 1..N
  BY ListIsSeq
<1>2. PICK F : /\ F[0] = <<<<>>>>
               /\ \A n \in 1..N : F[n] = Joined(F[n - 1], cmds[n])
               /\ FoldLeft(Joined, <<<<>>>>, cmds) = F[N]
  BY JoinedOneByOne
<1> DEFINE Good(n) == /\ Len(F[n]) >= 1
                      /\ \E off : Splits(F[n], off, cmds, n) /\ EndsOf(F[n], off, E, n)
           T == {n \in Nat : n <= N /\ ~Good(n)}
<1>3. Good(0)
  <2> DEFINE off == [k \in 1..2 |-> 0]
  <2>1. IsList(F[0]) /\ Len(F[0]) = 1 /\ F[0][1] = <<>>
    BY <1>2, OneElement
  <2>2. Piece(cmds, 0, 0) = <<>>
    BY DEF Piece
  <2>3. Splits(F[0], off, cmds, 0)
    BY <2>1, <2>2 DEF Splits
  <2>4. EndsOf(F[0], off, E, 0)
    BY DEF EndsOf
  <2> QED
    BY <2>1, <2>3, <2>4
<1>4. ASSUME NEW n \in Nat, n + 1 <= N, Good(n)
      PROVE  Good(n + 1)
  <2> DEFINE K == Len(F[n])
             c == cmds[n + 1]
             long == [F[n] EXCEPT ![K] = Append(@, c)]
             m == n + 1
  <2>1. PICK off : Splits(F[n], off, cmds, n) /\ EndsOf(F[n], off, E, n)
    BY <1>4
  <2>2. IsList(F[n]) /\ K \in Nat \ {0}
    BY <1>4, <2>1, ListIsSeq DEF Splits
  <2>3. m \in Nat /\ m \in 1..N /\ m - 1 = n
    BY <1>1, <1>4
  <2>4. F[m] = IF c.end_of_statement THEN Append(long, <<>>) ELSE long
    BY <1>2, <2>3 DEF Joined
  <2> DEFINE off1 == [off EXCEPT ![K + 1] = m]
  <2>5. Splits(long, off1, cmds, m) /\ Len(long) = K
    BY <2>1, <2>2, SplitsLonger
  <2>6. /\ DOMAIN off = 1..(K + 1) /\ off[K + 1] = n /\ off1[K + 1] = m
        /\ \A k \in 1..K : off1[k] = off[k] /\ off[k] <= n
    <3>1. DOMAIN off = 1..(K + 1) /\ off[K + 1] = n /\ \A k \in 1..(K + 1) : off[k] \in 0..n
      BY <2>1 DEF Splits
    <3>2. K + 1 \in 1..(K + 1) /\ \A k \in 1..K : k # K + 1 /\ k \in 1..(K + 1)
      BY <2>2
    <3> HIDE DEF K
    <3> QED
      BY <3>1, <3>2
  <2>7. m \in E <=> c.end_of_statement
    BY <1>1, <2>3 DEF EndsIn
  <2>8. \A i \in 1..n : i \in E <=> \E k \in 2..K : off1[k] = i
    <3>1. \A k \in 2..K : k \in 1..K
      OBVIOUS
    <3>2. \A i \in 1..n : i \in E <=> \E k \in 2..K : off[k] = i
      BY <2>1 DEF EndsOf
    <3> HIDE DEF E, K, off1
    <3> QED
      BY <2>6, <3>1, <3>2
  <2>9. ~\E k \in 2..K : off1[k] = m
    <3>1. \A k \in 2..K : k \in 1..K
      OBVIOUS
    <3> HIDE DEF K, off1
    <3>2. \A k \in 1..K : off1[k] <= n /\ off1[k] = off[k]
      BY <2>6
    <3>3. \A k \in 1..K : off[k] \in 0..n
      BY <2>1, <2>2 DEF Splits, K
    <3> QED
      BY <3>1, <3>2, <3>3
  <2>10. CASE ~c.end_of_statement
    <3>1. F[m] = long
      BY <2>4, <2>10
    <3>2. EndsOf(long, off1, E, m)
      <4> SUFFICES ASSUME NEW i \in 1..m PROVE i \in E <=> \E k \in 2..K : off1[k] = i
        BY <2>5 DEF EndsOf
      <4>1. i \in 1..n \/ i = m
        OBVIOUS
      <4> HIDE DEF E, K, off1, m
      <4> QED
        BY <2>7, <2>8, <2>9, <2>10, <4>1
    <3> QED
      <4> HIDE DEF long, off1, E
      <4> QED
        BY <2>2, <2>5, <3>1, <3>2
  <2>11. CASE c.end_of_statement
    <3> DEFINE off2 == [k \in 1..(K + 2) |-> IF k <= K + 1 THEN off1[k] ELSE m]
               more == Append(long, Piece(cmds, m, m))
    <3>1. Piece(cmds, m, m) = <<>>
      BY DEF Piece
    <3>2. F[m] = more
      BY <2>4, <2>11, <3>1
    <3>3. off1[K] < m
      BY <2>1, <2>2, <2>6 DEF Splits
    <3>4. Splits(more, off2, cmds, m) /\ Len(more) = K + 1
      <4>1. Len(long) # 0 => off1[Len(long)] < m
        BY <2>5, <3>3
      <4>2. m <= m
        OBVIOUS
      <4>3. LET off3 == [k \in 1..(Len(long) + 2) |-> IF k <= Len(long) + 1 THEN off1[k] ELSE m]
            IN  Splits(more, off3, cmds, m) /\ Len(more) = Len(long) + 1
        <5> HIDE DEF long, off1, m
        <5> QED
          BY <2>3, <2>5, <4>1, <4>2, SplitsMore
      <4> HIDE DEF long, more
      <4> QED
        BY <2>5, <4>3
    <3>5. EndsOf(more, off2, E, m)
      <4> SUFFICES ASSUME NEW i \in 1..m PROVE i \in E <=> \E k \in 2..(K + 1) : off2[k] = i
        BY <3>4 DEF EndsOf
      <4>1. i \in 1..n \/ i = m
        OBVIOUS
      <4>2. \A k \in 2..(K + 1) : off2[k] = off1[k] /\ (k \in 2..K \/ k = K + 1)
        BY <2>2
      <4>3. K + 1 \in 2..(K + 1) /\ 2..K \subseteq 2..(K + 1) /\ n < m
        BY <2>2
      <4>4. \A j \in 1..n : j # m
        OBVIOUS
      <4> HIDE DEF E, K, off1, off2, m
      <4> QED
        BY <2>6, <2>7, <2>8, <2>11, <4>1, <4>2, <4>3, <4>4
    <3>6. Len(F[m]) >= 1
      BY <2>2, <3>2, <3>4
    <3> QED
      <4> HIDE DEF more, off2, E
      <4> QED
        BY <3>2, <3>4, <3>5, <3>6
  <2> QED
    BY <2>10, <2>11
<1>5. T = {}
  <2> SUFFICES ASSUME T # {} PROVE FALSE
    OBVIOUS
  <2>1. T \in SUBSET Nat
    OBVIOUS
  <2> HIDE DEF Good
  <2>2. PICK n \in T : \A m \in T : n <= m
    <3> HIDE DEF T
    <3> QED
      BY <2>1, LeastOf
  <2>3. n \in Nat /\ n <= N /\ ~Good(n)
    BY <2>2
  <2>4. n # 0
    BY <1>3, <2>3
  <2>5. n - 1 \in Nat /\ (n - 1) + 1 = n /\ n - 1 <= N
    BY <1>1, <2>3, <2>4
  <2>6. Good(n - 1)
    BY <2>2, <2>5
  <2> QED
    BY <1>4, <2>3, <2>5, <2>6
<1>6. Good(N)
  <2> HIDE DEF Good
  <2> QED
    BY <1>1, <1>5
<1> QED
  BY <1>2, <1>6 DEF Splits

-----------------------------------------------------------------------------
(* The commands that are read from the batches *)

EndedIn(A) == A \union {[c EXCEPT !.end_of_statement = TRUE] : c \in A}

LEMMA EndedClosed ==
    ASSUME NEW A, NEW s \in Seq(EndedIn(A))
    PROVE  Ended(s) \in Seq(EndedIn(A))
<1> DEFINE l == Len(s)
           e == [s[l] EXCEPT !.end_of_statement = TRUE]
<1>1. Ended(s) = [s EXCEPT ![l] = e]
  BY DEF Ended
<1>2. CASE s = <<>>
  <2>1. [s EXCEPT ![l] = e] = s
    BY <1>2
  <2> QED
    BY <1>1, <2>1
<1>3. CASE s # <<>>
  <2>1. l \in 1..Len(s) /\ s[l] \in EndedIn(A)
    BY <1>3
  <2>2. e \in EndedIn(A)
    <3>1. CASE s[l] \in A
      BY <3>1 DEF EndedIn
    <3>2. ASSUME NEW c \in A, s[l] = [c EXCEPT !.end_of_statement = TRUE] PROVE e \in EndedIn(A)
      <4>1. e = [c EXCEPT !.end_of_statement = TRUE]
        BY <3>2
      <4> HIDE DEF e
      <4> QED
        BY <4>1 DEF EndedIn
    <3> QED
      BY <2>1, <3>1, <3>2 DEF EndedIn
  <2> DEFINE X == EndedIn(A)
  <2> HIDE DEF l, e, X
  <2>3. s \in Seq(X) /\ e \in X /\ l \in 1..Len(s)
    BY <2>1, <2>2 DEF X
  <2>4. [s EXCEPT ![l] = e] \in Seq(X)
    BY <2>3
  <2> QED
    BY <1>1, <2>4 DEF X
<1> QED
  BY <1>2, <1>3

\* What ReadMore makes of the batches, one after the other.
LEMMA ReadOneByOne ==
    ASSUME NEW batches, IsList(batches), \A k \in 1..Len(batches) : IsList(batches[k])
    PROVE  \E F : /\ F[0] = <<>>
                  /\ \A n \in 1..Len(batches) : F[n] = ReadMore(F[n - 1], batches[n])
                  /\ FoldLeft(ReadMore, <<>>, batches) = F[Len(batches)]
<1> DEFINE N == Len(batches)
           A == {Command_From(batches[k][j]) : k \in 1..N, j \in UNION {DOMAIN batches[k] : k \in 1..N}}
           Y == Seq(EndedIn(A))
           G == [p \in Y \X (1..N) |-> ReadMore(p[1], batches[p[2]])]
           Goes(I) == I = [s \in SUBSET (1..N) |->
                             IF s = {} THEN <<>>
                             ELSE LET x == Max(s) IN ReadMore(I[s \ {x}], batches[x])]
           I == CHOOSE I : Goes(I)
<1>1. N \in Nat /\ DOMAIN batches = 1..N
  BY ListIsSeq
<1>2. <<>> \in Y
  OBVIOUS
<1>3. \A b \in Y, k \in 1..N : ReadMore(b, batches[k]) \in Y
  <2> SUFFICES ASSUME NEW b \in Y, NEW k \in 1..N PROVE ReadMore(b, batches[k]) \in Y
    OBVIOUS
  <2> DEFINE more == [j \in DOMAIN batches[k] |-> Command_From(batches[k][j])]
  <2>1. IsList(batches[k]) /\ DOMAIN batches[k] = 1..Len(batches[k]) /\ Len(batches[k]) \in Nat
    BY ListIsSeq
  <2>2. \A j \in DOMAIN batches[k] : Command_From(batches[k][j]) \in EndedIn(A)
    BY DEF EndedIn
  <2> HIDE DEF A
  <2>3. more \in Seq(EndedIn(A))
    BY <2>1, <2>2
  <2> HIDE DEF more
  <2> DEFINE X == EndedIn(A)
  <2>4. b \o more \in Seq(X)
    <3> HIDE DEF X
    <3> QED
      BY <2>3 DEF X
  <2> QED
    BY <2>4, EndedClosed DEF ReadMore, more
<1>4. FoldLeft(ReadMore, <<>>, batches) = I[1..N]
  BY <1>1 DEF FoldLeft, MapThenFoldSet
<1>5. \E J : Goes(J)
  <2> HIDE DEF Y
  <2>1. G \in [Y \X (1..N) -> Y]
    <3> HIDE DEF N
    <3> QED
      BY <1>3
  <2>2. PICK J \in [SUBSET (1..N) -> Y] : \A s \in SUBSET (1..N) :
                 J[s] = IF s = {} THEN <<>> ELSE G[<<J[s \ {Max(s)}], Max(s)>>]
    <3> DEFINE base == <<>>
    <3>1. base \in Y /\ N \in Nat
      BY <1>1, <1>2
    <3> HIDE DEF G, N, base
    <3>2. \E J \in [SUBSET (1..N) -> Y] : Folding(J, N, base, G)
      BY <2>1, <3>1, FoldExists
    <3> QED
      BY <3>2 DEF base, Folding
  <2>3. ASSUME NEW s \in SUBSET (1..N), s # {}
        PROVE  G[<<J[s \ {Max(s)}], Max(s)>>] = ReadMore(J[s \ {Max(s)}], batches[Max(s)])
    <3>1. Max(s) \in 1..N
      BY <1>1, <2>3, GreatestOf
    <3>2. J[s \ {Max(s)}] \in Y
      BY <2>2
    <3> QED
      BY <3>1, <3>2
  <2>4. J = [s \in SUBSET (1..N) |->
               IF s = {} THEN <<>> ELSE LET x == Max(s) IN ReadMore(J[s \ {x}], batches[x])]
    <3> HIDE DEF G
    <3> QED
      BY <2>2, <2>3
  <2> QED
    BY <2>4
<1>6. Goes(I)
  BY <1>5
<1> DEFINE F == [n \in 0..N |-> I[1..n]]
<1>7. F[0] = <<>>
  <2>1. 1..0 = {} /\ {} \in SUBSET (1..N) /\ 0 \in 0..N
    BY <1>1
  <2>2. I[{}] = <<>>
    BY <1>6, <2>1
  <2> QED
    BY <2>1, <2>2
<1> HIDE DEF N, A, Y, G
<1>8. ASSUME NEW n \in 1..N PROVE F[n] = ReadMore(F[n - 1], batches[n])
  <2>1. 1..n \in SUBSET (1..N) /\ 1..n # {} /\ (1..n) \ {n} = 1..(n - 1) /\ Max(1..n) = n
    BY <1>1, UpTo
  <2>2. I[1..n] = ReadMore(I[(1..n) \ {n}], batches[n])
    BY <1>6, <2>1
  <2>3. n \in 0..N /\ n - 1 \in 0..N
    BY <1>1
  <2> HIDE DEF I, Goes
  <2>4. F[n] = I[1..n] /\ F[n - 1] = I[1..(n - 1)]
    BY <2>3
  <2> QED
    BY <2>1, <2>2, <2>4
<1>9. F[N] = I[1..N]
  BY <1>1
<1> HIDE DEF F, I
<1> QED
  BY <1>4, <1>7, <1>8, <1>9 DEF N

\* A command that has been sent and read, and one that ends a statement then.
Restored(c, peer) == Command_From(Command_To(c, peer))
Closed(c, peer) == [Restored(c, peer) EXCEPT !.end_of_statement = TRUE]

LEMMA ClosedOnce == \A c, peer : [Closed(c, peer) EXCEPT !.end_of_statement = TRUE] = Closed(c, peer)
BY DEF Closed

SentBatch(batch, peer) == [j \in DOMAIN batch |-> Command_To(batch[j], peer)]
Sent(batches, peer) == [i \in DOMAIN batches |-> SentBatch(batches[i], peer)]

\* The first n commands have been read, and those of D end a statement.
ReadUpTo(read, cmds, peer, D, n) ==
    /\ IsList(read) /\ Len(read) = n
    /\ \A i \in 1..n : read[i] = IF i \in D THEN Closed(cmds[i], peer) ELSE Restored(cmds[i], peer)

\* A batch more is read: the last of the commands ends a statement.
LEMMA ReadBatch ==
    ASSUME NEW cmds, NEW peer, NEW o \in Nat, NEW n \in Nat, o <= n, NEW read, NEW D,
           ReadUpTo(read, cmds, peer, D, o), \A i \in D : i \in 0..o
    PROVE  ReadUpTo(ReadMore(read, SentBatch(Piece(cmds, o, n), peer)), cmds, peer, D \union {n}, n)
<1> USE DEF ReadUpTo
<1> DEFINE batch == Piece(cmds, o, n)
           s == SentBatch(batch, peer)
           more == [j \in DOMAIN s |-> Command_From(s[j])]
           all == read \o more
           c == [all[Len(all)] EXCEPT !.end_of_statement = TRUE]
<1>1. PICK m \in Nat : n = o + m
  <2>1. n - o \in Nat /\ n = o + (n - o)
    OBVIOUS
  <2> QED
    BY <2>1
<1>2. DOMAIN batch = 1..m /\ \A j \in 1..m : batch[j] = cmds[o + j]
  <2>1. IsList(batch) /\ Len(batch) = m /\ \A j \in 1..Len(batch) : batch[j] = cmds[o + j]
    <3>1. IsList(Piece(cmds, o, n)) /\ Len(Piece(cmds, o, n)) = n - o
          /\ \A j \in 1..Len(Piece(cmds, o, n)) : Piece(cmds, o, n)[j] = cmds[o + j]
      BY PieceIsList
    <3>2. n - o = m
      BY <1>1
    <3> QED
      BY <3>1, <3>2
  <2> QED
    BY <2>1, ListIsSeq
<1>3. DOMAIN s = 1..m /\ \A j \in 1..m : s[j] = Command_To(cmds[o + j], peer)
  BY <1>2 DEF SentBatch
<1>4. IsList(more) /\ Len(more) = m /\ \A j \in 1..m : more[j] = Restored(cmds[o + j], peer)
  <2>1. more = [j \in 1..m |-> more[j]] /\ \A j \in 1..m : more[j] = Command_From(Command_To(cmds[o + j], peer))
    BY <1>3
  <2> HIDE DEF more
  <2>2. IsList(more) /\ Len(more) = m
    BY <2>1, MakeList
  <2> QED
    BY <2>1, <2>2 DEF Restored
<1> HIDE DEF more
<1>5. IsList(all) /\ Len(all) = n /\ (\A i \in 1..o : all[i] = read[i]) /\ \A j \in 1..m : all[o + j] = more[j]
  <2>1. /\ IsList(all) /\ Len(all) = Len(read) + Len(more)
        /\ \A i \in 1..Len(read) : all[i] = read[i]
        /\ \A j \in 1..Len(more) : all[Len(read) + j] = more[j]
    <3>1. IsList(read) /\ IsList(more)
      BY <1>4
    <3> QED
      BY <3>1, ConcatList
  <2> HIDE DEF all
  <2> QED
    BY <1>1, <1>4, <2>1
<1> HIDE DEF all
<1>6. \A i \in 1..n : all[i] = IF i \in D THEN Closed(cmds[i], peer) ELSE Restored(cmds[i], peer)
  <2> TAKE i \in 1..n
  <2>1. CASE i \in 1..o
    BY <1>5, <2>1
  <2>2. CASE i \notin 1..o
    <3>1. i - o \in 1..m /\ o + (i - o) = i
      BY <1>1, <2>2
    <3>2. i \notin D
      BY <2>2
    <3> DEFINE j == i - o
    <3>3. all[o + j] = more[j] /\ more[j] = Restored(cmds[o + j], peer) /\ o + j = i
      <4>1. j \in 1..m /\ o + j = i
        BY <3>1
      <4> HIDE DEF j
      <4> QED
        BY <1>4, <1>5, <4>1
    <3> QED
      BY <3>2, <3>3
  <2> QED
    BY <2>1, <2>2
<1>7. ReadMore(read, s) = Changed(all, n, c)
  BY <1>5 DEF ReadMore, Ended, Changed, all, more
<1>8. CASE n = 0
  <2>1. all = <<>>
    BY <1>5, <1>8, ListIsSeq
  <2>2. Changed(all, n, c) = <<>>
    BY <2>1 DEF Changed
  <2> QED
    BY <1>7, <1>8, <2>2, EmptyList
<1>9. CASE n # 0
  <2>1. n \in 1..n
    BY <1>9
  <2>2. c = Closed(cmds[n], peer)
    <3>1. c = [all[n] EXCEPT !.end_of_statement = TRUE]
      BY <1>5
    <3>2. all[n] \in {Closed(cmds[n], peer), Restored(cmds[n], peer)}
      BY <1>6, <2>1
    <3> HIDE DEF c
    <3> QED
      BY <3>1, <3>2, ClosedOnce DEF Closed
  <2> HIDE DEF c
  <2> DEFINE t == Changed(all, n, c)
  <2>3. IsList(t) /\ Len(t) = n /\ t[n] = c /\ \A i \in 1..n : i # n => t[i] = all[i]
    BY <1>5, <2>1, ChangeList
  <2> HIDE DEF t
  <2>4. \A i \in 1..n : t[i] = IF i \in D \union {n} THEN Closed(cmds[i], peer) ELSE Restored(cmds[i], peer)
    BY <1>6, <2>2, <2>3
  <2> QED
    BY <1>7, <2>3, <2>4 DEF t
<1> QED
  BY <1>8, <1>9

\* All of them are: the commands, with the ends of their batches.
LEMMA ReadBatches ==
    ASSUME NEW cmds, NEW peer, NEW N \in Nat, NEW batches, NEW off, Splits(batches, off, cmds, N)
    PROVE  ReadUpTo(FoldLeft(ReadMore, <<>>, Sent(batches, peer)), cmds, peer,
                    {off[j] : j \in 2..(Len(batches) + 1)}, N)
<1> DEFINE K == Len(batches)
           sent == Sent(batches, peer)
           Done(k) == {off[j] : j \in 2..(k + 1)}
<1>1. IsList(batches) /\ K \in Nat /\ DOMAIN batches = 1..K
  BY ListIsSeq DEF Splits
<1>2. /\ off[1] = 0 /\ off[K + 1] = N
      /\ \A k \in 1..(K + 1) : off[k] \in 0..N
      /\ \A k \in 1..K : off[k] <= off[k + 1] /\ batches[k] = Piece(cmds, off[k], off[k + 1])
  BY DEF Splits
<1>3. \A j, k \in 1..(K + 1) : j <= k => off[j] <= off[k]
  BY SplitsOrdered
<1> HIDE DEF K
<1>4. IsList(sent) /\ Len(sent) = K
      /\ \A k \in 1..K : sent[k] = SentBatch(batches[k], peer)
  <2>1. sent = [k \in 1..K |-> sent[k]]
        /\ \A k \in 1..K : sent[k] = SentBatch(batches[k], peer)
    BY <1>1 DEF Sent
  <2> HIDE DEF sent
  <2> QED
    BY <1>1, <2>1, MakeList
<1> HIDE DEF sent
<1>5. \A k \in 1..K : IsList(sent[k])
  <2> TAKE k \in 1..K
  <2>1. k \in 1..(K + 1) /\ k + 1 \in 1..(K + 1)
    BY <1>1
  <2>2. IsList(Piece(cmds, off[k], off[k + 1]))
    <3>1. off[k] \in Nat /\ off[k + 1] \in Nat /\ off[k] <= off[k + 1]
      BY <1>2, <2>1
    <3> QED
      BY <3>1, PieceIsList
  <2>3. IsList(batches[k])
    BY <1>2, <2>2
  <2>4. Len(batches[k]) \in Nat /\ DOMAIN batches[k] = 1..Len(batches[k])
    BY <2>3, ListIsSeq
  <2> QED
    BY <1>4, <2>4 DEF IsList, SentBatch
<1>6. PICK F : /\ F[0] = <<>>
               /\ \A k \in 1..K : F[k] = ReadMore(F[k - 1], sent[k])
               /\ FoldLeft(ReadMore, <<>>, sent) = F[K]
  BY <1>4, <1>5, ReadOneByOne
<1> DEFINE Good(k) == ReadUpTo(F[k], cmds, peer, Done(k), off[k + 1])
           T == {k \in Nat : k <= K /\ ~Good(k)}
<1>7. Good(0)
  BY <1>2, <1>6, EmptyList DEF ReadUpTo
<1>8. ASSUME NEW k \in 1..K, Good(k - 1) PROVE Good(k)
  <2>1. k \in 1..(K + 1) /\ k + 1 \in 1..(K + 1) /\ (k - 1) + 1 = k
    BY <1>1
  <2>2. off[k] \in Nat /\ off[k + 1] \in Nat /\ off[k] <= off[k + 1]
    BY <1>2, <2>1
  <2>3. ReadUpTo(F[k - 1], cmds, peer, Done(k - 1), off[k])
    BY <1>8, <2>1
  <2>4. Done(k) = Done(k - 1) \union {off[k + 1]}
    <3>1. 2..(k + 1) = (2..((k - 1) + 1)) \union {k + 1}
      BY <2>1
    <3> QED
      BY <3>1
  <2>5. \A i \in Done(k - 1) : i \in 0..off[k]
    <3> SUFFICES ASSUME NEW j \in 2..((k - 1) + 1) PROVE off[j] \in 0..off[k]
      OBVIOUS
    <3>1. j \in 1..(K + 1) /\ j <= k
      <4> k \in Nat /\ k <= K
        BY <1>1
      <4> QED
        BY <1>1, <2>1
    <3>2. off[j] <= off[k] /\ off[j] \in Nat
      BY <1>2, <1>3, <2>1, <3>1
    <3> QED
      BY <2>2, <3>2
  <2>6. F[k] = ReadMore(F[k - 1], SentBatch(Piece(cmds, off[k], off[k + 1]), peer))
    BY <1>2, <1>4, <1>6
  <2> HIDE DEF Done
  <2>7. ReadUpTo(F[k], cmds, peer, Done(k - 1) \union {off[k + 1]}, off[k + 1])
    BY <2>2, <2>3, <2>5, <2>6, ReadBatch
  <2> QED
    BY <2>4, <2>7
<1>9. T = {}
  <2> SUFFICES ASSUME T # {} PROVE FALSE
    OBVIOUS
  <2>1. T \in SUBSET Nat
    OBVIOUS
  <2> HIDE DEF Good
  <2>2. PICK n \in T : \A m \in T : n <= m
    <3> HIDE DEF T
    <3> QED
      BY <2>1, LeastOf
  <2>3. n \in Nat /\ n <= K /\ ~Good(n)
    BY <2>2
  <2>4. n # 0
    BY <1>7, <2>3
  <2>5. n - 1 \in Nat /\ n \in 1..K /\ n - 1 <= K /\ ~(n <= n - 1)
    BY <1>1, <2>3, <2>4
  <2>6. Good(n - 1)
    BY <2>2, <2>5
  <2> QED
    BY <1>8, <2>3, <2>5, <2>6
<1>10. Good(K)
  <2> HIDE DEF Good
  <2> QED
    BY <1>1, <1>9
<1>11. ReadUpTo(FoldLeft(ReadMore, <<>>, sent), cmds, peer, Done(K), N)
  <2> HIDE DEF Done
  <2> QED
    BY <1>2, <1>6, <1>10
<1> QED
  BY <1>11 DEF K, sent
-----------------------------------------------------------------------------
(* What is sent and read again *)

ReadOf(cmds, peer) == FoldLeft(ReadMore, <<>>, Sent(FoldLeft(Joined, <<<<>>>>, cmds), peer))

\* The server reads the commands that were sent, with the ends that they had; the last
\* of them ends a statement.
LEMMA CommandsRead ==
    ASSUME NEW cmds, NEW peer, IsList(cmds)
    PROVE  /\ IsList(ReadOf(cmds, peer)) /\ Len(ReadOf(cmds, peer)) = Len(cmds)
           /\ \A i \in 1..Len(cmds) :
                 ReadOf(cmds, peer)[i] = IF cmds[i].end_of_statement \/ i = Len(cmds)
                                         THEN Closed(cmds[i], peer) ELSE Restored(cmds[i], peer)
<1> DEFINE N == Len(cmds)
           batches == FoldLeft(Joined, <<<<>>>>, cmds)
           K == Len(batches)
           read == ReadOf(cmds, peer)
<1>1. N \in Nat /\ DOMAIN cmds = 1..N
  BY ListIsSeq
<1>2. PICK off : Splits(batches, off, cmds, N) /\ EndsOf(batches, off, EndsIn(cmds), N)
  BY Batches
<1>3. K \in Nat /\ K >= 1
  <2>1. IsList(batches) /\ Len(batches) >= 1
    BY Batches
  <2> QED
    BY <2>1, ListIsSeq
<1>4. /\ IsList(read) /\ Len(read) = N
      /\ \A i \in 1..N : read[i] = IF \E k \in 2..(K + 1) : off[k] = i
                                   THEN Closed(cmds[i], peer) ELSE Restored(cmds[i], peer)
  <2> DEFINE r == FoldLeft(ReadMore, <<>>, Sent(batches, peer))
  <2>1. read = r
    BY DEF ReadOf
  <2> HIDE DEF batches, read, N
  <2>2. ReadUpTo(r, cmds, peer, {off[j] : j \in 2..(Len(batches) + 1)}, N)
    BY <1>1, <1>2, ReadBatches
  <2>3. \A i : i \in {off[j] : j \in 2..(Len(batches) + 1)} <=> \E k \in 2..(Len(batches) + 1) : off[k] = i
    OBVIOUS
  <2> QED
    BY <2>1, <2>2, <2>3 DEF ReadUpTo
<1>5. off[K + 1] = N
  BY <1>2 DEF Splits
<1> HIDE DEF batches
<1>6. ASSUME NEW i \in 1..N
      PROVE  (\E k \in 2..(K + 1) : off[k] = i) <=> (cmds[i].end_of_statement \/ i = N)
  <2>1. i \in EndsIn(cmds) <=> cmds[i].end_of_statement
    BY <1>1 DEF EndsIn
  <2>2. i \in EndsIn(cmds) <=> \E k \in 2..K : off[k] = i
    BY <1>2 DEF EndsOf
  <2>3. \A k : k \in 2..(K + 1) <=> k \in 2..K \/ k = K + 1
    BY <1>3
  <2> HIDE DEF K, N
  <2> QED
    BY <1>5, <2>1, <2>2, <2>3
<1> HIDE DEF K, read
<1>7. \A i \in 1..N : read[i] = IF cmds[i].end_of_statement \/ i = N
                                THEN Closed(cmds[i], peer) ELSE Restored(cmds[i], peer)
  BY <1>4, <1>6
<1> QED
  BY <1>4, <1>7 DEF N, read

\* A pipeline that has been sent and read.
LEMMA PowerShellRead ==
    ASSUME NEW p, NEW peer, IsList(p.commands)
    PROVE  PowerShell_From(PowerShell_To(p, peer)) =
              [type |-> "PowerShell", commands |-> ReadOf(p.commands, peer),
               add_to_history |-> p.add_to_history, apartment_state |-> p.apartment_state,
               history |-> p.history, host |-> HostInfo_From(HostInfo_To(p.host)),
               is_nested |-> p.is_nested, no_input |-> p.no_input]
<1> DEFINE batches == FoldLeft(Joined, <<<<>>>>, p.commands)
           sent == Sent(batches, peer)
           powershell == IF Len(sent) > 1
                         THEN [Cmds |-> sent[1], History |-> p.history, ExtraCmds |-> sent]
                         ELSE [Cmds |-> sent[1], History |-> p.history]
           o == [type |-> "CreatePipeline", NoInput |-> p.no_input,
                 ApartmentState |-> p.apartment_state, AddToHistory |-> p.add_to_history,
                 HostInfo |-> HostInfo_To(p.host), IsNested |-> p.is_nested, PowerShell |-> powershell]
           read == IF "ExtraCmds" \in DOMAIN powershell THEN powershell.ExtraCmds ELSE <<powershell.Cmds>>
<1>1. PowerShell_To(p, peer) = o
  BY DEF PowerShell_To, Sent, SentBatch
<1>2. IsList(batches) /\ Len(batches) \in Nat /\ Len(batches) >= 1 /\ DOMAIN batches = 1..Len(batches)
  <2>1. IsList(batches) /\ Len(batches) >= 1
    BY Batches
  <2> QED
    BY <2>1, ListIsSeq
<1> HIDE DEF batches
<1>3. IsList(sent) /\ Len(sent) = Len(batches)
  <2>1. sent = [i \in 1..Len(batches) |-> sent[i]]
    BY <1>2 DEF Sent
  <2> HIDE DEF sent
  <2> QED
    BY <1>2, <2>1, MakeList
<1> HIDE DEF sent
<1>4. read = sent
  <2>1. CASE Len(sent) > 1
    BY <2>1
  <2>2. CASE ~(Len(sent) > 1)
    <3>1. Len(sent) = 1
      BY <1>2, <1>3, <2>2
    <3>2. read = <<sent[1]>>
      BY <2>2
    <3>3. IsList(<<sent[1]>>) /\ Len(<<sent[1]>>) = 1 /\ <<sent[1]>>[1] = sent[1]
      BY OneElement
    <3> HIDE DEF read
    <3>4. \A i \in 1..1 : i = 1
      OBVIOUS
    <3> QED
      BY <1>3, <3>1, <3>2, <3>3, <3>4, SameList
  <2> QED
    BY <2>1, <2>2
<1>5. FoldLeft(ReadMore, <<>>, read) = ReadOf(p.commands, peer)
  BY <1>4 DEF ReadOf, sent, batches
<1>6. powershell.History = p.history
  OBVIOUS
<1>7. PowerShell_From(o) =
         [type |-> "PowerShell", commands |-> FoldLeft(ReadMore, <<>>, read),
          add_to_history |-> p.add_to_history, apartment_state |-> p.apartment_state,
          history |-> p.history, host |-> HostInfo_From(HostInfo_To(p.host)),
          is_nested |-> p.is_nested, no_input |-> p.no_input]
  <2> HIDE DEF powershell
  <2> QED
    BY <1>6 DEF PowerShell_From
<1> QED
  BY <1>1, <1>5, <1>7

-----------------------------------------------------------------------------
(* The statements a program puts together *)

MeaningsOf(cmds) == [i \in DOMAIN cmds |-> Meaning(cmds[i])]

\* No statement is empty; whether the last one is at its end is seen when it goes on.
MeantBy(statements, off, cmds) ==
    /\ Splits(statements, off, MeaningsOf(cmds), Len(cmds))
    /\ Len(statements) # 0 => off[Len(statements)] < Len(cmds)
    /\ EndsOf(statements, off, EndsIn(cmds), Len(cmds) - 1)

\* The same parts of another list with the same elements.
LEMMA SplitsSame ==
    ASSUME NEW parts, NEW off, NEW s, NEW t, NEW n \in Nat, Splits(parts, off, s, n),
           \A i \in 1..n : s[i] = t[i]
    PROVE  Splits(parts, off, t, n)
<1>1. /\ IsList(parts) /\ DOMAIN off = 1..(Len(parts) + 1)
      /\ off[1] = 0 /\ off[Len(parts) + 1] = n
      /\ \A k \in 1..(Len(parts) + 1) : off[k] \in 0..n
      /\ \A k \in 1..Len(parts) : off[k] <= off[k + 1] /\ (k < Len(parts) => off[k] < off[k + 1])
                                  /\ parts[k] = Piece(s, off[k], off[k + 1])
  BY DEF Splits
<1>2. Len(parts) \in Nat
  BY <1>1, ListIsSeq
<1>3. ASSUME NEW k \in 1..Len(parts) PROVE parts[k] = Piece(t, off[k], off[k + 1])
  <2>1. k \in 1..(Len(parts) + 1) /\ k + 1 \in 1..(Len(parts) + 1)
    BY <1>2
  <2>2. off[k] \in 0..n /\ off[k + 1] \in 0..n
    BY <1>1, <2>1
  <2>3. \A j \in 1..(off[k + 1] - off[k]) : off[k] + j \in 1..n
    BY <2>2
  <2>4. Piece(s, off[k], off[k + 1]) = Piece(t, off[k], off[k + 1])
    BY <2>3 DEF Piece
  <2> QED
    BY <1>1, <2>4
<1> QED
  BY <1>1, <1>3 DEF Splits

\* The last element of the last part is another.
LEMMA SplitsChanged ==
    ASSUME NEW parts, NEW off, NEW s, NEW n \in Nat \ {0}, NEW x, Splits(parts, off, s, n),
           IsList(s), Len(s) = n, off[Len(parts)] < n
    PROVE  LET K == Len(parts)
           IN  /\ K \in 1..Len(parts) /\ parts[K][Len(parts[K])] = s[n] /\ Len(parts[K]) \in 1..Len(parts[K])
               /\ IsList(parts[K])
               /\ Splits(Changed(parts, K, Changed(parts[K], Len(parts[K]), x)), off, Changed(s, n, x), n)
<1> DEFINE K == Len(parts)
           last_part == parts[K]
           l == Len(last_part)
           p == Changed(last_part, l, x)
           t == Changed(s, n, x)
           parts2 == Changed(parts, K, p)
<1>1. /\ IsList(parts) /\ DOMAIN off = 1..(K + 1)
      /\ off[1] = 0 /\ off[K + 1] = n
      /\ \A k \in 1..(K + 1) : off[k] \in 0..n
      /\ \A k \in 1..K : off[k] <= off[k + 1] /\ (k < K => off[k] < off[k + 1])
                         /\ parts[k] = Piece(s, off[k], off[k + 1])
  BY DEF Splits
<1>2. K \in Nat /\ K # 0
  <2>1. K \in Nat
    BY <1>1, ListIsSeq
  <2> HIDE DEF K
  <2> QED
    BY <1>1, <2>1
<1>3. \A j, k \in 1..(K + 1) : j <= k => off[j] <= off[k]
  BY SplitsOrdered
<1> HIDE DEF K
<1>4. K \in 1..K /\ K \in 1..(K + 1) /\ off[K] \in Nat /\ off[K] < n
  BY <1>1, <1>2 DEF K
<1>5. PICK m \in Nat \ {0} : n = off[K] + m
  <2>1. n - off[K] \in Nat \ {0} /\ n = off[K] + (n - off[K])
    BY <1>4
  <2> QED
    BY <2>1
<1>6. IsList(last_part) /\ l = m /\ \A j \in 1..m : last_part[j] = s[off[K] + j]
  <2>1. last_part = Piece(s, off[K], n)
    BY <1>1, <1>4
  <2>2. n - off[K] = m
    BY <1>4, <1>5
  <2> HIDE DEF last_part
  <2> DEFINE o == off[K]
             q == Piece(s, o, n)
  <2>3. IsList(q) /\ Len(q) = n - o /\ \A j \in 1..Len(q) : q[j] = s[o + j]
    <3>1. o \in Nat /\ o <= n
      BY <1>4
    <3> HIDE DEF o
    <3> QED
      BY <3>1, PieceIsList
  <2> QED
    BY <2>1, <2>2, <2>3
<1>7. m \in 1..m
  BY <1>5
<1>8. last_part[l] = s[n] /\ l \in 1..l
  BY <1>5, <1>6, <1>7
<1> HIDE DEF last_part, l
<1>9. IsList(p) /\ Len(p) = m /\ p[m] = x /\ \A j \in 1..m : j # m => p[j] = last_part[j]
  <2>1. l \in 1..Len(last_part)
    BY <1>8 DEF l
  <2>2. IsList(p) /\ Len(p) = Len(last_part) /\ p[l] = x /\ \A j \in 1..Len(last_part) : j # l => p[j] = last_part[j]
    BY <1>6, <2>1, ChangeList
  <2> QED
    BY <1>6, <2>2 DEF l
<1>10. IsList(t) /\ Len(t) = n /\ t[n] = x /\ \A i \in 1..n : i # n => t[i] = s[i]
  <2>1. n \in 1..Len(s)
    OBVIOUS
  <2> QED
    BY <2>1, ChangeList
<1>11. IsList(parts2) /\ Len(parts2) = K /\ parts2[K] = p /\ \A k \in 1..K : k # K => parts2[k] = parts[k]
  <2>1. K \in 1..Len(parts)
    BY <1>4 DEF K
  <2>2. IsList(parts2) /\ Len(parts2) = Len(parts) /\ parts2[K] = p
        /\ \A k \in 1..Len(parts) : k # K => parts2[k] = parts[k]
    BY <1>1, <2>1, ChangeList
  <2> QED
    BY <2>2 DEF K
<1> HIDE DEF p, t, parts2
<1>12. p = Piece(t, off[K], n)
  <2>1. \A j \in 1..m : p[j] = t[off[K] + j]
    <3> TAKE j \in 1..m
    <3> DEFINE i == off[K] + j
    <3>1. i \in 1..n /\ (i = n <=> j = m)
      BY <1>4, <1>5
    <3> HIDE DEF i
    <3>2. j # m => p[j] = s[i]
      BY <1>6, <1>9 DEF i
    <3>3. p[j] = t[i]
      BY <1>9, <1>10, <3>1, <3>2
    <3> QED
      BY <3>3 DEF i
  <2> DEFINE o == off[K]
  <2>2. o \in Nat /\ o <= n /\ Len(p) = n - o /\ \A j \in 1..Len(p) : p[j] = t[o + j]
    BY <1>4, <1>5, <1>9, <2>1
  <2> HIDE DEF o
  <2>3. p = Piece(t, o, n)
    BY <1>9, <2>2, SamePiece
  <2> QED
    BY <2>3 DEF o
<1>13. ASSUME NEW k \in 1..K PROVE parts2[k] = Piece(t, off[k], off[k + 1])
  <2>1. CASE k = K
    BY <1>1, <1>11, <1>12, <2>1
  <2>2. CASE k # K
    <3>1. k \in 1..(K + 1) /\ k + 1 \in 1..(K + 1) /\ k + 1 <= K
      BY <1>2, <2>2
    <3>2. off[k] \in Nat /\ off[k + 1] \in Nat /\ off[k + 1] <= off[K]
      BY <1>1, <1>3, <1>4, <3>1
    <3>3. \A j \in 1..(off[k + 1] - off[k]) : off[k] + j \in 1..n /\ off[k] + j # n
      BY <1>4, <3>2
    <3>4. Piece(s, off[k], off[k + 1]) = Piece(t, off[k], off[k + 1])
      BY <1>10, <3>3 DEF Piece
    <3> QED
      BY <1>1, <1>11, <2>2, <3>4
  <2> QED
    BY <2>1, <2>2
<1>14. Splits(parts2, off, t, n)
  BY <1>1, <1>11, <1>13 DEF Splits
<1>15. K \in 1..Len(parts) /\ IsList(parts[K]) /\ Len(parts[K]) \in 1..Len(parts[K]) /\ parts[K][Len(parts[K])] = s[n]
  BY <1>4, <1>6, <1>8 DEF K, l, last_part
<1> QED
  BY <1>14, <1>15 DEF K, l, last_part, p, t, parts2

LEMMA MeaningsList ==
    ASSUME NEW cmds, IsList(cmds)
    PROVE  /\ IsList(MeaningsOf(cmds)) /\ Len(MeaningsOf(cmds)) = Len(cmds)
           /\ \A i \in 1..Len(cmds) : MeaningsOf(cmds)[i] = Meaning(cmds[i])
<1> DEFINE m == MeaningsOf(cmds)
<1>1. Len(cmds) \in Nat /\ DOMAIN cmds = 1..Len(cmds)
  BY ListIsSeq
<1>2. m = [i \in 1..Len(cmds) |-> m[i]] /\ \A i \in 1..Len(cmds) : m[i] = Meaning(cmds[i])
  BY <1>1 DEF MeaningsOf
<1> HIDE DEF m
<1>3. IsList(m) /\ Len(m) = Len(cmds)
  BY <1>1, <1>2, MakeList
<1> QED
  BY <1>2, <1>3 DEF m

\* A command more: it begins a statement if the one before it has ended its own.
\* The last element is another.
LastIs(s, x) == Changed(s, Len(s), x)

LEMMA LastIsList ==
    ASSUME NEW s, NEW x, IsList(s), Len(s) # 0
    PROVE  /\ IsList(LastIs(s, x)) /\ Len(LastIs(s, x)) = Len(s) /\ LastIs(s, x)[Len(s)] = x
           /\ \A i \in 1..Len(s) : i # Len(s) => LastIs(s, x)[i] = s[i]
<1> DEFINE n == Len(s)
<1>1. n \in 1..Len(s)
  BY ListIsSeq
<1> HIDE DEF n
<1>2. /\ IsList(Changed(s, n, x)) /\ Len(Changed(s, n, x)) = Len(s) /\ Changed(s, n, x)[n] = x
      /\ \A i \in 1..Len(s) : i # n => Changed(s, n, x)[i] = s[i]
  BY <1>1, ChangeList
<1> QED
  BY <1>2 DEF n, LastIs

LEMMA MeantMore ==
    ASSUME NEW statements, NEW off, NEW cmds, NEW c, IsList(cmds), MeantBy(statements, off, cmds)
    PROVE  LET n == Len(cmds)
               K == Len(statements)
           IN  /\ n = 0 \/ cmds[n].end_of_statement =>
                     \E off2 : MeantBy(Append(statements, <<Meaning(c)>>), off2, Append(cmds, c))
               /\ n # 0 /\ ~cmds[n].end_of_statement =>
                     \E off2 : MeantBy([statements EXCEPT ![K] = Append(@, Meaning(c))], off2, Append(cmds, c))
<1> DEFINE n == Len(cmds)
           K == Len(statements)
           m == n + 1
           M == MeaningsOf(cmds)
           cmds2 == Append(cmds, c)
           M2 == MeaningsOf(cmds2)
           E == EndsIn(cmds)
           E2 == EndsIn(cmds2)
<1>1. n \in Nat /\ DOMAIN cmds = 1..n /\ m \in Nat
  BY ListIsSeq
<1>2. IsList(cmds2) /\ Len(cmds2) = m /\ (\A i \in 1..n : cmds2[i] = cmds[i]) /\ cmds2[m] = c /\ DOMAIN cmds2 = 1..m
  <2>1. IsList(cmds2) /\ Len(cmds2) = m /\ (\A i \in 1..n : cmds2[i] = cmds[i]) /\ cmds2[m] = c
    BY AppendList
  <2> HIDE DEF cmds2, m
  <2>2. DOMAIN cmds2 = 1..m
    BY <2>1, ListIsSeq
  <2> QED
    BY <2>1, <2>2
<1> HIDE DEF cmds2
<1>3. (\A i \in 1..n : M2[i] = M[i]) /\ M2[m] = Meaning(c)
  <2>1. (\A i \in 1..n : M[i] = Meaning(cmds[i])) /\ \A i \in 1..m : M2[i] = Meaning(cmds2[i])
    BY <1>2, MeaningsList
  <2>2. m \in 1..m /\ \A i \in 1..n : i \in 1..m
    BY <1>1
  <2> HIDE DEF M, M2, m
  <2> QED
    BY <1>2, <2>1, <2>2
<1>4. Splits(statements, off, M, n) /\ (K # 0 => off[K] < n) /\ EndsOf(statements, off, E, n - 1)
  BY DEF MeantBy
<1>5. /\ IsList(statements) /\ K \in Nat /\ DOMAIN off = 1..(K + 1) /\ off[1] = 0 /\ off[K + 1] = n
      /\ \A k \in 1..(K + 1) : off[k] \in 0..n
  <2>1. IsList(statements) /\ DOMAIN off = 1..(K + 1) /\ off[1] = 0 /\ off[K + 1] = n
        /\ \A k \in 1..(K + 1) : off[k] \in 0..n
    BY <1>4 DEF Splits
  <2> QED
    BY <2>1, ListIsSeq
<1>6. n # 0 => K # 0
  <2> HIDE DEF K, n
  <2> QED
    BY <1>5
<1>7. \A k \in 2..K : off[k] < n
  <2>1. \A j, k \in 1..(K + 1) : j <= k => off[j] <= off[k]
    BY <1>1, <1>4, SplitsOrdered
  <2> TAKE k \in 2..K
  <2>2. K # 0 /\ k \in 1..(K + 1) /\ K \in 1..(K + 1) /\ k <= K
    BY <1>5
  <2>3. off[k] <= off[K] /\ off[K] < n /\ off[k] \in Nat /\ off[K] \in Nat /\ n \in Nat
    BY <1>1, <1>4, <1>5, <2>1, <2>2
  <2> HIDE DEF K, n
  <2> QED
    BY <2>3
<1>8. Splits(statements, off, M2, n)
  <2> HIDE DEF M, M2, n
  <2>1. \A i \in 1..n : M[i] = M2[i]
    BY <1>3
  <2> QED
    BY <1>1, <1>4, <2>1, SplitsSame
<1>9. \A i \in 1..n : i \in E2 <=> i \in E
  BY <1>1, <1>2 DEF EndsIn
<1>10. n # 0 => (n \in E <=> cmds[n].end_of_statement)
  BY <1>1 DEF EndsIn
<1> HIDE DEF E, E2, M, M2
<1>11. \A i \in 1..(n - 1) : i \in E2 <=> \E k \in 2..K : off[k] = i
  <2>1. \A i \in 1..(n - 1) : i \in 1..n
    BY <1>1
  <2>2. \A i \in 1..(n - 1) : i \in E <=> \E k \in 2..K : off[k] = i
    BY <1>4 DEF EndsOf
  <2> QED
    BY <1>9, <2>1, <2>2
<1>12. m - 1 = n
  BY <1>1
<1>13. ASSUME n = 0 \/ cmds[n].end_of_statement
       PROVE  \E off2 : MeantBy(Append(statements, <<Meaning(c)>>), off2, cmds2)
  <2> DEFINE off2 == [k \in 1..(K + 2) |-> IF k <= K + 1 THEN off[k] ELSE m]
             statements2 == Append(statements, Piece(M2, n, m))
  <2>1. Piece(M2, n, m) = <<Meaning(c)>>
    <3> DEFINE t == <<Meaning(c)>>
    <3>1. IsList(t) /\ Len(t) = 1 /\ t[1] = Meaning(c)
      BY OneElement
    <3> HIDE DEF t
    <3>2. Len(t) = m - n /\ n <= m /\ \A j \in 1..Len(t) : t[j] = M2[n + j]
      BY <1>1, <1>3, <3>1
    <3> HIDE DEF n, m
    <3>3. t = Piece(M2, n, m)
      BY <1>1, <3>1, <3>2, SamePiece
    <3> QED
      BY <3>3 DEF t
  <2>2. Splits(statements2, off2, M2, m) /\ Len(statements2) = K + 1
    <3>1. n <= m
      BY <1>1
    <3> HIDE DEF n, m
    <3> QED
      BY <1>1, <1>4, <1>8, <3>1, SplitsMore
  <2>3. off2[K + 1] = n /\ \A k \in 2..(K + 1) : off2[k] = off[k]
    BY <1>5
  <2>4. EndsOf(statements2, off2, E2, n)
    <3> SUFFICES ASSUME NEW i \in 1..n PROVE i \in E2 <=> \E k \in 2..(K + 1) : off2[k] = i
      BY <2>2 DEF EndsOf
    <3>1. \A k : k \in 2..(K + 1) <=> (k \in 2..K \/ k = K + 1)
      BY <1>1, <1>5, <1>6
    <3>2. i \in 1..(n - 1) \/ i = n
      <4> HIDE DEF n, K
      <4> QED
        BY <1>1
    <3>3. i = n => i \in E2
      BY <1>9, <1>10, <1>13
    <3>4. i \in 1..(n - 1) => i # n
      <4> HIDE DEF n, K
      <4> QED
        BY <1>1
    <3> HIDE DEF off2, n, K
    <3> QED
      BY <1>11, <2>3, <3>1, <3>2, <3>3, <3>4
  <2>5. off2[Len(statements2)] < m
    BY <1>1, <2>2, <2>3
  <2>6. Append(statements, <<Meaning(c)>>) = statements2
    BY <2>1
  <2> HIDE DEF off2, statements2, m, n
  <2>7. MeantBy(statements2, off2, cmds2)
    BY <1>2, <1>12, <2>2, <2>4, <2>5 DEF MeantBy, M2, E2
  <2> QED
    BY <2>6, <2>7
<1>14. ASSUME n # 0, ~cmds[n].end_of_statement
       PROVE  \E off2 : MeantBy([statements EXCEPT ![K] = Append(@, Meaning(c))], off2, cmds2)
  <2> DEFINE off2 == [off EXCEPT ![K + 1] = m]
             statements2 == [statements EXCEPT ![K] = Append(@, M2[m])]
  <2>1. Splits(statements2, off2, M2, m) /\ Len(statements2) = K
    <3>1. LET off3 == [off EXCEPT ![K + 1] = n + 1]
              longer == [statements EXCEPT ![K] = Append(@, M2[n + 1])]
          IN  Splits(longer, off3, M2, n + 1) /\ Len(longer) = K
      <4> HIDE DEF n
      <4> QED
        BY <1>1, <1>6, <1>8, <1>14, SplitsLonger
    <3> QED
      BY <3>1
  <2>2. \A k \in 2..K : off2[k] = off[k]
    BY <1>5
  <2>3. off2[K] < m
    <3>1. off2[K] = off[K] /\ off[K] < n
      BY <1>4, <1>5, <1>6, <1>14
    <3>2. off[K] \in Nat
      BY <1>5, <1>6, <1>14
    <3> QED
      BY <1>1, <3>1, <3>2
  <2>4. EndsOf(statements2, off2, E2, n)
    <3> SUFFICES ASSUME NEW i \in 1..n PROVE i \in E2 <=> \E k \in 2..K : off2[k] = i
      BY <2>1 DEF EndsOf
    <3>1. i \in 1..(n - 1) \/ i = n
      <4> HIDE DEF n, K
      <4> QED
        BY <1>1
    <3>2. i = n => i \notin E2
      BY <1>9, <1>10, <1>14
    <3>3. \A k \in 2..K : off[k] # n
      <4> TAKE k \in 2..K
      <4>1. off[k] < n /\ off[k] \in Nat
        BY <1>5, <1>7
      <4> QED
        BY <1>1, <4>1
    <3> HIDE DEF off2, n, K
    <3> QED
      BY <1>11, <2>2, <3>1, <3>2, <3>3
  <2>5. [statements EXCEPT ![K] = Append(@, Meaning(c))] = statements2
    BY <1>3
  <2> HIDE DEF off2, statements2, m, n, K
  <2>6. MeantBy(statements2, off2, cmds2)
    BY <1>2, <1>12, <2>1, <2>3, <2>4 DEF MeantBy, M2, E2
  <2> QED
    BY <2>5, <2>6
<1> QED
  BY <1>13, <1>14 DEF cmds2

\* The command added last is another with the same meaning.
LEMMA MeantEqual ==
    ASSUME NEW statements, NEW off, NEW cmds, NEW c, IsList(cmds), Len(cmds) # 0,
           MeantBy(statements, off, cmds), Meaning(c) = Meaning(cmds[Len(cmds)])
    PROVE  MeantBy(statements, off, Changed(cmds, Len(cmds), c))
<1> DEFINE n == Len(cmds)
           t == Changed(cmds, n, c)
<1>1. n \in Nat /\ DOMAIN cmds = 1..n /\ n \in 1..n
  BY ListIsSeq
<1>2. IsList(t) /\ Len(t) = n /\ t[n] = c /\ \A i \in 1..n : i # n => t[i] = cmds[i]
  BY LastIsList DEF LastIs
<1> HIDE DEF t
<1>3. DOMAIN t = 1..n
  BY <1>2, ListIsSeq
<1>4. \A i \in 1..n : MeaningsOf(cmds)[i] = MeaningsOf(t)[i]
  BY <1>1, <1>2, <1>3 DEF MeaningsOf
<1>5. Splits(statements, off, MeaningsOf(cmds), n) /\ (Len(statements) # 0 => off[Len(statements)] < n)
      /\ EndsOf(statements, off, EndsIn(cmds), n - 1)
  BY DEF MeantBy
<1> HIDE DEF n
<1>6. Splits(statements, off, MeaningsOf(t), n)
  BY <1>1, <1>4, <1>5, SplitsSame
<1>7. \A i \in 1..(n - 1) : i \in EndsIn(cmds) <=> i \in EndsIn(t)
  BY <1>1, <1>2, <1>3 DEF EndsIn
<1>8. EndsOf(statements, off, EndsIn(t), n - 1)
  BY <1>5, <1>7 DEF EndsOf
<1> QED
  BY <1>2, <1>5, <1>6, <1>8 DEF MeantBy, n, t

\* The command added last is another, in its statement too.
LEMMA MeantOther ==
    ASSUME NEW statements, NEW off, NEW cmds, NEW c, IsList(cmds), Len(cmds) # 0,
           MeantBy(statements, off, cmds)
    PROVE  LET K == Len(statements)
               l == Len(statements[K])
           IN  /\ K \in 1..Len(statements) /\ l \in 1..Len(statements[K]) /\ IsList(statements)
               /\ IsList(statements[K]) /\ statements[K][l] = Meaning(cmds[Len(cmds)])
               /\ MeantBy(Changed(statements, K, Changed(statements[K], l, Meaning(c))), off,
                          Changed(cmds, Len(cmds), c))
<1> DEFINE n == Len(cmds)
           t == Changed(cmds, n, c)
           K == Len(statements)
           M == MeaningsOf(cmds)
           statements2 == Changed(statements, K, Changed(statements[K], Len(statements[K]), Meaning(c)))
<1>1. n \in Nat \ {0} /\ DOMAIN cmds = 1..n /\ n \in 1..n
  BY ListIsSeq
<1>2. IsList(t) /\ Len(t) = n /\ t[n] = c /\ \A i \in 1..n : i # n => t[i] = cmds[i]
  BY LastIsList DEF LastIs
<1> HIDE DEF t
<1>3. DOMAIN t = 1..n
  BY <1>2, ListIsSeq
<1>4. IsList(M) /\ Len(M) = n /\ M[n] = Meaning(cmds[n]) /\ IsList(MeaningsOf(t)) /\ Len(MeaningsOf(t)) = n
  BY <1>1, <1>2, MeaningsList
<1>5. MeaningsOf(t) = Changed(M, n, Meaning(c))
  <2> DEFINE g == Changed(M, n, Meaning(c))
  <2>1. IsList(g) /\ Len(g) = n /\ g[n] = Meaning(c) /\ \A i \in 1..n : i # n => g[i] = M[i]
    <3> HIDE DEF M, n
    <3>1. Changed(M, n, Meaning(c)) = LastIs(M, Meaning(c)) /\ Len(M) # 0
      BY <1>1, <1>4 DEF LastIs
    <3> QED
      BY <1>4, <3>1, LastIsList
  <2> HIDE DEF g
  <2>2. \A i \in 1..n : MeaningsOf(t)[i] = g[i]
    <3> TAKE i \in 1..n
    <3>1. MeaningsOf(t)[i] = Meaning(t[i]) /\ M[i] = Meaning(cmds[i])
      BY <1>1, <1>3 DEF MeaningsOf
    <3> HIDE DEF M
    <3> QED
      BY <1>2, <2>1, <3>1
  <2> HIDE DEF M, n
  <2>3. MeaningsOf(t) = g
    BY <1>4, <2>1, <2>2, SameList
  <2> QED
    BY <2>3 DEF g
<1>6. Splits(statements, off, M, n) /\ (K # 0 => off[K] < n) /\ EndsOf(statements, off, EndsIn(cmds), n - 1)
  BY DEF MeantBy
<1>7. K # 0 /\ IsList(statements)
  <2>1. off[1] = 0 /\ off[K + 1] = n /\ IsList(statements)
    BY <1>6 DEF Splits
  <2> HIDE DEF K, n
  <2> QED
    BY <1>1, <2>1
<1> HIDE DEF n, M
<1>8. /\ K \in 1..Len(statements) /\ statements[K][Len(statements[K])] = M[n]
      /\ Len(statements[K]) \in 1..Len(statements[K]) /\ IsList(statements[K])
      /\ Splits(statements2, off, Changed(M, n, Meaning(c)), n)
  BY <1>1, <1>4, <1>6, <1>7, SplitsChanged
<1>9. Len(statements2) = K
  <2> DEFINE x == Changed(statements[K], Len(statements[K]), Meaning(c))
  <2>1. statements2 = Changed(statements, K, x)
    OBVIOUS
  <2> HIDE DEF statements2, x
  <2>2. Len(Changed(statements, K, x)) = Len(statements)
    BY <1>7, <1>8, ChangeList, Zenon
  <2> QED
    BY <2>1, <2>2
<1> HIDE DEF statements2
<1>10. \A i \in 1..(n - 1) : i \in EndsIn(cmds) <=> i \in EndsIn(t)
  BY <1>1, <1>2, <1>3 DEF EndsIn
<1>11. EndsOf(statements2, off, EndsIn(t), n - 1)
  BY <1>6, <1>9, <1>10 DEF EndsOf
<1>12. MeantBy(statements2, off, t)
  BY <1>2, <1>5, <1>6, <1>7, <1>8, <1>9, <1>11 DEF MeantBy
<1> QED
  BY <1>4, <1>7, <1>8, <1>12 DEF n, t, statements2

-----------------------------------------------------------------------------
(* The statements that are read *)

LEMMA IntervalEnds ==
    ASSUME NEW a \in Nat, NEW b \in Nat, a < b
    PROVE  Min((a + 1)..b) = a + 1 /\ Max((a + 1)..b) = b
<1> DEFINE s == (a + 1)..b
           x == Min(s)
           y == Max(s)
<1>1. s \in SUBSET (1..b) /\ s # {} /\ b \in s /\ a + 1 \in s
  OBVIOUS
<1>2. x \in s /\ \A z \in s : x <= z
  <2> HIDE DEF s
  <2> QED
    BY <1>1, LeastElement
<1>3. y \in s /\ \A z \in s : y >= z
  <2> HIDE DEF s
  <2> QED
    BY <1>1, GreatestOf
<1> HIDE DEF x, y
<1>4. x = a + 1 /\ y = b
  BY <1>1, <1>2, <1>3
<1> QED
  BY <1>4 DEF x, y

\* As many ends as parts before.
FirstEnds(off, k) == {off[j] : j \in 2..k}

LEMMA CountEnds ==
    ASSUME NEW K \in Nat, NEW off, \A k \in 1..K : off[k] \in Nat,
           \A j, k \in 1..K : j < k => off[j] < off[k]
    PROVE  \A k \in 1..K : /\ IsFiniteSet(FirstEnds(off, k)) /\ Cardinality(FirstEnds(off, k)) = k - 1
<1> USE DEF FirstEnds
<1> DEFINE Firsts(k) == FirstEnds(off, k)
           Good(k) == IsFiniteSet(Firsts(k)) /\ Cardinality(Firsts(k)) = k - 1
           T == {k \in 1..K : ~Good(k)}
<1>1. Good(1)
  <2>1. Firsts(1) = {}
    OBVIOUS
  <2> HIDE DEF Firsts, FirstEnds
  <2> QED
    BY <2>1, FS_EmptySet
<1>2. ASSUME NEW k \in 1..K, k + 1 \in 1..K, Good(k) PROVE Good(k + 1)
  <2>1. Firsts(k + 1) = Firsts(k) \union {off[k + 1]}
    <3>1. 2..(k + 1) = (2..k) \union {k + 1}
      OBVIOUS
    <3> QED
      BY <3>1
  <2>2. off[k + 1] \notin Firsts(k)
    <3> SUFFICES ASSUME NEW j \in 2..k PROVE off[j] # off[k + 1]
      OBVIOUS
    <3>1. j \in 1..K /\ j < k + 1
      OBVIOUS
    <3>2. off[j] < off[k + 1] /\ off[j] \in Nat /\ off[k + 1] \in Nat
      BY <1>2, <3>1
    <3> QED
      BY <3>2
  <2> DEFINE x == off[k + 1]
  <2> HIDE DEF Firsts, x, FirstEnds
  <2>3. IsFiniteSet(Firsts(k)) /\ Cardinality(Firsts(k)) = k - 1 /\ x \notin Firsts(k) /\ Firsts(k + 1) = Firsts(k) \union {x}
    BY <1>2, <2>1, <2>2 DEF x
  <2>4. IsFiniteSet(Firsts(k) \union {x}) /\ Cardinality(Firsts(k) \union {x}) = Cardinality(Firsts(k)) + 1
    BY <2>3, FS_AddElement
  <2>5. (k - 1) + 1 = (k + 1) - 1
    OBVIOUS
  <2> QED
    BY <2>3, <2>4, <2>5
<1>3. T = {}
  <2> SUFFICES ASSUME T # {} PROVE FALSE
    OBVIOUS
  <2>1. T \in SUBSET Nat
    OBVIOUS
  <2> HIDE DEF Good
  <2>2. PICK n \in T : \A m \in T : n <= m
    <3> HIDE DEF T
    <3> QED
      BY <2>1, LeastOf
  <2>3. n \in 1..K /\ ~Good(n)
    BY <2>2
  <2>4. n # 1
    BY <1>1, <2>3
  <2>5. n - 1 \in 1..K /\ (n - 1) + 1 = n /\ ~(n <= n - 1)
    BY <2>3, <2>4
  <2>6. Good(n - 1)
    BY <2>2, <2>5
  <2> QED
    BY <1>2, <2>3, <2>5, <2>6
<1> QED
  BY <1>3

\* A list of commands that ends statements where the program did falls into its statements.
LEMMA StatementsRead ==
    ASSUME NEW statements, NEW off, NEW cmds, NEW read, IsList(cmds), IsList(read), Len(read) = Len(cmds),
           MeantBy(statements, off, cmds),
           \A i \in 1..Len(cmds) : Meaning(read[i]) = Meaning(cmds[i]),
           \A i \in 1..(Len(cmds) - 1) : read[i].end_of_statement <=> cmds[i].end_of_statement
    PROVE  LET st == Statements(read)
           IN  statements = [k \in DOMAIN st |-> [j \in DOMAIN st[k] |-> Meaning(st[k][j])]]
<1> DEFINE n == Len(cmds)
           K == Len(statements)
           M == MeaningsOf(cmds)
           EndsBefore(i) == Cardinality({j \in 1..(i - 1) : read[j].end_of_statement})
           Of(k) == {i \in DOMAIN read : EndsBefore(i) = k - 1}
           Part(k) == (off[k] + 1)..off[k + 1]
<1>1. n \in Nat /\ DOMAIN cmds = 1..n /\ DOMAIN read = 1..n /\ (read = <<>> <=> n = 0)
  BY ListIsSeq
<1>2. Splits(statements, off, M, n) /\ (K # 0 => off[K] < n) /\ EndsOf(statements, off, EndsIn(cmds), n - 1)
  BY DEF MeantBy
<1>3. /\ IsList(statements) /\ K \in Nat /\ DOMAIN off = 1..(K + 1) /\ off[1] = 0 /\ off[K + 1] = n
      /\ \A k \in 1..(K + 1) : off[k] \in 0..n
      /\ \A k \in 1..K : /\ off[k] <= off[k + 1] /\ (k < K => off[k] < off[k + 1])
                         /\ statements[k] = Piece(M, off[k], off[k + 1])
  <2>1. /\ IsList(statements) /\ DOMAIN off = 1..(K + 1) /\ off[1] = 0 /\ off[K + 1] = n
        /\ \A k \in 1..(K + 1) : off[k] \in 0..n
        /\ \A k \in 1..K : /\ off[k] <= off[k + 1] /\ (k < K => off[k] < off[k + 1])
                           /\ statements[k] = Piece(M, off[k], off[k + 1])
    BY <1>2 DEF Splits
  <2> QED
    BY <2>1, ListIsSeq
<1> HIDE DEF M
<1>4. \A j, k \in 1..(K + 1) : (j <= k => off[j] <= off[k]) /\ (j < k /\ k <= K => off[j] < off[k])
  BY <1>1, <1>2, SplitsOrdered
<1>5. \A i \in 1..(n - 1) : read[i].end_of_statement <=> \E k \in 2..K : off[k] = i
  <2>1. \A i \in 1..(n - 1) : i \in EndsIn(cmds) <=> \E k \in 2..K : off[k] = i
    BY <1>2 DEF EndsOf
  <2>2. \A i \in 1..(n - 1) : i \in EndsIn(cmds) <=> cmds[i].end_of_statement
    BY <1>1 DEF EndsIn
  <2> QED
    BY <2>1, <2>2
<1> HIDE DEF n, K
<1>6. \A j, k \in 1..(K + 1) : j < k => off[j] < off[k]
  <2> SUFFICES ASSUME NEW j \in 1..(K + 1), NEW k \in 1..(K + 1), j < k PROVE off[j] < off[k]
    OBVIOUS
  <2>1. CASE k <= K
    BY <1>4, <2>1
  <2>2. CASE k = K + 1
    <3>1. K # 0 /\ j <= K /\ K \in 1..(K + 1)
      BY <1>3, <2>2
    <3>2. off[j] <= off[K] /\ off[K] < n /\ off[j] \in Nat /\ off[K] \in Nat
      BY <1>2, <1>3, <1>4, <3>1 DEF K, n
    <3> QED
      BY <1>1, <1>3, <2>2, <3>2
  <2> QED
    BY <1>3, <2>1, <2>2
<1>7. ASSUME NEW k \in 1..K, NEW i \in Part(k) PROVE EndsBefore(i) = k - 1 /\ i \in 1..n
  <2>1. k \in 1..(K + 1) /\ k + 1 \in 1..(K + 1) /\ k \in 1..K
    BY <1>3
  <2>2. off[k] \in 0..n /\ off[k + 1] \in 0..n
    BY <1>3, <2>1
  <2>3. i \in 1..n /\ off[k] < i /\ i <= off[k + 1]
    <3>1. PICK a \in Nat, b \in Nat : a = off[k] /\ b = off[k + 1] /\ b <= n
      BY <1>1, <2>2
    <3>2. i \in (a + 1)..b
      BY <3>1
    <3> QED
      BY <1>1, <3>1, <3>2
  <2>4. {j \in 1..(i - 1) : read[j].end_of_statement} = {off[j] : j \in 2..k}
    <3>1. ASSUME NEW j \in 1..(i - 1), read[j].end_of_statement PROVE j \in {off[l] : l \in 2..k}
      <4>1. j \in 1..(n - 1) /\ j < i
        BY <1>1, <2>3, <3>1
      <4>2. PICK l \in 2..K : off[l] = j
        BY <1>5, <3>1, <4>1
      <4>3. l \in 1..(K + 1) /\ off[l] < off[k + 1] /\ off[l] \in 0..n
        BY <1>3, <2>2, <2>3, <4>1, <4>2
      <4>4. ~(k + 1 <= l)
        BY <1>4, <2>1, <2>2, <4>3
      <4>5. l \in 2..k
        BY <2>1, <4>2, <4>4
      <4> QED
        BY <4>2, <4>5
    <3>2. ASSUME NEW l \in 2..k PROVE off[l] \in 1..(i - 1) /\ read[off[l]].end_of_statement
      <4>1. l \in 1..(K + 1) /\ l \in 2..K /\ l <= k /\ 1 \in 1..(K + 1) /\ 1 < l
        BY <1>3, <2>1
      <4>2. off[l] <= off[k] /\ off[l] \in 0..n /\ off[1] < off[l]
        BY <1>3, <1>4, <1>6, <2>1, <4>1
      <4>3. off[l] \in 1..(i - 1) /\ off[l] \in 1..(n - 1)
        BY <1>1, <1>3, <2>2, <2>3, <4>2
      <4> QED
        BY <1>5, <4>1, <4>3
    <3> QED
      BY <3>1, <3>2
  <2>5. Cardinality(FirstEnds(off, k)) = k - 1
    <3>1. \A j \in 1..K : j \in 1..(K + 1)
      BY <1>3
    <3>2. \A j \in 1..K : off[j] \in Nat
      BY <1>3, <3>1
    <3>3. \A j, l \in 1..K : j < l => off[j] < off[l]
      BY <1>6, <3>1
    <3> QED
      BY <1>3, <2>1, <3>2, <3>3, CountEnds
  <2> QED
    BY <2>3, <2>4, <2>5 DEF FirstEnds
<1>8. ASSUME NEW i \in 1..n PROVE \E k \in 1..K : i \in Part(k)
  <2> DEFINE T == {k \in 1..K : i <= off[k + 1]}
  <2>1. K \in T
    <3>1. K # 0
      <4> SUFFICES ASSUME K = 0 PROVE FALSE
        OBVIOUS
      <4>1. n = 0
        BY <1>3
      <4> QED
        BY <4>1
    <3>2. i <= n
      BY <1>1
    <3> QED
      BY <1>3, <3>1, <3>2
  <2>2. PICK k \in T : \A m \in T : k <= m
    <3>1. T \in SUBSET Nat /\ T # {}
      <4>1. T # {}
        BY <2>1
      <4>2. \A k \in 1..K : k \in Nat
        BY <1>3
      <4> QED
        BY <4>1, <4>2
    <3> HIDE DEF T
    <3> QED
      BY <3>1, LeastOf
  <2>3. k \in 1..K /\ i <= off[k + 1]
    BY <2>2
  <2>4. off[k] < i
    <3>1. CASE k = 1
      BY <1>3, <3>1
    <3>2. CASE k # 1
      <4>1. k - 1 \in 1..K /\ (k - 1) + 1 = k /\ ~(k <= k - 1) /\ k \in 1..(K + 1)
        BY <1>3, <2>3, <3>2
      <4>2. ~(i <= off[k])
        BY <2>2, <4>1
      <4>3. off[k] \in 0..n
        BY <1>3, <4>1
      <4> QED
        BY <1>1, <4>2, <4>3
    <3> QED
      BY <3>1, <3>2
  <2>5. k \in 1..(K + 1) /\ k + 1 \in 1..(K + 1)
    BY <1>3, <2>3
  <2>6. off[k] \in 0..n /\ off[k + 1] \in 0..n
    BY <1>3, <2>5
  <2>7. i \in Part(k)
    BY <1>1, <2>3, <2>4, <2>6
  <2> QED
    BY <2>3, <2>7
<1>9. ASSUME NEW k \in 1..K PROVE Of(k) = Part(k)
  <2>1. ASSUME NEW i \in Of(k) PROVE i \in Part(k)
    <3>1. i \in 1..n /\ EndsBefore(i) = k - 1
      BY <1>1, <2>1
    <3>2. PICK l \in 1..K : i \in Part(l)
      BY <1>8, <3>1
    <3>3. EndsBefore(i) = l - 1
      BY <1>7, <3>2
    <3> HIDE DEF EndsBefore, Part
    <3>4. l = k
      BY <1>3, <3>1, <3>3
    <3> QED
      BY <3>2, <3>4
  <2>2. ASSUME NEW i \in Part(k) PROVE i \in Of(k)
    <3> HIDE DEF EndsBefore, Part
    <3> QED
      BY <1>1, <1>7, <2>2
  <2> QED
    BY <2>1, <2>2
<1>10. (IF read = <<>> THEN 0 ELSE EndsBefore(Len(read)) + 1) = K
  <2>1. CASE n = 0
    <3>1. K = 0
      <4> SUFFICES ASSUME K # 0 PROVE FALSE
        OBVIOUS
      <4>1. K \in 1..(K + 1) /\ K + 1 \in 1..(K + 1) /\ K < K + 1
        BY <1>3
      <4>2. off[K] < off[K + 1] /\ off[K] \in 0..n
        BY <1>3, <1>6, <4>1
      <4> QED
        BY <1>3, <2>1, <4>2
    <3> QED
      BY <1>1, <2>1, <3>1
  <2>2. CASE n # 0
    <3>1. K # 0
      <4> SUFFICES ASSUME K = 0 PROVE FALSE
        OBVIOUS
      <4> QED
        BY <1>3, <2>2
    <3>2. K \in 1..K /\ K \in 1..(K + 1) /\ K + 1 \in 1..(K + 1) /\ K < K + 1
      BY <1>3, <3>1
    <3>3. off[K] < off[K + 1] /\ off[K + 1] = n /\ off[K] \in 0..n
      BY <1>3, <1>6, <3>2
    <3>4. n \in Part(K)
      BY <1>1, <3>3
    <3>5. EndsBefore(n) = K - 1
      BY <1>7, <3>2, <3>4
    <3>6. Len(read) = n /\ read # <<>>
      BY <1>1, <2>2 DEF n
    <3> HIDE DEF EndsBefore
    <3> QED
      BY <1>3, <3>5, <3>6
  <2> QED
    BY <2>1, <2>2
<1> DEFINE st == [k \in 1..K |-> SubSeq(read, Min(Of(k)), Max(Of(k)))]
<1>11. Statements(read) = st
  <2>1. Statements(read) = [k \in 1..(IF read = <<>> THEN 0 ELSE EndsBefore(Len(read)) + 1) |->
                               SubSeq(read, Min(Of(k)), Max(Of(k)))]
    BY DEF Statements
  <2> HIDE DEF EndsBefore, Of
  <2> QED
    BY <1>10, <2>1
<1>12. ASSUME NEW k \in 1..K PROVE statements[k] = [j \in DOMAIN st[k] |-> Meaning(st[k][j])]
  <2>1. k \in 1..(K + 1) /\ k + 1 \in 1..(K + 1) /\ k < k + 1
    BY <1>3
  <2>2. off[k] \in 0..n /\ off[k + 1] \in 0..n /\ off[k] < off[k + 1]
    BY <1>3, <1>6, <2>1
  <2>3. PICK a \in Nat, b \in Nat : a = off[k] /\ b = off[k + 1] /\ a < b /\ b <= n
    BY <2>2
  <2>4. Min(Of(k)) = a + 1 /\ Max(Of(k)) = b
    <3>1. Of(k) = (a + 1)..b
      BY <1>9, <2>3
    <3> HIDE DEF Of
    <3> QED
      BY <2>3, <3>1, IntervalEnds
  <2>5. st[k] = SubSeq(read, a + 1, b)
    <3> HIDE DEF Of
    <3> QED
      BY <2>4
  <2>6. SubSeq(read, a + 1, b) = [j \in 1..(b - a) |-> read[a + j]]
    <3>1. SubSeq(read, a + 1, b) = [j \in 1..(b - (a + 1) + 1) |-> read[j + (a + 1) - 1]]
      OBVIOUS
    <3>2. b - (a + 1) + 1 = b - a /\ \A j \in Int : j + (a + 1) - 1 = a + j
      BY <2>3
    <3>3. \A j \in 1..(b - a) : read[j + (a + 1) - 1] = read[a + j]
      BY <3>2
    <3> QED
      BY <3>1, <3>2, <3>3
  <2>7. statements[k] = [j \in 1..(b - a) |-> M[a + j]]
    BY <1>3, <2>3 DEF Piece
  <2>8. \A j \in 1..(b - a) : a + j \in 1..n
    BY <1>1, <2>3
  <2>9. \A i \in 1..n : M[i] = Meaning(read[i])
    BY <1>1 DEF M, MeaningsOf, n
  <2>10. \A j \in 1..(b - a) : M[a + j] = Meaning(read[a + j])
    BY <2>8, <2>9
  <2> DEFINE d == b - a
             g == [j \in 1..d |-> read[a + j]]
  <2> HIDE DEF st
  <2>11. st[k] = g
    BY <2>5, <2>6
  <2> HIDE DEF d
  <2>12. DOMAIN st[k] = 1..d /\ \A j \in 1..d : st[k][j] = read[a + j]
    BY <2>11
  <2> HIDE DEF g
  <2>13. statements[k] = [j \in 1..d |-> Meaning(st[k][j])]
    <3>1. statements[k] = [j \in 1..d |-> M[a + j]] /\ \A j \in 1..d : M[a + j] = Meaning(read[a + j])
      BY <2>7, <2>10 DEF d
    <3> HIDE DEF M
    <3> QED
      BY <2>12, <3>1
  <2> QED
    BY <2>12, <2>13
<1>13. DOMAIN st = 1..K
  OBVIOUS
<1>14. statements = [k \in 1..K |-> statements[k]]
  BY <1>3, ListIsSeq DEF K
<1> HIDE DEF st
<1>15. statements = [k \in DOMAIN st |-> [j \in DOMAIN st[k] |-> Meaning(st[k][j])]]
  BY <1>12, <1>13, <1>14
<1> QED
  BY <1>11, <1>15

-----------------------------------------------------------------------------
(* The host of a client and the settings of a pipeline *)

LEMMA HostDataRead ==
    ASSUME NEW d, IsHostData(d)
    PROVE  HostDefaultData_From(HostDefaultData_To(d)) = d
<1> DEFINE f == Value(d)
           o == Value(HostDefaultData_To(d))
<1>1. /\ d = HostDefaultData([n \in Range(DataFields) |-> f[n]])
      /\ f.ForegroundColor = ConsoleColor(Value(f.ForegroundColor))
      /\ f.BackgroundColor = ConsoleColor(Value(f.BackgroundColor))
      /\ f.CursorPosition = Coordinates(Value(f.CursorPosition).X, Value(f.CursorPosition).Y)
      /\ f.WindowPosition = Coordinates(Value(f.WindowPosition).X, Value(f.WindowPosition).Y)
      /\ f.CursorSize = Number(Value(f.CursorSize)) /\ f.WindowTitle = Str(Value(f.WindowTitle))
      /\ f.BufferSize = Size(Value(f.BufferSize).Width, Value(f.BufferSize).Height)
      /\ f.WindowSize = Size(Value(f.WindowSize).Width, Value(f.WindowSize).Height)
      /\ f.MaxWindowSize = Size(Value(f.MaxWindowSize).Width, Value(f.MaxWindowSize).Height)
      /\ f.MaxPhysicalWindowSize = Size(Value(f.MaxPhysicalWindowSize).Width, Value(f.MaxPhysicalWindowSize).Height)
  BY DEF IsHostData
<1>2. Range(DataFields) = {"ForegroundColor", "BackgroundColor", "CursorPosition", "WindowPosition",
                "CursorSize", "BufferSize", "WindowSize", "MaxWindowSize", "MaxPhysicalWindowSize", "WindowTitle"}
  <2>1. DOMAIN DataFields = 1..10
    BY DEF DataFields
  <2>2. \A i : i \in 1..10 <=> i \in {1, 2, 3, 4, 5, 6, 7, 8, 9, 10}
    OBVIOUS
  <2>3. Range(DataFields) = {DataFields[i] : i \in {1, 2, 3, 4, 5, 6, 7, 8, 9, 10}}
    BY <2>1, <2>2 DEF Range
  <2> QED
    BY <2>3 DEF DataFields
<1> DEFINE Sent2(value) == [T |-> Type(value),
             V |-> CASE Type(value) = "ConsoleColor" -> Number(Value(value))
                     [] Type(value) = "Coordinates" -> Coordinates_To(value)
                     [] Type(value) = "Size" -> Size_To(value)
                     [] OTHER -> value]
<1>3. o = [idx \in 0..9 |-> Sent2(f[DataFields[idx + 1]])]
  BY DEF HostDefaultData_To, PSObject, Value
<1> HIDE DEF o, f
<1>4. /\ o[0] = Sent2(f.ForegroundColor) /\ o[1] = Sent2(f.BackgroundColor) /\ o[2] = Sent2(f.CursorPosition)
      /\ o[3] = Sent2(f.WindowPosition) /\ o[4] = Sent2(f.CursorSize) /\ o[5] = Sent2(f.BufferSize)
      /\ o[6] = Sent2(f.WindowSize) /\ o[7] = Sent2(f.MaxWindowSize) /\ o[8] = Sent2(f.MaxPhysicalWindowSize)
      /\ o[9] = Sent2(f.WindowTitle)
  <2> HIDE DEF Sent2
  <2> QED
    BY <1>3 DEF DataFields
<1>5. \A v : v = ConsoleColor(Value(v)) => ConsoleColor(Value(Sent2(v).V)) = v
  BY DEF ConsoleColor, Number, Type, Value
<1>6. \A v : v = Coordinates(Value(v).X, Value(v).Y) => Coordinates_From(Sent2(v).V) = v
  BY DEF Coordinates, Coordinates_From, Coordinates_To, PSObject, Type, Value
<1>7. \A v : v = Size(Value(v).Width, Value(v).Height) => Size_From(Sent2(v).V) = v
  BY DEF Size, Size_From, Size_To, PSObject, Type, Value
<1>8. \A v : v = Number(Value(v)) \/ v = Str(Value(v)) => Sent2(v).V = v
  BY DEF Number, Str, Type, Value
<1> HIDE DEF Sent2
<1>9. HostDefaultData_From(HostDefaultData_To(d)) = HostDefaultData([
            ForegroundColor |-> f.ForegroundColor, BackgroundColor |-> f.BackgroundColor,
            CursorPosition |-> f.CursorPosition, WindowPosition |-> f.WindowPosition,
            CursorSize |-> f.CursorSize, BufferSize |-> f.BufferSize, WindowSize |-> f.WindowSize,
            MaxWindowSize |-> f.MaxWindowSize, MaxPhysicalWindowSize |-> f.MaxPhysicalWindowSize,
            WindowTitle |-> f.WindowTitle])
  <2>1. /\ ConsoleColor(Value(o[0].V)) = f.ForegroundColor /\ ConsoleColor(Value(o[1].V)) = f.BackgroundColor
        /\ Coordinates_From(o[2].V) = f.CursorPosition /\ Coordinates_From(o[3].V) = f.WindowPosition
        /\ o[4].V = f.CursorSize /\ Size_From(o[5].V) = f.BufferSize /\ Size_From(o[6].V) = f.WindowSize
        /\ Size_From(o[7].V) = f.MaxWindowSize /\ Size_From(o[8].V) = f.MaxPhysicalWindowSize
        /\ o[9].V = f.WindowTitle
    BY <1>1, <1>4, <1>5, <1>6, <1>7, <1>8, Zenon DEF f
  <2> QED
    BY <2>1 DEF HostDefaultData_From, o
<1>10. [n \in Range(DataFields) |-> f[n]] = [
            ForegroundColor |-> f.ForegroundColor, BackgroundColor |-> f.BackgroundColor,
            CursorPosition |-> f.CursorPosition, WindowPosition |-> f.WindowPosition,
            CursorSize |-> f.CursorSize, BufferSize |-> f.BufferSize, WindowSize |-> f.WindowSize,
            MaxWindowSize |-> f.MaxWindowSize, MaxPhysicalWindowSize |-> f.MaxPhysicalWindowSize,
            WindowTitle |-> f.WindowTitle]
  BY <1>2
<1>11. d = HostDefaultData([n \in Range(DataFields) |-> f[n]])
  BY <1>1 DEF f
<1> QED
  BY <1>9, <1>10, <1>11, Zenon

\* The server reads the host a client has.
LEMMA HostRead ==
    ASSUME NEW h, IsHost(h)
    PROVE  HostInfo_From(HostInfo_To(h)) = h
<1> DEFINE v == Value(h)
           F == {"IsHostNull", "IsHostUINull", "IsHostRawUINull", "UseRunspaceHost", "HostDefaultData"}
<1>1. h = HostInfo([n \in F |-> v[n]]) /\ (v.HostDefaultData = None \/ IsHostData(v.HostDefaultData))
  BY DEF IsHost
<1>2. v = [n \in F |-> v[n]]
  <2>1. Value(HostInfo([n \in F |-> v[n]])) = [n \in F |-> v[n]]
    BY DEF HostInfo, Value
  <2> QED
    BY <1>1, <2>1
<1>3. h = HostInfo(v)
  BY <1>1, <1>2
<1> HIDE DEF v
<1> DEFINE sent == Value(HostInfo_To(h))
           data == v.HostDefaultData
<1>4. sent = [v EXCEPT !.HostDefaultData = IF data = None THEN data ELSE HostDefaultData_To(data)]
  BY DEF HostInfo_To, PSObject, Value, v
<1>5. CASE data = None
  <2>1. sent = v
    BY <1>2, <1>4, <1>5
  <2>2. HostInfo_From(HostInfo_To(h)) = HostInfo(v)
    <3>1. HostInfo_From(HostInfo_To(h)) = HostInfo([sent EXCEPT !.HostDefaultData =
                IF sent.HostDefaultData = None THEN sent.HostDefaultData ELSE HostDefaultData_From(sent.HostDefaultData)])
      BY DEF HostInfo_From
    <3> HIDE DEF sent
    <3>2. [v EXCEPT !.HostDefaultData = data] = v
      BY <1>2
    <3> QED
      BY <1>5, <2>1, <3>1, <3>2
  <2> QED
    BY <1>3, <2>2
<1>6. CASE data # None
  <2> DEFINE to == HostDefaultData_To(data)
  <2>1. IsHostData(data) /\ HostDefaultData_From(to) = data
    BY <1>1, <1>6, HostDataRead DEF v
  <2>2. to # None
    BY DEF HostDefaultData_To, PSObject, None
  <2> HIDE DEF to
  <2>3. sent = [v EXCEPT !.HostDefaultData = to]
    BY <1>4, <1>6 DEF to
  <2>4. sent.HostDefaultData = to
    <3>1. "HostDefaultData" \in DOMAIN v
      BY <1>2
    <3> HIDE DEF sent
    <3> QED
      BY <2>3, <3>1
  <2>5. HostInfo_From(HostInfo_To(h)) = HostInfo([sent EXCEPT !.HostDefaultData =
                IF sent.HostDefaultData = None THEN sent.HostDefaultData ELSE HostDefaultData_From(sent.HostDefaultData)])
    BY DEF HostInfo_From
  <2> HIDE DEF sent
  <2>6. HostInfo_From(HostInfo_To(h)) = HostInfo([sent EXCEPT !.HostDefaultData = data])
    BY <2>1, <2>2, <2>4, <2>5
  <2>7. [sent EXCEPT !.HostDefaultData = data] = v
    BY <1>2, <2>3
  <2> QED
    BY <1>3, <2>6, <2>7
<1> QED
  BY <1>5, <1>6

LEMMA DefaultHostIsHost == IsHost(DefaultHost)
BY DEF IsHost, DefaultHost, HostInfo, Value

-----------------------------------------------------------------------------
(* Commands and their redirections *)

IsCommand(c) ==
    /\ c = [command_text |-> c.command_text, is_script |-> c.is_script,
            use_local_scope |-> c.use_local_scope, parameters |-> c.parameters,
            end_of_statement |-> c.end_of_statement, merge_unclaimed |-> c.merge_unclaimed,
            merge_my |-> c.merge_my, merge_to |-> c.merge_to, merge |-> c.merge]
    /\ c.merge_unclaimed \in BOOLEAN

\* The streams go where they were last redirected to.
Redirected(c, want) ==
    /\ c.merge = want /\ want = [s \in Streams |-> want[s]]
    /\ want["Error"] = "Output" => c.merge_my = "Error" /\ c.merge_to = "Output"
    /\ want["Error"] = "none" => c.merge_my = "none" /\ c.merge_to = "none"

Elsewhere(want, streams, to) == [s \in Streams |-> IF s \in streams THEN to ELSE want[s]]

\* d is c with some streams redirected.
IsRedirection(c, want, streams, to, d) ==
    /\ IsCommand(d) /\ Redirected(d, Elsewhere(want, streams, to))
    /\ Meaning(d) = Meaning(c) /\ d.end_of_statement = c.end_of_statement

MergeTo(c, s, to) == [c EXCEPT !.merge[s] = to]

LEMMA MergeOne ==
    ASSUME NEW c, NEW want, IsCommand(c), Redirected(c, want), NEW s \in Streams \ {"Error"}, NEW to
    PROVE  IsRedirection(c, want, {s}, to, MergeTo(c, s, to))
<1> DEFINE d == MergeTo(c, s, to)
           m == [want EXCEPT ![s] = to]
           w == Elsewhere(want, {s}, to)
<1>1. d = [c EXCEPT !.merge = m]
  BY DEF MergeTo, Redirected
<1>2. m = w
  BY DEF Elsewhere, Redirected
<1> HIDE DEF d, m
<1>3. d = [command_text |-> c.command_text, is_script |-> c.is_script,
           use_local_scope |-> c.use_local_scope, parameters |-> c.parameters,
           end_of_statement |-> c.end_of_statement, merge_unclaimed |-> c.merge_unclaimed,
           merge_my |-> c.merge_my, merge_to |-> c.merge_to, merge |-> m]
  BY <1>1 DEF IsCommand
<1>4. IsCommand(d) /\ Meaning(d) = Meaning(c) /\ d.end_of_statement = c.end_of_statement /\ d.merge = m
      /\ d.merge_my = c.merge_my /\ d.merge_to = c.merge_to
  BY <1>3 DEF IsCommand, Meaning
<1>5. w["Error"] = want["Error"] /\ w = [t \in Streams |-> w[t]]
  BY DEF Elsewhere, Streams
<1> HIDE DEF w
<1>6. /\ want["Error"] = "Output" => c.merge_my = "Error" /\ c.merge_to = "Output"
      /\ want["Error"] = "none" => c.merge_my = "none" /\ c.merge_to = "none"
  BY DEF Redirected
<1>7. Redirected(d, w)
  BY <1>2, <1>4, <1>5, <1>6 DEF Redirected
<1> QED
  BY <1>4, <1>7 DEF IsRedirection, w, d

LEMMA MergeError ==
    ASSUME NEW c, NEW want, IsCommand(c), Redirected(c, want), NEW to \in RedirectTo
    PROVE  IsRedirection(c, want, {"Error"}, to, redirect_error(c, to))
<1> DEFINE d == redirect_error(c, to)
           m == [want EXCEPT !["Error"] = to]
           w == Elsewhere(want, {"Error"}, to)
           my == MergedError(c, to)[1]
           mt == MergedError(c, to)[2]
<1>1. d = [command_text |-> c.command_text, is_script |-> c.is_script,
           use_local_scope |-> c.use_local_scope, parameters |-> c.parameters,
           end_of_statement |-> c.end_of_statement, merge_unclaimed |-> c.merge_unclaimed,
           merge_my |-> my, merge_to |-> mt, merge |-> m]
  <2> HIDE DEF my, mt
  <2>1. c.merge = want
    BY DEF Redirected
  <2>2. d = [c EXCEPT !.merge_my = my, !.merge_to = mt, !.merge["Error"] = to]
    BY DEF redirect_error, my, mt
  <2> QED
    BY <2>1, <2>2 DEF IsCommand
<1>2. m = w
  BY DEF Elsewhere, Redirected
<1>3. (to = "Output" => my = "Error" /\ mt = "Output") /\ (to = "none" => my = "none" /\ mt = "none")
  BY DEF MergedError
<1>4. w["Error"] = to /\ w = [t \in Streams |-> w[t]]
  BY DEF Elsewhere, Streams
<1> HIDE DEF d, m, w, my, mt
<1>5. IsCommand(d) /\ Meaning(d) = Meaning(c) /\ d.end_of_statement = c.end_of_statement /\ d.merge = m
      /\ d.merge_my = my /\ d.merge_to = mt
  BY <1>1 DEF IsCommand, Meaning
<1> QED
  BY <1>2, <1>3, <1>4, <1>5 DEF IsRedirection, Redirected, w, d

\* One redirection and then another.
LEMMA MergeBoth ==
    ASSUME NEW c, NEW d, NEW e, NEW want, NEW S1, NEW S2, NEW to,
           IsRedirection(c, want, S1, to, d), IsRedirection(d, Elsewhere(want, S1, to), S2, to, e)
    PROVE  IsRedirection(c, want, S1 \union S2, to, e)
<1>1. Elsewhere(Elsewhere(want, S1, to), S2, to) = Elsewhere(want, S1 \union S2, to)
  BY DEF Elsewhere
<1> QED
  BY <1>1 DEF IsRedirection

LEMMA Merges ==
    ASSUME NEW c, NEW want, IsCommand(c), Redirected(c, want), NEW to \in RedirectTo
    PROVE  /\ IsRedirection(c, want, {"Error"}, to, redirect_error(c, to))
           /\ IsRedirection(c, want, {"Warning"}, to, redirect_warning(c, to))
           /\ IsRedirection(c, want, {"Verbose"}, to, redirect_verbose(c, to))
           /\ IsRedirection(c, want, {"Debug"}, to, redirect_debug(c, to))
           /\ IsRedirection(c, want, {"Information"}, to, redirect_information(c, to))
           /\ IsRedirection(c, want, Streams, to, redirect_all(c, to))
<1>1. \A s \in {"Warning", "Verbose", "Debug", "Information"} : s \in Streams \ {"Error"}
  BY DEF Streams
<1>2. \A x : /\ redirect_warning(x, to) = MergeTo(x, "Warning", to)
             /\ redirect_verbose(x, to) = MergeTo(x, "Verbose", to)
             /\ redirect_debug(x, to) = MergeTo(x, "Debug", to)
             /\ redirect_information(x, to) = MergeTo(x, "Information", to)
  BY DEF redirect_warning, redirect_verbose, redirect_debug, redirect_information, MergeTo
<1>3. \A s \in {"Warning", "Verbose", "Debug", "Information"} : \A x, w :
         IsCommand(x) /\ Redirected(x, w) => IsRedirection(x, w, {s}, to, MergeTo(x, s, to))
  BY <1>1, MergeOne
<1>4. IsRedirection(c, want, {"Error"}, to, redirect_error(c, to))
  BY MergeError
<1>5. ASSUME NEW x, NEW ss, NEW s \in {"Warning", "Verbose", "Debug", "Information"},
             IsRedirection(c, want, ss, to, x)
      PROVE  IsRedirection(c, want, ss \union {s}, to, MergeTo(x, s, to))
  <2>1. IsCommand(x) /\ Redirected(x, Elsewhere(want, ss, to))
    BY <1>5 DEF IsRedirection
  <2>2. IsRedirection(x, Elsewhere(want, ss, to), {s}, to, MergeTo(x, s, to))
    BY <1>3, <2>1
  <2> QED
    BY <1>5, <2>2, MergeBoth
<1> DEFINE d1 == redirect_error(c, to)
           d2 == MergeTo(d1, "Warning", to)
           d3 == MergeTo(d2, "Verbose", to)
           d4 == MergeTo(d3, "Debug", to)
           d5 == MergeTo(d4, "Information", to)
<1>6. redirect_all(c, to) = d5
  BY <1>2, Zenon DEF redirect_all
<1> HIDE DEF d1
<1>7. IsRedirection(c, want, {"Error"}, to, d1)
  BY <1>4 DEF d1
<1>8. IsRedirection(c, want, {"Error"} \union {"Warning"}, to, d2)
  BY <1>5, <1>7
<1> HIDE DEF d2
<1>9. IsRedirection(c, want, ({"Error"} \union {"Warning"}) \union {"Verbose"}, to, d3)
  BY <1>5, <1>8
<1> HIDE DEF d3
<1>10. IsRedirection(c, want, (({"Error"} \union {"Warning"}) \union {"Verbose"}) \union {"Debug"}, to, d4)
  BY <1>5, <1>9
<1> HIDE DEF d4
<1>11. IsRedirection(c, want, ((({"Error"} \union {"Warning"}) \union {"Verbose"}) \union {"Debug"})
                                  \union {"Information"}, to, d5)
  BY <1>5, <1>10
<1>12. ((({"Error"} \union {"Warning"}) \union {"Verbose"}) \union {"Debug"}) \union {"Information"} = Streams
  BY DEF Streams
<1> HIDE DEF d5
<1>13. IsRedirection(c, want, Streams, to, redirect_all(c, to))
  BY <1>6, <1>11, <1>12
<1> QED
  BY <1>2, <1>3, <1>4, <1>13

LEMMA NewCommand ==
    ASSUME NEW name, NEW script, NEW scope, NEW set \in BOOLEAN
    PROVE  LET none == [s \in Streams |-> "none"]
           IN  /\ IsCommand(Command(name, script, scope)) /\ Redirected(Command(name, script, scope), none)
               /\ IsCommand([Command(name, script, scope) EXCEPT !.merge_unclaimed = set])
               /\ Redirected([Command(name, script, scope) EXCEPT !.merge_unclaimed = set], none)
<1> DEFINE none == [s \in Streams |-> "none"]
           c == Command(name, script, scope)
           d == [c EXCEPT !.merge_unclaimed = set]
<1>1. none["Error"] = "none" /\ none = [s \in Streams |-> none[s]]
  BY DEF Streams
<1>2. c = [command_text |-> name, is_script |-> script, use_local_scope |-> scope, parameters |-> <<>>,
           end_of_statement |-> FALSE, merge_unclaimed |-> FALSE, merge_my |-> "none",
           merge_to |-> "none", merge |-> none]
  BY DEF Command
<1> HIDE DEF c, none
<1>3. IsCommand(c) /\ Redirected(c, none)
  BY <1>1, <1>2 DEF IsCommand, Redirected
<1>5. d = [command_text |-> c.command_text, is_script |-> c.is_script,
           use_local_scope |-> c.use_local_scope, parameters |-> c.parameters,
           end_of_statement |-> c.end_of_statement, merge_unclaimed |-> set,
           merge_my |-> c.merge_my, merge_to |-> c.merge_to, merge |-> c.merge]
  BY <1>3 DEF IsCommand
<1> HIDE DEF d
<1>6. IsCommand(d)
  BY <1>5 DEF IsCommand
<1>4. Redirected(d, none)
  BY <1>3, <1>5 DEF Redirected
<1> QED
  BY <1>3, <1>4, <1>6 DEF c, d, none

\* The streams that a peer reads of a command go where they were redirected to.
Known(peer) == KnownMerges(IF peer = Unknown THEN Win7RC ELSE peer) \intersect Streams

SameMerges(r, c, want, peer) ==
    /\ r.merge_my = c.merge_my /\ r.merge_to = c.merge_to
    /\ \A s \in Known(peer) : r.merge[s] = want[s]

\* What the server reads of a command.
LEMMA CommandRead ==
    ASSUME NEW c, NEW peer, IsCommand(c), NEW want, Redirected(c, want)
    PROVE  /\ Meaning(Restored(c, peer)) = Meaning(c) /\ Meaning(Closed(c, peer)) = Meaning(c)
           /\ Restored(c, peer).end_of_statement = FALSE /\ Closed(c, peer).end_of_statement = TRUE
           /\ SameMerges(Restored(c, peer), c, want, peer) /\ SameMerges(Closed(c, peer), c, want, peer)
<1> DEFINE o == Command_To(c, peer)
           p == IF peer = Unknown THEN Win7RC ELSE peer
           K == KnownMerges(p)
           r == Restored(c, peer)
           merge == [s \in Streams |-> IF s \in K THEN want[s] ELSE "none"]
<1>1. o.Merge = [s \in K |-> want[s]]
  BY DEF Command_To, Restrict, Redirected
<1>2. [s \in Streams |-> IF s \in DOMAIN o.Merge THEN o.Merge[s] ELSE "none"] = merge
  BY <1>1
<1>3. (o.MergePreviousResults = {"Output", "Error"}) = c.merge_unclaimed
  <2>1. o.MergePreviousResults = IF c.merge_unclaimed THEN {"Output", "Error"} ELSE {}
    BY DEF Command_To
  <2>2. {"Output", "Error"} # {} /\ c.merge_unclaimed \in BOOLEAN
    BY DEF IsCommand
  <2> HIDE DEF o
  <2> QED
    BY <2>1, <2>2
<1>4. o.Cmd = c.command_text /\ o.Args = c.parameters /\ o.IsScript = c.is_script
      /\ o.UseLocalScope = c.use_local_scope /\ o.MergeMyResult = c.merge_my /\ o.MergeToResult = c.merge_to
  BY DEF Command_To
<1> HIDE DEF o, merge, K
<1>5. r = [command_text |-> c.command_text, is_script |-> c.is_script, use_local_scope |-> c.use_local_scope,
           parameters |-> c.parameters, end_of_statement |-> FALSE, merge_unclaimed |-> c.merge_unclaimed,
           merge_my |-> c.merge_my, merge_to |-> c.merge_to, merge |-> merge]
  BY <1>2, <1>3, <1>4 DEF Restored, Command_From, o
<1>6. Closed(c, peer) = [r EXCEPT !.end_of_statement = TRUE]
  BY DEF Closed
<1> HIDE DEF r
<1>7. Meaning(r) = Meaning(c) /\ r.end_of_statement = FALSE
      /\ r.merge = merge /\ r.merge_my = c.merge_my /\ r.merge_to = c.merge_to
  BY <1>5 DEF Meaning
<1> DEFINE e == Closed(c, peer)
<1>8. Meaning(e) = Meaning(c) /\ e.end_of_statement = TRUE
      /\ e.merge = merge /\ e.merge_my = c.merge_my /\ e.merge_to = c.merge_to
  BY <1>5, <1>6 DEF Meaning
<1>9. \A s \in Known(peer) : merge[s] = want[s]
  BY DEF merge, Known, K
<1> HIDE DEF e
<1>10. SameMerges(r, c, want, peer) /\ SameMerges(e, c, want, peer)
  BY <1>7, <1>8, <1>9 DEF SameMerges
<1> QED
  BY <1>7, <1>8, <1>10 DEF r, e
-----------------------------------------------------------------------------
(* The commands of a pipeline *)

AddedOf(objs, cmds) == [i \in DOMAIN cmds |-> objs[cmds[i]]]

BuilderOk(objs, wnts, cmds) ==
    /\ IsList(objs) /\ IsList(wnts) /\ Len(wnts) = Len(objs) /\ IsList(cmds)
    /\ \A i \in 1..Len(objs) : IsCommand(objs[i]) /\ Redirected(objs[i], wnts[i])
    /\ \A i \in 1..Len(cmds) : cmds[i] \in 1..Len(objs)

NoTwice(cmds) == \A i, j \in DOMAIN cmds : cmds[i] = cmds[j] => i = j

LEMMA AddedIsList ==
    ASSUME NEW objs, NEW cmds, IsList(cmds)
    PROVE  /\ IsList(AddedOf(objs, cmds)) /\ Len(AddedOf(objs, cmds)) = Len(cmds)
           /\ \A i \in 1..Len(cmds) : AddedOf(objs, cmds)[i] = objs[cmds[i]]
<1> DEFINE a == AddedOf(objs, cmds)
<1>1. Len(cmds) \in Nat /\ DOMAIN cmds = 1..Len(cmds)
  BY ListIsSeq
<1>2. a = [i \in 1..Len(cmds) |-> a[i]] /\ \A i \in 1..Len(cmds) : a[i] = objs[cmds[i]]
  BY <1>1 DEF AddedOf
<1> HIDE DEF a
<1>3. IsList(a) /\ Len(a) = Len(cmds)
  BY <1>1, <1>2, MakeList
<1> QED
  BY <1>2, <1>3 DEF a

\* A command more, which is a new object.
LEMMA BuilderMore ==
    ASSUME NEW objs, NEW wnts, NEW cmds, BuilderOk(objs, wnts, cmds),
           NEW c, NEW w, IsCommand(c), Redirected(c, w)
    PROVE  LET cmds2 == Append(cmds, Len(objs) + 1)
           IN  /\ BuilderOk(Append(objs, c), Append(wnts, w), cmds2)
               /\ AddedOf(Append(objs, c), cmds2) = Append(AddedOf(objs, cmds), c)
               /\ NoTwice(cmds2) => NoTwice(cmds)
<1> DEFINE n == Len(objs)
           m == Len(cmds)
           o2 == Append(objs, c)
           w2 == Append(wnts, w)
           cmds2 == Append(cmds, n + 1)
<1>1. /\ IsList(objs) /\ IsList(wnts) /\ Len(wnts) = n /\ IsList(cmds)
      /\ \A i \in 1..n : IsCommand(objs[i]) /\ Redirected(objs[i], wnts[i])
      /\ \A i \in 1..m : cmds[i] \in 1..n
  BY DEF BuilderOk
<1>2. n \in Nat /\ m \in Nat /\ DOMAIN cmds = 1..m
  BY <1>1, ListIsSeq
<1>3. IsList(o2) /\ Len(o2) = n + 1 /\ (\A i \in 1..n : o2[i] = objs[i]) /\ o2[n + 1] = c
  BY <1>1, AppendList
<1>4. IsList(w2) /\ Len(w2) = n + 1 /\ (\A i \in 1..n : w2[i] = wnts[i]) /\ w2[n + 1] = w
  <2>1. IsList(w2) /\ Len(w2) = Len(wnts) + 1 /\ (\A i \in 1..Len(wnts) : w2[i] = wnts[i]) /\ w2[Len(wnts) + 1] = w
    BY <1>1, AppendList
  <2> HIDE DEF n, w2
  <2> QED
    BY <1>1, <2>1
<1> HIDE DEF n
<1>5. IsList(cmds2) /\ Len(cmds2) = m + 1 /\ (\A i \in 1..m : cmds2[i] = cmds[i]) /\ cmds2[m + 1] = n + 1
  BY <1>1, AppendList
<1> HIDE DEF o2, w2, cmds2, m
<1>6. BuilderOk(o2, w2, cmds2)
  <2>1. \A i \in 1..(n + 1) : i \in 1..n \/ i = n + 1
    BY <1>2
  <2>2. \A i \in 1..(n + 1) : IsCommand(o2[i]) /\ Redirected(o2[i], w2[i])
    BY <1>1, <1>3, <1>4, <2>1
  <2>3. \A i \in 1..(m + 1) : cmds2[i] \in 1..(n + 1)
    <3>1. \A i \in 1..(m + 1) : i \in 1..m \/ i = m + 1
      BY <1>2
    <3>2. \A i \in 1..n : i \in 1..(n + 1)
      BY <1>2
    <3>3. n + 1 \in 1..(n + 1)
      BY <1>2
    <3> QED
      BY <1>1, <1>5, <3>1, <3>2, <3>3
  <2> QED
    BY <1>3, <1>4, <1>5, <2>2, <2>3 DEF BuilderOk
<1>7. AddedOf(o2, cmds2) = Append(AddedOf(objs, cmds), c)
  <2> DEFINE a == AddedOf(objs, cmds)
             b == Append(a, c)
             d == AddedOf(o2, cmds2)
  <2>1. IsList(a) /\ Len(a) = m /\ \A i \in 1..m : a[i] = objs[cmds[i]]
    BY <1>1, AddedIsList DEF m
  <2>2. IsList(d) /\ Len(d) = m + 1 /\ \A i \in 1..(m + 1) : d[i] = o2[cmds2[i]]
    BY <1>5, AddedIsList
  <2> HIDE DEF a, d
  <2>3. IsList(b) /\ Len(b) = m + 1 /\ (\A i \in 1..m : b[i] = a[i]) /\ b[m + 1] = c
    BY <2>1, AppendList
  <2> HIDE DEF b
  <2>4. \A i \in 1..(m + 1) : d[i] = b[i]
    <3> TAKE i \in 1..(m + 1)
    <3>1. i \in 1..m \/ i = m + 1
      BY <1>2
    <3> QED
      BY <1>1, <1>3, <1>5, <2>1, <2>2, <2>3, <3>1
  <2>5. d = b
    BY <2>2, <2>3, <2>4, SameList
  <2> QED
    BY <2>5 DEF a, b, d
<1>8. NoTwice(cmds2) => NoTwice(cmds)
  <2>1. DOMAIN cmds2 = 1..(m + 1)
    BY <1>5, ListIsSeq
  <2>2. \A i \in 1..m : i \in 1..(m + 1)
    BY <1>2
  <2> QED
    BY <1>2, <1>5, <2>1, <2>2 DEF NoTwice
<1> QED
  BY <1>6, <1>7, <1>8 DEF n, o2, w2, cmds2

\* The object of the last command is another.
LEMMA BuilderOther ==
    ASSUME NEW objs, NEW wnts, NEW cmds, BuilderOk(objs, wnts, cmds), cmds # <<>>,
           NEW c, NEW w, IsCommand(c), Redirected(c, w)
    PROVE  LET k == cmds[Len(cmds)]
           IN  /\ BuilderOk(Changed(objs, k, c), Changed(wnts, k, w), cmds)
               /\ NoTwice(cmds) => AddedOf(Changed(objs, k, c), cmds) = LastIs(AddedOf(objs, cmds), c)
<1> DEFINE n == Len(objs)
           m == Len(cmds)
           k == cmds[m]
           o2 == Changed(objs, k, c)
           w2 == Changed(wnts, k, w)
<1>1. /\ IsList(objs) /\ IsList(wnts) /\ Len(wnts) = n /\ IsList(cmds)
      /\ \A i \in 1..n : IsCommand(objs[i]) /\ Redirected(objs[i], wnts[i])
      /\ \A i \in 1..m : cmds[i] \in 1..n
  BY DEF BuilderOk
<1>2. n \in Nat /\ m \in Nat /\ DOMAIN cmds = 1..m /\ m \in 1..m
  <2>1. n \in Nat /\ m \in Nat /\ DOMAIN cmds = 1..m /\ m # 0
    BY <1>1, ListIsSeq
  <2> HIDE DEF m, n
  <2> QED
    BY <2>1
<1>3. k \in 1..n
  <2> HIDE DEF m, n
  <2> QED
    BY <1>1, <1>2
<1> HIDE DEF k
<1>4. IsList(o2) /\ Len(o2) = n /\ o2[k] = c /\ \A i \in 1..n : i # k => o2[i] = objs[i]
  BY <1>1, <1>3, ChangeList
<1>5. IsList(w2) /\ Len(w2) = n /\ w2[k] = w /\ \A i \in 1..n : i # k => w2[i] = wnts[i]
  <2>1. k \in 1..Len(wnts)
    BY <1>1, <1>3
  <2>2. IsList(w2) /\ Len(w2) = Len(wnts) /\ w2[k] = w /\ \A i \in 1..Len(wnts) : i # k => w2[i] = wnts[i]
    BY <1>1, <2>1, ChangeList
  <2> HIDE DEF w2, n
  <2> QED
    BY <1>1, <2>2
<1> HIDE DEF o2, w2, n
<1>6. BuilderOk(o2, w2, cmds)
  BY <1>1, <1>4, <1>5 DEF BuilderOk, m
<1>7. ASSUME NoTwice(cmds) PROVE AddedOf(o2, cmds) = LastIs(AddedOf(objs, cmds), c)
  <2> DEFINE a == AddedOf(objs, cmds)
             b == LastIs(a, c)
             d == AddedOf(o2, cmds)
  <2>1. IsList(a) /\ Len(a) = m /\ \A i \in 1..m : a[i] = objs[cmds[i]]
    BY <1>1, AddedIsList
  <2>2. IsList(d) /\ Len(d) = m /\ \A i \in 1..m : d[i] = o2[cmds[i]]
    BY <1>1, AddedIsList
  <2> HIDE DEF a, d, m
  <2>3. IsList(b) /\ Len(b) = m /\ b[m] = c /\ \A i \in 1..m : i # m => b[i] = a[i]
    <3>1. Len(a) # 0
      BY <1>2, <2>1
    <3>2. IsList(b) /\ Len(b) = Len(a) /\ b[Len(a)] = c /\ \A i \in 1..Len(a) : i # Len(a) => b[i] = a[i]
      BY <2>1, <3>1, LastIsList
    <3> HIDE DEF b
    <3> QED
      BY <2>1, <3>2
  <2> HIDE DEF b
  <2>4. \A i \in 1..m : i # m => cmds[i] # k
    BY <1>2, <1>7 DEF NoTwice, k
  <2>5. \A i \in 1..m : d[i] = b[i]
    <3> TAKE i \in 1..m
    <3>1. CASE i = m
      BY <1>4, <2>2, <2>3, <3>1 DEF k
    <3>2. CASE i # m
      BY <1>1, <1>4, <2>1, <2>2, <2>3, <2>4, <3>2 DEF m, n
    <3> QED
      BY <3>1, <3>2
  <2>6. d = b
    BY <2>2, <2>3, <2>5, SameList
  <2> QED
    BY <2>6 DEF a, b, d
<1> QED
  BY <1>6, <1>7 DEF k, m, o2, w2
-----------------------------------------------------------------------------
(* The invariants *)

\* The commands of the pipeline are objects of the program, redirected as it asked.
BuilderInv == BuilderOk(objects, wanted, commands)

\* The history has the statements that the ends of the commands are those of.
StatementsInv == NoneTwice => \E off : MeantBy(meant, off, Added)

\* What is sent is made of the commands as they are, and is read once.
ReadInv ==
    LET pipeline == PowerShell_To(ClientPowerShell(created_with, Added), their_capability)
        request == GetMetadata_To(GetMetadata(created_with.name, created_with.namespace))
    IN  /\ their_capability \in Peers \union {Unknown}
        /\ message.type \in {"CreatePipeline", "GetCommandMetadata"} \/ message = NoMessage
        /\ message.type = "CreatePipeline" \/ metadata.type = "PowerShell" =>
              created_with \in Settings /\ commands # <<>>
        /\ message.type = "GetCommandMetadata" \/ metadata.type = "GetMetadata" => created_with \in Requests
        /\ message.type = "CreatePipeline" => message = pipeline
        /\ message.type = "GetCommandMetadata" => message = request
        /\ metadata.type = "PowerShell" => metadata = PowerShell_From(pipeline)
        /\ metadata.type = "GetMetadata" => metadata = GetMetadata_From(request)

HostInv == last.kind = "host" => last.host_info = last.sent

CommandsInv == BuilderInv /\ StatementsInv /\ ReadInv /\ HostInv

-----------------------------------------------------------------------------
(* The steps of the client's program *)

LEMMA AddedNow == Added = AddedOf(objects, commands) /\ (NoneTwice <=> NoTwice(commands))
BY DEF Added, AddedOf, NoneTwice, NoTwice

LEMMA AddedThen == Added' = AddedOf(objects', commands') /\ (NoneTwice' <=> NoTwice(commands'))
BY DEF Added, AddedOf, NoneTwice, NoTwice

LEMMA ChangedField ==
    ASSUME NEW c, NEW x, IsCommand(c)
    PROVE  /\ [c EXCEPT !.parameters = x] =
                  [command_text |-> c.command_text, is_script |-> c.is_script,
                   use_local_scope |-> c.use_local_scope, parameters |-> x,
                   end_of_statement |-> c.end_of_statement, merge_unclaimed |-> c.merge_unclaimed,
                   merge_my |-> c.merge_my, merge_to |-> c.merge_to, merge |-> c.merge]
           /\ [c EXCEPT !.end_of_statement = x] =
                  [command_text |-> c.command_text, is_script |-> c.is_script,
                   use_local_scope |-> c.use_local_scope, parameters |-> c.parameters,
                   end_of_statement |-> x, merge_unclaimed |-> c.merge_unclaimed,
                   merge_my |-> c.merge_my, merge_to |-> c.merge_to, merge |-> c.merge]
           /\ [Meaning(c) EXCEPT !.parameters = x] = Meaning([c EXCEPT !.parameters = x])
BY DEF IsCommand, Meaning

\* While the program builds nothing has been sent.
LEMMA NothingSent ==
    ASSUME ReadInv, IsBuilding, UNCHANGED <<their_capability, message, metadata>>
    PROVE  ReadInv'
BY DEF ReadInv, IsBuilding, NoMessage

LEMMA AddNewStep ==
    ASSUME CommandsInv, NEW c, AddNew(c), IsCommand(c), Redirected(c, [s \in Streams |-> "none"])
    PROVE  BuilderInv' /\ StatementsInv' /\ ReadInv'
<1> DEFINE w == [s \in Streams |-> "none"]
           a == AddedOf(objects, commands)
           m == Meaning(c)
<1>1. /\ objects' = Append(objects, c) /\ commands' = Append(commands, Len(objects) + 1)
      /\ wanted' = Append(wanted, w) /\ meant' = Said(meant, m)
      /\ IsBuilding /\ UNCHANGED <<their_capability, message, metadata>>
  BY DEF AddNew, MayCall
<1>2. BuilderOk(objects, wanted, commands) /\ StatementsInv /\ ReadInv
  BY DEF CommandsInv, BuilderInv
<1> HIDE DEF w, m
<1>3. /\ BuilderOk(objects', wanted', commands') /\ AddedOf(objects', commands') = Append(a, c)
      /\ NoTwice(commands') => NoTwice(commands)
  BY <1>1, <1>2, BuilderMore DEF w
<1>4. StatementsInv'
  <2> SUFFICES ASSUME NoTwice(commands') PROVE \E off2 : MeantBy(Said(meant, m), off2, Append(a, c))
    BY <1>1, <1>3, AddedThen DEF StatementsInv
  <2>1. PICK off : MeantBy(meant, off, a)
    BY <1>2, <1>3, AddedNow DEF StatementsInv
  <2>2. IsList(commands)
    BY <1>2 DEF BuilderOk
  <2>3. IsList(a) /\ Len(a) = Len(commands) /\ \A i \in 1..Len(commands) : a[i] = objects[commands[i]]
    BY <2>2, AddedIsList
  <2>4. DOMAIN commands = 1..Len(commands) /\ Len(commands) \in Nat
    BY <2>2, ListIsSeq
  <2> HIDE DEF a
  <2> DEFINE n == Len(commands)
  <2>5. (\A i \in DOMAIN commands : i = n => objects[commands[i]].end_of_statement)
           <=> (n = 0 \/ a[n].end_of_statement)
    <3> HIDE DEF n
    <3>1. n # 0 => n \in 1..n
      BY <2>4 DEF n
    <3> QED
      BY <2>3, <2>4, <3>1 DEF n
  <2>6. CASE n = 0 \/ a[n].end_of_statement
    <3>1. Said(meant, m) = Append(meant, <<m>>)
      BY <2>5, <2>6 DEF Said
    <3>2. \E off2 : MeantBy(Append(meant, <<m>>), off2, Append(a, c))
      BY <2>1, <2>3, <2>6, MeantMore DEF m
    <3> QED
      BY <3>1, <3>2
  <2>7. CASE ~(n = 0 \/ a[n].end_of_statement)
    <3>1. Said(meant, m) = [meant EXCEPT ![Len(meant)] = Append(@, m)]
      BY <2>5, <2>7 DEF Said
    <3>2. \E off2 : MeantBy([meant EXCEPT ![Len(meant)] = Append(@, m)], off2, Append(a, c))
      BY <2>1, <2>3, <2>7, MeantMore DEF m
    <3> QED
      BY <3>1, <3>2
  <2> QED
    BY <2>6, <2>7
<1>5. ReadInv'
  BY <1>1, <1>2, NothingSent
<1> QED
  BY <1>3, <1>4, <1>5 DEF BuilderInv

LEMMA AddSameStep ==
    ASSUME CommandsInv, add_same_command
    PROVE  BuilderInv' /\ StatementsInv' /\ ReadInv'
<1> DEFINE n == Len(commands)
           k == commands[n]
<1>1. /\ commands' = Append(commands, k) /\ UNCHANGED <<objects, wanted>> /\ commands # <<>>
      /\ IsBuilding /\ UNCHANGED <<their_capability, message, metadata>>
  BY DEF add_same_command, MayCall, Last
<1>2. BuilderOk(objects, wanted, commands) /\ ReadInv
  BY DEF CommandsInv, BuilderInv
<1>3. IsList(commands) /\ n \in Nat /\ n # 0 /\ \A i \in 1..n : commands[i] \in 1..Len(objects)
  <2>1. IsList(commands) /\ \A i \in 1..n : commands[i] \in 1..Len(objects)
    BY <1>2 DEF BuilderOk
  <2> QED
    BY <1>1, <2>1, ListIsSeq
<1> HIDE DEF k
<1>4. /\ IsList(commands') /\ Len(commands') = n + 1 /\ (\A i \in 1..n : commands'[i] = commands[i])
      /\ commands'[n + 1] = k
  BY <1>1, <1>3, AppendList
<1> HIDE DEF n
<1>5. \A i \in 1..(n + 1) : commands'[i] \in 1..Len(objects)
  <2>1. \A i \in 1..(n + 1) : i \in 1..n \/ i = n + 1
    BY <1>3
  <2>2. n \in 1..n
    BY <1>3
  <2> QED
    BY <1>3, <1>4, <2>1, <2>2 DEF k
<1>6. BuilderInv'
  BY <1>1, <1>2, <1>4, <1>5 DEF BuilderInv, BuilderOk
<1>7. ~NoTwice(commands')
  <2>1. DOMAIN commands' = 1..(n + 1)
    BY <1>4, ListIsSeq
  <2>2. n \in 1..(n + 1) /\ n + 1 \in 1..(n + 1) /\ n # n + 1 /\ n \in 1..n
    BY <1>3
  <2>3. commands'[n] = commands'[n + 1]
    BY <1>4, <2>2 DEF k
  <2> QED
    BY <2>1, <2>2, <2>3 DEF NoTwice
<1>8. StatementsInv'
  BY <1>7, AddedThen DEF StatementsInv
<1> QED
  BY <1>1, <1>2, <1>6, <1>8, NothingSent

\* A step that changes the object of the last command.
LEMMA OtherStep ==
    ASSUME CommandsInv, commands # <<>>, UNCHANGED commands, NEW d, NEW w, IsCommand(d), Redirected(d, w),
           objects' = Changed(objects, commands[Len(commands)], d),
           wanted' = Changed(wanted, commands[Len(commands)], w)
    PROVE  LET a == AddedOf(objects, commands)
           IN  /\ BuilderInv'
               /\ NoTwice(commands) => /\ IsList(a) /\ Len(a) # 0 /\ Len(a) = Len(commands)
                                       /\ a[Len(a)] = objects[commands[Len(commands)]]
                                       /\ Added' = LastIs(a, d) /\ \E off : MeantBy(meant, off, a)
<1>1. BuilderOk(objects, wanted, commands)
  BY DEF CommandsInv, BuilderInv
<1>2. /\ BuilderOk(objects', wanted', commands)
      /\ NoTwice(commands) => AddedOf(objects', commands) = LastIs(AddedOf(objects, commands), d)
  BY <1>1, BuilderOther
<1>3. IsList(commands)
  BY <1>1 DEF BuilderOk
<1>4. Len(commands) # 0 /\ Len(commands) \in 1..Len(commands)
  <2>1. Len(commands) # 0 /\ Len(commands) \in Nat
    BY <1>3, ListIsSeq
  <2> DEFINE n == Len(commands)
  <2> HIDE DEF n
  <2>2. n # 0 /\ n \in Nat => n \in 1..n
    OBVIOUS
  <2> QED
    BY <2>1, <2>2 DEF n
<1> DEFINE a == AddedOf(objects, commands)
<1>5. IsList(a) /\ Len(a) = Len(commands) /\ a[Len(commands)] = objects[commands[Len(commands)]]
  BY <1>3, <1>4, AddedIsList
<1>6. NoTwice(commands) => \E off : MeantBy(meant, off, a)
  BY AddedNow DEF CommandsInv, StatementsInv
<1> HIDE DEF a
<1>7. NoTwice(commands) => Added' = LastIs(a, d)
  BY <1>2, AddedThen DEF a
<1> QED
  BY <1>2, <1>4, <1>5, <1>6, <1>7 DEF BuilderInv, a

\* The object of the last command is one of the program's.
LEMMA LastObject ==
    ASSUME CommandsInv, commands # <<>>
    PROVE  LET k == commands[Len(commands)]
           IN  /\ Last(commands) = k /\ k \in DOMAIN objects /\ k \in DOMAIN wanted
               /\ IsCommand(objects[k]) /\ Redirected(objects[k], wanted[k])
               /\ wanted = Changed(wanted, k, wanted[k])
<1>1. /\ IsList(objects) /\ IsList(wanted) /\ Len(wanted) = Len(objects) /\ IsList(commands)
      /\ \A i \in 1..Len(objects) : IsCommand(objects[i]) /\ Redirected(objects[i], wanted[i])
      /\ \A i \in 1..Len(commands) : commands[i] \in 1..Len(objects)
  BY DEF CommandsInv, BuilderInv, BuilderOk
<1> DEFINE n == Len(commands)
           k == commands[n]
<1>2. n # 0 /\ n \in Nat
  BY <1>1, ListIsSeq
<1>3. k \in 1..Len(objects)
  <2> HIDE DEF n
  <2>1. n \in 1..n
    BY <1>2
  <2> QED
    BY <1>1, <2>1 DEF n
<1>4. DOMAIN objects = 1..Len(objects) /\ DOMAIN wanted = 1..Len(objects)
  <2>1. DOMAIN objects = 1..Len(objects) /\ DOMAIN wanted = 1..Len(wanted)
    BY <1>1, ListIsSeq
  <2> QED
    BY <1>1, <2>1
<1>5. wanted = [i \in 1..Len(wanted) |-> wanted[i]]
  BY <1>1, ListIsSeq
<1> HIDE DEF k
<1>6. wanted = Changed(wanted, k, wanted[k])
  BY <1>5 DEF Changed
<1> QED
  BY <1>1, <1>3, <1>4, <1>6 DEF k, Last

LEMMA AddParameterStep ==
    ASSUME CommandsInv, add_parameter
    PROVE  BuilderInv' /\ StatementsInv' /\ ReadInv'
<1> DEFINE k == commands[Len(commands)]
           c == objects[k]
<1>1. PICK p : /\ objects' = [objects EXCEPT ![Last(commands)].parameters = Append(@, p)]
               /\ meant' = [meant EXCEPT ![Len(meant)][Len(Last(meant))].parameters = Append(@, p)]
               /\ commands # <<>> /\ UNCHANGED <<commands, wanted>>
               /\ IsBuilding /\ UNCHANGED <<their_capability, message, metadata>>
  BY DEF add_parameter, MayCall
<1>2. /\ Last(commands) = k /\ k \in DOMAIN objects /\ IsCommand(c) /\ Redirected(c, wanted[k])
      /\ wanted = Changed(wanted, k, wanted[k])
  BY <1>1, LastObject
<1> DEFINE d == [c EXCEPT !.parameters = Append(@, p)]
<1>3. objects' = Changed(objects, k, d)
  BY <1>1, <1>2 DEF Changed
<1>4. d = [command_text |-> c.command_text, is_script |-> c.is_script,
           use_local_scope |-> c.use_local_scope, parameters |-> Append(c.parameters, p),
           end_of_statement |-> c.end_of_statement, merge_unclaimed |-> c.merge_unclaimed,
           merge_my |-> c.merge_my, merge_to |-> c.merge_to, merge |-> c.merge]
  <2> HIDE DEF c
  <2> QED
    BY <1>2, ChangedField
<1> HIDE DEF c, d, k
<1>5. IsCommand(d)
  BY <1>2, <1>4 DEF IsCommand
<1>6. Redirected(d, wanted[k])
  BY <1>2, <1>4 DEF Redirected
<1> DEFINE a == AddedOf(objects, commands)
<1>7. /\ BuilderInv'
      /\ NoTwice(commands) => /\ IsList(a) /\ Len(a) # 0 /\ a[Len(a)] = c
                              /\ Added' = LastIs(a, d) /\ \E off : MeantBy(meant, off, a)
  <2>1. wanted' = Changed(wanted, k, wanted[k])
    BY <1>1, <1>2
  <2> QED
    BY <1>1, <1>3, <1>5, <1>6, <2>1, OtherStep DEF k, c
<1>8. StatementsInv'
  <2> SUFFICES ASSUME NoTwice(commands) PROVE \E off : MeantBy(meant', off, LastIs(a, d))
    BY <1>1, <1>7, AddedThen DEF StatementsInv
  <2>1. PICK off : MeantBy(meant, off, a)
    BY <1>7
  <2> HIDE DEF a
  <2> DEFINE K == Len(meant)
             l == Len(meant[K])
             g == Changed(meant, K, Changed(meant[K], l, Meaning(d)))
  <2>2. /\ K \in 1..Len(meant) /\ l \in 1..Len(meant[K]) /\ IsList(meant)
        /\ IsList(meant[K]) /\ meant[K][l] = Meaning(c)
        /\ MeantBy(g, off, LastIs(a, d))
    BY <1>7, <2>1, MeantOther DEF LastIs
  <2>3. [Meaning(c) EXCEPT !.parameters = Append(@, p)] = Meaning(d)
    <3> DEFINE x == Append(c.parameters, p)
    <3>1. Meaning(c).parameters = c.parameters /\ d = [c EXCEPT !.parameters = x]
      BY DEF Meaning, d
    <3> HIDE DEF x
    <3>2. [Meaning(c) EXCEPT !.parameters = x] = Meaning(d)
      BY <1>2, <3>1, ChangedField
    <3> QED
      BY <3>1, <3>2 DEF x
  <2>4. Last(meant) = meant[K]
    BY DEF Last
  <2>5. K \in DOMAIN meant /\ l \in DOMAIN meant[K]
    BY <2>2, ListIsSeq
  <2> HIDE DEF K, l
  <2>6. meant' = [meant EXCEPT ![K][l].parameters = Append(@, p)]
    BY <1>1, <2>4 DEF K, l
  <2>7. meant' = g
    BY <2>2, <2>3, <2>6 DEF Changed
  <2> QED
    BY <2>2, <2>7
<1>9. ReadInv'
  BY <1>1, NothingSent DEF CommandsInv
<1> QED
  BY <1>7, <1>8, <1>9

\* A step that changes neither what the last command means nor where its statement ends.
LEMMA SameMeaningStep ==
    ASSUME CommandsInv, commands # <<>>, UNCHANGED <<commands, meant>>, NEW d, NEW w, IsCommand(d), Redirected(d, w),
           objects' = Changed(objects, commands[Len(commands)], d),
           wanted' = Changed(wanted, commands[Len(commands)], w),
           Meaning(d) = Meaning(objects[commands[Len(commands)]]),
           IsBuilding, UNCHANGED <<their_capability, message, metadata>>
    PROVE  BuilderInv' /\ StatementsInv' /\ ReadInv'
<1> DEFINE a == AddedOf(objects, commands)
           c == objects[commands[Len(commands)]]
<1>1. /\ BuilderInv'
      /\ NoTwice(commands) => /\ IsList(a) /\ Len(a) # 0 /\ a[Len(a)] = c
                              /\ Added' = LastIs(a, d) /\ \E off : MeantBy(meant, off, a)
  BY OtherStep
<1>2. StatementsInv'
  <2> SUFFICES ASSUME NoTwice(commands) PROVE \E off : MeantBy(meant, off, LastIs(a, d))
    BY <1>1, AddedThen DEF StatementsInv
  <2>1. PICK off : MeantBy(meant, off, a)
    BY <1>1
  <2> HIDE DEF a, c
  <2>2. Meaning(d) = Meaning(a[Len(a)])
    BY <1>1 DEF c
  <2>3. MeantBy(meant, off, LastIs(a, d))
    BY <1>1, <2>1, <2>2, MeantEqual DEF LastIs
  <2> QED
    BY <2>3
<1>3. ReadInv'
  BY NothingSent DEF CommandsInv
<1> QED
  BY <1>1, <1>2, <1>3

LEMMA AddStatementStep ==
    ASSUME CommandsInv, add_statement
    PROVE  BuilderInv' /\ StatementsInv' /\ ReadInv'
<1> DEFINE k == commands[Len(commands)]
           c == objects[k]
           d == [c EXCEPT !.end_of_statement = TRUE]
<1>1. /\ objects' = [objects EXCEPT ![Last(commands)].end_of_statement = TRUE]
      /\ commands # <<>> /\ UNCHANGED <<commands, meant, wanted>>
      /\ IsBuilding /\ UNCHANGED <<their_capability, message, metadata>>
  BY DEF add_statement
<1>2. /\ Last(commands) = k /\ k \in DOMAIN objects /\ IsCommand(c) /\ Redirected(c, wanted[k])
      /\ wanted = Changed(wanted, k, wanted[k])
  BY <1>1, LastObject
<1>3. objects' = Changed(objects, k, d)
  BY <1>1, <1>2 DEF Changed
<1>4. d = [command_text |-> c.command_text, is_script |-> c.is_script,
           use_local_scope |-> c.use_local_scope, parameters |-> c.parameters,
           end_of_statement |-> TRUE, merge_unclaimed |-> c.merge_unclaimed,
           merge_my |-> c.merge_my, merge_to |-> c.merge_to, merge |-> c.merge]
  <2> HIDE DEF c
  <2> QED
    BY <1>2, ChangedField
<1> HIDE DEF c, d, k
<1>5. IsCommand(d)
  BY <1>2, <1>4 DEF IsCommand
<1>6. Redirected(d, wanted[k])
  BY <1>2, <1>4 DEF Redirected
<1>7. Meaning(d) = Meaning(c)
  BY <1>4 DEF Meaning
<1>8. wanted' = Changed(wanted, k, wanted[k])
  BY <1>1, <1>2
<1> QED
  BY <1>1, <1>3, <1>5, <1>6, <1>7, <1>8, SameMeaningStep DEF k, c

LEMMA RedirectStep ==
    ASSUME CommandsInv, RedirectCommand
    PROVE  BuilderInv' /\ StatementsInv' /\ ReadInv'
<1> DEFINE k == commands[Len(commands)]
           c == objects[k]
<1>1. commands # <<>>
  BY DEF RedirectCommand
<1>2. /\ Last(commands) = k /\ k \in DOMAIN objects /\ k \in DOMAIN wanted /\ IsCommand(c) /\ Redirected(c, wanted[k])
  BY <1>1, LastObject
<1> HIDE DEF k, c
<1>3. PICK to, streams, d :
         Redirect(streams, d, to) /\ IsRedirection(c, wanted[k], streams, to, d)
  <2>1. PICK to \in RedirectTo :
           \/ Redirect({"Error"}, redirect_error(c, to), to)
           \/ Redirect({"Warning"}, redirect_warning(c, to), to)
           \/ Redirect({"Verbose"}, redirect_verbose(c, to), to)
           \/ Redirect({"Debug"}, redirect_debug(c, to), to)
           \/ Redirect({"Information"}, redirect_information(c, to), to)
           \/ Redirect(Streams, redirect_all(c, to), to)
    BY <1>2 DEF RedirectCommand, c
  <2> QED
    BY <1>2, <2>1, Merges
<1>4. /\ objects' = [objects EXCEPT ![Last(commands)] = d]
      /\ wanted' = [wanted EXCEPT ![Last(commands)] = [s \in Streams |-> IF s \in streams THEN to ELSE @[s]]]
      /\ IsBuilding /\ UNCHANGED <<their_capability, commands, meant, message, metadata>>
  BY <1>3 DEF Redirect, MayCall
<1> DEFINE w == Elsewhere(wanted[k], streams, to)
<1>5. objects' = Changed(objects, k, d) /\ wanted' = Changed(wanted, k, w)
  BY <1>2, <1>4 DEF Changed, Elsewhere
<1>6. IsCommand(d) /\ Redirected(d, w) /\ Meaning(d) = Meaning(c)
  BY <1>3 DEF IsRedirection
<1> HIDE DEF w
<1> QED
  BY <1>1, <1>4, <1>5, <1>6, SameMeaningStep DEF k, c
LEMMA AddCommandStep ==
    ASSUME CommandsInv, add_command \/ add_script
    PROVE  BuilderInv' /\ StatementsInv' /\ ReadInv'
<1>1. PICK c : AddNew(c) /\ IsCommand(c) /\ Redirected(c, [s \in Streams |-> "none"])
  <2>1. CASE add_command
    <3>1. PICK t \in Texts, set \in BOOLEAN :
             AddNew([Command(t, FALSE, IF set THEN Bool(TRUE) ELSE None) EXCEPT !.merge_unclaimed = set])
      BY <2>1 DEF add_command
    <3> DEFINE scope == IF set THEN Bool(TRUE) ELSE None
    <3> HIDE DEF scope
    <3>2. AddNew([Command(t, FALSE, scope) EXCEPT !.merge_unclaimed = set])
      BY <3>1 DEF scope
    <3>3. /\ IsCommand([Command(t, FALSE, scope) EXCEPT !.merge_unclaimed = set])
          /\ Redirected([Command(t, FALSE, scope) EXCEPT !.merge_unclaimed = set], [s \in Streams |-> "none"])
      BY NewCommand, Zenon
    <3> QED
      BY <3>2, <3>3, Zenon
  <2>2. CASE add_script
    <3>1. PICK t \in Texts : AddNew(Command(t, TRUE, None))
      BY <2>2 DEF add_script
    <3>2. FALSE \in BOOLEAN
      OBVIOUS
    <3>3. /\ IsCommand(Command(t, TRUE, None))
          /\ Redirected(Command(t, TRUE, None), [s \in Streams |-> "none"])
      BY <3>2, NewCommand, Zenon
    <3> QED
      BY <3>1, <3>3, Zenon
  <2> QED
    BY <2>1, <2>2
<1> QED
  BY <1>1, AddNewStep, Zenon

LEMMA StartPowerShellStep ==
    ASSUME CommandsInv, StartPowerShell
    PROVE  BuilderInv' /\ StatementsInv' /\ ReadInv'
<1>1. PICK given \in Settings :
         /\ created_with' = given /\ commands # <<>> /\ metadata = NoMessage
         /\ message' = PowerShell_To(ClientPowerShell(given, Added), their_capability)
         /\ UNCHANGED <<their_capability, objects, commands, meant, wanted, metadata>>
  BY DEF StartPowerShell, IsBuilding, builderVars
<1>2. BuilderInv'
  BY <1>1 DEF CommandsInv, BuilderInv
<1>3. Added' = Added /\ (NoneTwice' <=> NoneTwice)
  BY <1>1 DEF Added, NoneTwice
<1>4. StatementsInv'
  BY <1>1, <1>3 DEF CommandsInv, StatementsInv
<1>5. message'.type = "CreatePipeline"
  BY <1>1 DEF PowerShell_To
<1>6. their_capability' \in Peers \union {Unknown}
  BY <1>1 DEF CommandsInv, ReadInv
<1>7. ReadInv'
  BY <1>1, <1>3, <1>5, <1>6 DEF ReadInv, NoMessage
<1> QED
  BY <1>2, <1>4, <1>7

LEMMA StartMetadataStep ==
    ASSUME CommandsInv, StartGetCommandMetadata
    PROVE  BuilderInv' /\ StatementsInv' /\ ReadInv'
<1>1. PICK request \in Requests :
         /\ created_with' = request /\ metadata = NoMessage
         /\ message' = GetMetadata_To(GetMetadata(request.name, request.namespace))
         /\ UNCHANGED <<their_capability, objects, commands, meant, wanted, metadata>>
  BY DEF StartGetCommandMetadata, IsBuilding, builderVars
<1>2. BuilderInv'
  BY <1>1 DEF CommandsInv, BuilderInv
<1>3. Added' = Added /\ (NoneTwice' <=> NoneTwice)
  BY <1>1 DEF Added, NoneTwice
<1>4. StatementsInv'
  BY <1>1, <1>3 DEF CommandsInv, StatementsInv
<1>5. message'.type = "GetCommandMetadata"
  BY <1>1 DEF GetMetadata_To
<1>6. their_capability' \in Peers \union {Unknown}
  BY <1>1 DEF CommandsInv, ReadInv
<1>7. ReadInv'
  BY <1>1, <1>5, <1>6 DEF ReadInv, NoMessage
<1> QED
  BY <1>2, <1>4, <1>7

LEMMA ProcessStartStep ==
    ASSUME CommandsInv, ProcessStart
    PROVE  BuilderInv' /\ StatementsInv' /\ ReadInv'
<1> DEFINE pipeline == PowerShell_To(ClientPowerShell(created_with, Added), their_capability)
           request == GetMetadata_To(GetMetadata(created_with.name, created_with.namespace))
<1>1. /\ message # NoMessage /\ message' = NoMessage
      /\ metadata' = IF message.type = "CreatePipeline" THEN PowerShell_From(message)
                     ELSE GetMetadata_From(message)
      /\ UNCHANGED <<their_capability, objects, commands, meant, wanted, created_with>>
  BY DEF ProcessStart, builderVars
<1>2. BuilderInv'
  BY <1>1 DEF CommandsInv, BuilderInv
<1>3. Added' = Added /\ (NoneTwice' <=> NoneTwice)
  BY <1>1 DEF Added, NoneTwice
<1>4. StatementsInv'
  BY <1>1, <1>3 DEF CommandsInv, StatementsInv
<1>5. /\ their_capability' \in Peers \union {Unknown}
      /\ message.type \in {"CreatePipeline", "GetCommandMetadata"}
      /\ message.type = "CreatePipeline" => created_with \in Settings /\ commands # <<>> /\ message = pipeline
      /\ message.type = "GetCommandMetadata" => created_with \in Requests /\ message = request
  BY <1>1 DEF CommandsInv, ReadInv
<1>6. pipeline' = pipeline /\ request' = request
  BY <1>1, <1>3
<1> HIDE DEF pipeline, request
<1>7. message'.type = "None"
  BY <1>1 DEF NoMessage
<1>8. CASE message.type = "CreatePipeline"
  <2>1. metadata' = PowerShell_From(pipeline)
    BY <1>1, <1>5, <1>8
  <2>2. metadata'.type = "PowerShell"
    BY <2>1 DEF PowerShell_From
  <2> QED
    BY <1>1, <1>2, <1>4, <1>5, <1>6, <1>7, <1>8, <2>1, <2>2 DEF ReadInv, pipeline, request
<1>9. CASE message.type = "GetCommandMetadata"
  <2>1. metadata' = GetMetadata_From(request)
    BY <1>1, <1>5, <1>9
  <2>2. metadata'.type = "GetMetadata"
    BY <2>1 DEF GetMetadata_From, GetMetadata
  <2> QED
    BY <1>1, <1>2, <1>4, <1>5, <1>6, <1>7, <1>9, <2>1, <2>2 DEF ReadInv, pipeline, request
<1> QED
  BY <1>5, <1>8, <1>9

\* Nothing is built.
LEMMA EmptyPipeline == BuilderOk(<<>>, <<>>, <<>>) /\ \E off : MeantBy(<<>>, off, AddedOf(<<>>, <<>>))
<1>1. BuilderOk(<<>>, <<>>, <<>>)
  BY EmptyList DEF BuilderOk
<1> DEFINE off == [k \in 1..1 |-> 0]
           a == AddedOf(<<>>, <<>>)
<1>2. IsList(a) /\ Len(a) = 0
  BY EmptyList, AddedIsList
<1> HIDE DEF a
<1>3. off[1] = 0 /\ DOMAIN off = 1..1 /\ \A k \in 1..1 : off[k] = 0
  OBVIOUS
<1> HIDE DEF off
<1>4. MeantBy(<<>>, off, a)
  <2> DEFINE t == MeaningsOf(a)
  <2> HIDE DEF t
  <2>1. Splits(<<>>, off, t, 0)
    BY <1>3, EmptyList DEF Splits
  <2>2. EndsOf(<<>>, off, EndsIn(a), 0 - 1)
    BY DEF EndsOf
  <2> QED
    BY <1>2, <2>1, <2>2, EmptyList DEF MeantBy, t
<1> QED
  BY <1>1, <1>4 DEF a

LEMMA InitCommandsInv == Init => CommandsInv
<1> SUFFICES ASSUME Init PROVE CommandsInv
  OBVIOUS
<1>1. BuilderInv /\ StatementsInv /\ ReadInv
  <2>1. /\ objects = <<>> /\ commands = <<>> /\ meant = <<>> /\ wanted = <<>>
        /\ their_capability \in Peers \union {Unknown} /\ message = NoMessage /\ metadata = NoMessage
    BY DEF Init, InitCommands
  <2> QED
    BY <2>1, EmptyPipeline, AddedNow DEF BuilderInv, StatementsInv, ReadInv, NoMessage
<1>2. HostInv
  <2>1. PICK h \in Hosts : last = [kind |-> "host", sent |-> h, host_info |-> HostInfo_From(HostInfo_To(h))]
    BY DEF Init, InitHostCalls
  <2>2. HostInfo_From(HostInfo_To(h)) = h
    <3>1. IsHost(h)
      BY HostCallsAssumption
    <3> QED
      BY <3>1, HostRead
  <2> QED
    BY <2>1, <2>2 DEF HostInv
<1> QED
  BY <1>1, <1>2 DEF CommandsInv

\* What a program is shown after the first state is not its host.
LEMMA HostInvStep ==
    ASSUME HostInv, [Next]_vars
    PROVE  HostInv'
<1>1. last'.kind # "host" \/ UNCHANGED last
  <2>1. CASE last' = Nothing
    BY <2>1 DEF Nothing
  <2>2. ASSUME NEW t \in Targets, ProcessHostCall(t) PROVE last'.kind # "host"
    BY <2>2 DEF ProcessHostCall, HostCallEvent
  <2>3. ASSUME Answer PROVE last'.kind # "host"
    <3>1. \A ci, v, e : host_response(ci, v, e) => last' = Nothing \/ last' = [kind |-> "raised"]
      BY Zenon DEF host_response
    <3>2. last' = Nothing \/ last' = [kind |-> "raised"]
      BY <2>3, <3>1, Zenon DEF Answer
    <3> QED
      BY <3>2 DEF Nothing
  <2>4. ASSUME NEW t \in Targets, ProcessHostResponse(t) PROVE last'.kind # "host"
    BY <2>4 DEF ProcessHostResponse, HostResponseEvent
  <2>5. ASSUME NEW t \in Targets, NEW call \in Calls, host_call(t, call) PROVE last' = Nothing
    <3> HIDE DEF Calls
    <3> QED
      BY <2>5 DEF host_call
  <2>6. ASSUME KeyExchanged PROVE last' = Nothing
    BY <2>6 DEF KeyExchanged
  <2>7. ASSUME UNCHANGED vars PROVE UNCHANGED last
    BY <2>7 DEF vars
  <2>8. Next => \/ last' = Nothing
                \/ \E t \in Targets : \E call \in Calls : host_call(t, call)
                \/ \E t \in Targets : ProcessHostCall(t)
                \/ Answer \/ KeyExchanged
                \/ \E t \in Targets : ProcessHostResponse(t)
    BY Zenon DEF Next, Building
  <2> QED
    BY <2>1, <2>2, <2>3, <2>4, <2>5, <2>6, <2>7, <2>8
<1> QED
  BY <1>1 DEF HostInv

LEMMA NextCommandsInv == CommandsInv /\ [Next]_vars => CommandsInv'
<1> SUFFICES ASSUME CommandsInv, [Next]_vars PROVE CommandsInv'
  OBVIOUS
<1>1. HostInv'
  BY HostInvStep DEF CommandsInv
<1>2. ASSUME UNCHANGED commandVars PROVE BuilderInv' /\ StatementsInv' /\ ReadInv'
  <2>1. UNCHANGED <<their_capability, objects, commands, meant, wanted, created_with, message, metadata>>
    BY <1>2 DEF commandVars, builderVars
  <2>2. Added' = Added /\ (NoneTwice' <=> NoneTwice)
    BY <2>1 DEF Added, NoneTwice
  <2>3. BuilderInv'
    BY <2>1 DEF CommandsInv, BuilderInv
  <2>4. StatementsInv'
    BY <2>1, <2>2 DEF CommandsInv, StatementsInv
  <2>5. ReadInv'
    BY <2>1, <2>2 DEF CommandsInv, ReadInv
  <2> QED
    BY <2>3, <2>4, <2>5
<1>3. ASSUME Start PROVE BuilderInv' /\ StatementsInv' /\ ReadInv'
  <2>1. /\ objects' = <<>> /\ commands' = <<>> /\ meant' = <<>> /\ wanted' = <<>>
        /\ their_capability' \in Peers \union {Unknown} /\ message' = NoMessage /\ metadata' = NoMessage
    BY <1>3 DEF Start
  <2> QED
    BY <2>1, EmptyPipeline, AddedThen DEF BuilderInv, StatementsInv, ReadInv, NoMessage
<1>4. BuilderInv' /\ StatementsInv' /\ ReadInv'
  <2>1. [Next]_vars => \/ add_command \/ add_script \/ add_same_command \/ add_parameter \/ add_statement
                       \/ RedirectCommand \/ StartPowerShell \/ StartGetCommandMetadata \/ ProcessStart
                       \/ Start \/ UNCHANGED commandVars
    BY Zenon DEF Next, Calling, vars
  <2> QED
    BY <1>2, <1>3, <2>1, AddCommandStep, AddSameStep, AddParameterStep, AddStatementStep, RedirectStep,
       StartPowerShellStep, StartMetadataStep, ProcessStartStep
<1> QED
  BY <1>1, <1>4 DEF CommandsInv
-----------------------------------------------------------------------------
(* What the server's program reads *)

LEMMA PipelineRead ==
    ASSUME CommandsInv, IsRead
    PROVE  /\ IsList(Added) /\ Len(Added) = Len(commands) /\ DOMAIN commands = 1..Len(commands)
           /\ \A i \in 1..Len(commands) : /\ Added[i] = objects[commands[i]] /\ IsCommand(Added[i])
                                         /\ Redirected(Added[i], wanted[commands[i]])
           /\ created_with \in Settings
           /\ metadata = [type |-> "PowerShell", commands |-> ReadOf(Added, their_capability),
                          add_to_history |-> created_with.add_to_history,
                          apartment_state |-> OrElse(created_with.apartment_state, PoolApartment),
                          history |-> created_with.history,
                          host |-> HostInfo_From(HostInfo_To(OrElse(created_with.host, DefaultHost))),
                          is_nested |-> created_with.is_nested, no_input |-> created_with.no_input]
<1> DEFINE n == Len(commands)
           p == ClientPowerShell(created_with, Added)
<1>1. /\ IsList(objects) /\ IsList(commands)
      /\ \A i \in 1..Len(objects) : IsCommand(objects[i]) /\ Redirected(objects[i], wanted[i])
      /\ \A i \in 1..n : commands[i] \in 1..Len(objects)
  BY DEF CommandsInv, BuilderInv, BuilderOk
<1>2. IsList(Added) /\ Len(Added) = n /\ \A i \in 1..n : Added[i] = objects[commands[i]]
  BY <1>1, AddedIsList, AddedNow
<1>3. DOMAIN commands = 1..n
  BY <1>1, ListIsSeq
<1>4. \A i \in 1..n : IsCommand(Added[i]) /\ Redirected(Added[i], wanted[commands[i]])
  BY <1>1, <1>2
<1>5. created_with \in Settings /\ metadata = PowerShell_From(PowerShell_To(p, their_capability))
  BY DEF CommandsInv, ReadInv, IsRead
<1>6. p.commands = Added
  BY DEF ClientPowerShell
<1>7. metadata = [type |-> "PowerShell", commands |-> ReadOf(p.commands, their_capability),
               add_to_history |-> p.add_to_history, apartment_state |-> p.apartment_state,
               history |-> p.history, host |-> HostInfo_From(HostInfo_To(p.host)),
               is_nested |-> p.is_nested, no_input |-> p.no_input]
  <2> HIDE DEF p
  <2> QED
    BY <1>2, <1>5, <1>6, PowerShellRead
<1>8. metadata = [type |-> "PowerShell", commands |-> ReadOf(Added, their_capability),
                  add_to_history |-> created_with.add_to_history,
                  apartment_state |-> OrElse(created_with.apartment_state, PoolApartment),
                  history |-> created_with.history,
                  host |-> HostInfo_From(HostInfo_To(OrElse(created_with.host, DefaultHost))),
                  is_nested |-> created_with.is_nested, no_input |-> created_with.no_input]
  BY <1>7 DEF ClientPowerShell
<1> HIDE DEF n
<1> QED
  BY <1>2, <1>3, <1>4, <1>5, <1>8 DEF n

LEMMA CommandsKeepStatements == CommandsInv => StatementsKept
<1> SUFFICES ASSUME CommandsInv, IsRead, NoneTwice
             PROVE  LET read == Statements(metadata.commands)
                    IN  meant = [i \in DOMAIN read |-> [j \in DOMAIN read[i] |-> Meaning(read[i][j])]]
  BY DEF StatementsKept
<1> DEFINE a == Added
           read == ReadOf(a, their_capability)
           n == Len(a)
<1>1. IsList(a) /\ metadata.commands = read /\ \A i \in 1..n : IsCommand(a[i]) /\ Redirected(a[i], wanted[commands[i]])
  BY PipelineRead
<1>2. PICK off : MeantBy(meant, off, a)
  BY DEF CommandsInv, StatementsInv
<1> HIDE DEF a
<1>3. /\ IsList(read) /\ Len(read) = n
      /\ \A i \in 1..n : read[i] = IF a[i].end_of_statement \/ i = n
                                   THEN Closed(a[i], their_capability) ELSE Restored(a[i], their_capability)
  BY <1>1, CommandsRead
<1> HIDE DEF read
<1>4. \A i \in 1..n : Meaning(read[i]) = Meaning(a[i])
  <2> TAKE i \in 1..n
  <2>1. /\ Meaning(Restored(a[i], their_capability)) = Meaning(a[i])
        /\ Meaning(Closed(a[i], their_capability)) = Meaning(a[i])
    BY <1>1, CommandRead
  <2> QED
    BY <1>3, <2>1
<1>5. n \in Nat
  BY <1>1, ListIsSeq
<1>6. \A i \in 1..(n - 1) : read[i].end_of_statement <=> a[i].end_of_statement
  <2> TAKE i \in 1..(n - 1)
  <2> HIDE DEF n
  <2>1. i \in 1..n /\ i # n
    BY <1>5
  <2>2. /\ Restored(a[i], their_capability).end_of_statement = FALSE
        /\ Closed(a[i], their_capability).end_of_statement = TRUE
    BY <1>1, <2>1, CommandRead
  <2>3. CASE a[i].end_of_statement
    BY <1>3, <2>1, <2>2, <2>3
  <2>4. CASE ~a[i].end_of_statement
    BY <1>3, <2>1, <2>2, <2>4
  <2> QED
    BY <2>3, <2>4
<1> DEFINE st == Statements(read)
<1>7. meant = [k \in DOMAIN st |-> [j \in DOMAIN st[k] |-> Meaning(st[k][j])]]
  <2> HIDE DEF st
  <2> QED
    BY <1>1, <1>2, <1>3, <1>4, <1>6, StatementsRead DEF st
<1> QED
  BY <1>1, <1>7, Zenon

LEMMA CommandsKeepRedirections == CommandsInv => RedirectionsKept
<1> SUFFICES ASSUME CommandsInv, IsRead, NEW i \in DOMAIN commands
             PROVE  LET read == metadata.commands[i]
                        want == wanted[commands[i]]
                    IN  /\ their_capability >= Pwsh3 => \A s \in Streams \ {"Information"} : read.merge[s] = want[s]
                        /\ their_capability >= Pwsh5 => read.merge["Information"] = want["Information"]
                        /\ want["Error"] = "Output" => read.merge_my = "Error" /\ read.merge_to = "Output"
                        /\ want["Error"] = "none" => read.merge_my = "none" /\ read.merge_to = "none"
  BY DEF RedirectionsKept
<1> DEFINE peer == their_capability
           c == Added[i]
           read == ReadOf(Added, peer)[i]
           want == wanted[commands[i]]
<1>1. /\ IsList(Added) /\ Len(Added) = Len(commands) /\ i \in 1..Len(commands)
      /\ IsCommand(c) /\ Redirected(c, want) /\ metadata.commands[i] = read
  BY PipelineRead
<1>2. read = Restored(c, peer) \/ read = Closed(c, peer)
  BY <1>1, CommandsRead
<1>3. peer \in {Unknown, Win7RC, 21, Pwsh3, Pwsh5}
  BY CommandsAssumption DEF CommandsInv, ReadInv
<1> DEFINE known == Known(peer)
<1>4. /\ peer >= Pwsh3 => \A s \in Streams \ {"Information"} : s \in known
      /\ peer >= Pwsh5 => "Information" \in known
  BY <1>3 DEF Known, Unknown, Win7RC, Pwsh3, Pwsh5, KnownMerges, Streams
<1> HIDE DEF c, read, want, known
<1>5. read.merge_my = c.merge_my /\ read.merge_to = c.merge_to /\ \A s \in known : read.merge[s] = want[s]
  <2>1. SameMerges(Restored(c, peer), c, want, peer) /\ SameMerges(Closed(c, peer), c, want, peer)
    BY <1>1, CommandRead
  <2>2. SameMerges(read, c, want, peer)
    BY <1>2, <2>1
  <2> QED
    BY <2>2 DEF SameMerges, known
<1>6. /\ want["Error"] = "Output" => c.merge_my = "Error" /\ c.merge_to = "Output"
      /\ want["Error"] = "none" => c.merge_my = "none" /\ c.merge_to = "none"
  BY <1>1 DEF Redirected
<1> QED
  BY <1>1, <1>4, <1>5, <1>6 DEF want

LEMMA CommandsKeepSettings == CommandsInv => SettingsKept
<1> SUFFICES ASSUME CommandsInv PROVE SettingsKept
  OBVIOUS
<1>1. last.kind = "host" => last.host_info = last.sent
  BY DEF CommandsInv, HostInv
<1>2. ASSUME IsRead, created_with.apartment_state # ApartmentState(0), NEW f \in DOMAIN created_with
      PROVE  metadata[f] = IF created_with[f] # None THEN created_with[f]
                           ELSE CASE f = "host" -> DefaultHost [] f = "apartment_state" -> PoolApartment
                                  [] OTHER -> None
  <2> DEFINE g == created_with
  <2>1. /\ g \in Settings
        /\ metadata = [type |-> "PowerShell", commands |-> ReadOf(Added, their_capability),
                        add_to_history |-> g.add_to_history,
                        apartment_state |-> OrElse(g.apartment_state, PoolApartment),
                        history |-> g.history,
                        host |-> HostInfo_From(HostInfo_To(OrElse(g.host, DefaultHost))),
                        is_nested |-> g.is_nested, no_input |-> g.no_input]
    BY <1>2, PipelineRead
  <2>2. g = [x \in SettingFields |-> g[x]] /\ (g.host = None \/ IsHost(g.host))
    BY <2>1, CommandsAssumption DEF IsSettings
  <2>3. f \in SettingFields
    BY <2>2
  <2>4. OrElse(g.apartment_state, PoolApartment) = IF g.apartment_state # None THEN g.apartment_state ELSE PoolApartment
    BY <1>2 DEF OrElse
  <2>5. IsHost(g.host) => g.host # ApartmentState(0) /\ g.host # None
    BY DEF IsHost, HostInfo, ApartmentState, None
  <2> DEFINE host == IF g.host # None THEN g.host ELSE DefaultHost
  <2>6. OrElse(g.host, DefaultHost) = host /\ IsHost(host)
    BY <2>2, <2>5, DefaultHostIsHost DEF OrElse
  <2>7. HostInfo_From(HostInfo_To(host)) = host
    <3> HIDE DEF host
    <3> QED
      BY <2>6, HostRead
  <2>8. /\ metadata["add_to_history"] = g["add_to_history"] /\ metadata["history"] = g["history"]
        /\ metadata["is_nested"] = g["is_nested"] /\ metadata["no_input"] = g["no_input"]
        /\ metadata["host"] = host
        /\ metadata["apartment_state"] = IF g["apartment_state"] # None THEN g["apartment_state"] ELSE PoolApartment
    BY <2>1, <2>4, <2>6, <2>7
  <2>9. CASE f = "host"
    BY <2>8, <2>9
  <2>10. CASE f = "apartment_state"
    BY <2>8, <2>10
  <2>11. CASE f \in {"add_to_history", "history", "is_nested", "no_input"}
    BY <2>8, <2>11
  <2> QED
    BY <2>3, <2>9, <2>10, <2>11 DEF SettingFields
<1>3. ASSUME metadata.type = "GetMetadata"
      PROVE  /\ metadata.namespace = created_with.namespace
             /\ List(metadata.name) = created_with.name \/ metadata.name = <<created_with.name>>
  <2> DEFINE g == created_with
             made == GetMetadata(g.name, g.namespace)
  <2>1. g \in Requests /\ metadata = GetMetadata_From(GetMetadata_To(made))
    BY <1>3 DEF CommandsInv, ReadInv
  <2>2. g.name \in {Str(Value(g.name)), List(Value(g.name))}
    BY <2>1, CommandsAssumption DEF IsRequest
  <2>3. /\ made.namespace = g.namespace
        /\ made.name = IF Type(g.name) = "PSList" THEN Value(g.name) ELSE <<g.name>>
    BY DEF GetMetadata
  <2>4. metadata.name = made.name /\ metadata.namespace = made.namespace
    BY <2>1 DEF GetMetadata_From, GetMetadata_To, GetMetadata, List, Type, Value
  <2>5. CASE g.name = List(Value(g.name))
    <3>1. Type(g.name) = "PSList"
      BY <2>5 DEF List, Type
    <3> QED
      BY <2>3, <2>4, <2>5, <3>1
  <2>6. CASE g.name = Str(Value(g.name))
    <3>1. Type(g.name) = "PSString"
      BY <2>6 DEF Str, Type
    <3> QED
      BY <2>3, <2>4, <3>1
  <2> QED
    BY <2>2, <2>5, <2>6
<1> QED
  BY <1>1, <1>2, <1>3, Zenon DEF SettingsKept

\* In every reachable state the commands of the client's program are what its calls made
\* of them, and what is on its way or read is made of them as they are (Command, PowerShell).
THEOREM CommandsCorrect == Spec => []CommandsInv
<1>1. Init => CommandsInv
  BY InitCommandsInv
<1>2. CommandsInv /\ [Next]_vars => CommandsInv'
  BY NextCommandsInv
<1> QED
  BY <1>1, <1>2, PTL DEF Spec

\* The server reads the statements that the client's program has put together, in their
\* order and with their parameters (PowerShell.ToPSObjectForRemoting, FromPSObjectForRemoting).
THEOREM StatementsAreKept == Spec => []StatementsKept
BY CommandsCorrect, CommandsKeepStatements, PTL

\* Every stream the peer knows of goes where the program last redirected it (Command).
THEOREM RedirectionsAreKept == Spec => []RedirectionsKept
BY CommandsCorrect, CommandsKeepRedirections, PTL

\* The server reads the settings, the host and the names that the client was given, or
\* what stands for them (ClientPowerShell, HostDefaultData, GetMetadata).
THEOREM SettingsAreKept == Spec => []SettingsKept
BY CommandsCorrect, CommandsKeepSettings, PTL
=============================================================================
