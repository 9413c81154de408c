---------------------------- MODULE PSObjectsProofs ----------------------------
(***************************************************************************)
(* OneChanges, SetIsRead, ReadAsSent and KindKept, for any classes, any    *)
(* properties and any number of objects.                                   *)
(***************************************************************************)
EXTENDS PSObjects, FiniteSetTheorems, WellFoundedInduction, NaturalsInduction, TLAPS
-----------------------------------------------------------------------------
(* Numbers and recursion *)

\* A set of natural numbers that is not empty has a least one.
LEMMA LeastOf ==
    ASSUME NEW T \in SUBSET Nat, T # {}
    PROVE  \E n \in T : \A m \in T : n <= m
<1>1. IsWellFoundedOn(OpToRel(<, Nat), Nat)
  BY NatLessThanWellFounded
<1>2. PICK x \in T : \A y \in T : ~(<<y, x>> \in OpToRel(<, Nat))
  BY <1>1, WFMin
<1>3. \A y \in T : ~(y < x)
  BY <1>2 DEF OpToRel
<1> QED
  BY <1>3

\* f is made step by step: G makes a value of the one before it.
Recursion(f, N, base, G) == f[0] = base /\ \A n \in 1..N : f[n] = G[<<f[n - 1], n>>]

\* There is such an f.
LEMMA RecursionExists ==
    ASSUME NEW N \in Nat, NEW Y, NEW base \in Y, NEW G \in [Y \X (1..N) -> Y]
    PROVE  \E f \in [0..N -> Y] : Recursion(f, N, base, G)
<1> DEFINE T == {n \in Nat : n <= N /\ ~\E f \in [0..n -> Y] : Recursion(f, n, base, G)}
<1>1. T = {}
  <2> SUFFICES ASSUME T # {} PROVE FALSE
    OBVIOUS
  <2>1. PICK n \in T : \A m \in T : n <= m
    <3>1. T \in SUBSET Nat
      OBVIOUS
    <3> HIDE DEF T
    <3> QED
      BY <3>1, LeastOf
  <2>2. n \in Nat /\ n <= N
    BY <2>1
  <2>3. n # 0
    <3> SUFFICES ASSUME n = 0 PROVE FALSE
      OBVIOUS
    <3> DEFINE f == [x \in 0..0 |-> base]
    <3>1. f \in [0..0 -> Y] /\ Recursion(f, 0, base, G)
      BY DEF Recursion
    <3> QED
      BY <2>1, <3>1
  <2>4. n - 1 \in Nat /\ n - 1 <= N /\ n - 1 \notin T
    <3> HIDE DEF T
    <3> QED
      BY <2>1, <2>2, <2>3
  <2>5. PICK f \in [0..(n - 1) -> Y] : Recursion(f, n - 1, base, G)
    BY <2>4
  <2>6. G[<<f[n - 1], n>>] \in Y
    <3>1. f[n - 1] \in Y /\ n \in 1..N
      BY <2>2, <2>3, <2>4, <2>5
    <3> QED
      BY <3>1
  <2> DEFINE g == [x \in 0..n |-> IF x = n THEN G[<<f[n - 1], n>>] ELSE f[x]]
  <2>7. \A x \in 0..n : x = n \/ x \in 0..(n - 1)
    BY <2>2
  <2>8. g \in [0..n -> Y]
    BY <2>5, <2>6, <2>7
  <2>9. g[n] = G[<<f[n - 1], n>>] /\ \A x \in 0..(n - 1) : g[x] = f[x]
    BY <2>2
  <2> HIDE DEF g
  <2>10. g[0] = base
    BY <2>2, <2>3, <2>5, <2>9 DEF Recursion
  <2>11. ASSUME NEW x \in 1..n PROVE g[x] = G[<<g[x - 1], x>>]
    <3>1. CASE x = n
      <4>1. n - 1 \in 0..(n - 1)
        BY <2>4
      <4> QED
        BY <2>9, <3>1, <4>1
    <3>2. CASE x # n
      <4>1. x \in 1..(n - 1) /\ x \in 0..(n - 1) /\ x - 1 \in 0..(n - 1)
        BY <2>2, <3>2
      <4> QED
        BY <2>5, <2>9, <4>1 DEF Recursion
    <3> QED
      BY <3>1, <3>2
  <2>12. Recursion(g, n, base, G)
    BY <2>10, <2>11 DEF Recursion
  <2> QED
    BY <2>1, <2>8, <2>12
<1> QED
  <2>1. N \notin T
    BY <1>1
  <2> QED
    BY <2>1
-----------------------------------------------------------------------------
(* Lookups *)

\* A lookup goes on with a name.
LookOk(look) == \A m \in Names : look[m].is = "name" => look[m].name \in Names

\* The number of names.
LEMMA DepthType ==
    /\ Depth \in Nat
    /\ \A n \in Names : Depth # 0
<1>1. IsFiniteSet(Names)
  BY PSObjectsAssumption
<1>2. Depth \in Nat
  BY <1>1, FS_CardinalityType DEF Depth
<1>3. Depth = 0 => Names = {}
  BY <1>1, FS_EmptySet DEF Depth
<1> QED
  BY <1>2, <1>3

\* What Follow is at one name and the next.
LEMMA FollowStep ==
    ASSUME NEW look, LookOk(look), NEW none
    PROVE  \A k \in 0..Depth, n \in Names :
              Follow(look, n, k, none) = IF look[n].is # "name" THEN look[n]
                                         ELSE IF k = 0 THEN none
                                         ELSE Follow(look, look[n].name, k - 1, none)
<1> DEFINE R == {look[m] : m \in Names} \union {none}
           Y == [Names -> R]
           base == [m \in Names |-> IF look[m].is # "name" THEN look[m] ELSE none]
           F(g) == [m \in Names |-> IF look[m].is # "name" THEN look[m] ELSE g[look[m].name]]
           G == [p \in Y \X (1..Depth) |-> F(p[1])]
           Good(e) == e = [j \in 0..Depth |->
                             [m \in Names |-> IF look[m].is # "name" THEN look[m]
                                              ELSE IF j = 0 THEN none ELSE e[j - 1][look[m].name]]]
           f == CHOOSE e : Good(e)
<1>1. Depth \in Nat
  BY DepthType
<1>2. base \in Y
  OBVIOUS
<1>3. ASSUME NEW g \in Y PROVE F(g) \in Y
  BY DEF LookOk
<1>4. G \in [Y \X (1..Depth) -> Y]
  <2> HIDE DEF Y, F
  <2> QED
    BY <1>3
<1>5. \A g \in Y, j \in 1..Depth : G[<<g, j>>] = F(g)
  <2> HIDE DEF Y, F
  <2> QED
    OBVIOUS
<1> HIDE DEF Y, base, G
<1>6. PICK h \in [0..Depth -> Y] : Recursion(h, Depth, base, G)
  BY <1>1, <1>2, <1>4, RecursionExists
<1>7. Good(h)
  <2>1. ASSUME NEW j \in 0..Depth
        PROVE  h[j] = [m \in Names |-> IF look[m].is # "name" THEN look[m]
                                       ELSE IF j = 0 THEN none ELSE h[j - 1][look[m].name]]
    <3>1. CASE j = 0
      BY <1>6, <3>1 DEF Recursion, base
    <3>2. CASE j # 0
      <4>1. j \in 1..Depth /\ j - 1 \in 0..Depth
        BY <1>1, <3>2
      <4>2. h[j] = F(h[j - 1])
        <5> HIDE DEF F
        <5>1. h[j - 1] \in Y
          BY <1>6, <4>1
        <5> QED
          BY <1>5, <1>6, <4>1, <5>1 DEF Recursion
      <4> QED
        BY <3>2, <4>2
    <3> QED
      BY <3>1, <3>2
  <2> QED
    BY <1>6, <2>1
<1>8. Good(f)
  <2> HIDE DEF Good
  <2> QED
    BY <1>7
<1>9. \A j \in 0..Depth, m \in Names :
         f[j][m] = IF look[m].is # "name" THEN look[m]
                   ELSE IF j = 0 THEN none ELSE f[j - 1][look[m].name]
  <2> SUFFICES ASSUME NEW e, Good(e), NEW j \in 0..Depth, NEW m \in Names
               PROVE  e[j][m] = IF look[m].is # "name" THEN look[m]
                                ELSE IF j = 0 THEN none ELSE e[j - 1][look[m].name]
    <3> HIDE DEF f, Good
    <3> QED
      BY <1>8
  <2>1. e[j] = [x \in Names |-> IF look[x].is # "name" THEN look[x]
                                ELSE IF j = 0 THEN none ELSE e[j - 1][look[x].name]]
    OBVIOUS
  <2> QED
    BY <2>1
<1>10. \A j, m : Follow(look, m, j, none) = f[j][m]
  BY DEF Follow
<1> HIDE DEF f
<1>11. \A j \in 0..Depth : j # 0 => j - 1 \in 0..Depth
  BY <1>1
<1> QED
  BY <1>9, <1>10, <1>11
-----------------------------------------------------------------------------
(* Lists of properties *)

\* One list after another.
LEMMA ConcatIs ==
    ASSUME NEW X, NEW s \in Seq(X), NEW t \in Seq(X)
    PROVE  /\ s \o t \in Seq(X) /\ Len(s \o t) = Len(s) + Len(t)
           /\ \A i \in 1..Len(s) : (s \o t)[i] = s[i]
           /\ \A i \in 1..Len(t) : (s \o t)[Len(s) + i] = t[i]
OBVIOUS

IsLast(ps, list, n, i) ==
    /\ i \in 1..Len(list) /\ ps[list[i]].name = n
    /\ \A j \in 1..Len(list) : ps[list[j]].name = n => j <= i

IsFirst(ps, list, n, i) ==
    /\ i \in 1..Len(list) /\ ps[list[i]].name = n
    /\ \A j \in 1..Len(list) : ps[list[j]].name = n => i <= j

\* LastAt is the last property of a name.
LEMMA LastIs ==
    ASSUME NEW ps, NEW list \in Seq(Nat), NEW n
    PROVE  /\ Has(ps, list, n) => IsLast(ps, list, n, LastAt(ps, list, n))
           /\ \A i : IsLast(ps, list, n, i) => Has(ps, list, n) /\ LastAt(ps, list, n) = i
<1>1. Len(list) \in Nat /\ DOMAIN list = 1..Len(list)
  OBVIOUS
<1>2. Has(ps, list, n) => \E i : IsLast(ps, list, n, i)
  <2> SUFFICES ASSUME Has(ps, list, n) PROVE \E i : IsLast(ps, list, n, i)
    OBVIOUS
  <2> DEFINE T == {d \in Nat : d <= Len(list) /\ Len(list) - d \in 1..Len(list)
                               /\ ps[list[Len(list) - d]].name = n}
  <2>1. PICK i \in 1..Len(list) : ps[list[i]].name = n
    BY <1>1 DEF Has
  <2>2. Len(list) - (Len(list) - i) = i /\ Len(list) - i \in Nat /\ Len(list) - i <= Len(list)
    BY <1>1
  <2>3. Len(list) - i \in T /\ T \in SUBSET Nat
    BY <2>1, <2>2
  <2>4. PICK d \in T : \A e \in T : d <= e
    <3> HIDE DEF T
    <3> QED
      BY <2>3, LeastOf
  <2>5. ASSUME NEW j \in 1..Len(list), ps[list[j]].name = n PROVE j <= Len(list) - d
    <3>1. Len(list) - (Len(list) - j) = j /\ Len(list) - j \in Nat /\ Len(list) - j <= Len(list)
      BY <1>1
    <3>2. Len(list) - j \in T
      BY <2>5, <3>1
    <3>3. d <= Len(list) - j /\ d \in Nat
      BY <2>4, <3>2
    <3> QED
      BY <1>1, <3>3
  <2> QED
    BY <2>4, <2>5 DEF IsLast
<1>3. ASSUME NEW i, NEW j, IsLast(ps, list, n, i), IsLast(ps, list, n, j) PROVE i = j
  <2>1. i \in Nat /\ j \in Nat /\ i <= j /\ j <= i
    BY <1>1, <1>3 DEF IsLast
  <2> QED
    BY <2>1
<1>4. LastAt(ps, list, n) = CHOOSE i \in 1..Len(list) :
          ps[list[i]].name = n /\ \A j \in 1..Len(list) : ps[list[j]].name = n => j <= i
  BY <1>1 DEF LastAt
<1>5. Has(ps, list, n) => IsLast(ps, list, n, LastAt(ps, list, n))
  BY <1>2, <1>4 DEF IsLast
<1>6. ASSUME NEW i, IsLast(ps, list, n, i) PROVE Has(ps, list, n) /\ LastAt(ps, list, n) = i
  <2>1. Has(ps, list, n)
    BY <1>1, <1>6 DEF Has, IsLast
  <2> QED
    BY <1>3, <1>5, <1>6, <2>1
<1> QED
  BY <1>5, <1>6

\* FirstAt is the first one.
LEMMA FirstIs ==
    ASSUME NEW ps, NEW list \in Seq(Nat), NEW n, Has(ps, list, n)
    PROVE  IsFirst(ps, list, n, FirstAt(ps, list, n))
<1>1. Len(list) \in Nat /\ DOMAIN list = 1..Len(list)
  OBVIOUS
<1> DEFINE T == {i \in 1..Len(list) : ps[list[i]].name = n}
<1>2. T \in SUBSET Nat /\ T # {}
  BY <1>1 DEF Has
<1>3. PICK i \in T : \A j \in T : i <= j
  <2> HIDE DEF T
  <2> QED
    BY <1>2, LeastOf
<1>4. FirstAt(ps, list, n) = CHOOSE x \in 1..Len(list) :
          ps[list[x]].name = n /\ \A j \in 1..Len(list) : ps[list[j]].name = n => x <= j
  BY <1>1 DEF FirstAt
<1> QED
  BY <1>3, <1>4 DEF IsFirst

\* x is the last property of name n in a list.
LastOf(ps, list, n, x) == \E i : IsLast(ps, list, n, i) /\ list[i] = x

\* It is the one at LastAt.
LastAtIs(ps, list, n) ==
    /\ Has(ps, list, n) => LastOf(ps, list, n, list[LastAt(ps, list, n)])
    /\ \A x : LastOf(ps, list, n, x) => /\ Has(ps, list, n) /\ list[LastAt(ps, list, n)] = x
                                        /\ x \in Nat /\ ps[x].name = n

LEMMA LastOfIs ==
    ASSUME NEW ps, NEW list \in Seq(Nat), NEW n
    PROVE  LastAtIs(ps, list, n)
<1>1. Has(ps, list, n) => IsLast(ps, list, n, LastAt(ps, list, n))
  BY LastIs
<1>2. ASSUME NEW x, NEW i, IsLast(ps, list, n, i), list[i] = x
      PROVE  Has(ps, list, n) /\ list[LastAt(ps, list, n)] = x /\ x \in Nat /\ ps[x].name = n
  BY <1>2, LastIs DEF IsLast
<1> QED
  BY <1>1, <1>2 DEF LastOf, LastAtIs

\* What a property changes that is put into a list.
InsertedInto(ps, list, x, new) ==
    /\ new \in Seq(Nat)
    /\ \A i \in 1..Len(new) : new[i] = x \/ \E j \in 1..Len(list) : new[i] = list[j]
    /\ LastOf(ps, new, ps[x].name, x)
    /\ \A n, y : n # ps[x].name => (LastOf(ps, new, n, y) <=> LastOf(ps, list, n, y))

\* That is what Inserted does.
LEMMA InsertedIs ==
    ASSUME NEW ps, NEW list \in Seq(Nat), NEW x \in Nat
    PROVE  InsertedInto(ps, list, x, Inserted(ps, list, x))
<1> DEFINE n0 == ps[x].name
           new == Inserted(ps, list, x)
           L == Len(list)
<1>1. L \in Nat /\ DOMAIN list = 1..L
  OBVIOUS
<1>2. CASE Has(ps, list, n0)
  <2> DEFINE k == LastAt(ps, list, n0)
  <2>1. IsLast(ps, list, n0, k)
    BY <1>2, LastIs
  <2>2. k \in 1..L /\ ps[list[k]].name = n0 /\ \A j \in 1..L : ps[list[j]].name = n0 => j <= k
    BY <2>1 DEF IsLast
  <2>3. new = [list EXCEPT ![k] = x]
    BY <1>2 DEF Inserted
  <2> HIDE DEF new, k
  <2>4. new \in Seq(Nat) /\ Len(new) = L /\ new[k] = x /\ \A j \in 1..L : j # k => new[j] = list[j]
    BY <2>2, <2>3
  <2>5. \A j \in 1..L : ps[new[j]].name = ps[list[j]].name
    BY <2>2, <2>4
  <2>6. \A n, j : IsLast(ps, new, n, j) <=> IsLast(ps, list, n, j)
    BY <2>4, <2>5 DEF IsLast
  <2>7. LastOf(ps, new, n0, x)
    BY <2>1, <2>4, <2>6 DEF LastOf, k
  <2>8. ASSUME NEW n, NEW j, n # n0, IsLast(ps, list, n, j) PROVE new[j] = list[j]
    BY <2>2, <2>4, <2>8 DEF IsLast
  <2>9. \A n, y : n # n0 => (LastOf(ps, new, n, y) <=> LastOf(ps, list, n, y))
    BY <2>6, <2>8 DEF LastOf
  <2>10. \A i \in 1..Len(new) : new[i] = x \/ \E j \in 1..L : new[i] = list[j]
    BY <2>4
  <2> QED
    BY <2>4, <2>7, <2>9, <2>10 DEF new, InsertedInto
<1>3. CASE ~Has(ps, list, n0)
  <2>1. new = Append(list, x)
    BY <1>3 DEF Inserted
  <2> HIDE DEF new
  <2>2. new \in Seq(Nat) /\ Len(new) = L + 1 /\ new[L + 1] = x /\ \A j \in 1..L : new[j] = list[j]
    BY <2>1
  <2>3. \A j \in 1..(L + 1) : j = L + 1 \/ j \in 1..L
    BY <1>1
  <2>4. IsLast(ps, new, n0, L + 1)
    <3>1. L + 1 \in 1..(L + 1) /\ \A j \in 1..(L + 1) : j <= L + 1
      BY <1>1
    <3> QED
      BY <2>2, <3>1 DEF IsLast
  <2>5. ASSUME NEW n, NEW j, n # n0 PROVE IsLast(ps, new, n, j) <=> IsLast(ps, list, n, j) /\ new[j] = list[j]
    <3>1. \A i \in 1..L : i \in 1..(L + 1)
      BY <1>1
    <3> QED
      BY <2>2, <2>3, <2>5, <3>1 DEF IsLast
  <2>6. \A n, y : n # n0 => (LastOf(ps, new, n, y) <=> LastOf(ps, list, n, y))
    BY <2>2, <2>5 DEF LastOf, IsLast
  <2>7. LastOf(ps, new, n0, x)
    BY <2>2, <2>4 DEF LastOf
  <2>8. \A i \in 1..Len(new) : new[i] = x \/ \E j \in 1..L : new[i] = list[j]
    BY <2>2, <2>3
  <2> QED
    BY <2>2, <2>6, <2>7, <2>8 DEF new, InsertedInto
<1> QED
  BY <1>2, <1>3

\* f is the list before and after each of the properties that are put in.
Merging(ps, list, k, l, f) ==
    /\ f \in [0..l -> Seq(Nat)]
    /\ f[0] = list /\ \A x \in 1..l : f[x] = Inserted(ps, f[x - 1], k + x)
    /\ Merged(ps, list, k, l) = f[l]

\* What is put into a list, one after the other.
LEMMA MergedSteps ==
    ASSUME NEW ps, NEW list \in Seq(Nat), NEW k \in Nat, NEW l \in Nat
    PROVE  \E f : Merging(ps, list, k, l, f)
<1> DEFINE Y == Seq(Nat)
           G == [p \in Y \X (1..l) |-> Inserted(ps, p[1], k + p[2])]
           Good(e) == e = [x \in 0..l |-> IF x = 0 THEN list ELSE Inserted(ps, e[x - 1], k + x)]
           f == CHOOSE e : Good(e)
<1>1. \A g \in Y, x \in 1..l : Inserted(ps, g, k + x) \in Y
  <2>1. \A x \in 1..l : k + x \in Nat
    OBVIOUS
  <2> QED
    BY <2>1, InsertedIs DEF InsertedInto
<1> HIDE DEF Y
<1>2. G \in [Y \X (1..l) -> Y] /\ \A g \in Y, x \in 1..l : G[<<g, x>>] = Inserted(ps, g, k + x)
  BY <1>1
<1> HIDE DEF G
<1>3. PICK h \in [0..l -> Y] : Recursion(h, l, list, G)
  BY <1>2, RecursionExists DEF Y
<1>4. Good(h)
  <2>1. ASSUME NEW x \in 0..l, x # 0 PROVE h[x] = Inserted(ps, h[x - 1], k + x)
    <3>1. x \in 1..l /\ x - 1 \in 0..l
      BY <2>1
    <3>2. h[x - 1] \in Y
      BY <1>3, <3>1
    <3> QED
      BY <1>2, <1>3, <3>1, <3>2 DEF Recursion
  <2>2. h[0] = list
    BY <1>3 DEF Recursion
  <2> QED
    BY <1>3, <2>1, <2>2
<1>5. Good(f)
  <2> HIDE DEF Good
  <2> QED
    BY <1>4
<1>6. DOMAIN f = 0..l /\ f[0] = list /\ (\A x \in 1..l : f[x] = Inserted(ps, f[x - 1], k + x))
      /\ f = [x \in 0..l |-> f[x]]
  <2> SUFFICES ASSUME NEW e, Good(e)
               PROVE  /\ DOMAIN e = 0..l /\ e[0] = list
                      /\ \A x \in 1..l : e[x] = Inserted(ps, e[x - 1], k + x)
                      /\ e = [x \in 0..l |-> e[x]]
    <3> HIDE DEF f, Good
    <3> QED
      BY <1>5
  <2>1. \A x \in 1..l : x \in 0..l /\ x # 0
    OBVIOUS
  <2>2. 0 \in 0..l
    OBVIOUS
  <2>3. \A x \in 0..l : e[x] = IF x = 0 THEN list ELSE Inserted(ps, e[x - 1], k + x)
    OBVIOUS
  <2>4. DOMAIN e = 0..l /\ e = [x \in 0..l |-> e[x]]
    OBVIOUS
  <2> HIDE DEF Good
  <2> QED
    BY <2>1, <2>2, <2>3, <2>4
<1>7. Merged(ps, list, k, l) = f[l]
  BY DEF Merged
<1> HIDE DEF f
<1>8. \A x \in 0..l : f[x] \in Y
  <2> DEFINE T == {x \in 0..l : f[x] \notin Y}
  <2> SUFFICES ASSUME T # {} PROVE FALSE
    OBVIOUS
  <2>1. PICK x \in T : \A y \in T : x <= y
    <3>1. T \in SUBSET Nat
      OBVIOUS
    <3> HIDE DEF T
    <3> QED
      BY <3>1, LeastOf
  <2>2. x # 0
    BY <1>6, <2>1 DEF Y
  <2>3. x - 1 \in 0..l /\ x - 1 \notin T /\ x \in 1..l
    BY <2>1, <2>2
  <2>4. f[x - 1] \in Y
    BY <2>3
  <2> QED
    BY <1>1, <1>6, <2>1, <2>3, <2>4
<1> QED
  BY <1>6, <1>7, <1>8 DEF Y, Merging

\* The last of the properties of a name that are put in is the last of the list, and
\* names that none of them has keep theirs.
MergedInto(ps, list, k, l, new) ==
    /\ new \in Seq(Nat)
    /\ \A i \in 1..Len(new) : \/ \E x \in 1..l : new[i] = k + x
                              \/ \E j \in 1..Len(list) : new[i] = list[j]
    /\ \A x \in 1..l : (\A y \in (x + 1)..l : ps[k + y].name # ps[k + x].name)
                           => LastOf(ps, new, ps[k + x].name, k + x)
    /\ \A n, y : (\A x \in 1..l : ps[k + x].name # n)
                     => (LastOf(ps, new, n, y) <=> LastOf(ps, list, n, y))

\* That is what Merged does.
LEMMA MergedIs ==
    ASSUME NEW ps, NEW list \in Seq(Nat), NEW k \in Nat, NEW l \in Nat
    PROVE  MergedInto(ps, list, k, l, Merged(ps, list, k, l))
<1>0. PICK f : Merging(ps, list, k, l, f)
  BY MergedSteps
<1>1. /\ f \in [0..l -> Seq(Nat)]
      /\ f[0] = list /\ \A x \in 1..l : f[x] = Inserted(ps, f[x - 1], k + x)
      /\ Merged(ps, list, k, l) = f[l]
  BY <1>0 DEF Merging
<1> DEFINE In(m) == \A i \in 1..Len(f[m]) : \/ \E x \in 1..m : f[m][i] = k + x
                                            \/ \E j \in 1..Len(list) : f[m][i] = list[j]
           Put(m) == \A x \in 1..m : (\A y \in (x + 1)..m : ps[k + y].name # ps[k + x].name)
                                         => LastOf(ps, f[m], ps[k + x].name, k + x)
           Old(m) == \A n, y : (\A x \in 1..m : ps[k + x].name # n)
                                   => (LastOf(ps, f[m], n, y) <=> LastOf(ps, list, n, y))
           Good(m) == In(m) /\ Put(m) /\ Old(m)
           T == {m \in 0..l : ~Good(m)}
<1>2. Good(0)
  BY <1>1
<1>3. ASSUME NEW m \in 1..l, Good(m - 1) PROVE Good(m)
  <2>1. m \in Nat /\ m - 1 \in 0..l /\ k + m \in Nat /\ f[m - 1] \in Seq(Nat)
    BY <1>1
  <2>2. \A x \in 1..m : x = m \/ x \in 1..(m - 1)
    BY <2>1
  <2>3. \A x \in 1..(m - 1) : x \in 1..m
    BY <2>1
  <2>4. f[m] = Inserted(ps, f[m - 1], k + m)
    BY <1>1
  <2>5. /\ \A i \in 1..Len(f[m]) : f[m][i] = k + m \/ \E j \in 1..Len(f[m - 1]) : f[m][i] = f[m - 1][j]
        /\ LastOf(ps, f[m], ps[k + m].name, k + m)
        /\ \A n, y : n # ps[k + m].name => (LastOf(ps, f[m], n, y) <=> LastOf(ps, f[m - 1], n, y))
    <3>1. InsertedInto(ps, f[m - 1], k + m, f[m])
      BY <2>1, <2>4, InsertedIs
    <3> HIDE DEF In, Put, Old, Good, T
    <3> QED
      BY <3>1 DEF InsertedInto
  <2>6. In(m)
    <3> SUFFICES ASSUME NEW i \in 1..Len(f[m])
                 PROVE  \/ \E x \in 1..m : f[m][i] = k + x
                        \/ \E j \in 1..Len(list) : f[m][i] = list[j]
      OBVIOUS
    <3>1. CASE f[m][i] = k + m
      BY <2>1, <3>1
    <3>2. CASE \E j \in 1..Len(f[m - 1]) : f[m][i] = f[m - 1][j]
      <4>1. In(m - 1)
        BY <1>3
      <4> QED
        BY <2>3, <3>2, <4>1
    <3> QED
      BY <2>5, <3>1, <3>2
  <2>7. Put(m)
    <3> SUFFICES ASSUME NEW x \in 1..m, \A y \in (x + 1)..m : ps[k + y].name # ps[k + x].name
                 PROVE  LastOf(ps, f[m], ps[k + x].name, k + x)
      OBVIOUS
    <3>1. CASE x = m
      BY <2>5, <3>1
    <3>2. CASE x # m
      <4>1. x \in 1..(m - 1) /\ m \in (x + 1)..m /\ \A y \in (x + 1)..(m - 1) : y \in (x + 1)..m
        BY <2>1, <3>2
      <4>2. ps[k + m].name # ps[k + x].name
        BY <4>1
      <4>3. LastOf(ps, f[m - 1], ps[k + x].name, k + x)
        <5>1. Put(m - 1)
          BY <1>3
        <5> QED
          BY <4>1, <5>1
      <4> QED
        BY <2>5, <4>2, <4>3
    <3> QED
      BY <3>1, <3>2
  <2>8. Old(m)
    <3> SUFFICES ASSUME NEW n, NEW y, \A x \in 1..m : ps[k + x].name # n
                 PROVE  LastOf(ps, f[m], n, y) <=> LastOf(ps, list, n, y)
      OBVIOUS
    <3>1. ps[k + m].name # n /\ \A x \in 1..(m - 1) : ps[k + x].name # n
      <4>1. m \in 1..m
        BY <2>1
      <4> QED
        BY <2>3, <4>1
    <3>2. Old(m - 1)
      BY <1>3
    <3> QED
      BY <2>5, <3>1, <3>2
  <2> QED
    BY <2>6, <2>7, <2>8
<1> HIDE DEF Good
<1>4. T = {}
  <2> SUFFICES ASSUME T # {} PROVE FALSE
    OBVIOUS
  <2>1. PICK m \in T : \A y \in T : m <= y
    <3>1. T \in SUBSET Nat
      OBVIOUS
    <3> HIDE DEF T
    <3> QED
      BY <3>1, LeastOf
  <2>2. m # 0
    BY <1>2, <2>1
  <2>3. m \in 1..l /\ m - 1 \in 0..l /\ m - 1 \notin T
    BY <2>1, <2>2
  <2> QED
    BY <1>3, <2>1, <2>3
<1>5. Good(l)
  <2>1. l \in 0..l
    OBVIOUS
  <2> QED
    BY <1>4, <2>1
<1>6. f[l] \in Seq(Nat)
  BY <1>1
<1>7. In(l) /\ Put(l) /\ Old(l)
  BY <1>5 DEF Good
<1> QED
  BY <1>1, <1>6, <1>7 DEF MergedInto
-----------------------------------------------------------------------------
(* Classes and objects *)

AllNames  == Nat \X (TypeNames \union {"System.Object"})
Dicts     == UNION {[D -> Values] : D \in SUBSET Names}
ClassSet  == [names : Seq(AllNames), adapted : Seq(Nat), extended : Seq(Nat)]
ObjectSet == [class : Nat, names : Seq(AllNames), adapted : Seq(Nat), extended : Seq(Nat),
              attrs : Dicts]

IsMeta(h) == h.adapted \in Seq(Nat) /\ h.extended \in Seq(Nat)

\* x is in a list of h.
Owns(h, x) == \/ \E i \in 1..Len(h.adapted) : h.adapted[i] = x
              \/ \E i \in 1..Len(h.extended) : h.extended[i] = x

\* What a property is.
LEMMA PropertyIs ==
    ASSUME NEW p \in Properties
    PROVE  /\ p.name \in Names /\ p.kind \in {"note", "alias", "script"}
           /\ p.kind = "note" => p.value \in Values /\ p = Note(p.name, p.value)
           /\ p.kind # "note" => p.target \in Names
BY DEF Properties, Note, Alias, Script

\* x is the property that a lookup of n finds in the lists of h.
SeenAs(ps, h, n, x) == \/ LastOf(ps, h.extended, n, x)
                       \/ ~Has(ps, h.extended, n) /\ LastOf(ps, h.adapted, n, x)

\* Seen finds it.
LEMMA SeenIs ==
    ASSUME NEW ps, NEW h, IsMeta(h), NEW n
    PROVE  /\ IsProperty(ps, h, n) => SeenAs(ps, h, n, Seen(ps, h, n))
           /\ \A x : SeenAs(ps, h, n, x) => /\ IsProperty(ps, h, n) /\ Seen(ps, h, n) = x
                                            /\ Owns(h, x) /\ x \in Nat /\ ps[x].name = n
<1>1. h.adapted \in Seq(Nat) /\ h.extended \in Seq(Nat)
  BY DEF IsMeta
<1>2. LastAtIs(ps, h.extended, n)
  BY <1>1, LastOfIs
<1>3. LastAtIs(ps, h.adapted, n)
  BY <1>1, LastOfIs
<1>4. \A x : LastOf(ps, h.adapted, n, x) \/ LastOf(ps, h.extended, n, x) => Owns(h, x)
  BY DEF LastOf, IsLast, Owns
<1> QED
  BY <1>2, <1>3, <1>4 DEF SeenAs, Seen, IsProperty, LastAtIs

\* What a lookup makes of a property.
Reads(p) == IF p.kind = "note" THEN Found(p.value) ELSE GoesOn(p.target)

\* What a lookup finds.
LEMMA LookupIs ==
    ASSUME NEW ps, NEW h, IsMeta(h), NEW n \in Names
    PROVE  /\ n \in DOMAIN h.attrs => Lookup(ps, h)[n] = Found(h.attrs[n])
           /\ n \notin DOMAIN h.attrs /\ ~IsProperty(ps, h, n) => Lookup(ps, h)[n] = Found("missing")
           /\ \A x : n \notin DOMAIN h.attrs /\ SeenAs(ps, h, n, x) => Lookup(ps, h)[n] = Reads(ps[x])
<1>1. Lookup(ps, h)[n] = IF n \in DOMAIN h.attrs THEN Found(h.attrs[n])
                         ELSE IF ~IsProperty(ps, h, n) THEN Found("missing")
                         ELSE Reads(ps[Seen(ps, h, n)])
  BY DEF Lookup, Reads
<1>2. \A x : SeenAs(ps, h, n, x) => IsProperty(ps, h, n) /\ Seen(ps, h, n) = x
  BY SeenIs
<1> QED
  BY <1>1, <1>2

\* A lookup depends on the properties in the lists alone.
LEMMA LookupSame ==
    ASSUME NEW ps, NEW qs, NEW h, IsMeta(h), \A x : Owns(h, x) => ps[x] = qs[x]
    PROVE  Lookup(ps, h) = Lookup(qs, h)
<1>1. h.adapted \in Seq(Nat) /\ h.extended \in Seq(Nat)
  BY DEF IsMeta
<1>2. \A i \in 1..Len(h.adapted) : ps[h.adapted[i]] = qs[h.adapted[i]]
  BY DEF Owns
<1>3. \A i \in 1..Len(h.extended) : ps[h.extended[i]] = qs[h.extended[i]]
  BY DEF Owns
<1>4. DOMAIN h.adapted = 1..Len(h.adapted) /\ DOMAIN h.extended = 1..Len(h.extended)
  BY <1>1
<1>5. \A n : Has(ps, h.adapted, n) = Has(qs, h.adapted, n) /\ Has(ps, h.extended, n) = Has(qs, h.extended, n)
  BY <1>2, <1>3, <1>4 DEF Has
<1>6. \A n, x : LastOf(ps, h.adapted, n, x) => LastOf(qs, h.adapted, n, x)
  BY <1>2 DEF LastOf, IsLast
<1>7. \A n, x : LastOf(ps, h.extended, n, x) => LastOf(qs, h.extended, n, x)
  BY <1>3 DEF LastOf, IsLast
<1>8. \A n, x : SeenAs(ps, h, n, x) => SeenAs(qs, h, n, x)
  BY <1>5, <1>6, <1>7 DEF SeenAs
<1>9. ASSUME NEW n \in Names PROVE Lookup(ps, h)[n] = Lookup(qs, h)[n]
  <2>1. CASE n \in DOMAIN h.attrs
    BY <2>1, LookupIs
  <2>2. CASE n \notin DOMAIN h.attrs /\ ~IsProperty(ps, h, n)
    <3>1. ~IsProperty(qs, h, n)
      BY <1>5, <2>2 DEF IsProperty
    <3> QED
      BY <2>2, <3>1, LookupIs
  <2>3. CASE n \notin DOMAIN h.attrs /\ IsProperty(ps, h, n)
    <3>1. PICK x : SeenAs(ps, h, n, x)
      BY <2>3, SeenIs
    <3>2. SeenAs(qs, h, n, x) /\ Owns(h, x)
      BY <1>8, <3>1, SeenIs
    <3>3. Lookup(ps, h)[n] = Reads(ps[x])
      BY <2>3, <3>1, LookupIs
    <3>4. Lookup(qs, h)[n] = Reads(qs[x])
      BY <2>3, <3>2, LookupIs
    <3> QED
      BY <3>2, <3>3, <3>4
  <2> QED
    BY <2>1, <2>2, <2>3
<1>10. DOMAIN Lookup(ps, h) = Names /\ DOMAIN Lookup(qs, h) = Names
  BY DEF Lookup
<1>11. Lookup(ps, h) = [n \in Names |-> Lookup(ps, h)[n]] /\ Lookup(qs, h) = [n \in Names |-> Lookup(qs, h)[n]]
  BY DEF Lookup
<1> QED
  BY <1>9, <1>11

\* What is found is a value, or "missing"; what it goes on with is a name.
LEMMA LookupOk ==
    ASSUME NEW ps, NEW h, IsMeta(h), h.attrs \in Dicts, \A x : Owns(h, x) => ps[x] \in Properties
    PROVE  /\ LookOk(Lookup(ps, h))
           /\ \A n \in Names : \/ Lookup(ps, h)[n].is = "name"
                               \/ /\ Lookup(ps, h)[n].is = "value"
                                  /\ Lookup(ps, h)[n].value \in Values \union {"missing"}
<1> SUFFICES ASSUME NEW n \in Names
             PROVE  \/ Lookup(ps, h)[n].is = "name" /\ Lookup(ps, h)[n].name \in Names
                    \/ /\ Lookup(ps, h)[n].is = "value"
                       /\ Lookup(ps, h)[n].value \in Values \union {"missing"}
  BY DEF LookOk
<1>1. CASE n \in DOMAIN h.attrs
  <2>1. h.attrs[n] \in Values
    BY <1>1 DEF Dicts
  <2>2. Lookup(ps, h)[n] = Found(h.attrs[n])
    BY <1>1, LookupIs
  <2> QED
    BY <2>1, <2>2 DEF Found
<1>2. CASE n \notin DOMAIN h.attrs /\ ~IsProperty(ps, h, n)
  <2>1. Lookup(ps, h)[n] = Found("missing")
    BY <1>2, LookupIs
  <2> QED
    BY <2>1 DEF Found
<1>3. CASE n \notin DOMAIN h.attrs /\ IsProperty(ps, h, n)
  <2>1. PICK x : SeenAs(ps, h, n, x)
    BY <1>3, SeenIs
  <2>2. ps[x] \in Properties
    BY <2>1, SeenIs
  <2>3. Lookup(ps, h)[n] = Reads(ps[x])
    BY <1>3, <2>1, LookupIs
  <2>4. CASE ps[x].kind = "note"
    <3>1. ps[x].value \in Values
      BY <2>2, <2>4, PropertyIs
    <3> QED
      BY <2>3, <2>4, <3>1 DEF Reads, Found
  <2>5. CASE ps[x].kind # "note"
    <3>1. ps[x].target \in Names
      BY <2>2, <2>5, PropertyIs
    <3> QED
      BY <2>3, <2>5, <3>1 DEF Reads, GoesOn
  <2> QED
    BY <2>4, <2>5
<1> QED
  BY <1>1, <1>2, <1>3

\* A lookup ends with what one name leads to, or with none.
LEMMA FollowEnds ==
    ASSUME NEW look, LookOk(look), NEW none
    PROVE  \A k \in 0..Depth, n \in Names :
              \/ Follow(look, n, k, none) = none
              \/ \E m \in Names : look[m].is # "name" /\ Follow(look, n, k, none) = look[m]
<1> DEFINE E(k, n) == \/ Follow(look, n, k, none) = none
                      \/ \E m \in Names : look[m].is # "name" /\ Follow(look, n, k, none) = look[m]
           T == {k \in 0..Depth : \E n \in Names : ~E(k, n)}
<1>1. SUFFICES T = {}
  OBVIOUS
<1>2. Depth \in Nat
  BY DepthType
<1>3. \A k \in 0..Depth, n \in Names :
         Follow(look, n, k, none) = IF look[n].is # "name" THEN look[n]
                                    ELSE IF k = 0 THEN none
                                    ELSE Follow(look, look[n].name, k - 1, none)
  BY FollowStep
<1> SUFFICES ASSUME T # {} PROVE FALSE
  OBVIOUS
<1>4. PICK k \in T : \A j \in T : k <= j
  <2>1. T \in SUBSET Nat
    BY <1>2
  <2> HIDE DEF T
  <2> QED
    BY <2>1, LeastOf
<1>5. PICK n \in Names : ~E(k, n)
  BY <1>4
<1>6. k \in 0..Depth
  BY <1>4
<1>7. CASE look[n].is # "name"
  BY <1>3, <1>5, <1>6, <1>7
<1>8. CASE look[n].is = "name" /\ k = 0
  BY <1>3, <1>5, <1>6, <1>8
<1>9. CASE look[n].is = "name" /\ k # 0
  <2>1. look[n].name \in Names
    BY <1>9 DEF LookOk
  <2>2. k - 1 \in 0..Depth /\ k - 1 \notin T
    BY <1>2, <1>4, <1>6, <1>9
  <2>3. E(k - 1, look[n].name)
    BY <2>1, <2>2
  <2>4. Follow(look, n, k, none) = Follow(look, look[n].name, k - 1, none)
    BY <1>3, <1>6, <1>9
  <2> QED
    BY <1>5, <2>3, <2>4
<1> QED
  BY <1>7, <1>8, <1>9
-----------------------------------------------------------------------------
(* The invariant *)

TypeInv ==
    /\ props \in Seq(Properties)
    /\ classes \in Seq(ClassSet) /\ Len(classes) # 0
    /\ objects \in Seq(ObjectSet)
    /\ \A c \in 1..Len(classes) : \A x : Owns(classes[c], x) => x \in 1..Len(props)
    /\ \A o \in 1..Len(objects) : \A x : Owns(objects[o], x) => x \in 1..Len(props)

\* Every object has properties of its own.
OwnInv ==
    /\ \A o \in 1..Len(objects), p \in 1..Len(objects) :
          o # p => \A x : ~(Owns(objects[o], x) /\ Owns(objects[p], x))
    /\ \A o \in 1..Len(objects), c \in 1..Len(classes) :
          \A x : ~(Owns(objects[o], x) /\ Owns(classes[c], x))

\* The class of a type name has it first; PSObject is not one.
RegistryInv ==
    \A t \in DOMAIN type_registry :
        /\ type_registry[t] \in 2..Len(classes)
        /\ classes[type_registry[t]].names # <<>> /\ classes[type_registry[t]].names[1] = t

\* An object has the type names of its class, or is a PSObject.
NamesInv ==
    \A o \in 1..Len(objects) :
        /\ objects[o].class \in 1..Len(classes)
        /\ objects[o].class = 1 \/ objects[o].names = classes[objects[o].class].names

PSObjectsInv == TypeInv /\ OwnInv /\ RegistryInv /\ NamesInv

\* Every class and every object has lists of properties.
LEMMA Metas ==
    ASSUME TypeInv
    PROVE  /\ \A c \in 1..Len(classes) :
                /\ classes[c] \in ClassSet /\ IsMeta(classes[c])
                /\ \A x : Owns(classes[c], x) => x \in 1..Len(props) /\ props[x] \in Properties
           /\ \A o \in 1..Len(objects) :
                /\ objects[o] \in ObjectSet /\ IsMeta(objects[o]) /\ objects[o].attrs \in Dicts
                /\ \A x : Owns(objects[o], x) => x \in 1..Len(props) /\ props[x] \in Properties
<1>1. ASSUME NEW c \in 1..Len(classes)
      PROVE  classes[c] \in ClassSet /\ IsMeta(classes[c])
  <2>1. classes[c] \in ClassSet
    BY DEF TypeInv
  <2> QED
    BY <2>1 DEF ClassSet, IsMeta
<1>2. ASSUME NEW o \in 1..Len(objects)
      PROVE  objects[o] \in ObjectSet /\ IsMeta(objects[o]) /\ objects[o].attrs \in Dicts
  <2>1. objects[o] \in ObjectSet
    BY DEF TypeInv
  <2> QED
    BY <2>1 DEF ObjectSet, IsMeta
<1>3. \A x \in 1..Len(props) : props[x] \in Properties
  BY DEF TypeInv
<1>4. /\ \A c \in 1..Len(classes) : \A x : Owns(classes[c], x) => x \in 1..Len(props)
      /\ \A o \in 1..Len(objects) : \A x : Owns(objects[o], x) => x \in 1..Len(props)
  BY DEF TypeInv
<1> QED
  BY <1>1, <1>2, <1>3, <1>4

\* g has a property of its own for each of its class h.
ListsOf(g, h, k) ==
    /\ DOMAIN g.attrs = {}
    /\ g.adapted \in Seq(Nat) /\ g.extended \in Seq(Nat)
    /\ Len(g.adapted) = Len(h.adapted) /\ Len(g.extended) = Len(h.extended)
    /\ \A i \in 1..Len(h.adapted) : g.adapted[i] = k + i
    /\ \A i \in 1..Len(h.extended) : g.extended[i] = k + Len(h.adapted) + i
    /\ Listed(h) \in Seq(Nat) /\ Len(Listed(h)) = Len(h.adapted) + Len(h.extended)
    /\ Len(Listed(g)) = Len(Listed(h))

InstanceOf(g, h, c, k) == g \in ObjectSet /\ g.class = c /\ g.names = h.names /\ ListsOf(g, h, k)

\* That is what Instance makes.
LEMMA InstanceIs ==
    ASSUME NEW c \in Nat, classes[c] \in ClassSet, NEW k \in Nat
    PROVE  InstanceOf(Instance(c, k), classes[c], c, k)
<1> DEFINE h == classes[c]
           a == [i \in 1..Len(h.adapted) |-> k + i]
           e == [i \in 1..Len(h.extended) |-> k + Len(h.adapted) + i]
<1>1. h.adapted \in Seq(Nat) /\ h.extended \in Seq(Nat) /\ h.names \in Seq(AllNames)
  BY DEF ClassSet
<1>2. /\ Len(h.adapted) \in Nat /\ DOMAIN h.adapted = 1..Len(h.adapted)
      /\ Len(h.extended) \in Nat /\ DOMAIN h.extended = 1..Len(h.extended)
  BY <1>1
<1>3. Instance(c, k) = [class |-> c, names |-> h.names, adapted |-> a, extended |-> e, attrs |-> <<>>]
  BY <1>2 DEF Instance
<1>4. a \in Seq(Nat) /\ Len(a) = Len(h.adapted) /\ \A i \in 1..Len(h.adapted) : a[i] = k + i
  BY <1>2
<1>5. e \in Seq(Nat) /\ Len(e) = Len(h.extended)
      /\ \A i \in 1..Len(h.extended) : e[i] = k + Len(h.adapted) + i
  <2> DEFINE m == k + Len(h.adapted)
             n == Len(h.extended)
  <2>1. m \in Nat /\ n \in Nat /\ e = [i \in 1..n |-> m + i]
    BY <1>2
  <2> HIDE DEF m, n, e
  <2>2. e \in Seq(Nat) /\ Len(e) = n /\ \A i \in 1..n : e[i] = m + i
    BY <2>1
  <2> QED
    BY <2>2 DEF m, n
<1>6. <<>> \in Dicts /\ DOMAIN <<>> = {}
  <2>1. DOMAIN <<>> = {} /\ <<>> = [n \in {} |-> n]
    OBVIOUS
  <2>2. <<>> \in [{} -> Values] /\ {} \in SUBSET Names
    BY <2>1
  <2> QED
    BY <2>1, <2>2 DEF Dicts
<1> HIDE DEF a, e
<1>7. Instance(c, k) \in ObjectSet
  BY <1>1, <1>3, <1>4, <1>5, <1>6 DEF ObjectSet
<1>8. Listed(h) \in Seq(Nat) /\ Len(Listed(h)) = Len(h.adapted) + Len(h.extended)
  BY <1>1 DEF Listed
<1> DEFINE g == Instance(c, k)
<1>9. g.class = c /\ g.names = h.names /\ g.adapted = a /\ g.extended = e /\ g.attrs = <<>>
  BY <1>3
<1> HIDE DEF g
<1>10. Listed(g) = a \o e
  BY <1>9 DEF Listed
<1>11. Len(Listed(g)) = Len(a) + Len(e)
  <2>1. a \in Seq(Nat) /\ e \in Seq(Nat)
    BY <1>4, <1>5
  <2>2. Len(a \o e) = Len(a) + Len(e)
    BY ONLY <2>1, ConcatIs
  <2> QED
    BY <1>10, <2>2
<1>12. InstanceOf(g, h, c, k)
  <2> HIDE DEF h
  <2> QED
    BY <1>4, <1>5, <1>6, <1>7, <1>8, <1>9, <1>11 DEF InstanceOf, ListsOf, g, h
<1> QED
  BY <1>12 DEF g
-----------------------------------------------------------------------------
(* Where a property is set *)

\* Chosen is a property of its name.
LEMMA ChosenIs ==
    ASSUME NEW ps, NEW h, IsMeta(h), NEW n, IsProperty(ps, h, n)
    PROVE  Owns(h, Chosen(ps, h, n)) /\ ps[Chosen(ps, h, n)].name = n
<1>1. h.adapted \in Seq(Nat) /\ h.extended \in Seq(Nat)
  BY DEF IsMeta
<1>2. CASE Has(ps, h.extended, n)
  <2>1. IsFirst(ps, h.extended, n, FirstAt(ps, h.extended, n))
    BY <1>1, <1>2, FirstIs
  <2> QED
    BY <1>2, <2>1 DEF Chosen, IsFirst, Owns
<1>3. CASE ~Has(ps, h.extended, n)
  <2>1. Has(ps, h.adapted, n)
    BY <1>3 DEF IsProperty
  <2>2. IsFirst(ps, h.adapted, n, FirstAt(ps, h.adapted, n))
    BY <1>1, <2>1, FirstIs
  <2> QED
    BY <1>3, <2>2 DEF Chosen, IsFirst, Owns
<1> QED
  BY <1>2, <1>3

\* What setting a name leads to, which is to.
SetsTo(ps, h, n, to) ==
    \/ to = AnAttribute(n) /\ (n \in DOMAIN h.attrs \/ ~IsProperty(ps, h, n))
    \/ /\ n \notin DOMAIN h.attrs /\ IsProperty(ps, h, n)
       /\ \/ ps[Chosen(ps, h, n)].kind = "note" /\ to = AProperty(Chosen(ps, h, n))
          \/ to = Nowhere
          \/ /\ ps[Chosen(ps, h, n)].kind = "script" /\ ps[Chosen(ps, h, n)].target \in Names
             /\ to = GoesOn(ps[Chosen(ps, h, n)].target)

LEMMA SettingIs ==
    ASSUME NEW ps, NEW h, IsMeta(h), \A x : Owns(h, x) => ps[x] \in Properties, NEW n \in Names
    PROVE  SetsTo(ps, h, n, Setting(ps, h)[n])
<1>1. CASE n \in DOMAIN h.attrs \/ ~IsProperty(ps, h, n)
  BY <1>1 DEF Setting, SetsTo
<1>2. CASE n \notin DOMAIN h.attrs /\ IsProperty(ps, h, n)
  <2> DEFINE i == Chosen(ps, h, n)
  <2>1. ps[i] \in Properties
    BY <1>2, ChosenIs
  <2>2. /\ ps[i].kind \in {"note", "alias", "script"}
        /\ ps[i].kind # "note" => ps[i].target \in Names
    BY <2>1, PropertyIs
  <2>3. Setting(ps, h)[n] = CASE ps[i].kind = "note"   -> AProperty(i)
                              [] ps[i].kind = "alias"  -> Nowhere
                              [] ps[i].kind = "script" -> GoesOn(ps[i].target)
    BY <1>2 DEF Setting
  <2> HIDE DEF i
  <2>4. CASE ps[i].kind = "note"
    BY <1>2, <2>3, <2>4 DEF i, SetsTo
  <2>5. CASE ps[i].kind = "alias"
    BY <1>2, <2>3, <2>5 DEF i, SetsTo
  <2>6. CASE ps[i].kind = "script"
    BY <1>2, <2>2, <2>3, <2>6 DEF i, SetsTo
  <2> QED
    BY <2>2, <2>4, <2>5, <2>6
<1> QED
  BY <1>1, <1>2

\* Setting a name goes on with names.
LEMMA SettingOk ==
    ASSUME NEW ps, NEW h, IsMeta(h), \A x : Owns(h, x) => ps[x] \in Properties
    PROVE  LookOk(Setting(ps, h))
<1> SUFFICES ASSUME NEW n \in Names, Setting(ps, h)[n].is = "name" PROVE Setting(ps, h)[n].name \in Names
  BY DEF LookOk
<1>1. SetsTo(ps, h, n, Setting(ps, h)[n])
  BY SettingIs
<1> QED
  BY <1>1 DEF SetsTo, AnAttribute, AProperty, Nowhere, GoesOn

\* What is set is an attribute, or a note in a list of the object.
LEMMA PlaceIs ==
    ASSUME TypeInv, NEW o \in 1..Len(objects), NEW n \in Names
    PROVE  /\ Place(o, n).is = "attribute" => Place(o, n).at \in Names
           /\ Place(o, n).is = "property" =>
                /\ Owns(objects[o], Place(o, n).at)
                /\ props[Place(o, n).at].kind = "note"
<1> DEFINE h == objects[o]
           look == Setting(props, h)
           p == Place(o, n)
<1>1. IsMeta(h) /\ \A x : Owns(h, x) => x \in 1..Len(props) /\ props[x] \in Properties
  BY Metas
<1> HIDE DEF h
<1>2. LookOk(look)
  BY <1>1, SettingOk
<1>3. Depth \in 0..Depth
  BY DepthType
<1>4. p = Follow(look, n, Depth, Nowhere)
  BY DEF Place, h
<1> HIDE DEF look, p
<1>5. p = Nowhere \/ \E m \in Names : look[m].is # "name" /\ p = look[m]
  BY <1>2, <1>3, <1>4, FollowEnds
<1>6. ASSUME NEW m \in Names, p = look[m]
      PROVE  /\ p.is = "attribute" => p.at \in Names
             /\ p.is = "property" => Owns(h, p.at) /\ props[p.at].kind = "note"
  <2>1. IsProperty(props, h, m) => Owns(h, Chosen(props, h, m))
    BY <1>1, ChosenIs
  <2>2. SetsTo(props, h, m, look[m])
    BY <1>1, SettingIs DEF look
  <2> QED
    BY <1>6, <2>1, <2>2 DEF SetsTo, AnAttribute, AProperty, Nowhere, GoesOn
<1>7. p = Nowhere => p.is # "attribute" /\ p.is # "property"
  BY DEF Nowhere
<1>8. /\ p.is = "attribute" => p.at \in Names
      /\ p.is = "property" => Owns(h, p.at) /\ props[p.at].kind = "note"
  BY <1>5, <1>6, <1>7
<1> QED
  BY <1>8 DEF p, h
-----------------------------------------------------------------------------
(* Steps *)

\* Properties are added behind those that are there.
Extends(ps, qs) == Len(ps) <= Len(qs) /\ \A x \in 1..Len(ps) : qs[x] = ps[x]

\* The beginning.
LEMMA InitInv == Init => PSObjectsInv
<1> SUFFICES ASSUME Init PROVE PSObjectsInv
  OBVIOUS
<1> DEFINE root == [names |-> <<SystemObject>>, adapted |-> <<>>, extended |-> <<>>]
<1>1. props = <<>> /\ classes = <<root>> /\ objects = <<>> /\ type_registry = <<>>
  BY DEF Init
<1>2. root \in ClassSet
  <2>1. SystemObject \in AllNames
    BY DEF SystemObject, AllNames
  <2> HIDE DEF SystemObject, AllNames
  <2>2. <<SystemObject>> \in Seq(AllNames) /\ <<>> \in Seq(Nat)
    BY <2>1
  <2> QED
    BY <2>2 DEF ClassSet
<1>3. \A x : ~Owns(root, x)
  BY DEF Owns
<1> HIDE DEF root
<1>4. classes \in Seq(ClassSet) /\ Len(classes) = 1 /\ classes[1] = root
  BY <1>1, <1>2
<1>5. Len(objects) = 0 /\ objects \in Seq(ObjectSet) /\ props \in Seq(Properties)
  BY <1>1
<1>6. DOMAIN type_registry = {}
  BY <1>1
<1>7. \A c \in 1..Len(classes) : c = 1
  BY <1>4
<1>8. 1..Len(objects) = {}
  BY <1>5
<1> QED
  BY <1>3, <1>4, <1>5, <1>6, <1>7, <1>8 DEF PSObjectsInv, TypeInv, OwnInv, RegistryInv, NamesInv

\* An object is made with properties of its own.
MadeFrom(h) ==
    /\ props' \in Seq(Properties) /\ Extends(props, props')
    /\ classes' = classes /\ type_registry' = type_registry
    /\ objects' = Append(objects, h) /\ h \in ObjectSet
    /\ h.class \in 1..Len(classes) /\ (h.class = 1 \/ h.names = classes[h.class].names)
    /\ \A x : Owns(h, x) => x \in 1..Len(props') /\ x \notin 1..Len(props)

LEMMA MadeFromInv ==
    ASSUME PSObjectsInv, NEW h, MadeFrom(h)
    PROVE  PSObjectsInv'
<1>1. /\ objects \in Seq(ObjectSet) /\ classes \in Seq(ClassSet) /\ Len(classes) # 0
      /\ props \in Seq(Properties)
  BY DEF PSObjectsInv, TypeInv
<1>2. /\ objects' \in Seq(ObjectSet) /\ Len(objects') = Len(objects) + 1 /\ objects'[Len(objects) + 1] = h
      /\ \A o \in 1..Len(objects) : objects'[o] = objects[o]
  BY <1>1 DEF MadeFrom
<1>3. \A o \in 1..Len(objects') : o \in 1..Len(objects) \/ o = Len(objects) + 1
  BY <1>1, <1>2
<1>4. /\ \A c \in 1..Len(classes) : \A x : Owns(classes[c], x) => x \in 1..Len(props)
      /\ \A o \in 1..Len(objects) : \A x : Owns(objects[o], x) => x \in 1..Len(props)
  BY DEF PSObjectsInv, TypeInv
<1>5. \A x \in 1..Len(props) : x \in 1..Len(props')
  BY <1>1 DEF MadeFrom, Extends
<1>6. \A x : Owns(h, x) => x \in 1..Len(props') /\ x \notin 1..Len(props)
  BY DEF MadeFrom
<1>7. TypeInv'
  <2>1. \A c \in 1..Len(classes') : \A x : Owns(classes'[c], x) => x \in 1..Len(props')
    BY <1>4, <1>5 DEF MadeFrom
  <2>2. \A o \in 1..Len(objects') : \A x : Owns(objects'[o], x) => x \in 1..Len(props')
    BY <1>2, <1>3, <1>4, <1>5, <1>6
  <2>3. props' \in Seq(Properties) /\ classes' \in Seq(ClassSet) /\ Len(classes') # 0
    BY <1>1 DEF MadeFrom
  <2> QED
    BY <1>2, <2>1, <2>2, <2>3 DEF TypeInv
<1>8. OwnInv'
  <2>1. ASSUME NEW o \in 1..Len(objects'), NEW p \in 1..Len(objects'), o # p, NEW x
        PROVE  ~(Owns(objects'[o], x) /\ Owns(objects'[p], x))
    <3>1. CASE o \in 1..Len(objects) /\ p \in 1..Len(objects)
      BY <1>2, <2>1, <3>1 DEF PSObjectsInv, OwnInv
    <3>2. CASE o \in 1..Len(objects) /\ p = Len(objects) + 1
      BY <1>2, <1>4, <1>6, <3>2
    <3>3. CASE o = Len(objects) + 1 /\ p \in 1..Len(objects)
      BY <1>2, <1>4, <1>6, <3>3
    <3> QED
      BY <1>3, <2>1, <3>1, <3>2, <3>3
  <2>2. ASSUME NEW o \in 1..Len(objects'), NEW c \in 1..Len(classes'), NEW x
        PROVE  ~(Owns(objects'[o], x) /\ Owns(classes'[c], x))
    <3>1. c \in 1..Len(classes) /\ classes'[c] = classes[c]
      BY DEF MadeFrom
    <3>2. CASE o \in 1..Len(objects)
      BY <1>2, <3>1, <3>2 DEF PSObjectsInv, OwnInv
    <3>3. CASE o = Len(objects) + 1
      BY <1>2, <1>4, <1>6, <3>1, <3>3
    <3> QED
      BY <1>3, <3>2, <3>3
  <2> QED
    BY <2>1, <2>2 DEF OwnInv
<1>9. RegistryInv'
  BY DEF PSObjectsInv, RegistryInv, MadeFrom
<1>10. NamesInv'
  <2>1. \A o \in 1..Len(objects) : /\ objects[o].class \in 1..Len(classes)
                                   /\ objects[o].class = 1 \/ objects[o].names = classes[objects[o].class].names
    BY DEF PSObjectsInv, NamesInv
  <2>2. h.class \in 1..Len(classes) /\ (h.class = 1 \/ h.names = classes[h.class].names) /\ classes' = classes
    BY DEF MadeFrom
  <2> QED
    BY <1>2, <1>3, <2>1, <2>2 DEF NamesInv
<1> QED
  BY <1>7, <1>8, <1>9, <1>10 DEF PSObjectsInv

\* A list of properties that are copied, or taken over from those there are.
LEMMA CopiesIs ==
    ASSUME TypeInv, NEW list \in Seq(Nat), \A i \in 1..Len(list) : list[i] \in 1..Len(props)
    PROVE  Copies(list) \in Seq(Properties) /\ Len(Copies(list)) = Len(list)
<1>1. Copies(list) = [i \in 1..Len(list) |-> props[list[i]]] /\ Len(list) \in Nat
  BY DEF Copies
<1>2. \A i \in 1..Len(list) : props[list[i]] \in Properties
  BY DEF TypeInv
<1> QED
  BY <1>1, <1>2

\* The properties of an object, all of them.
LEMMA ListedIn ==
    ASSUME NEW h, IsMeta(h)
    PROVE  /\ Listed(h) \in Seq(Nat)
           /\ \A i \in 1..Len(Listed(h)) : Owns(h, Listed(h)[i])
           /\ \A x : Owns(h, x) => x \in Range(Listed(h))
<1>1. h.adapted \in Seq(Nat) /\ h.extended \in Seq(Nat)
  BY DEF IsMeta
<1> DEFINE a == h.adapted
           e == h.extended
           s == a \o e
<1>2. Listed(h) = s
  BY DEF Listed
<1>3. a \in Seq(Nat) /\ e \in Seq(Nat)
  BY <1>1
<1>4. \A x : Owns(h, x) <=> (\E i \in 1..Len(a) : a[i] = x) \/ (\E i \in 1..Len(e) : e[i] = x)
  BY DEF Owns
<1> HIDE DEF a, e
<1>5. /\ s \in Seq(Nat) /\ Len(s) = Len(a) + Len(e)
      /\ \A i \in 1..Len(a) : s[i] = a[i]
      /\ \A i \in 1..Len(e) : s[Len(a) + i] = e[i]
  BY <1>3, ConcatIs
<1> HIDE DEF s
<1>6. Len(a) \in Nat /\ Len(e) \in Nat /\ DOMAIN s = 1..Len(s)
  BY <1>3, <1>5
<1>7. ASSUME NEW i \in 1..Len(s) PROVE Owns(h, s[i])
  <2>1. CASE i \in 1..Len(a)
    BY <1>4, <1>5, <2>1
  <2>2. CASE i \notin 1..Len(a)
    <3>1. i - Len(a) \in 1..Len(e) /\ Len(a) + (i - Len(a)) = i
      BY <1>5, <1>6, <2>2
    <3>2. s[i] = e[i - Len(a)]
      BY <1>5, <3>1
    <3> QED
      BY <1>4, <3>1, <3>2
  <2> QED
    BY <2>1, <2>2
<1>8. ASSUME NEW x, Owns(h, x) PROVE \E i \in 1..Len(s) : s[i] = x
  <2>1. \A i \in 1..Len(a) : i \in 1..Len(s)
    BY <1>5, <1>6
  <2>2. \A i \in 1..Len(e) : Len(a) + i \in 1..Len(s)
    BY <1>5, <1>6
  <2> QED
    BY <1>4, <1>5, <1>8, <2>1, <2>2
<1>9. \A x : Owns(h, x) => x \in Range(s)
  BY <1>6, <1>8 DEF Range
<1> QED
  BY <1>2, <1>5, <1>7, <1>9

\* New makes an object with properties of its own.
LEMMA NewMakes ==
    ASSUME PSObjectsInv, NEW c \in 1..Len(classes), New(c)
    PROVE  MadeFrom(Instance(c, Len(props)))
<1> DEFINE h == classes[c]
           k == Len(props)
           g == Instance(c, k)
<1>1. TypeInv /\ props \in Seq(Properties) /\ k \in Nat /\ c \in Nat
  BY DEF PSObjectsInv, TypeInv
<1>2. h \in ClassSet /\ IsMeta(h) /\ \A x : Owns(h, x) => x \in 1..Len(props)
  BY <1>1, Metas
<1>3. InstanceOf(g, h, c, k)
  BY <1>1, <1>2, InstanceIs
<1> DEFINE new == Copies(Listed(h))
<1>4. new \in Seq(Properties) /\ Len(new) = Len(Listed(h))
  BY <1>1, <1>2, ListedIn, CopiesIs
<1>5. /\ props' = props \o new /\ objects' = Append(objects, g)
      /\ classes' = classes /\ type_registry' = type_registry
  BY DEF New
<1> HIDE DEF h, g, new
<1>6. /\ props' \in Seq(Properties) /\ Len(props') = k + Len(new)
      /\ \A x \in 1..Len(props) : props'[x] = props[x]
  BY <1>1, <1>4, <1>5, ConcatIs
<1> DEFINE la == Len(h.adapted)
           le == Len(h.extended)
           ln == Len(new)
           lp == Len(props')
<1>7. la \in Nat /\ le \in Nat /\ ln = la + le
  <2>1. la \in Nat /\ le \in Nat
    BY <1>2 DEF IsMeta
  <2>2. ln = la + le
    BY <1>3, <1>4 DEF InstanceOf, ListsOf
  <2> QED
    BY <2>1, <2>2
<1>8. g \in ObjectSet /\ g.class = c /\ g.names = h.names
  BY <1>3 DEF InstanceOf, ListsOf
<1>9. \A x \in 1..k : props'[x] = props[x]
  BY <1>6
<1>10. lp = k + ln
  BY <1>6
<1> HIDE DEF k, la, le, ln, lp
<1>11. k <= lp /\ lp = k + la + le
  BY <1>1, <1>7, <1>10
<1>12. ASSUME NEW x, Owns(g, x) PROVE x \in 1..lp /\ x \notin 1..k
  <2>1. \/ \E i \in 1..la : x = k + i
        \/ \E i \in 1..le : x = k + la + i
    BY <1>3, <1>12 DEF InstanceOf, ListsOf, Owns, la, le
  <2>2. ASSUME NEW i \in 1..la, x = k + i PROVE x \in 1..lp /\ x \notin 1..k
    BY <1>1, <1>7, <1>11, <2>2
  <2>3. ASSUME NEW i \in 1..le, x = k + la + i PROVE x \in 1..lp /\ x \notin 1..k
    BY <1>1, <1>7, <1>11, <2>3
  <2> QED
    BY <2>1, <2>2, <2>3
<1>13. Extends(props, props')
  BY <1>9, <1>11 DEF Extends, k, lp
<1> QED
  BY <1>5, <1>6, <1>8, <1>12, <1>13 DEF MadeFrom, g, h, k, lp

\* h has one property more, x, which may have taken the place of another.
OneMore(h, g, x, qs) ==
    /\ g = [h EXCEPT !.extended = Inserted(qs, h.extended, x)]
    /\ g.adapted = h.adapted /\ InsertedInto(qs, h.extended, x, g.extended)
    /\ IsMeta(g) /\ \A y : Owns(g, y) => Owns(h, y) \/ y = x

\* A property that is added to a list of a record with lists.
LEMMA OneMoreIs ==
    ASSUME NEW h, h \in ClassSet \/ h \in ObjectSet, NEW x \in Nat, NEW qs
    PROVE  LET g == [h EXCEPT !.extended = Inserted(qs, h.extended, x)]
           IN  /\ OneMore(h, g, x, qs) /\ g.names = h.names
               /\ h \in ClassSet => g \in ClassSet
               /\ h \in ObjectSet => g \in ObjectSet /\ g.attrs = h.attrs /\ g.class = h.class
<1> DEFINE new == Inserted(qs, h.extended, x)
           g == [h EXCEPT !.extended = new]
<1>1. h.adapted \in Seq(Nat) /\ h.extended \in Seq(Nat)
  BY DEF ClassSet, ObjectSet
<1>2. InsertedInto(qs, h.extended, x, new)
  BY <1>1, InsertedIs
<1>3. new \in Seq(Nat)
  BY <1>2 DEF InsertedInto
<1> HIDE DEF new
<1>4. /\ g.adapted = h.adapted /\ g.extended = new /\ g.names = h.names
      /\ h \in ClassSet => g \in ClassSet
      /\ h \in ObjectSet => g \in ObjectSet /\ g.attrs = h.attrs /\ g.class = h.class
  BY <1>3 DEF ClassSet, ObjectSet
<1>5. g = [h EXCEPT !.extended = Inserted(qs, h.extended, x)]
  BY DEF new
<1> HIDE DEF g
<1>6. \A i \in 1..Len(new) : new[i] = x \/ \E j \in 1..Len(h.extended) : new[i] = h.extended[j]
  BY <1>2 DEF InsertedInto
<1>7. \A y : Owns(g, y) => Owns(h, y) \/ y = x
  BY <1>4, <1>6 DEF Owns
<1>8. OneMore(h, g, x, qs)
  BY <1>1, <1>2, <1>3, <1>4, <1>5, <1>7 DEF OneMore, IsMeta
<1>9. /\ OneMore(h, g, x, qs) /\ g.names = h.names
      /\ h \in ClassSet => g \in ClassSet
      /\ h \in ObjectSet => g \in ObjectSet /\ g.attrs = h.attrs /\ g.class = h.class
  BY <1>4, <1>8
<1> QED
  BY <1>9 DEF g, new

\* A property that is added.
LEMMA AddProps ==
    ASSUME TypeInv, NEW h, NEW p \in Members, NEW force, Add(h, p, force)
    PROVE  /\ props' \in Seq(Properties) /\ Extends(props, props') /\ type_registry' = type_registry
           /\ Len(props') = Len(props) + 1 /\ props'[Len(props')] = p /\ Len(props) \in Nat
<1>1. props \in Seq(Properties) /\ p \in Properties
  BY PSObjectsAssumption DEF TypeInv
<1>2. props' = Append(props, p) /\ type_registry' = type_registry
  BY DEF Add
<1>3. /\ props' \in Seq(Properties) /\ Len(props') = Len(props) + 1 /\ props'[Len(props) + 1] = p
      /\ \A x \in 1..Len(props) : props'[x] = props[x]
  BY <1>1, <1>2
<1>4. Len(props) \in Nat
  BY <1>1
<1> QED
  BY <1>2, <1>3, <1>4 DEF Extends

\* A property is added to a class.
LEMMA AddToClassInv ==
    ASSUME PSObjectsInv, NEW c \in 1..Len(classes), NEW p \in Members, NEW force, AddToClass(c, p, force)
    PROVE  PSObjectsInv'
<1> DEFINE k == Len(props)
           g == [classes[c] EXCEPT !.extended = Inserted(props', classes[c].extended, Len(props'))]
<1>1. TypeInv /\ OwnInv /\ RegistryInv /\ NamesInv
  BY DEF PSObjectsInv
<1>2. /\ props' \in Seq(Properties) /\ Extends(props, props') /\ type_registry' = type_registry
      /\ Len(props') = k + 1 /\ k \in Nat
  BY <1>1, AddProps DEF AddToClass
<1>3. objects' = objects /\ classes' = [classes EXCEPT ![c] = g] /\ classes \in Seq(ClassSet)
      /\ Len(classes) # 0 /\ objects \in Seq(ObjectSet)
  BY <1>1 DEF AddToClass, TypeInv
<1>4. classes[c] \in ClassSet
  BY <1>1, Metas
<1>5. OneMore(classes[c], g, k + 1, props') /\ g.names = classes[c].names /\ g \in ClassSet
  <2>1. Len(props') \in Nat
    BY <1>2
  <2>2. OneMore(classes[c], g, Len(props'), props') /\ g.names = classes[c].names /\ g \in ClassSet
    BY <1>4, <2>1, OneMoreIs
  <2> HIDE DEF g
  <2> QED
    BY <1>2, <2>2
<1> HIDE DEF g
<1>6. /\ classes' \in Seq(ClassSet) /\ Len(classes') = Len(classes) /\ classes'[c] = g
      /\ \A d \in 1..Len(classes) : d # c => classes'[d] = classes[d]
  BY <1>3, <1>5
<1>7. \A x : Owns(g, x) => Owns(classes[c], x) \/ x = k + 1
  BY <1>5 DEF OneMore
<1>8. /\ \A d \in 1..Len(classes) : \A x : Owns(classes[d], x) => x \in 1..k
      /\ \A o \in 1..Len(objects) : \A x : Owns(objects[o], x) => x \in 1..k
  BY <1>1 DEF TypeInv
<1>9. \A d \in 1..Len(classes) : \A x : Owns(classes'[d], x) => Owns(classes[d], x) \/ x = k + 1
  BY <1>6, <1>7
<1> HIDE DEF k
<1>10. k + 1 \in 1..(k + 1) /\ k + 1 \notin 1..k /\ \A x \in 1..k : x \in 1..(k + 1)
  BY <1>2
<1>11. TypeInv'
  <2>1. \A d \in 1..Len(classes') : \A x : Owns(classes'[d], x) => x \in 1..Len(props')
    BY <1>2, <1>6, <1>8, <1>9, <1>10
  <2>2. \A o \in 1..Len(objects') : \A x : Owns(objects'[o], x) => x \in 1..Len(props')
    BY <1>2, <1>3, <1>8, <1>10
  <2> QED
    BY <1>2, <1>3, <1>6, <2>1, <2>2 DEF TypeInv
<1>12. OwnInv'
  <2>1. \A o \in 1..Len(objects'), q \in 1..Len(objects') :
           o # q => \A x : ~(Owns(objects'[o], x) /\ Owns(objects'[q], x))
    BY <1>1, <1>3 DEF OwnInv
  <2>2. ASSUME NEW o \in 1..Len(objects'), NEW d \in 1..Len(classes'), NEW x,
               Owns(objects'[o], x), Owns(classes'[d], x)
        PROVE  FALSE
    <3>1. o \in 1..Len(objects) /\ d \in 1..Len(classes) /\ Owns(objects[o], x)
      BY <1>3, <1>6, <2>2
    <3>2. x \in 1..k
      BY <1>8, <3>1
    <3>3. Owns(classes[d], x)
      BY <1>9, <1>10, <2>2, <3>1, <3>2
    <3> QED
      BY <1>1, <3>1, <3>3 DEF OwnInv
  <2> QED
    BY <2>1, <2>2 DEF OwnInv
<1>13. \A d \in 1..Len(classes) : classes'[d].names = classes[d].names
  BY <1>5, <1>6
<1>14. RegistryInv'
  <2>1. \A t \in DOMAIN type_registry : type_registry[t] \in 2..Len(classes) /\ type_registry[t] \in 1..Len(classes)
    BY <1>1, <1>3 DEF RegistryInv
  <2> QED
    BY <1>1, <1>2, <1>6, <1>13, <2>1 DEF RegistryInv
<1>15. NamesInv'
  BY <1>1, <1>3, <1>6, <1>13 DEF NamesInv
<1> QED
  BY <1>11, <1>12, <1>14, <1>15 DEF PSObjectsInv

\* Only one object changes, and has no more properties than before but new ones.
ChangedTo(o, h) ==
    /\ props' \in Seq(Properties) /\ Len(props) <= Len(props') /\ Len(props') \in Nat
    /\ classes' = classes /\ type_registry' = type_registry
    /\ objects' = [objects EXCEPT ![o] = h] /\ h \in ObjectSet
    /\ h.class = objects[o].class /\ h.names = objects[o].names
    /\ \A x : Owns(h, x) => Owns(objects[o], x) \/ (x \in 1..Len(props') /\ x \notin 1..Len(props))

LEMMA ChangedToInv ==
    ASSUME PSObjectsInv, NEW o \in 1..Len(objects), NEW h, ChangedTo(o, h)
    PROVE  PSObjectsInv'
<1>1. TypeInv /\ OwnInv /\ RegistryInv /\ NamesInv
  BY DEF PSObjectsInv
<1>2. /\ objects \in Seq(ObjectSet) /\ classes \in Seq(ClassSet) /\ Len(classes) # 0
      /\ Len(props) \in Nat
  BY <1>1 DEF TypeInv
<1>3. /\ objects' \in Seq(ObjectSet) /\ Len(objects') = Len(objects) /\ objects'[o] = h
      /\ \A q \in 1..Len(objects) : q # o => objects'[q] = objects[q]
  BY <1>2 DEF ChangedTo
<1>4. /\ \A d \in 1..Len(classes) : \A x : Owns(classes[d], x) => x \in 1..Len(props)
      /\ \A q \in 1..Len(objects) : \A x : Owns(objects[q], x) => x \in 1..Len(props)
  BY <1>1 DEF TypeInv
<1>5. \A x \in 1..Len(props) : x \in 1..Len(props')
  BY <1>2 DEF ChangedTo
<1>6. \A q \in 1..Len(objects) : \A x :
         Owns(objects'[q], x) => \/ Owns(objects[q], x)
                                 \/ q = o /\ x \in 1..Len(props') /\ x \notin 1..Len(props)
  BY <1>3 DEF ChangedTo
<1>7. TypeInv'
  <2>1. \A d \in 1..Len(classes') : \A x : Owns(classes'[d], x) => x \in 1..Len(props')
    BY <1>4, <1>5 DEF ChangedTo
  <2>2. \A q \in 1..Len(objects') : \A x : Owns(objects'[q], x) => x \in 1..Len(props')
    BY <1>3, <1>4, <1>5, <1>6
  <2> QED
    BY <1>2, <1>3, <2>1, <2>2 DEF TypeInv, ChangedTo
<1>8. OwnInv'
  <2>1. ASSUME NEW q \in 1..Len(objects'), NEW r \in 1..Len(objects'), q # r, NEW x,
               Owns(objects'[q], x), Owns(objects'[r], x)
        PROVE  FALSE
    <3>1. /\ q \in 1..Len(objects) /\ r \in 1..Len(objects)
          /\ \A y : ~(Owns(objects[q], y) /\ Owns(objects[r], y))
      BY <1>1, <1>3, <2>1 DEF OwnInv
    <3> QED
      BY <1>4, <1>6, <2>1, <3>1
  <2>2. ASSUME NEW q \in 1..Len(objects'), NEW d \in 1..Len(classes'), NEW x,
               Owns(objects'[q], x), Owns(classes'[d], x)
        PROVE  FALSE
    <3>1. /\ q \in 1..Len(objects) /\ d \in 1..Len(classes) /\ classes'[d] = classes[d]
          /\ \A y : ~(Owns(objects[q], y) /\ Owns(classes[d], y))
      BY <1>1, <1>3 DEF OwnInv, ChangedTo
    <3> QED
      BY <1>4, <1>6, <2>2, <3>1
  <2> QED
    BY <2>1, <2>2 DEF OwnInv
<1>9. RegistryInv'
  BY <1>1 DEF RegistryInv, ChangedTo
<1>10. NamesInv'
  <2>1. \A q \in 1..Len(objects) : objects'[q].class = objects[q].class /\ objects'[q].names = objects[q].names
    BY <1>3 DEF ChangedTo
  <2> QED
    BY <1>1, <1>3, <2>1 DEF NamesInv, ChangedTo
<1> QED
  BY <1>7, <1>8, <1>9, <1>10 DEF PSObjectsInv

\* A property is added to an object.
LEMMA AddToObjectChanges ==
    ASSUME PSObjectsInv, NEW o \in 1..Len(objects), NEW p \in Members, NEW force, AddToObject(o, p, force)
    PROVE  /\ ChangedTo(o, objects'[o]) /\ OneMore(objects[o], objects'[o], Len(props'), props')
           /\ objects'[o].attrs = objects[o].attrs /\ Extends(props, props')
           /\ props'[Len(props')] = p
<1> DEFINE g == [objects[o] EXCEPT !.extended = Inserted(props', objects[o].extended, Len(props'))]
<1>1. TypeInv
  BY DEF PSObjectsInv
<1>2. /\ props' \in Seq(Properties) /\ Extends(props, props') /\ type_registry' = type_registry
      /\ Len(props') = Len(props) + 1 /\ props'[Len(props')] = p /\ Len(props) \in Nat
  BY <1>1, AddProps DEF AddToObject
<1>3. classes' = classes /\ objects' = [objects EXCEPT ![o] = g] /\ objects \in Seq(ObjectSet)
  BY <1>1 DEF AddToObject, TypeInv
<1>4. objects[o] \in ObjectSet /\ Len(props') \in Nat
  BY <1>1, <1>2, Metas
<1>5. /\ OneMore(objects[o], g, Len(props'), props') /\ g.names = objects[o].names
      /\ g \in ObjectSet /\ g.attrs = objects[o].attrs /\ g.class = objects[o].class
  BY <1>4, OneMoreIs
<1> HIDE DEF g
<1>6. objects'[o] = g
  BY <1>3
<1>7. \A x : Owns(g, x) => Owns(objects[o], x) \/ x = Len(props')
  BY <1>5 DEF OneMore
<1>8. Len(props') \in 1..Len(props') /\ Len(props') \notin 1..Len(props) /\ Len(props) <= Len(props')
  BY <1>2
<1>9. ChangedTo(o, g)
  BY <1>2, <1>3, <1>4, <1>5, <1>7, <1>8 DEF ChangedTo
<1> QED
  BY <1>2, <1>5, <1>6, <1>9

\* A dict with another value.
LEMMA WithIs ==
    ASSUME NEW d \in Dicts, NEW n \in Names, NEW v \in Values
    PROVE  /\ With(d, n, v) \in Dicts /\ With(d, n, v)[n] = v
           /\ DOMAIN With(d, n, v) = DOMAIN d \union {n}
           /\ \A m \in DOMAIN d : m # n => With(d, n, v)[m] = d[m]
<1>1. DOMAIN d \subseteq Names /\ \A m \in DOMAIN d : d[m] \in Values
  BY DEF Dicts
<1> DEFINE w == [k \in DOMAIN d \union {n} |-> IF k = n THEN v ELSE d[k]]
<1>2. w \in [DOMAIN d \union {n} -> Values]
  BY <1>1
<1>3. w \in Dicts
  <2>1. DOMAIN d \union {n} \in SUBSET Names
    BY <1>1
  <2> HIDE DEF w
  <2> QED
    BY <1>2, <2>1 DEF Dicts
<1> QED
  BY <1>3 DEF With

\* An attribute of an object is set.
AttrSet(o, m, v) ==
    /\ m \in Names /\ props' = props /\ ChangedTo(o, objects'[o])
    /\ objects'[o].adapted = objects[o].adapted /\ objects'[o].extended = objects[o].extended
    /\ objects'[o].attrs = With(objects[o].attrs, m, v)

\* A property of an object is set.
PropSet(o, x, v) ==
    /\ Owns(objects[o], x) /\ x \in 1..Len(props) /\ props[x].kind = "note"
    /\ objects' = objects /\ classes' = classes /\ type_registry' = type_registry
    /\ props' \in Seq(Properties) /\ Len(props') = Len(props)
    /\ \A y \in 1..Len(props) : y # x => props'[y] = props[y]
    /\ props'[x] = Note(props[x].name, v)

\* One of these is what SetAttr does.
SetThere(o, n, v) ==
    \/ Place(o, n).is = "attribute" /\ AttrSet(o, Place(o, n).at, v)
    \/ Place(o, n).is = "property" /\ PropSet(o, Place(o, n).at, v)

LEMMA SetAttrIs ==
    ASSUME PSObjectsInv, NEW o \in 1..Len(objects), NEW n \in Names, NEW v \in Values, SetAttr(o, n, v)
    PROVE  SetThere(o, n, v)
<1> DEFINE p == Place(o, n)
           h == objects[o]
<1>1. TypeInv /\ objects \in Seq(ObjectSet) /\ props \in Seq(Properties)
  BY DEF PSObjectsInv, TypeInv
<1>2. h \in ObjectSet /\ h.attrs \in Dicts /\ \A x : Owns(h, x) => x \in 1..Len(props) /\ props[x] \in Properties
  BY <1>1, Metas
<1>3. /\ p.is = "attribute" => p.at \in Names
      /\ p.is = "property" => Owns(h, p.at) /\ props[p.at].kind = "note"
  BY <1>1, PlaceIs
<1>4. /\ classes' = classes /\ type_registry' = type_registry
      /\ \/ props' = props /\ p.is = "attribute" /\ objects' = [objects EXCEPT ![o].attrs = With(@, p.at, v)]
         \/ objects' = objects /\ p.is = "property" /\ props' = [props EXCEPT ![p.at].value = v]
  BY DEF SetAttr
<1> HIDE DEF p
<1>5. CASE props' = props /\ p.is = "attribute" /\ objects' = [objects EXCEPT ![o].attrs = With(@, p.at, v)]
  <2> DEFINE w == With(h.attrs, p.at, v)
             g == [h EXCEPT !.attrs = w]
  <2>1. w \in Dicts
    BY <1>2, <1>3, <1>5, WithIs
  <2>2. objects' = [objects EXCEPT ![o] = g]
    BY <1>5
  <2> HIDE DEF w
  <2>3. g \in ObjectSet /\ g.class = h.class /\ g.names = h.names /\ g.adapted = h.adapted
        /\ g.extended = h.extended /\ g.attrs = w
    BY <1>2, <2>1 DEF ObjectSet
  <2> HIDE DEF g
  <2>4. objects'[o] = g
    BY <1>1, <2>2
  <2>5. \A x : Owns(g, x) => Owns(h, x)
    BY <2>3 DEF Owns
  <2>6. Len(props) \in Nat
    BY <1>1
  <2>7. ChangedTo(o, g)
    <3>1. props' \in Seq(Properties) /\ Len(props) <= Len(props') /\ Len(props') \in Nat
      BY <1>1, <1>5, <2>6
    <3>2. \A x : Owns(g, x) => Owns(objects[o], x)
      BY <2>5
    <3>3. g.class = objects[o].class /\ g.names = objects[o].names
      BY <2>3
    <3> HIDE DEF h
    <3> QED
      BY <1>4, <2>2, <2>3, <3>1, <3>2, <3>3 DEF ChangedTo
  <2> QED
    BY <1>3, <1>5, <2>3, <2>4, <2>7 DEF AttrSet, SetThere, p, w
<1>6. CASE objects' = objects /\ p.is = "property" /\ props' = [props EXCEPT ![p.at].value = v]
  <2> DEFINE x == p.at
             q == [props[x] EXCEPT !.value = v]
  <2>1. x \in 1..Len(props) /\ props[x] \in Properties /\ props[x].kind = "note" /\ Owns(h, x)
    BY <1>2, <1>3, <1>6
  <2>2. props' = [props EXCEPT ![x] = q]
    BY <1>6
  <2>3. q = Note(props[x].name, v) /\ q \in Properties
    <3>1. props[x] = Note(props[x].name, props[x].value) /\ props[x].name \in Names
      BY <2>1, PropertyIs
    <3>2. q = Note(props[x].name, v)
      BY <3>1 DEF Note
    <3>3. Note(props[x].name, v) \in Properties
      BY <3>1 DEF Properties
    <3> QED
      BY <3>2, <3>3
  <2> HIDE DEF q, x
  <2>4. /\ props' \in Seq(Properties) /\ Len(props') = Len(props) /\ props'[x] = q
        /\ \A y \in 1..Len(props) : y # x => props'[y] = props[y]
    BY <1>1, <2>1, <2>2, <2>3
  <2>5. PropSet(o, x, v)
    BY <1>4, <1>6, <2>1, <2>3, <2>4 DEF PropSet
  <2> QED
    BY <1>6, <2>5 DEF SetThere, x, p
<1> QED
  BY <1>4, <1>5, <1>6

\* An attribute or a property is set.
LEMMA SetAttrInv ==
    ASSUME PSObjectsInv, NEW o \in 1..Len(objects), NEW n \in Names, NEW v \in Values, SetAttr(o, n, v)
    PROVE  PSObjectsInv'
<1>1. SetThere(o, n, v)
  BY SetAttrIs
<1>2. ASSUME NEW m, AttrSet(o, m, v) PROVE PSObjectsInv'
  BY <1>2, ChangedToInv DEF AttrSet
<1>3. ASSUME NEW x, PropSet(o, x, v) PROVE PSObjectsInv'
  <2>1. TypeInv'
    BY <1>3 DEF PSObjectsInv, TypeInv, PropSet
  <2>2. OwnInv' /\ RegistryInv' /\ NamesInv'
    BY <1>3 DEF PSObjectsInv, OwnInv, RegistryInv, NamesInv, PropSet
  <2> QED
    BY <2>1, <2>2 DEF PSObjectsInv
<1> QED
  BY <1>1, <1>2, <1>3 DEF SetThere

\* What a class that is declared has.
MetaOf(m, l) ==
    /\ m \in ClassSet
    /\ \A x : Owns(m, x) => x \in 1..l

LEMMA MetaIs ==
    ASSUME TypeInv, NEW base \in 1..Len(classes), NEW d \in Declarations
    PROVE  MetaOf(Meta(base, d), Len(props) + Len(d.adapted) + Len(d.extended))
<1> DEFINE k == Len(props)
           a == Len(d.adapted)
           e == Len(d.extended)
           A == [i \in 1..a |-> k + i]
           E == [i \in 1..e |-> k + a + i]
           b == classes[base]
           l == k + a + e
<1>1. d.adapted \in Seq(Properties) /\ d.extended \in Seq(Properties) /\ d.names \in Seq(Nat \X TypeNames)
  BY PSObjectsAssumption
<1>2. k \in Nat /\ a \in Nat /\ e \in Nat /\ DOMAIN d.adapted = 1..a /\ DOMAIN d.extended = 1..e
  BY <1>1 DEF TypeInv
<1>3. b \in ClassSet /\ IsMeta(b) /\ \A x : Owns(b, x) => x \in 1..k
  BY Metas
<1>4. d.names \in Seq(AllNames)
  BY <1>1 DEF AllNames
<1>5. Meta(base, d) = IF d.skip_inheritance
                      THEN [names |-> d.names, adapted |-> A, extended |-> E]
                      ELSE [names |-> d.names \o b.names, adapted |-> A \o b.adapted,
                            extended |-> E \o b.extended]
  BY <1>2 DEF Meta
<1>6. b.names \in Seq(AllNames) /\ b.adapted \in Seq(Nat) /\ b.extended \in Seq(Nat)
  BY <1>3 DEF ClassSet
<1> HIDE DEF k, a, e, b
<1>7. A \in Seq(Nat) /\ Len(A) = a /\ \A i \in 1..a : A[i] = k + i
  BY <1>2
<1>8. E \in Seq(Nat) /\ Len(E) = e /\ \A i \in 1..e : E[i] = k + a + i
  <2> DEFINE z == k + a
  <2>1. z \in Nat
    BY <1>2
  <2> HIDE DEF z
  <2>2. \A i \in 1..e : z + i \in Nat
    BY <1>2, <2>1
  <2> DEFINE Q == [i \in 1..e |-> z + i]
  <2>3. Q \in Seq(Nat) /\ Len(Q) = e /\ \A i \in 1..e : Q[i] = z + i
    BY <1>2, <2>2
  <2> QED
    BY <2>3 DEF z
<1> HIDE DEF A, E, l
<1>9. \A i \in 1..a : A[i] \in 1..l
  BY <1>2, <1>7 DEF l
<1>10. \A i \in 1..e : E[i] \in 1..l
  BY <1>2, <1>8 DEF l
<1>11. \A x \in 1..k : x \in 1..l
  BY <1>2 DEF l
<1>12. /\ \A i \in 1..Len(b.adapted) : b.adapted[i] \in 1..l
       /\ \A i \in 1..Len(b.extended) : b.extended[i] \in 1..l
  BY <1>3, <1>11 DEF Owns
<1>13. ASSUME NEW s, s \in Seq(Nat), NEW t, t \in Seq(Nat), \A i \in 1..Len(s) : s[i] \in 1..l, \A i \in 1..Len(t) : t[i] \in 1..l
       PROVE  s \o t \in Seq(Nat) /\ \A i \in 1..Len(s \o t) : (s \o t)[i] \in 1..l
  <2> DEFINE w == s \o t
  <2>1. /\ w \in Seq(Nat) /\ Len(w) = Len(s) + Len(t)
        /\ \A i \in 1..Len(s) : w[i] = s[i]
        /\ \A i \in 1..Len(t) : w[Len(s) + i] = t[i]
    BY <1>13, ConcatIs
  <2>2. Len(s) \in Nat /\ Len(t) \in Nat
    BY <1>13
  <2> HIDE DEF w
  <2>3. ASSUME NEW i \in 1..Len(w) PROVE w[i] \in 1..l
    <3>1. CASE i \in 1..Len(s)
      BY <1>13, <2>1, <3>1
    <3>2. CASE i \notin 1..Len(s)
      <4>1. i - Len(s) \in 1..Len(t) /\ Len(s) + (i - Len(s)) = i
        BY <2>1, <2>2, <3>2
      <4>2. w[i] = t[i - Len(s)]
        BY <2>1, <4>1
      <4> QED
        BY <1>13, <4>1, <4>2
    <3> QED
      BY <3>1, <3>2
  <2>4. w \in Seq(Nat) /\ \A i \in 1..Len(w) : w[i] \in 1..l
    BY <2>1, <2>3
  <2> QED
    BY <2>4 DEF w
<1> DEFINE m == Meta(base, d)
<1>14. CASE d.skip_inheritance
  <2>1. m = [names |-> d.names, adapted |-> A, extended |-> E]
    BY <1>5, <1>14
  <2> HIDE DEF m
  <2>2. m \in ClassSet /\ m.adapted = A /\ m.extended = E
    BY <1>4, <1>7, <1>8, <2>1 DEF ClassSet
  <2>3. \A x : Owns(m, x) => x \in 1..l
    BY <1>7, <1>8, <1>9, <1>10, <2>2 DEF Owns
  <2> QED
    BY <2>2, <2>3 DEF MetaOf, l, k, a, e, m
<1>15. CASE ~d.skip_inheritance
  <2> DEFINE N == d.names \o b.names
             AB == A \o b.adapted
             EB == E \o b.extended
  <2>1. m = [names |-> N, adapted |-> AB, extended |-> EB]
    BY <1>5, <1>15
  <2>2. N \in Seq(AllNames)
    BY <1>4, <1>6, ConcatIs
  <2>3. AB \in Seq(Nat) /\ \A i \in 1..Len(AB) : AB[i] \in 1..l
    BY <1>6, <1>7, <1>9, <1>12, <1>13
  <2>4. EB \in Seq(Nat) /\ \A i \in 1..Len(EB) : EB[i] \in 1..l
    BY <1>6, <1>8, <1>10, <1>12, <1>13
  <2> HIDE DEF m, N, AB, EB
  <2>5. m \in ClassSet /\ m.adapted = AB /\ m.extended = EB
    BY <2>1, <2>2, <2>3, <2>4 DEF ClassSet
  <2>6. \A x : Owns(m, x) => x \in 1..l
    BY <2>3, <2>4, <2>5 DEF Owns
  <2> QED
    BY <2>5, <2>6 DEF MetaOf, l, k, a, e, m
<1> QED
  BY <1>14, <1>15

\* A class is declared.
LEMMA DeclareInv ==
    ASSUME PSObjectsInv, NEW base \in 1..Len(classes), NEW d \in Declarations, Declare(base, d)
    PROVE  PSObjectsInv' /\ Extends(props, props')
<1> DEFINE m == Meta(base, d)
           n == Len(classes)
           l == Len(props) + Len(d.adapted) + Len(d.extended)
<1>1. TypeInv /\ classes \in Seq(ClassSet) /\ n # 0 /\ n \in Nat /\ props \in Seq(Properties)
      /\ RegistryInv
  BY DEF PSObjectsInv, TypeInv
<1>2. MetaOf(m, l)
  BY <1>1, MetaIs
<1>3. /\ objects = <<>> /\ objects' = <<>> /\ props' = props \o d.adapted \o d.extended
      /\ classes' = Append(classes, m)
      /\ type_registry' = Registered(n + 1, m.names, d.rehydrate)
  BY DEF Declare
<1> HIDE DEF m
<1>4. d.adapted \in Seq(Properties) /\ d.extended \in Seq(Properties)
  BY PSObjectsAssumption
<1>5. /\ props' \in Seq(Properties) /\ Len(props') = l
      /\ \A x \in 1..Len(props) : props'[x] = props[x]
  <2> DEFINE s == props \o d.adapted
  <2>1. s \in Seq(Properties) /\ Len(s) = Len(props) + Len(d.adapted) /\ \A x \in 1..Len(props) : s[x] = props[x]
    BY <1>1, <1>4, ConcatIs
  <2> HIDE DEF s
  <2>2. /\ s \o d.extended \in Seq(Properties) /\ Len(s \o d.extended) = Len(s) + Len(d.extended)
        /\ \A x \in 1..Len(s) : (s \o d.extended)[x] = s[x]
    BY <1>4, <2>1, ConcatIs
  <2>3. props' = s \o d.extended
    BY <1>3 DEF s
  <2>4. Len(props) \in Nat /\ Len(d.adapted) \in Nat
    BY <1>1, <1>4
  <2>5. \A x \in 1..Len(props) : x \in 1..Len(s)
    BY <2>1, <2>4
  <2> QED
    BY <2>1, <2>2, <2>3, <2>5
<1>6. Len(props) \in Nat /\ Len(props) <= l /\ l \in Nat
  <2> DEFINE k == Len(props)
             a == Len(d.adapted)
             e == Len(d.extended)
  <2>1. k \in Nat /\ a \in Nat /\ e \in Nat
    BY <1>1, <1>4
  <2> HIDE DEF k, a, e
  <2>2. k <= k + a + e /\ k + a + e \in Nat
    BY <2>1
  <2> QED
    BY <2>1, <2>2 DEF k, a, e
<1>7. Extends(props, props')
  BY <1>5, <1>6 DEF Extends
<1> HIDE DEF l
<1>8. m \in ClassSet /\ \A x : Owns(m, x) => x \in 1..l
  BY <1>2 DEF MetaOf
<1>9. /\ classes' \in Seq(ClassSet) /\ Len(classes') = n + 1 /\ classes'[n + 1] = m
      /\ \A c \in 1..n : classes'[c] = classes[c]
  BY <1>1, <1>3, <1>8
<1> HIDE DEF n
<1>10. \A c \in 1..(n + 1) : c \in 1..n \/ c = n + 1
  BY <1>1
<1>11. \A c \in 1..n : \A x : Owns(classes[c], x) => x \in 1..Len(props)
  BY <1>1 DEF TypeInv, n
<1>12. \A x \in 1..Len(props) : x \in 1..l
  BY <1>6
<1>13. TypeInv'
  <2>1. \A c \in 1..Len(classes') : \A x : Owns(classes'[c], x) => x \in 1..Len(props')
    BY <1>5, <1>8, <1>9, <1>10, <1>11, <1>12
  <2>2. objects' \in Seq(ObjectSet) /\ 1..Len(objects') = {}
    BY <1>3
  <2>3. Len(classes') # 0
    BY <1>1, <1>9
  <2> QED
    BY <1>5, <1>9, <2>1, <2>2, <2>3 DEF TypeInv
<1>14. 1..Len(objects') = {}
  BY <1>3
<1>15. OwnInv' /\ NamesInv'
  BY <1>14 DEF OwnInv, NamesInv
<1>16. RegistryInv'
  <2> SUFFICES ASSUME NEW t \in DOMAIN type_registry'
               PROVE  /\ type_registry'[t] \in 2..Len(classes')
                      /\ classes'[type_registry'[t]].names # <<>> /\ classes'[type_registry'[t]].names[1] = t
    BY DEF RegistryInv
  <2>1. CASE type_registry' = type_registry
    <3>1. /\ type_registry[t] \in 2..n /\ classes[type_registry[t]].names # <<>>
          /\ classes[type_registry[t]].names[1] = t
      BY <1>1, <2>1 DEF RegistryInv, n
    <3>2. type_registry[t] \in 1..n /\ type_registry[t] \in 2..(n + 1)
      BY <1>1, <3>1
    <3> QED
      BY <1>9, <2>1, <3>1, <3>2
  <2>2. CASE m.names # <<>> /\ type_registry' = With(type_registry, m.names[1], n + 1)
    <3>1. CASE t = m.names[1]
      <4>1. type_registry'[t] = n + 1
        BY <2>2, <3>1 DEF With
      <4>2. n + 1 \in 2..(n + 1)
        BY <1>1
      <4> QED
        BY <1>9, <2>2, <3>1, <4>1, <4>2
    <3>2. CASE t # m.names[1]
      <4>1. t \in DOMAIN type_registry /\ type_registry'[t] = type_registry[t]
        BY <2>2, <3>2 DEF With
      <4>2. /\ type_registry[t] \in 2..n /\ classes[type_registry[t]].names # <<>>
            /\ classes[type_registry[t]].names[1] = t
        BY <1>1, <4>1 DEF RegistryInv, n
      <4>3. type_registry[t] \in 1..n /\ type_registry[t] \in 2..(n + 1)
        BY <1>1, <4>2
      <4> QED
        BY <1>9, <4>1, <4>2, <4>3
    <3> QED
      BY <3>1, <3>2
  <2> QED
    BY <1>3, <2>1, <2>2 DEF Registered
<1> QED
  BY <1>7, <1>13, <1>15, <1>16 DEF PSObjectsInv
-----------------------------------------------------------------------------
(* A copy of an object *)

\* q is four lists, one after the other.
Joined(q, s, t, u, w) ==
    /\ Len(q) = Len(s) + Len(t) + Len(u) + Len(w)
    /\ \A i \in 1..Len(s) : q[i] = s[i]
    /\ \A i \in 1..Len(t) : q[Len(s) + i] = t[i]
    /\ \A i \in 1..Len(u) : q[Len(s) + Len(t) + i] = u[i]
    /\ \A i \in 1..Len(w) : q[Len(s) + Len(t) + Len(u) + i] = w[i]

LEMMA JoinedIs ==
    ASSUME NEW X, NEW s \in Seq(X), NEW t \in Seq(X), NEW u \in Seq(X), NEW w \in Seq(X)
    PROVE  s \o t \o u \o w \in Seq(X) /\ Joined(s \o t \o u \o w, s, t, u, w)
<1> DEFINE y == s \o t
           z == y \o u
           q == z \o w
           a == Len(s)
           b == Len(t)
           c == Len(u)
           d == Len(w)
<1>1. a \in Nat /\ b \in Nat /\ c \in Nat /\ d \in Nat
  OBVIOUS
<1>2. /\ y \in Seq(X) /\ Len(y) = a + b
      /\ \A i \in 1..a : y[i] = s[i]
      /\ \A i \in 1..b : y[a + i] = t[i]
  BY ConcatIs
<1> HIDE DEF y
<1>3. /\ z \in Seq(X) /\ Len(z) = Len(y) + c
      /\ \A i \in 1..Len(y) : z[i] = y[i]
      /\ \A i \in 1..c : z[Len(y) + i] = u[i]
  <2>1. y \in Seq(X) /\ u \in Seq(X)
    BY <1>2
  <2> QED
    BY ONLY <2>1, ConcatIs
<1> HIDE DEF z
<1>4. /\ q \in Seq(X) /\ Len(q) = Len(z) + d
      /\ \A i \in 1..Len(z) : q[i] = z[i]
      /\ \A i \in 1..d : q[Len(z) + i] = w[i]
  <2>1. z \in Seq(X) /\ w \in Seq(X)
    BY <1>3
  <2> QED
    BY ONLY <2>1, ConcatIs
<1> HIDE DEF q, a, b, c, d
<1>5. \A i \in 1..a : i \in 1..Len(y) /\ i \in 1..Len(z)
  BY <1>1, <1>2, <1>3
<1>6. \A i \in 1..b : a + i \in 1..Len(y) /\ a + i \in 1..Len(z)
  BY <1>1, <1>2, <1>3
<1>7. \A i \in 1..c : Len(y) + i \in 1..Len(z) /\ Len(y) + i = a + b + i
  BY <1>1, <1>2, <1>3
<1>8. Len(z) = a + b + c /\ Len(q) = a + b + c + d
  BY <1>2, <1>3, <1>4
<1>9. \A i \in 1..a : q[i] = s[i]
  BY <1>2, <1>3, <1>4, <1>5
<1>10. \A i \in 1..b : q[a + i] = t[i]
  BY <1>2, <1>3, <1>4, <1>6
<1>11. \A i \in 1..c : q[a + b + i] = u[i]
  BY <1>3, <1>4, <1>7
<1>12. \A i \in 1..d : q[a + b + c + i] = w[i]
  BY <1>4, <1>8
<1>13. Joined(q, s, t, u, w)
  BY <1>8, <1>9, <1>10, <1>11, <1>12 DEF Joined, a, b, c, d
<1> QED
  BY <1>4, <1>13 DEF q, z, y

\* What a property reads.
LEMMA GetValueIs ==
    ASSUME TypeInv, NEW o \in 1..Len(objects), NEW x, Owns(objects[o], x)
    PROVE  GetValue(o, x) \in Values \union {"missing", "endless"}
<1> DEFINE h == objects[o]
           look == Lookup(props, h)
           p == props[x]
           none == Found("endless")
           f == Follow(look, p.target, Depth - 1, none)
<1>1. /\ IsMeta(h) /\ h.attrs \in Dicts /\ p \in Properties
      /\ \A y : Owns(h, y) => y \in 1..Len(props) /\ props[y] \in Properties
  BY Metas
<1>2. CASE p.kind = "note"
  <2>1. p.value \in Values
    BY <1>1, <1>2, PropertyIs
  <2> QED
    BY <1>2, <2>1 DEF GetValue
<1>3. CASE p.kind # "note"
  <2>1. p.target \in Names
    BY <1>1, <1>3, PropertyIs
  <2>2. Depth - 1 \in 0..Depth
    BY <2>1, DepthType
  <2>3. /\ LookOk(look)
        /\ \A m \in Names : look[m].is # "name" => look[m].value \in Values \union {"missing"}
    BY <1>1, LookupOk
  <2>4. GetValue(o, x) = f.value
    BY <1>3 DEF GetValue
  <2> HIDE DEF look, p, none
  <2>5. f = none \/ \E m \in Names : look[m].is # "name" /\ f = look[m]
    BY <2>1, <2>2, <2>3, FollowEnds
  <2> HIDE DEF f
  <2>6. none.value = "endless"
    BY DEF none, Found
  <2> QED
    BY <2>3, <2>4, <2>5, <2>6
<1> QED
  BY <1>2, <1>3

\* What is sent of a list.
SentOf(s, o, list) ==
    /\ s \in Seq(Properties) /\ Len(s) = Len(list)
    /\ \A i \in 1..Len(list) : s[i] = Note(props[list[i]].name, GetValue(o, list[i]))

LEMMA SentIs ==
    ASSUME TypeInv, NEW o \in 1..Len(objects), NEW list \in Seq(Nat),
           \A i \in 1..Len(list) : Owns(objects[o], list[i]) /\ IsRead(GetValue(o, list[i]))
    PROVE  SentOf(Sent(o, list), o, list)
<1> DEFINE F(i) == Note(props[list[i]].name, GetValue(o, list[i]))
           L == Len(list)
<1>1. L \in Nat /\ DOMAIN list = 1..L
  OBVIOUS
<1>2. ASSUME NEW i \in 1..L PROVE F(i) \in Properties
  <2>1. Owns(objects[o], list[i]) /\ props[list[i]] \in Properties
    BY Metas
  <2>2. props[list[i]].name \in Names
    BY <2>1, PropertyIs
  <2>3. GetValue(o, list[i]) \in Values
    BY <2>1, GetValueIs DEF IsRead
  <2> QED
    BY <2>2, <2>3 DEF Properties
<1>3. Sent(o, list) = [i \in 1..L |-> F(i)]
  BY <1>1 DEF Sent
<1> HIDE DEF F, L
<1> DEFINE s == [i \in 1..L |-> F(i)]
<1>4. s \in Seq(Properties) /\ Len(s) = L /\ \A i \in 1..L : s[i] = F(i)
  BY <1>1, <1>2
<1> HIDE DEF s
<1>5. SentOf(s, o, list)
  BY <1>4 DEF SentOf, F, L
<1> QED
  BY <1>3, <1>5 DEF s

\* b is a new object that the reader makes for type names.
BlankOf(b, names) ==
    /\ b \in ObjectSet /\ b.class \in 1..Len(classes) /\ ListsOf(b, classes[b.class], Len(props))
    /\ b.class = 1 \/ b.names = classes[b.class].names
    /\ \/ /\ names # <<>> /\ names[1] \in DOMAIN type_registry
          /\ b.class = type_registry[names[1]] /\ b.names = classes[b.class].names
       \/ /\ ~(names # <<>> /\ names[1] \in DOMAIN type_registry)
          /\ b.class = 1 /\ b.names = Deserialized(names)

LEMMA BlankIs ==
    ASSUME PSObjectsInv, NEW names \in Seq(AllNames)
    PROVE  BlankOf(Blank(names), names)
<1>1. TypeInv /\ RegistryInv /\ Len(classes) \in Nat /\ Len(classes) # 0 /\ Len(props) \in Nat
  BY DEF PSObjectsInv, TypeInv
<1> DEFINE k == Len(props)
<1>2. CASE names # <<>> /\ names[1] \in DOMAIN type_registry
  <2> DEFINE c == type_registry[names[1]]
             b == Instance(c, k)
  <2>1. c \in 1..Len(classes) /\ c \in Nat
    BY <1>1, <1>2 DEF RegistryInv
  <2>2. InstanceOf(b, classes[c], c, k)
    BY <1>1, <2>1, InstanceIs, Metas
  <2>3. Blank(names) = b
    BY <1>2 DEF Blank
  <2> HIDE DEF b
  <2>4. BlankOf(b, names)
    BY <1>2, <2>1, <2>2 DEF InstanceOf, BlankOf
  <2> QED
    BY <2>3, <2>4
<1>3. CASE ~(names # <<>> /\ names[1] \in DOMAIN type_registry)
  <2> DEFINE i == Instance(1, k)
             d == Deserialized(names)
             b == [i EXCEPT !.names = d]
  <2>1. 1 \in 1..Len(classes)
    BY <1>1
  <2>2. InstanceOf(i, classes[1], 1, k)
    BY <1>1, <2>1, InstanceIs, Metas
  <2>3. Blank(names) = b
    BY <1>3 DEF Blank
  <2>4. d \in Seq(AllNames)
    <3> DEFINE G(n) == <<names[n][1] + 1, names[n][2]>>
               L == Len(names)
    <3>1. L \in Nat /\ DOMAIN names = 1..L
      OBVIOUS
    <3>2. \A n \in 1..L : G(n) \in AllNames
      BY DEF AllNames
    <3>3. d = [n \in 1..L |-> G(n)]
      BY <3>1 DEF Deserialized
    <3> HIDE DEF G, L, d
    <3> QED
      BY <3>1, <3>2, <3>3
  <2> HIDE DEF i, d
  <2>5. /\ b \in ObjectSet /\ b.class = 1 /\ b.names = d /\ b.adapted = i.adapted
        /\ b.extended = i.extended /\ b.attrs = i.attrs
    BY <2>2, <2>4 DEF InstanceOf, ObjectSet
  <2> HIDE DEF b
  <2>6. ListsOf(b, classes[1], k)
    BY <2>2, <2>5 DEF InstanceOf, ListsOf, Listed
  <2>7. BlankOf(b, names)
    BY <1>3, <2>1, <2>5, <2>6 DEF BlankOf, d
  <2> QED
    BY <2>3, <2>7
<1> QED
  BY <1>2, <1>3

\* g is the copy of o, made of the blank object b and what is sent, behind the first k
\* properties.
RemoteOf(o, b, g, k) ==
    LET h == objects[o]
        c == classes[b.class]
        a == Len(h.adapted)
        e == Len(h.extended)
    IN  /\ BlankOf(b, h.names) /\ b = Blank(h.names) /\ k \in Nat /\ IsMeta(g)
        /\ g.class = b.class /\ g.names = b.names /\ DOMAIN g.attrs = {}
        /\ MergedInto(props', b.adapted, k, a, g.adapted)
        /\ MergedInto(props', b.extended, k + a, e, g.extended)
        /\ \A i \in 1..a : props'[k + i] = Note(props[h.adapted[i]].name, GetValue(o, h.adapted[i]))
        /\ \A i \in 1..e :
              props'[k + a + i] = Note(props[h.extended[i]].name, GetValue(o, h.extended[i]))
        /\ \A i \in 1..Len(c.extended) : props'[b.extended[i]] = props[c.extended[i]]

\* Remote makes it.
LEMMA RemoteMakes ==
    ASSUME PSObjectsInv, NEW o \in 1..Len(objects), Remote(o)
    PROVE  \E b, g, k : MadeFrom(g) /\ RemoteOf(o, b, g, k)
<1> DEFINE h == objects[o]
           b == Blank(h.names)
           c == classes[b.class]
           l == Len(props)
           n == Len(Listed(b))
           k == l + n
           a == Len(h.adapted)
           e == Len(h.extended)
           new == Copies(Listed(c))
           sa == Sent(o, h.adapted)
           se == Sent(o, h.extended)
           A == Merged(props', b.adapted, k, a)
           E == Merged(props', b.extended, k + a, e)
           g == [b EXCEPT !.adapted = A, !.extended = E]
<1>1. TypeInv /\ props \in Seq(Properties) /\ l \in Nat
  BY DEF PSObjectsInv, TypeInv
<1>2. /\ h \in ObjectSet /\ IsMeta(h) /\ \A x : Owns(h, x) => x \in 1..Len(props)
  BY <1>1, Metas
<1>3. h.names \in Seq(AllNames) /\ h.adapted \in Seq(Nat) /\ h.extended \in Seq(Nat)
  BY <1>2 DEF ObjectSet
<1>4. BlankOf(b, h.names)
  BY <1>3, BlankIs
<1>5. b.class \in 1..Len(classes) /\ ListsOf(b, c, l) /\ b \in ObjectSet
  BY <1>4 DEF BlankOf
<1>6. c \in ClassSet /\ IsMeta(c) /\ \A x : Owns(c, x) => x \in 1..Len(props)
  BY <1>1, <1>5, Metas
<1>7. /\ \A i \in Range(Listed(h)) : IsRead(GetValue(o, i))
      /\ props' = props \o new \o sa \o se
      /\ objects' = Append(objects, [b EXCEPT !.adapted = Merged(props', @, k, a),
                                              !.extended = Merged(props', @, k + a, e)])
      /\ classes' = classes /\ type_registry' = type_registry
  BY DEF Remote
<1>8. \A x : Owns(h, x) => IsRead(GetValue(o, x))
  BY <1>2, <1>7, ListedIn
<1>9. SentOf(sa, o, h.adapted)
  <2>1. \A i \in 1..Len(h.adapted) : Owns(h, h.adapted[i])
    BY DEF Owns
  <2> QED
    BY <1>1, <1>3, <1>8, <2>1, SentIs
<1>10. SentOf(se, o, h.extended)
  <2>1. \A i \in 1..Len(h.extended) : Owns(h, h.extended[i])
    BY DEF Owns
  <2> QED
    BY <1>1, <1>3, <1>8, <2>1, SentIs
<1>11. new \in Seq(Properties) /\ Len(new) = Len(Listed(c))
  BY <1>1, <1>6, ListedIn, CopiesIs
<1>12. sa \in Seq(Properties) /\ Len(sa) = a /\ se \in Seq(Properties) /\ Len(se) = e
  BY <1>9, <1>10 DEF SentOf
<1>13. objects' = Append(objects, g)
  BY <1>7
<1> HIDE DEF g, A, E, new, sa, se
<1>14. props' \in Seq(Properties) /\ Joined(props', props, new, sa, se)
  BY <1>1, <1>7, <1>11, <1>12, JoinedIs
<1>15. n = Len(new)
  BY <1>5, <1>11 DEF ListsOf
<1>16. /\ Len(props') = l + n + a + e
       /\ \A i \in 1..l : props'[i] = props[i]
       /\ \A i \in 1..n : props'[l + i] = new[i]
       /\ \A i \in 1..a : props'[l + n + i] = sa[i]
       /\ \A i \in 1..e : props'[l + n + a + i] = se[i]
  BY <1>12, <1>14, <1>15 DEF Joined
<1>17. n \in Nat /\ a \in Nat /\ e \in Nat
  BY <1>3, <1>11, <1>15
<1>18. b.adapted \in Seq(Nat) /\ b.extended \in Seq(Nat)
  BY <1>5 DEF ListsOf
<1> DEFINE ca == Len(c.adapted)
           ce == Len(c.extended)
<1>19. /\ ca \in Nat /\ ce \in Nat /\ n = ca + ce /\ Len(b.adapted) = ca /\ Len(b.extended) = ce
       /\ \A i \in 1..ca : b.adapted[i] = l + i
       /\ \A i \in 1..ce : b.extended[i] = l + ca + i
  <2>1. ListsOf(b, c, l) /\ c.adapted \in Seq(Nat) /\ c.extended \in Seq(Nat)
    BY <1>5, <1>6 DEF IsMeta
  <2> HIDE DEF b, c, l
  <2>2. ca \in Nat /\ ce \in Nat
    BY <2>1
  <2>3. /\ n = ca + ce /\ Len(b.adapted) = ca /\ Len(b.extended) = ce
        /\ \A i \in 1..ca : b.adapted[i] = l + i
        /\ \A i \in 1..ce : b.extended[i] = l + ca + i
    BY <2>1 DEF ListsOf
  <2> QED
    BY <2>2, <2>3
<1> HIDE DEF h, b, c, l, n, a, e, ca, ce
<1>20. k \in Nat /\ k + a \in Nat
  BY <1>1, <1>17
<1>21. MergedInto(props', b.adapted, k, a, A)
  BY <1>17, <1>18, <1>20, MergedIs DEF A
<1>22. MergedInto(props', b.extended, k + a, e, E)
  BY <1>17, <1>18, <1>20, MergedIs DEF E
<1>23. A \in Seq(Nat) /\ E \in Seq(Nat)
  BY <1>21, <1>22 DEF MergedInto
<1>24. /\ g \in ObjectSet /\ g.class = b.class /\ g.names = b.names /\ g.attrs = b.attrs
       /\ g.adapted = A /\ g.extended = E
  BY <1>5, <1>23 DEF g, ObjectSet
<1>25. IsMeta(g)
  BY <1>23, <1>24 DEF IsMeta
<1>26. DOMAIN g.attrs = {}
  BY <1>5, <1>24 DEF ListsOf
<1>27. \A i \in 1..a : props'[k + i] = Note(props[h.adapted[i]].name, GetValue(o, h.adapted[i]))
  BY <1>9, <1>16 DEF SentOf, a
<1>28. \A i \in 1..e : props'[k + a + i] = Note(props[h.extended[i]].name, GetValue(o, h.extended[i]))
  BY <1>10, <1>16 DEF SentOf, e
<1>29. \A i \in 1..ce : props'[b.extended[i]] = props[c.extended[i]]
  <2> SUFFICES ASSUME NEW i \in 1..ce PROVE props'[b.extended[i]] = props[c.extended[i]]
    OBVIOUS
  <2>1. ca + i \in 1..n /\ b.extended[i] = l + (ca + i)
    BY <1>1, <1>19
  <2>2. props'[b.extended[i]] = new[ca + i]
    BY <1>16, <2>1
  <2>3. /\ Listed(c)[ca + i] = c.extended[i] /\ Listed(c) \in Seq(Nat) /\ Len(Listed(c)) = n
    <3>1. c.adapted \in Seq(Nat) /\ c.extended \in Seq(Nat)
      BY <1>6 DEF IsMeta
    <3> DEFINE s == c.adapted
               t == c.extended
    <3> HIDE DEF s, t
    <3>2. s \in Seq(Nat) /\ t \in Seq(Nat)
      BY <3>1 DEF s, t
    <3>3. s \o t \in Seq(Nat) /\ Len(s \o t) = Len(s) + Len(t) /\ \A j \in 1..Len(t) : (s \o t)[Len(s) + j] = t[j]
      BY ONLY <3>2, ConcatIs
    <3>4. Listed(c) = s \o t
      BY DEF Listed, s, t
    <3> QED
      BY <1>19, <3>3, <3>4 DEF s, t, ca, ce
  <2>4. new[ca + i] = props[Listed(c)[ca + i]]
    <3>1. ca + i \in DOMAIN Listed(c)
      BY <2>1, <2>3
    <3> QED
      BY <3>1 DEF new, Copies
  <2> QED
    BY <2>2, <2>3, <2>4
<1>30. RemoteOf(o, b, g, k)
  BY <1>4, <1>20, <1>21, <1>22, <1>24, <1>25, <1>26, <1>27, <1>28, <1>29
     DEF RemoteOf, h, b, c, a, e, ce
<1>31. MadeFrom(g)
  <2>1. Extends(props, props')
    <3>1. l <= Len(props')
      BY <1>1, <1>16, <1>17
    <3> QED
      BY <1>16, <3>1 DEF Extends, l
  <2> DEFINE z == Len(props')
  <2>2. z = l + n + a + e
    BY <1>16
  <2> HIDE DEF z
  <2> DEFINE In(x) == x \in 1..z /\ x \notin 1..l
  <2>3. ASSUME NEW i \in 1..a PROVE In(k + i)
    BY <1>1, <1>17, <2>2
  <2>4. ASSUME NEW i \in 1..e PROVE In(k + a + i)
    BY <1>1, <1>17, <2>2
  <2>5. ASSUME NEW j \in 1..ca PROVE In(l + j)
    BY <1>1, <1>17, <1>19, <2>2
  <2>6. ASSUME NEW j \in 1..ce PROVE In(l + ca + j)
    BY <1>1, <1>17, <1>19, <2>2
  <2> HIDE DEF In, k
  <2>7. \A i \in 1..Len(A) : In(A[i])
    <3>1. \A i \in 1..Len(A) : \/ \E x \in 1..a : A[i] = k + x
                               \/ \E j \in 1..ca : A[i] = b.adapted[j]
      BY <1>19, <1>21 DEF MergedInto
    <3> QED
      BY <1>19, <2>3, <2>5, <3>1
  <2>8. \A i \in 1..Len(E) : In(E[i])
    <3>1. \A i \in 1..Len(E) : \/ \E x \in 1..e : E[i] = k + a + x
                               \/ \E j \in 1..ce : E[i] = b.extended[j]
      BY <1>19, <1>22 DEF MergedInto
    <3> QED
      BY <1>19, <2>4, <2>6, <3>1
  <2>9. \A x : Owns(g, x) => In(x)
    BY <1>24, <2>7, <2>8 DEF Owns
  <2>10. g.class \in 1..Len(classes) /\ (g.class = 1 \/ g.names = classes[g.class].names)
    BY <1>4, <1>24 DEF BlankOf
  <2> QED
    BY <1>7, <1>13, <1>14, <1>24, <2>1, <2>9, <2>10 DEF MadeFrom, In, z, l
<1> QED
  BY <1>30, <1>31
-----------------------------------------------------------------------------
(* Every step *)

\* The domains of classes and objects.
LEMMA Domains ==
    ASSUME TypeInv
    PROVE  /\ DOMAIN classes = 1..Len(classes) /\ Len(classes) \in Nat
           /\ DOMAIN objects = 1..Len(objects) /\ Len(objects) \in Nat
           /\ DOMAIN props = 1..Len(props) /\ Len(props) \in Nat
BY DEF TypeInv

\* A step makes an object, changes one, or is one on classes.
LEMMA NextInv == PSObjectsInv /\ [Next]_vars => PSObjectsInv'
<1> SUFFICES ASSUME PSObjectsInv, [Next]_vars PROVE PSObjectsInv'
  OBVIOUS
<1>1. DOMAIN classes = 1..Len(classes) /\ DOMAIN objects = 1..Len(objects)
  BY Domains DEF PSObjectsInv
<1>2. ASSUME NEW base \in DOMAIN classes, NEW d \in Declarations, Declare(base, d) PROVE PSObjectsInv'
  BY <1>1, <1>2, DeclareInv
<1>3. ASSUME NEW c \in DOMAIN classes, New(c) PROVE PSObjectsInv'
  BY <1>1, <1>3, NewMakes, MadeFromInv
<1>4. ASSUME NEW c \in DOMAIN classes, NEW p \in Members, NEW force \in BOOLEAN, AddToClass(c, p, force)
      PROVE  PSObjectsInv'
  BY <1>1, <1>4, AddToClassInv
<1>5. ASSUME NEW o \in DOMAIN objects, NEW p \in Members, NEW force \in BOOLEAN, AddToObject(o, p, force)
      PROVE  PSObjectsInv'
  BY <1>1, <1>5, AddToObjectChanges, ChangedToInv
<1>6. ASSUME NEW o \in DOMAIN objects, NEW n \in Names, NEW v \in Values, SetAttr(o, n, v)
      PROVE  PSObjectsInv'
  BY <1>1, <1>6, SetAttrInv
<1>7. ASSUME NEW o \in DOMAIN objects, Remote(o) PROVE PSObjectsInv'
  BY <1>1, <1>7, RemoteMakes, MadeFromInv
<1>8. ASSUME UNCHANGED vars PROVE PSObjectsInv'
  BY <1>8 DEF vars, PSObjectsInv, TypeInv, OwnInv, RegistryInv, NamesInv
<1> QED
  BY <1>2, <1>3, <1>4, <1>5, <1>6, <1>7, <1>8 DEF Next

\* The lists of a class and an object refer to properties there are, no object shares a
\* property with another object or a class, a registered class has the type name first
\* that it is registered for, and an object has the type names of its class or is a
\* PSObject (PSType, PSObject and TypeRegistry).
THEOREM ObjectsAgree == Spec => []PSObjectsInv
<1> QED
  BY InitInv, NextInv, PTL DEF Spec
-----------------------------------------------------------------------------
(* OneChanges *)

\* What one changed step may change.
Changes ==
    {<<"object", o>> : o \in {x \in DOMAIN objects : Reading(x)' # Reading(x)}}
        \union {<<"class", c>> : c \in {x \in DOMAIN classes : Definition(x)' # Definition(x)}}

\* At most one thing changes.
LEMMA OneThing ==
    ASSUME NEW t, Changes \subseteq {t}
    PROVE  Cardinality(Changes) <= 1
<1> DEFINE S == Changes
<1> HIDE DEF S
<1>1. IsFiniteSet({t}) /\ Cardinality({t}) = 1
  BY FS_Singleton
<1>2. S \subseteq {t}
  BY DEF S
<1>3. IsFiniteSet(S) /\ Cardinality(S) <= Cardinality({t})
  BY <1>1, <1>2, FS_Subset
<1> QED
  BY <1>1, <1>3 DEF S

\* An object whose properties are the same leads to the same.
LEMMA ReadingSame ==
    ASSUME TypeInv, NEW o \in 1..Len(objects), objects'[o] = objects[o],
           \A x : Owns(objects[o], x) => props'[x] = props[x]
    PROVE  Reading(o)' = Reading(o)
<1>1. IsMeta(objects[o])
  BY Metas
<1>2. Lookup(props, objects[o]) = Lookup(props', objects[o])
  BY <1>1, LookupSame
<1>3. Reading(o)' = Lookup(props', objects'[o])
  BY DEF Reading
<1> QED
  BY <1>2, <1>3 DEF Reading

\* New objects have the same of a class whose properties are the same.
LEMMA DefinitionSame ==
    ASSUME TypeInv, NEW c \in 1..Len(classes), classes'[c] = classes[c],
           \A x : Owns(classes[c], x) => props'[x] = props[x]
    PROVE  Definition(c)' = Definition(c)
<1> DEFINE h == classes[c]
<1>1. h.adapted \in Seq(Nat) /\ h.extended \in Seq(Nat)
  BY Metas DEF IsMeta
<1>2. /\ DOMAIN h.adapted = 1..Len(h.adapted) /\ DOMAIN h.extended = 1..Len(h.extended)
  BY <1>1
<1>3. /\ \A i \in DOMAIN h.adapted : props'[h.adapted[i]] = props[h.adapted[i]]
      /\ \A i \in DOMAIN h.extended : props'[h.extended[i]] = props[h.extended[i]]
  BY <1>2 DEF Owns
<1>4. /\ Copies(h.adapted)' = [i \in DOMAIN h.adapted |-> props'[h.adapted[i]]]
      /\ Copies(h.extended)' = [i \in DOMAIN h.extended |-> props'[h.extended[i]]]
  BY DEF Copies
<1> QED
  BY <1>3, <1>4 DEF Copies, Definition

\* All but t have the properties that they had.
AllKept(t) ==
    /\ \A o \in 1..Len(objects) : <<"object", o>> # t =>
          objects'[o] = objects[o] /\ \A x : Owns(objects[o], x) => props'[x] = props[x]
    /\ \A c \in 1..Len(classes) : <<"class", c>> # t =>
          classes'[c] = classes[c] /\ \A x : Owns(classes[c], x) => props'[x] = props[x]

\* At most t changes then.
LEMMA KeptChanges ==
    ASSUME TypeInv, NEW t, AllKept(t)
    PROVE  Cardinality(Changes) <= 1
<1>1. ASSUME NEW o \in DOMAIN objects, Reading(o)' # Reading(o) PROVE <<"object", o>> = t
  <2>1. o \in 1..Len(objects)
    BY Domains
  <2> QED
    BY <1>1, <2>1, ReadingSame DEF AllKept
<1>2. ASSUME NEW c \in DOMAIN classes, Definition(c)' # Definition(c) PROVE <<"class", c>> = t
  <2>1. c \in 1..Len(classes)
    BY Domains
  <2> QED
    BY <1>2, <2>1, DefinitionSame DEF AllKept
<1>3. Changes \subseteq {t}
  BY <1>1, <1>2 DEF Changes
<1> QED
  BY <1>3, OneThing

\* What there was keeps its properties when there are more.
LEMMA ExtendsKeeps ==
    ASSUME TypeInv, Extends(props, props')
    PROVE  /\ \A o \in 1..Len(objects) : \A x : Owns(objects[o], x) => props'[x] = props[x]
           /\ \A c \in 1..Len(classes) : \A x : Owns(classes[c], x) => props'[x] = props[x]
BY DEF TypeInv, Extends

\* A new object changes none.
LEMMA MadeFromKeeps ==
    ASSUME TypeInv, NEW h, MadeFrom(h)
    PROVE  AllKept("none")
<1>1. objects \in Seq(ObjectSet)
  BY DEF TypeInv
<1>2. \A o \in 1..Len(objects) : objects'[o] = objects[o]
  BY <1>1 DEF MadeFrom
<1>3. classes' = classes /\ Extends(props, props')
  BY DEF MadeFrom
<1> QED
  BY <1>2, <1>3, ExtendsKeeps DEF AllKept

\* A step changes one class or object, or none.
LEMMA OneStep ==
    ASSUME PSObjectsInv, [Next]_vars
    PROVE  Cardinality(Changes) <= 1
<1>1. TypeInv /\ OwnInv /\ classes \in Seq(ClassSet) /\ objects \in Seq(ObjectSet)
  BY DEF PSObjectsInv, TypeInv
<1>2. DOMAIN classes = 1..Len(classes) /\ DOMAIN objects = 1..Len(objects)
  BY <1>1, Domains
<1>3. ASSUME NEW base \in DOMAIN classes, NEW d \in Declarations, Declare(base, d)
      PROVE  AllKept("none")
  <2>1. Extends(props, props')
    BY <1>2, <1>3, DeclareInv
  <2>2. objects = <<>> /\ classes' = Append(classes, Meta(base, d))
    BY <1>3 DEF Declare
  <2>3. 1..Len(objects) = {} /\ \A c \in 1..Len(classes) : classes'[c] = classes[c]
    BY <1>1, <2>2
  <2> QED
    BY <1>1, <2>1, <2>3, ExtendsKeeps DEF AllKept
<1>4. ASSUME NEW c \in DOMAIN classes, New(c) PROVE AllKept("none")
  BY <1>1, <1>2, <1>4, NewMakes, MadeFromKeeps
<1>5. ASSUME NEW c \in DOMAIN classes, NEW p \in Members, NEW force \in BOOLEAN, AddToClass(c, p, force)
      PROVE  AllKept(<<"class", c>>)
  <2>1. Extends(props, props')
    BY <1>1, <1>5, AddProps DEF AddToClass
  <2>2. objects' = objects /\ \A d \in 1..Len(classes) : d # c => classes'[d] = classes[d]
    BY <1>1, <1>5 DEF AddToClass
  <2> QED
    BY <1>1, <2>1, <2>2, ExtendsKeeps DEF AllKept
<1>6. ASSUME NEW o \in DOMAIN objects, NEW p \in Members, NEW force \in BOOLEAN, AddToObject(o, p, force)
      PROVE  AllKept(<<"object", o>>)
  <2>1. Extends(props, props') /\ ChangedTo(o, objects'[o])
    BY <1>2, <1>6, AddToObjectChanges
  <2>2. classes' = classes /\ \A q \in 1..Len(objects) : q # o => objects'[q] = objects[q]
    BY <1>1, <2>1 DEF ChangedTo
  <2> QED
    BY <1>1, <2>1, <2>2, ExtendsKeeps DEF AllKept
<1>7. ASSUME NEW o \in DOMAIN objects, NEW n \in Names, NEW v \in Values, SetAttr(o, n, v)
      PROVE  AllKept(<<"object", o>>)
  <2>1. SetThere(o, n, v)
    BY <1>2, <1>7, SetAttrIs
  <2>2. ASSUME NEW m, AttrSet(o, m, v) PROVE AllKept(<<"object", o>>)
    <3>1. props' = props /\ classes' = classes /\ \A q \in 1..Len(objects) : q # o => objects'[q] = objects[q]
      BY <1>1, <2>2 DEF AttrSet, ChangedTo
    <3> QED
      BY <3>1 DEF AllKept
  <2>3. ASSUME NEW x, PropSet(o, x, v) PROVE AllKept(<<"object", o>>)
    <3>1. /\ Owns(objects[o], x) /\ objects' = objects /\ classes' = classes
          /\ \A y \in 1..Len(props) : y # x => props'[y] = props[y]
      BY <2>3 DEF PropSet
    <3>2. ASSUME NEW q \in 1..Len(objects), q # o, NEW y, Owns(objects[q], y) PROVE props'[y] = props[y]
      <4>1. y # x
        BY <1>1, <1>2, <3>1, <3>2 DEF OwnInv
      <4>2. y \in 1..Len(props)
        BY <1>1, <3>2 DEF TypeInv
      <4> QED
        BY <3>1, <4>1, <4>2
    <3>3. ASSUME NEW c \in 1..Len(classes), NEW y, Owns(classes[c], y) PROVE props'[y] = props[y]
      <4>1. y # x
        BY <1>1, <1>2, <3>1, <3>3 DEF OwnInv
      <4>2. y \in 1..Len(props)
        BY <1>1, <3>3 DEF TypeInv
      <4> QED
        BY <3>1, <4>1, <4>2
    <3> QED
      BY <3>1, <3>2, <3>3 DEF AllKept
  <2> QED
    BY <2>1, <2>2, <2>3 DEF SetThere
<1>8. ASSUME NEW o \in DOMAIN objects, Remote(o) PROVE AllKept("none")
  BY <1>1, <1>2, <1>8, RemoteMakes, MadeFromKeeps
<1>9. ASSUME UNCHANGED vars PROVE AllKept("none")
  BY <1>9 DEF vars, AllKept
<1>10. \E t : AllKept(t)
  BY <1>3, <1>4, <1>5, <1>6, <1>7, <1>8, <1>9 DEF Next
<1> QED
  BY <1>1, <1>10, KeptChanges

\* No step on an object or a class changes what names lead to in another object, or what
\* new objects of another class have: every object has copies of the properties of its
\* class (set_instance), and a class has lists of its own (PSType).
THEOREM OthersAreKept == Spec => OneChanges
<1>1. PSObjectsInv /\ [Next]_vars
      => [Cardinality({<<"object", o>> : o \in {x \in DOMAIN objects : Reading(x)' # Reading(x)}}
            \union {<<"class", c>> : c \in {x \in DOMAIN classes : Definition(x)' # Definition(x)}}) <= 1]_vars
  BY OneStep DEF Changes
<1> QED
  BY <1>1, ObjectsAgree, PTL DEF Spec, OneChanges
-----------------------------------------------------------------------------
(* KindKept *)

\* A type name keeps its class.
LEMMA RegistryKept ==
    ASSUME PSObjectsInv, [Next]_vars, NEW t \in DOMAIN type_registry
    PROVE  type_registry'[t] = type_registry[t]
<1>1. ASSUME NEW base, NEW d, Declare(base, d) PROVE type_registry'[t] = type_registry[t]
  <2> DEFINE m == Meta(base, d)
  <2>1. type_registry' = Registered(Len(classes) + 1, m.names, d.rehydrate)
    BY <1>1 DEF Declare
  <2> HIDE DEF m
  <2>2. CASE m.names[1] \notin DOMAIN type_registry /\ type_registry' = With(type_registry, m.names[1], Len(classes) + 1)
    BY <2>2 DEF With
  <2> QED
    BY <2>1, <2>2 DEF Registered
<1>2. (\E base, d : Declare(base, d)) \/ type_registry' = type_registry
  BY DEF Next, New, AddToClass, AddToObject, Add, SetAttr, Remote, vars
<1> QED
  BY <1>1, <1>2

\* A name that is sent is that of the last property that is sent with it, one that is
\* not sent keeps its own.
LEMMA SentLast ==
    ASSUME NEW ps, NEW qs, NEW list \in Seq(Nat), NEW k \in Nat, NEW old, NEW new,
           MergedInto(qs, old, k, Len(list), new),
           \A i \in 1..Len(list) : qs[k + i].name = ps[list[i]].name, NEW n
    PROVE  /\ \A i : IsLast(ps, list, n, i) => LastOf(qs, new, n, k + i)
           /\ ~Has(ps, list, n) => \A y : (LastOf(qs, new, n, y) <=> LastOf(qs, old, n, y))
<1> DEFINE l == Len(list)
<1>1. l \in Nat /\ DOMAIN list = 1..l
  OBVIOUS
<1>2. \A i \in 1..l : qs[k + i].name = ps[list[i]].name
  OBVIOUS
<1>3. /\ \A x \in 1..l : (\A y \in (x + 1)..l : qs[k + y].name # qs[k + x].name)
                             => LastOf(qs, new, qs[k + x].name, k + x)
      /\ \A m, y : (\A x \in 1..l : qs[k + x].name # m)
                       => (LastOf(qs, new, m, y) <=> LastOf(qs, old, m, y))
  BY DEF MergedInto
<1>4. ASSUME NEW i, IsLast(ps, list, n, i) PROVE LastOf(qs, new, n, k + i)
  <2>1. i \in 1..l /\ ps[list[i]].name = n /\ \A j \in 1..l : ps[list[j]].name = n => j <= i
    BY <1>4 DEF IsLast
  <2> HIDE DEF l
  <2>2. \A y \in (i + 1)..l : y \in 1..l /\ ~(y <= i)
    BY <1>1, <2>1
  <2>3. qs[k + i].name = n
    BY <1>2, <2>1
  <2>4. \A y \in (i + 1)..l : qs[k + y].name # n
    BY <1>2, <2>1, <2>2
  <2> QED
    BY <1>3, <2>1, <2>3, <2>4
<1>5. ASSUME ~Has(ps, list, n) PROVE \A x \in 1..l : qs[k + x].name # n
  BY <1>1, <1>2, <1>5 DEF Has
<1> QED
  BY <1>3, <1>4, <1>5

\* A list and what is made of it have the names of the list.
NamesIn(ps, list, qs, new) ==
    {ps[list[i]].name : i \in DOMAIN list} \subseteq {qs[new[i]].name : i \in DOMAIN new}

LEMMA NamesSent ==
    ASSUME NEW ps, NEW qs, NEW list \in Seq(Nat), NEW k \in Nat, NEW old, NEW new,
           MergedInto(qs, old, k, Len(list), new),
           \A i \in 1..Len(list) : qs[k + i].name = ps[list[i]].name
    PROVE  NamesIn(ps, list, qs, new)
<1> SUFFICES ASSUME NEW i \in DOMAIN list
             PROVE  \E j \in DOMAIN new : qs[new[j]].name = ps[list[i]].name
  BY DEF NamesIn
<1> DEFINE n == ps[list[i]].name
<1>1. Has(ps, list, n)
  BY DEF Has
<1>2. IsLast(ps, list, n, LastAt(ps, list, n))
  BY <1>1, LastIs
<1>3. LastOf(qs, new, n, k + LastAt(ps, list, n))
  <2> HIDE DEF n
  <2> QED
    BY <1>2, SentLast
<1>4. new \in Seq(Nat)
  BY DEF MergedInto
<1>5. DOMAIN new = 1..Len(new)
  BY <1>4
<1> QED
  BY <1>3, <1>5 DEF LastOf, IsLast

\* The copy of an object is the one that is added.
LEMMA CopyIs ==
    ASSUME TypeInv, NEW g, MadeFrom(g), NEW copy \in DOMAIN objects' \ DOMAIN objects
    PROVE  objects'[copy] = g
<1>1. objects \in Seq(ObjectSet) /\ objects' = Append(objects, g)
  BY DEF TypeInv, MadeFrom
<1>2. copy = Len(objects) + 1
  BY <1>1
<1> QED
  BY <1>1, <1>2

\* What is kept of an object in its copy.
KeptIn(o, c) ==
    /\ \/ c.class = objects[o].class /\ c.names = objects[o].names
       \/ c.class = 1 /\ c.names = Deserialized(objects[o].names)
       \/ objects[o].class \notin Range(type_registry)
    /\ NamesIn(props, objects[o].adapted, props', c.adapted)
    /\ NamesIn(props, objects[o].extended, props', c.extended)

LEMMA RemoteKeeps ==
    ASSUME PSObjectsInv, NEW o \in 1..Len(objects), NEW b, NEW g, NEW k, RemoteOf(o, b, g, k)
    PROVE  KeptIn(o, g)
<1> DEFINE h == objects[o]
<1>1. TypeInv /\ RegistryInv /\ NamesInv
  BY DEF PSObjectsInv
<1>2. h.adapted \in Seq(Nat) /\ h.extended \in Seq(Nat)
  BY <1>1, Metas DEF IsMeta
<1>3. BlankOf(b, h.names) /\ g.class = b.class /\ g.names = b.names /\ k \in Nat
  BY DEF RemoteOf
<1>4. ASSUME h.class \in Range(type_registry) PROVE g.class = h.class /\ g.names = h.names
  <2>1. PICK t \in DOMAIN type_registry : h.class = type_registry[t]
    BY <1>4 DEF Range
  <2>2. h.class \in 2..Len(classes) /\ classes[h.class].names # <<>> /\ classes[h.class].names[1] = t
    BY <1>1, <2>1 DEF RegistryInv
  <2>3. h.names = classes[h.class].names
    BY <1>1, <2>2 DEF NamesInv
  <2>4. h.names # <<>> /\ h.names[1] = t
    BY <2>2, <2>3
  <2>5. b.class = type_registry[h.names[1]] /\ b.names = classes[b.class].names
    BY <1>3, <2>1, <2>4 DEF BlankOf
  <2> QED
    BY <1>3, <2>1, <2>3, <2>4, <2>5
<1> DEFINE a == Len(h.adapted)
           e == Len(h.extended)
<1>5. MergedInto(props', b.adapted, k, a, g.adapted) /\ MergedInto(props', b.extended, k + a, e, g.extended)
  BY DEF RemoteOf
<1>6. \A i \in 1..a : props'[k + i].name = props[h.adapted[i]].name
  <2>1. \A i \in 1..a : props'[k + i] = Note(props[h.adapted[i]].name, GetValue(o, h.adapted[i]))
    BY DEF RemoteOf
  <2>2. \A n, v : Note(n, v).name = n
    BY DEF Note
  <2> HIDE DEF a, e, h
  <2> QED
    BY <2>1, <2>2
<1>7. \A i \in 1..e : props'[k + a + i].name = props[h.extended[i]].name
  <2>1. \A i \in 1..e :
           props'[k + a + i] = Note(props[h.extended[i]].name, GetValue(o, h.extended[i]))
    BY DEF RemoteOf
  <2>2. \A n, v : Note(n, v).name = n
    BY DEF Note
  <2> HIDE DEF a, e, h
  <2> QED
    BY <2>1, <2>2
<1>8. k + a \in Nat
  BY <1>2, <1>3
<1>9. NamesIn(props, h.adapted, props', g.adapted)
  BY <1>2, <1>3, <1>5, <1>6, NamesSent
<1>10. NamesIn(props, h.extended, props', g.extended)
  <2> DEFINE z == k + a
  <2> HIDE DEF z
  <2>1. /\ z \in Nat /\ MergedInto(props', b.extended, z, Len(h.extended), g.extended)
        /\ \A i \in 1..Len(h.extended) : props'[z + i].name = props[h.extended[i]].name
    BY <1>5, <1>7, <1>8 DEF z
  <2> QED
    BY <1>2, <2>1, NamesSent
<1> QED
  BY <1>4, <1>9, <1>10 DEF KeptIn

\* The class of a type name stays the same whatever is declared later, an object of such
\* a class is read as one, any other as a PSObject with the Deserialized names, and every
\* property that it is sent with is read into the list it was in (TypeRegistry,
\* _deserialize_obj).
THEOREM KindsAreKept == Spec => KindKept
<1> DEFINE Kind(o, copy) ==
               LET h == objects[o]
                   c == objects'[copy]
               IN  /\ \/ c.class = h.class /\ c.names = h.names
                      \/ c.class = 1 /\ c.names = Deserialized(h.names)
                      \/ h.class \notin Range(type_registry)
                   /\ \A g \in {"adapted", "extended"} : Groups(o)[g] \subseteq Groups(copy)'[g]
<1>1. ASSUME PSObjectsInv, NEW o \in DOMAIN objects, NEW copy \in DOMAIN objects' \ DOMAIN objects, Remote(o)
      PROVE  Kind(o, copy)
  <2>1. TypeInv /\ o \in 1..Len(objects)
    BY <1>1, Domains DEF PSObjectsInv
  <2>2. PICK b, g, k : MadeFrom(g) /\ RemoteOf(o, b, g, k)
    BY <1>1, <2>1, RemoteMakes
  <2>3. KeptIn(o, g)
    BY <1>1, <2>1, <2>2, RemoteKeeps
  <2>4. objects'[copy] = g
    BY <1>1, <2>1, <2>2, CopyIs
  <2>5. /\ Groups(o)["adapted"] = {props[objects[o].adapted[i]].name : i \in DOMAIN objects[o].adapted}
        /\ Groups(o)["extended"] = {props[objects[o].extended[i]].name : i \in DOMAIN objects[o].extended}
    BY DEF Groups
  <2>6. /\ Groups(copy)'["adapted"] = {props'[g.adapted[i]].name : i \in DOMAIN g.adapted}
        /\ Groups(copy)'["extended"] = {props'[g.extended[i]].name : i \in DOMAIN g.extended}
    BY <2>4 DEF Groups
  <2>7. \A x \in {"adapted", "extended"} : Groups(o)[x] \subseteq Groups(copy)'[x]
    BY <2>3, <2>5, <2>6 DEF KeptIn, NamesIn
  <2>8. \/ objects'[copy].class = objects[o].class /\ objects'[copy].names = objects[o].names
        \/ objects'[copy].class = 1 /\ objects'[copy].names = Deserialized(objects[o].names)
        \/ objects[o].class \notin Range(type_registry)
    BY <2>3, <2>4 DEF KeptIn
  <2> QED
    BY <2>7, <2>8
<1>2. PSObjectsInv /\ [Next]_vars
      => [/\ \A t \in DOMAIN type_registry : type_registry'[t] = type_registry[t]
          /\ \A o \in DOMAIN objects, copy \in DOMAIN objects' \ DOMAIN objects : Remote(o) =>
                LET h == objects[o]
                    c == objects'[copy]
                IN  /\ \/ c.class = h.class /\ c.names = h.names
                       \/ c.class = 1 /\ c.names = Deserialized(h.names)
                       \/ h.class \notin Range(type_registry)
                    /\ \A g \in {"adapted", "extended"} : Groups(o)[g] \subseteq Groups(copy)'[g]]_vars
  BY <1>1, RegistryKept
<1> QED
  BY <1>2, ObjectsAgree, PTL DEF Spec, KindKept
-----------------------------------------------------------------------------
(* ReadAsSent *)

\* What a name leads to is what its property reads, which looks one name less up.
LEMMA GetIs ==
    ASSUME TypeInv, NEW o \in 1..Len(objects), NEW n \in Names, n \notin DOMAIN objects[o].attrs,
           NEW x, SeenAs(props, objects[o], n, x)
    PROVE  Get(o, n) = GetValue(o, x)
<1> DEFINE h == objects[o]
           look == Lookup(props, h)
           none == Found("endless")
           p == props[x]
<1>1. /\ IsMeta(h) /\ h.attrs \in Dicts /\ \A y : Owns(h, y) => props[y] \in Properties
  BY Metas
<1>2. LookOk(look)
  BY <1>1, LookupOk
<1>3. p \in Properties
  BY <1>1, SeenIs
<1>4. look[n] = Reads(p)
  BY <1>1, LookupIs
<1>5. Get(o, n) = Follow(look, n, Depth, none).value
  BY DEF Get
<1>6. GetValue(o, x) = IF p.kind = "note" THEN p.value
                       ELSE Follow(look, p.target, Depth - 1, none).value
  BY DEF GetValue
<1> HIDE DEF h, look, none, p
<1>7. Depth \in Nat /\ Depth # 0 /\ Depth \in 0..Depth
  BY DepthType
<1>8. Follow(look, n, Depth, none) = IF look[n].is # "name" THEN look[n]
                                     ELSE Follow(look, look[n].name, Depth - 1, none)
  BY <1>2, <1>7, FollowStep
<1>9. CASE p.kind = "note"
  <2>1. look[n].is # "name" /\ look[n].value = p.value
    BY <1>4, <1>9 DEF Reads, Found
  <2> QED
    BY <1>5, <1>6, <1>8, <1>9, <2>1
<1>10. CASE p.kind # "note"
  <2>1. look[n].is = "name" /\ look[n].name = p.target
    BY <1>4, <1>10 DEF Reads, GoesOn
  <2> QED
    BY <1>5, <1>6, <1>8, <1>10, <2>1
<1> QED
  BY <1>9, <1>10

\* y is the property of the copy g that has what property x of o reads.
SentAs(o, g, n, x, y) ==
    SeenAs(props, objects[o], n, x) /\ SeenAs(props', g, n, y) /\ props'[y] = Note(n, GetValue(o, x))

\* There are such properties.
LEMMA SentSeen ==
    ASSUME PSObjectsInv, NEW o \in 1..Len(objects), NEW b, NEW g, NEW k, RemoteOf(o, b, g, k),
           NEW n, IsProperty(props, objects[o], n), ~Hidden(objects[o], n)
    PROVE  \E x, y : SentAs(o, g, n, x, y)
<1> DEFINE h == objects[o]
           c == classes[b.class]
           a == Len(h.adapted)
           e == Len(h.extended)
<1>1. TypeInv
  BY DEF PSObjectsInv
<1>2. h.adapted \in Seq(Nat) /\ h.extended \in Seq(Nat)
  BY <1>1, Metas DEF IsMeta
<1>3. /\ BlankOf(b, h.names) /\ b = Blank(h.names) /\ k \in Nat
      /\ MergedInto(props', b.adapted, k, a, g.adapted)
      /\ MergedInto(props', b.extended, k + a, e, g.extended)
      /\ \A i \in 1..a : props'[k + i] = Note(props[h.adapted[i]].name, GetValue(o, h.adapted[i]))
      /\ \A i \in 1..e : props'[k + a + i] = Note(props[h.extended[i]].name, GetValue(o, h.extended[i]))
      /\ \A i \in 1..Len(c.extended) : props'[b.extended[i]] = props[c.extended[i]]
  BY DEF RemoteOf
<1>4. \A m, v : Note(m, v).name = m
  BY DEF Note
<1>5. b.class \in 1..Len(classes) /\ ListsOf(b, c, Len(props))
  BY <1>3 DEF BlankOf
<1>6. c.extended \in Seq(Nat)
  BY <1>1, <1>5, Metas DEF IsMeta
<1>7. b.extended \in Seq(Nat) /\ Len(b.extended) = Len(c.extended)
  BY <1>5 DEF ListsOf
<1> DEFINE z == k + a
<1>8. z \in Nat
  BY <1>2, <1>3
<1> HIDE DEF h, c, z
<1>9. \A i \in 1..a : props'[k + i].name = props[h.adapted[i]].name
  <2>1. \A i \in 1..a : props'[k + i] = Note(props[h.adapted[i]].name, GetValue(o, h.adapted[i]))
    BY <1>3
  <2> HIDE DEF a, e
  <2> QED
    BY <1>4, <2>1
<1>10. \A i \in 1..e : props'[z + i] = Note(props[h.extended[i]].name, GetValue(o, h.extended[i]))
  BY <1>3 DEF z
<1>11. \A i \in 1..e : props'[z + i].name = props[h.extended[i]].name
  BY <1>4, <1>10
<1>12. MergedInto(props', b.extended, z, e, g.extended)
  BY <1>3 DEF z
<1>13. CASE Has(props, h.extended, n)
  <2> DEFINE i == LastAt(props, h.extended, n)
  <2>1. IsLast(props, h.extended, n, i)
    BY <1>2, <1>13, LastIs
  <2> HIDE DEF i
  <2>2. LastOf(props', g.extended, n, z + i)
    BY <1>2, <1>8, <1>11, <1>12, <2>1, SentLast
  <2>3. LastOf(props, h.extended, n, h.extended[i]) /\ i \in 1..e /\ props[h.extended[i]].name = n
    BY <2>1 DEF LastOf, IsLast
  <2>4. SentAs(o, g, n, h.extended[i], z + i)
    BY <1>10, <2>2, <2>3 DEF SentAs, SeenAs, h
  <2> QED
    BY <2>4
<1>14. CASE ~Has(props, h.extended, n)
  <2> DEFINE i == LastAt(props, h.adapted, n)
  <2>1. Has(props, h.adapted, n)
    BY <1>14 DEF IsProperty, h
  <2>2. IsLast(props, h.adapted, n, i)
    BY <1>2, <2>1, LastIs
  <2> HIDE DEF i
  <2>3. LastOf(props', g.adapted, n, k + i)
    BY <1>2, <1>3, <1>9, <2>2, SentLast
  <2>4. LastOf(props, h.adapted, n, h.adapted[i]) /\ i \in 1..a /\ props[h.adapted[i]].name = n
    BY <2>2 DEF LastOf, IsLast
  <2>5. ~Has(props, c.extended, n)
    BY <1>3, <1>14 DEF Hidden, h, c
  <2>6. ~Has(props', b.extended, n)
    <3>1. DOMAIN b.extended = 1..Len(c.extended) /\ DOMAIN c.extended = 1..Len(c.extended)
      BY <1>6, <1>7
    <3> QED
      BY <1>3, <2>5, <3>1 DEF Has
  <2>7. ~Has(props', g.extended, n)
    <3>1. \A y : LastOf(props', g.extended, n, y) <=> LastOf(props', b.extended, n, y)
      BY <1>2, <1>8, <1>11, <1>12, <1>14, SentLast
    <3>2. g.extended \in Seq(Nat)
      BY <1>12 DEF MergedInto
    <3>3. LastAtIs(props', g.extended, n)
      BY <3>2, LastOfIs
    <3>4. LastAtIs(props', b.extended, n)
      BY <1>7, LastOfIs
    <3> QED
      BY <2>6, <3>1, <3>3, <3>4 DEF LastAtIs
  <2>8. SentAs(o, g, n, h.adapted[i], k + i)
    BY <1>3, <1>14, <2>3, <2>4, <2>7 DEF SentAs, SeenAs, h
  <2> QED
    BY <2>8
<1> QED
  BY <1>13, <1>14

\* A property is read of the copy as of the object.
LEMMA RemoteReads ==
    ASSUME PSObjectsInv, NEW o \in 1..Len(objects), NEW copy \in DOMAIN objects' \ DOMAIN objects,
           Remote(o), NEW n \in Names, IsProperty(props, objects[o], n), ~Hidden(objects[o], n)
    PROVE  Get(copy, n)' = Get(o, n)
<1>1. TypeInv
  BY DEF PSObjectsInv
<1>2. PICK b, g, k : MadeFrom(g) /\ RemoteOf(o, b, g, k)
  BY RemoteMakes
<1>3. objects'[copy] = g
  BY <1>1, <1>2, CopyIs
<1>4. PICK x, y : SentAs(o, g, n, x, y)
  BY <1>2, SentSeen
<1>5. Get(o, n) = GetValue(o, x)
  <2>1. n \notin DOMAIN objects[o].attrs
    BY DEF Hidden
  <2> QED
    BY <1>1, <1>4, <2>1, GetIs DEF SentAs
<1>6. IsMeta(g) /\ DOMAIN g.attrs = {}
  BY <1>2 DEF RemoteOf
<1>7. /\ g.attrs \in Dicts /\ \A z : Owns(g, z) => props'[z] \in Properties
  <2>1. g \in ObjectSet /\ props' \in Seq(Properties) /\ \A z : Owns(g, z) => z \in 1..Len(props')
    BY <1>2 DEF MadeFrom
  <2>2. g.attrs \in Dicts
    BY <2>1 DEF ObjectSet
  <2> QED
    BY <2>1, <2>2
<1> DEFINE look == Lookup(props', g)
           none == Found("endless")
<1>8. LookOk(look)
  BY <1>6, <1>7, LookupOk
<1>9. look[n] = Reads(props'[y])
  BY <1>4, <1>6, LookupIs DEF SentAs
<1>10. Get(copy, n)' = Follow(look, n, Depth, none).value
  BY <1>3 DEF Get
<1> HIDE DEF look, none
<1>11. look[n] = Found(GetValue(o, x))
  <2>1. props'[y] = Note(n, GetValue(o, x))
    BY <1>4 DEF SentAs
  <2>2. Reads(Note(n, GetValue(o, x))) = Found(GetValue(o, x))
    BY DEF Reads, Note
  <2> QED
    BY <1>9, <2>1, <2>2
<1>12. look[n].is # "name" /\ look[n].value = GetValue(o, x)
  BY <1>11 DEF Found
<1>13. Depth \in 0..Depth
  BY DepthType
<1>14. Follow(look, n, Depth, none) = look[n]
  BY <1>8, <1>12, <1>13, FollowStep
<1> QED
  BY <1>5, <1>10, <1>12, <1>14

\* A property of an object, be it a note, an alias or a script, is read of its copy as it
\* was of the object, whatever lists the reader gives a new object of its type
\* (_serialize_obj, _deserialize_obj).
THEOREM CopiesReadAsSent == Spec => ReadAsSent
<1>1. PSObjectsInv /\ [Next]_vars
      => [\A o \in DOMAIN objects, copy \in DOMAIN objects' \ DOMAIN objects : Remote(o) =>
            \A n \in Names : IsProperty(props, objects[o], n) /\ ~Hidden(objects[o], n)
                                 => Get(copy, n)' = Get(o, n)]_vars
  <2>1. ASSUME PSObjectsInv, NEW o \in DOMAIN objects PROVE o \in 1..Len(objects)
    BY <2>1, Domains DEF PSObjectsInv
  <2> QED
    BY <2>1, RemoteReads
<1> QED
  BY <1>1, ObjectsAgree, PTL DEF Spec, ReadAsSent
-----------------------------------------------------------------------------
(* SetIsRead *)

\* The first property of a name is the last, if there is one of a name.
LEMMA FirstIsLast ==
    ASSUME NEW ps, NEW list \in Seq(Nat), NEW n, Has(ps, list, n),
           \A i, j \in DOMAIN list : i # j => ps[list[i]].name # ps[list[j]].name
    PROVE  LastOf(ps, list, n, list[FirstAt(ps, list, n)])
<1> DEFINE i == FirstAt(ps, list, n)
<1>1. IsFirst(ps, list, n, i)
  BY FirstIs
<1> HIDE DEF i
<1>2. DOMAIN list = 1..Len(list) /\ i \in 1..Len(list) /\ ps[list[i]].name = n
  BY <1>1 DEF IsFirst
<1>3. \A j \in 1..Len(list) : ps[list[j]].name = n => j = i
  BY <1>2
<1>4. IsLast(ps, list, n, i)
  BY <1>2, <1>3 DEF IsLast
<1>5. LastOf(ps, list, n, list[i])
  BY <1>4 DEF LastOf
<1> QED
  BY <1>5 DEF i

\* A property is read of where it is set.
LEMMA ChosenSeen ==
    ASSUME NEW h, IsMeta(h), ~Doubled(h), NEW n, IsProperty(props, h, n)
    PROVE  SeenAs(props, h, n, Chosen(props, h, n))
<1>1. h.adapted \in Seq(Nat) /\ h.extended \in Seq(Nat)
  BY DEF IsMeta
<1>2. \A list \in {h.adapted, h.extended} : \A i, j \in DOMAIN list :
         i # j => props[list[i]].name # props[list[j]].name
  BY DEF Doubled
<1>3. CASE Has(props, h.extended, n)
  BY <1>1, <1>2, <1>3, FirstIsLast DEF Chosen, SeenAs
<1>4. CASE ~Has(props, h.extended, n)
  BY <1>1, <1>2, <1>4, FirstIsLast DEF Chosen, SeenAs, IsProperty
<1> QED
  BY <1>3, <1>4

\* A lookup finds the same property when the names are the same.
LEMMA SeenSame ==
    ASSUME NEW ps, NEW qs, NEW h, IsMeta(h), \A x : Owns(h, x) => qs[x].name = ps[x].name,
           NEW n, NEW x, SeenAs(ps, h, n, x)
    PROVE  SeenAs(qs, h, n, x)
<1>1. DOMAIN h.extended = 1..Len(h.extended)
  BY DEF IsMeta
<1>2. /\ \A i \in 1..Len(h.adapted) : qs[h.adapted[i]].name = ps[h.adapted[i]].name
      /\ \A i \in 1..Len(h.extended) : qs[h.extended[i]].name = ps[h.extended[i]].name
  BY DEF Owns
<1>3. LastOf(ps, h.extended, n, x) => LastOf(qs, h.extended, n, x)
  BY <1>2 DEF LastOf, IsLast
<1>4. LastOf(ps, h.adapted, n, x) => LastOf(qs, h.adapted, n, x)
  BY <1>2 DEF LastOf, IsLast
<1>5. ~Has(ps, h.extended, n) => ~Has(qs, h.extended, n)
  BY <1>1, <1>2 DEF Has
<1> QED
  BY <1>3, <1>4, <1>5 DEF SeenAs

\* l leads to a value where s leads to P, and goes on as s does.
Alike(s, l, P, v) ==
    \A n \in Names : (s[n] = P => l[n] = Found(v)) /\ (s[n].is = "name" => l[n] = s[n])

\* Then it leads to the value by way of as many names.
LEMMA AlikeFollow ==
    ASSUME NEW s, LookOk(s), NEW l, LookOk(l), NEW P, P # Nowhere, P.is # "name", NEW v, NEW none,
           Alike(s, l, P, v)
    PROVE  \A k \in 0..Depth, n \in Names : Follow(s, n, k, Nowhere) = P => Follow(l, n, k, none) = Found(v)
<1> DEFINE E(k, n) == Follow(s, n, k, Nowhere) = P => Follow(l, n, k, none) = Found(v)
           T == {k \in 0..Depth : \E n \in Names : ~E(k, n)}
<1>1. SUFFICES ASSUME T # {} PROVE FALSE
  OBVIOUS
<1>2. Depth \in Nat
  BY DepthType
<1>3. \A k \in 0..Depth, n \in Names :
         Follow(s, n, k, Nowhere) = IF s[n].is # "name" THEN s[n]
                                    ELSE IF k = 0 THEN Nowhere
                                    ELSE Follow(s, s[n].name, k - 1, Nowhere)
  BY FollowStep
<1>4. \A k \in 0..Depth, n \in Names :
         Follow(l, n, k, none) = IF l[n].is # "name" THEN l[n]
                                 ELSE IF k = 0 THEN none
                                 ELSE Follow(l, l[n].name, k - 1, none)
  BY FollowStep
<1>5. PICK k \in T : \A j \in T : k <= j
  <2>1. T \in SUBSET Nat
    BY <1>2
  <2> HIDE DEF T
  <2> QED
    BY <1>1, <2>1, LeastOf
<1>6. PICK n \in Names : ~E(k, n)
  BY <1>5
<1>7. k \in 0..Depth
  BY <1>5
<1>8. (s[n] = P => l[n] = Found(v)) /\ (s[n].is = "name" => l[n] = s[n])
  BY DEF Alike
<1>9. CASE s[n].is # "name"
  <2>1. l[n] = Found(v)
    BY <1>3, <1>6, <1>7, <1>8, <1>9
  <2>2. l[n].is # "name"
    BY <2>1 DEF Found
  <2> QED
    BY <1>4, <1>6, <1>7, <2>1, <2>2
<1>10. CASE s[n].is = "name" /\ k = 0
  BY <1>3, <1>6, <1>7, <1>10
<1>11. CASE s[n].is = "name" /\ k # 0
  <2>1. s[n].name \in Names /\ l[n] = s[n]
    BY <1>8, <1>11 DEF LookOk
  <2>2. k - 1 \in 0..Depth /\ k - 1 \notin T
    BY <1>2, <1>5, <1>7, <1>11
  <2>3. E(k - 1, s[n].name)
    BY <2>1, <2>2
  <2>4. Follow(s, n, k, Nowhere) = Follow(s, s[n].name, k - 1, Nowhere)
    BY <1>3, <1>7, <1>11
  <2>5. Follow(l, n, k, none) = Follow(l, s[n].name, k - 1, none)
    BY <1>4, <1>7, <1>11, <2>1
  <2> QED
    BY <1>6, <2>3, <2>4, <2>5
<1> QED
  BY <1>9, <1>10, <1>11

\* What follows of where a name is set.
LEMMA SetsToIs ==
    ASSUME NEW ps, NEW h, NEW n, NEW to, SetsTo(ps, h, n, to)
    PROVE  /\ \A m : to = AnAttribute(m) => n = m
           /\ \A x : to = AProperty(x) => /\ n \notin DOMAIN h.attrs /\ IsProperty(ps, h, n)
                                          /\ Chosen(ps, h, n) = x
           /\ to.is = "name" => /\ n \notin DOMAIN h.attrs /\ IsProperty(ps, h, n)
                                /\ ps[Chosen(ps, h, n)].kind = "script"
                                /\ to = Reads(ps[Chosen(ps, h, n)])
           /\ to.is = "attribute" => /\ to = AnAttribute(n)
                                     /\ n \in DOMAIN h.attrs \/ ~IsProperty(ps, h, n)
           /\ to.is = "property" => to = AProperty(Chosen(ps, h, n))
BY DEF SetsTo, AnAttribute, AProperty, Nowhere, GoesOn, Reads

\* An attribute is read after it is set.
LEMMA AttrAfter ==
    ASSUME PSObjectsInv, NEW o \in 1..Len(objects), ~Doubled(objects[o]), NEW v \in Values, NEW m,
           AttrSet(o, m, v), m \in DOMAIN objects[o].attrs \/ ~IsProperty(props, objects[o], m)
    PROVE  /\ LookOk(Lookup(props', objects'[o]))
           /\ Alike(Setting(props, objects[o]), Lookup(props', objects'[o]), AnAttribute(m), v)
<1> DEFINE h == objects[o]
           g == objects'[o]
           s == Setting(props, h)
           l == Lookup(props', g)
<1>1. /\ IsMeta(h) /\ h.attrs \in Dicts
      /\ \A x : Owns(h, x) => x \in 1..Len(props) /\ props[x] \in Properties
  BY Metas DEF PSObjectsInv
<1>2. /\ m \in Names /\ props' = props /\ g \in ObjectSet
      /\ g.adapted = h.adapted /\ g.extended = h.extended /\ g.attrs = With(h.attrs, m, v)
  BY DEF AttrSet, ChangedTo
<1>3. g.attrs \in Dicts
  BY <1>2 DEF ObjectSet
<1>4. IsMeta(g)
  BY <1>1, <1>2 DEF IsMeta
<1>5. /\ g.attrs[m] = v /\ DOMAIN g.attrs = DOMAIN h.attrs \union {m}
  <2> DEFINE d == h.attrs
             w == With(d, m, v)
  <2>1. d \in Dicts /\ m \in Names
    BY <1>1, <1>2
  <2> HIDE DEF d
  <2>2. w[m] = v /\ DOMAIN w = DOMAIN d \union {m}
    BY <2>1, WithIs
  <2> HIDE DEF w
  <2>3. g.attrs = w
    BY <1>2 DEF w, d
  <2> QED
    BY <2>2, <2>3 DEF d
<1>6. \A x : Owns(g, x) => props'[x] \in Properties
  BY <1>1, <1>2 DEF Owns
<1>7. LookOk(l)
  BY <1>3, <1>4, <1>6, LookupOk
<1>8. m \in DOMAIN h.attrs \/ ~IsProperty(props, h, m)
  OBVIOUS
<1>9. ~Doubled(h)
  OBVIOUS
<1> HIDE DEF h, g, s, l
<1>10. ASSUME NEW n \in Names
       PROVE  (s[n] = AnAttribute(m) => l[n] = Found(v)) /\ (s[n].is = "name" => l[n] = s[n])
  <2>1. SetsTo(props, h, n, s[n])
    BY <1>1, SettingIs DEF s
  <2>2. CASE s[n] = AnAttribute(m)
    <3>1. n = m
      BY <2>1, <2>2, SetsToIs
    <3>2. l[m] = Found(g.attrs[m])
      BY <1>2, <1>4, <1>5, LookupIs DEF l
    <3>3. s[n].is # "name"
      BY <2>2 DEF AnAttribute
    <3> QED
      BY <1>5, <3>1, <3>2, <3>3
  <2>3. CASE s[n].is = "name"
    <3> DEFINE x == Chosen(props, h, n)
    <3>1. n \notin DOMAIN h.attrs /\ IsProperty(props, h, n) /\ s[n] = Reads(props[x])
      BY <2>1, <2>3, SetsToIs
    <3>2. SeenAs(props, h, n, x)
      BY <1>1, <1>9, <3>1, ChosenSeen
    <3> HIDE DEF x
    <3>3. SeenAs(props', g, n, x)
      BY <1>2, <3>2 DEF SeenAs
    <3>4. n \notin DOMAIN g.attrs
      BY <1>5, <1>8, <3>1
    <3>5. l[n] = Reads(props'[x])
      BY <1>4, <3>3, <3>4, LookupIs DEF l
    <3>6. s[n] # AnAttribute(m)
      BY <2>3 DEF AnAttribute
    <3> QED
      BY <1>2, <3>1, <3>5, <3>6
  <2> QED
    BY <2>2, <2>3
<1>11. Alike(s, l, AnAttribute(m), v)
  BY <1>10 DEF Alike
<1> QED
  BY <1>7, <1>11 DEF l, s, g, h

\* So is a property.
LEMMA PropAfter ==
    ASSUME PSObjectsInv, NEW o \in 1..Len(objects), ~Doubled(objects[o]), NEW v \in Values, NEW y,
           PropSet(o, y, v)
    PROVE  /\ LookOk(Lookup(props', objects'[o]))
           /\ Alike(Setting(props, objects[o]), Lookup(props', objects'[o]), AProperty(y), v)
<1> DEFINE h == objects[o]
           s == Setting(props, h)
           l == Lookup(props', h)
<1>1. /\ IsMeta(h) /\ h.attrs \in Dicts
      /\ \A x : Owns(h, x) => x \in 1..Len(props) /\ props[x] \in Properties
  BY Metas DEF PSObjectsInv
<1>2. /\ objects' = objects /\ props' \in Seq(Properties) /\ Len(props') = Len(props)
      /\ \A x \in 1..Len(props) : x # y => props'[x] = props[x]
      /\ props[y].kind = "note" /\ props'[y] = Note(props[y].name, v)
  BY DEF PropSet
<1>3. \A x : Owns(h, x) => props'[x] \in Properties
  BY <1>1, <1>2
<1>4. LookOk(l)
  BY <1>1, <1>3, LookupOk
<1>5. ~Doubled(h)
  OBVIOUS
<1>6. \A x : Owns(h, x) => props'[x].name = props[x].name
  <2>1. props'[y].name = props[y].name
    BY <1>2 DEF Note
  <2> QED
    BY <1>1, <1>2, <2>1
<1> HIDE DEF h, s, l
<1>7. ASSUME NEW n \in Names
      PROVE  (s[n] = AProperty(y) => l[n] = Found(v)) /\ (s[n].is = "name" => l[n] = s[n])
  <2> DEFINE x == Chosen(props, h, n)
  <2>1. SetsTo(props, h, n, s[n])
    BY <1>1, SettingIs DEF s
  <2>2. CASE s[n] = AProperty(y)
    <3>1. n \notin DOMAIN h.attrs /\ IsProperty(props, h, n) /\ x = y
      BY <2>1, <2>2, SetsToIs
    <3>2. SeenAs(props, h, n, y)
      BY <1>1, <1>5, <3>1, ChosenSeen
    <3>3. SeenAs(props', h, n, y)
      BY <1>1, <1>6, <3>2, SeenSame
    <3>4. l[n] = Reads(Note(props[y].name, v))
      BY <1>1, <1>2, <3>1, <3>3, LookupIs DEF l
    <3>5. l[n] = Found(v)
      BY <3>4 DEF Reads, Note
    <3>6. s[n].is # "name"
      BY <2>2 DEF AProperty
    <3> QED
      BY <3>5, <3>6
  <2>3. CASE s[n].is = "name"
    <3>1. n \notin DOMAIN h.attrs /\ IsProperty(props, h, n) /\ s[n] = Reads(props[x])
          /\ props[x].kind = "script"
      BY <2>1, <2>3, SetsToIs
    <3>2. SeenAs(props, h, n, x)
      BY <1>1, <1>5, <3>1, ChosenSeen
    <3> HIDE DEF x
    <3>3. SeenAs(props', h, n, x) /\ Owns(h, x)
      BY <1>1, <1>6, <3>2, SeenSame, SeenIs
    <3>4. l[n] = Reads(props'[x])
      BY <1>1, <3>1, <3>3, LookupIs DEF l
    <3>5. props'[x] = props[x]
      BY <1>1, <1>2, <3>1, <3>3
    <3>6. s[n] # AProperty(y)
      BY <2>3 DEF AProperty
    <3> QED
      BY <3>1, <3>4, <3>5, <3>6
  <2> QED
    BY <2>2, <2>3
<1>8. Alike(s, l, AProperty(y), v)
  BY <1>7 DEF Alike
<1> QED
  BY <1>2, <1>4, <1>8 DEF l, s, h

\* What is set is read.
LEMMA SetReadsBack ==
    ASSUME PSObjectsInv, NEW o \in 1..Len(objects), ~Doubled(objects[o]), NEW n \in Names,
           NEW v \in Values, SetAttr(o, n, v)
    PROVE  Get(o, n)' = v
<1> DEFINE h == objects[o]
           s == Setting(props, h)
           l == Lookup(props', objects'[o])
           P == Place(o, n)
           none == Found("endless")
<1>1. IsMeta(h) /\ \A x : Owns(h, x) => x \in 1..Len(props) /\ props[x] \in Properties
  BY Metas DEF PSObjectsInv
<1>2. LookOk(s)
  BY <1>1, SettingOk
<1>3. P = Follow(s, n, Depth, Nowhere)
  BY DEF Place
<1>4. Get(o, n)' = Follow(l, n, Depth, none).value
  BY DEF Get
<1>5. SetThere(o, n, v)
  BY SetAttrIs
<1>6. Depth \in 0..Depth
  BY DepthType
<1> HIDE DEF P
<1>7. P.is \in {"attribute", "property"}
  BY <1>5 DEF SetThere, P
<1>8. P # Nowhere /\ P.is # "name"
  BY <1>7 DEF Nowhere
<1> HIDE DEF s
<1>9. PICK m \in Names : P = s[m]
  BY <1>2, <1>3, <1>6, <1>8, FollowEnds
<1>10. SetsTo(props, h, m, P)
  BY <1>1, <1>9, SettingIs DEF s
<1>11. LookOk(l) /\ Alike(s, l, P, v)
  <2>1. CASE P.is = "attribute"
    <3>1. P = AnAttribute(m) /\ (m \in DOMAIN h.attrs \/ ~IsProperty(props, h, m))
      BY <1>10, <2>1, SetsToIs
    <3>2. P.at = m
      BY <3>1 DEF AnAttribute
    <3>3. AttrSet(o, m, v)
      BY <1>5, <2>1, <3>2 DEF SetThere, P
    <3> QED
      BY <3>1, <3>3, AttrAfter DEF s
  <2>2. CASE P.is = "property"
    <3> DEFINE x == Chosen(props, h, m)
    <3> HIDE DEF x
    <3>1. P = AProperty(x)
      BY <1>10, <2>2, SetsToIs DEF x
    <3>2. P.at = x
      BY <3>1 DEF AProperty
    <3>3. PropSet(o, x, v)
      BY <1>5, <2>2, <3>2 DEF SetThere, P
    <3> QED
      BY <3>1, <3>3, PropAfter DEF s
  <2> QED
    BY <1>7, <2>1, <2>2
<1> HIDE DEF l, none
<1>12. Follow(l, n, Depth, none) = Found(v)
  BY <1>2, <1>3, <1>6, <1>8, <1>11, AlikeFollow
<1> QED
  BY <1>4, <1>12 DEF Found

\* What is added is read.
LEMMA AddReadsBack ==
    ASSUME PSObjectsInv, NEW o \in 1..Len(objects), NEW p \in Members, NEW force, AddToObject(o, p, force),
           p.kind = "note", p.name \notin DOMAIN objects[o].attrs
    PROVE  Get(o, p.name)' = p.value
<1> DEFINE h == objects[o]
           g == objects'[o]
           x == Len(props')
           l == Lookup(props', g)
           none == Found("endless")
<1>1. /\ ChangedTo(o, g) /\ OneMore(h, g, x, props') /\ g.attrs = h.attrs /\ props'[x] = p
  BY AddToObjectChanges
<1>2. p \in Properties
  BY PSObjectsAssumption
<1>3. p.name \in Names
  BY <1>2, PropertyIs
<1>4. IsMeta(g) /\ InsertedInto(props', h.extended, x, g.extended)
  BY <1>1 DEF OneMore
<1>5. /\ g \in ObjectSet /\ props' \in Seq(Properties)
      /\ \A y : Owns(g, y) => Owns(h, y) \/ (y \in 1..Len(props') /\ y \notin 1..Len(props))
      /\ Len(props) <= Len(props') /\ Len(props') \in Nat
  BY <1>1 DEF ChangedTo
<1>6. TypeInv /\ \A y : Owns(h, y) => y \in 1..Len(props)
  BY Metas DEF PSObjectsInv
<1>7. \A y : Owns(g, y) => props'[y] \in Properties
  <2>1. Len(props) \in Nat
    BY <1>6 DEF TypeInv
  <2>2. \A y \in 1..Len(props) : y \in 1..Len(props')
    BY <1>5, <2>1
  <2> QED
    BY <1>5, <1>6, <2>2
<1>8. g.attrs \in Dicts
  BY <1>5 DEF ObjectSet
<1>9. LookOk(l)
  BY <1>4, <1>7, <1>8, LookupOk
<1>10. Get(o, p.name)' = Follow(l, p.name, Depth, none).value
  BY DEF Get
<1>11. SeenAs(props', g, p.name, x)
  <2>1. LastOf(props', g.extended, props'[x].name, x)
    BY <1>4 DEF InsertedInto
  <2> QED
    BY <1>1, <2>1 DEF SeenAs
<1>12. p.name \notin DOMAIN g.attrs
  BY <1>1
<1>13. l[p.name] = Reads(p)
  BY <1>1, <1>3, <1>4, <1>11, <1>12, LookupIs
<1> HIDE DEF l, none
<1>14. l[p.name].is # "name" /\ l[p.name].value = p.value
  BY <1>13 DEF Reads, Found
<1>15. Depth \in 0..Depth
  BY DepthType
<1>16. Follow(l, p.name, Depth, none) = l[p.name]
  BY <1>3, <1>9, <1>14, <1>15, FollowStep
<1> QED
  BY <1>10, <1>14, <1>16

\* What is set of an object, through script properties too, or added to it, is what is
\* read next, as long as no list of the object names a property twice (__setattr__,
\* add_member and __getattribute__).
THEOREM SetsAreRead == Spec => SetIsRead
<1>1. ASSUME PSObjectsInv, NEW o \in DOMAIN objects, ~Doubled(objects[o]) PROVE SetReads(o)
  <2>1. o \in 1..Len(objects)
    BY <1>1, Domains DEF PSObjectsInv
  <2> QED
    BY <1>1, <2>1, SetReadsBack, AddReadsBack DEF SetReads
<1>2. PSObjectsInv /\ [Next]_vars => [\A o \in DOMAIN objects : ~Doubled(objects[o]) => SetReads(o)]_vars
  BY <1>1
<1> QED
  BY <1>2, ObjectsAgree, PTL DEF Spec, SetIsRead
=============================================================================
