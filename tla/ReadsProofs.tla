----------------------------- MODULE ReadsProofs -----------------------------
(***************************************************************************)
(* What the reads of an account over a Blockbook client promise, for every *)
(* set of transactions, every ledger they can make, every size of a page   *)
(* and of a batch.                                                         *)
(*                                                                         *)
(* 1. Filtered and flattened sequences.                                    *)
(* 2. The ledger: what a block, a new transaction and an eviction keep.    *)
(* 3. getTransfers and getTransaction.                                     *)
(* 4. The balance.                                                         *)
(***************************************************************************)
EXTENDS AccountReads, DataTheorems

(***************************************************************************)
(* 1. Filtered and flattened sequences                                     *)
(***************************************************************************)

\* f is the function by which Only(s, A) is defined, up to n.
IsOnly(f, s, A, n) ==
    f = [i \in 0..n |-> IF i = 0 THEN <<>>
                        ELSE IF s[i] \in A THEN Append(f[i - 1], s[i]) ELSE f[i - 1]]

LEMMA OnlyExists ==
  ASSUME NEW s, NEW A, NEW n \in Nat
  PROVE  \E f : IsOnly(f, s, A, n)
  <1> DEFINE Bad == {k \in Nat : ~ \E f : IsOnly(f, s, A, k)}
  <1> SUFFICES ASSUME Bad # {} PROVE FALSE
    OBVIOUS
  <1>1. PICK m \in Bad : \A k \in Bad : m <= k
    BY LeastNumber
  <1>2. m # 0
    <2>1. IsOnly([i \in 0..0 |-> <<>>], s, A, 0)
      BY DEF IsOnly
    <2> QED BY <2>1
  <1>3. PICK f : IsOnly(f, s, A, m - 1)
    <2>1. m - 1 \in Nat /\ m - 1 \notin Bad
      BY <1>1, <1>2
    <2> QED BY <2>1
  <1> DEFINE g == [i \in 0..m |->
                     IF i = 0 THEN <<>>
                     ELSE IF s[i] \in A THEN Append(f[i - 1], s[i]) ELSE f[i - 1]]
  <1>4. \A i \in 0..(m - 1) : g[i] = f[i]
    <2> TAKE i \in 0..(m - 1)
    <2>1. f[i] = IF i = 0 THEN <<>>
                 ELSE IF s[i] \in A THEN Append(f[i - 1], s[i]) ELSE f[i - 1]
      BY <1>3, Zenon DEF IsOnly
    <2>2. i \in 0..m
      OBVIOUS
    <2> QED BY <2>1, <2>2
  <1>5. IsOnly(g, s, A, m)
    <2>1. \A i \in 0..m : i # 0 => g[i - 1] = f[i - 1]
      <3> TAKE i \in 0..m
      <3> HAVE i # 0
      <3>1. i - 1 \in 0..(m - 1)
        OBVIOUS
      <3> HIDE DEF g
      <3> QED BY <1>4, <3>1
    <2>2. \A i \in 0..m :
            g[i] = IF i = 0 THEN <<>>
                   ELSE IF s[i] \in A THEN Append(g[i - 1], s[i]) ELSE g[i - 1]
      BY <2>1
    <2>3. g = [i \in 0..m |-> g[i]]
      OBVIOUS
    <2> HIDE DEF g
    <2> QED BY <2>2, <2>3 DEF IsOnly
  <1> QED BY <1>1, <1>5

\* A function of the positions of s that tells, for each element kept, where it
\* is in what is left of s.
IsRank(c, s, A) ==
    /\ c \in [0..Len(s) -> Nat] /\ c[0] = 0 /\ c[Len(s)] = Len(Only(s, A))
    /\ \A i \in 1..Len(s) : c[i] = IF s[i] \in A THEN c[i - 1] + 1 ELSE c[i - 1]
    /\ \A i \in 1..Len(s) : s[i] \in A =>
            c[i] \in 1..Len(Only(s, A)) /\ Only(s, A)[c[i]] = s[i]
    /\ \A j \in 1..Len(Only(s, A)) : \E i \in 1..Len(s) : s[i] \in A /\ c[i] = j

LEMMA OnlyRank ==
  ASSUME NEW T, NEW s \in Seq(T), NEW A
  PROVE  Only(s, A) \in Seq(T) /\ \E c : IsRank(c, s, A)
  <1> DEFINE f == CHOOSE f : IsOnly(f, s, A, Len(s))
  <1>1. Len(s) \in Nat
    OBVIOUS
  <1>2. IsOnly(f, s, A, Len(s))
    BY <1>1, OnlyExists
  <1>3. Only(s, A) = f[Len(s)]
    BY DEF Only, IsOnly
  <1> HIDE DEF f
  <1>4. f[0] = <<>>
    <2>1. 0 \in 0..Len(s)
      BY <1>1
    <2> QED BY <1>2, <2>1, Zenon DEF IsOnly
  <1>5. \A i \in 1..Len(s) :
          f[i] = IF s[i] \in A THEN Append(f[i - 1], s[i]) ELSE f[i - 1]
    <2> TAKE i \in 1..Len(s)
    <2>1. i \in 0..Len(s) /\ i # 0
      OBVIOUS
    <2> QED BY <1>2, <2>1, Zenon DEF IsOnly
  <1> DEFINE c == [i \in 0..Len(s) |-> Len(f[i])]
             Kept(n) == /\ f[n] \in Seq(T)
                        /\ \A i \in 1..n : s[i] \in A =>
                              c[i] \in 1..Len(f[n]) /\ f[n][c[i]] = s[i]
                        /\ \A j \in 1..Len(f[n]) :
                              \E i \in 1..n : s[i] \in A /\ c[i] = j
             Bad == {n \in 0..Len(s) : ~Kept(n)}
  <1>6. Bad = {}
    <2> SUFFICES ASSUME Bad # {} PROVE FALSE
      OBVIOUS
    <2>1. PICK m \in Bad : \A k \in Bad : m <= k
      <3>1. Bad \in SUBSET Nat
        OBVIOUS
      <3> HIDE DEF Bad
      <3> QED BY <3>1, LeastNumber
    <2>2. m # 0
      <3>1. Kept(0)
        BY <1>4
      <3> QED BY <3>1
    <2>3. m \in 1..Len(s) /\ m - 1 \in 0..Len(s)
      BY <2>2
    <2>4. Kept(m - 1)
      <3>1. m - 1 \notin Bad
        <4> HIDE DEF Bad
        <4> QED BY <2>1, <2>3
      <3> QED BY <2>3, <3>1
    <2>5. c[m] = Len(f[m])
      OBVIOUS
    <2>6. s[m] \in T
      BY <2>3
    <2>7. f[m] = IF s[m] \in A THEN Append(f[m - 1], s[m]) ELSE f[m - 1]
      BY <1>5, <2>3
    <2> HIDE DEF c, Bad
    <2>8. CASE s[m] \in A
      <3> DEFINE g == f[m - 1]
      <3>1. g \in Seq(T) /\ f[m] = Append(g, s[m])
        BY <2>4, <2>7, <2>8
      <3>2. f[m] \in Seq(T) /\ Len(f[m]) = Len(g) + 1 /\ f[m][Len(g) + 1] = s[m]
        BY <2>6, <3>1
      <3>3. \A j \in 1..Len(g) : f[m][j] = g[j]
        BY <2>6, <3>1
      <3>4. Len(g) \in Nat
        BY <3>1
      <3>5. \A i \in 1..(m - 1) : s[i] \in A => c[i] \in 1..Len(g) /\ g[c[i]] = s[i]
        BY <2>4
      <3>6. \A j \in 1..Len(g) : \E i \in 1..(m - 1) : s[i] \in A /\ c[i] = j
        BY <2>4
      <3> HIDE DEF g
      <3>7. \A i \in 1..m : s[i] \in A => c[i] \in 1..Len(f[m]) /\ f[m][c[i]] = s[i]
        <4> TAKE i \in 1..m
        <4>1. CASE i = m
          BY <2>5, <3>2, <3>4, <4>1
        <4>2. CASE i # m
          <5>1. i \in 1..(m - 1)
            BY <2>3, <4>2
          <5> QED BY <3>2, <3>3, <3>4, <3>5, <5>1
        <4> QED BY <4>1, <4>2
      <3>8. \A j \in 1..Len(f[m]) : \E i \in 1..m : s[i] \in A /\ c[i] = j
        <4> TAKE j \in 1..Len(f[m])
        <4>1. CASE j = Len(g) + 1
          <5>1. m \in 1..m
            BY <2>3
          <5> QED BY <2>5, <2>8, <3>2, <4>1, <5>1
        <4>2. CASE j # Len(g) + 1
          <5>1. j \in 1..Len(g)
            BY <3>2, <3>4, <4>2
          <5>2. PICK i \in 1..(m - 1) : s[i] \in A /\ c[i] = j
            BY <3>6, <5>1
          <5>3. i \in 1..m
            BY <2>3
          <5> QED BY <5>2, <5>3
        <4> QED BY <4>1, <4>2
      <3>9. Kept(m)
        BY <3>2, <3>7, <3>8
      <3> QED BY <2>1, <3>9 DEF Bad
    <2>9. CASE s[m] \notin A
      <3>1. f[m] = f[m - 1]
        BY <2>7, <2>9
      <3>2. \A i \in 1..m : s[i] \in A => i \in 1..(m - 1)
        BY <2>3, <2>9
      <3>3. \A i \in 1..(m - 1) : i \in 1..m
        BY <2>3
      <3>4. Kept(m)
        BY <2>4, <3>1, <3>2, <3>3
      <3> QED BY <2>1, <3>4 DEF Bad
    <2> QED BY <2>8, <2>9
  <1>7. \A n \in 0..Len(s) : Kept(n)
    BY <1>6
  <1>8. Kept(Len(s)) /\ Len(s) \in 0..Len(s)
    <2>1. Len(s) \in 0..Len(s)
      BY <1>1
    <2> HIDE DEF Kept
    <2> QED BY <1>7, <2>1
  <1>9. IsRank(c, s, A)
    <2>1. \A n \in 0..Len(s) : Len(f[n]) \in Nat
      BY <1>7
    <2>2. c \in [0..Len(s) -> Nat] /\ c[0] = 0 /\ c[Len(s)] = Len(Only(s, A))
      BY <1>1, <1>3, <1>4, <2>1
    <2>3. \A i \in 1..Len(s) : c[i] = IF s[i] \in A THEN c[i - 1] + 1 ELSE c[i - 1]
      <3> TAKE i \in 1..Len(s)
      <3>1. i \in 0..Len(s) /\ i - 1 \in 0..Len(s)
        BY <1>1
      <3>2. f[i - 1] \in Seq(T) /\ s[i] \in T
        BY <1>7, <3>1
      <3>3. c[i] = Len(f[i]) /\ c[i - 1] = Len(f[i - 1])
        BY <3>1
      <3> DEFINE g == f[i - 1]
      <3>4. f[i] = IF s[i] \in A THEN Append(g, s[i]) ELSE g
        BY <1>5
      <3>5. g \in Seq(T)
        BY <3>2
      <3>6. Len(f[i]) = IF s[i] \in A THEN Len(g) + 1 ELSE Len(g)
        <4> HIDE DEF g, c
        <4> QED BY <3>2, <3>4, <3>5
      <3> QED BY <3>3, <3>6
    <2> HIDE DEF c
    <2> QED BY <1>3, <1>8, <2>2, <2>3 DEF IsRank
  <1> QED BY <1>3, <1>8, <1>9

\* No two positions of a sequence hold the same.
Distinct(s) == \A i, j \in DOMAIN s : s[i] = s[j] => i = j

LEMMA OnlyElements ==
  ASSUME NEW T, NEW s \in Seq(T), NEW A
  PROVE  /\ Only(s, A) \in Seq(T)
         /\ ToSet(Only(s, A)) = ToSet(s) \cap A
         /\ Distinct(s) => Distinct(Only(s, A))
  <1>1. Only(s, A) \in Seq(T) /\ \E c : IsRank(c, s, A)
    BY OnlyRank
  <1> DEFINE r == Only(s, A)
  <1>2. DOMAIN s = 1..Len(s) /\ DOMAIN r = 1..Len(r)
    BY <1>1
  <1>3. PICK c : IsRank(c, s, A)
    BY <1>1
  <1>4. \A i \in 1..Len(s) : s[i] \in A => c[i] \in 1..Len(r) /\ r[c[i]] = s[i]
    BY <1>3 DEF IsRank
  <1>5. \A j \in 1..Len(r) : \E i \in 1..Len(s) : s[i] \in A /\ c[i] = j
    BY <1>3 DEF IsRank
  <1> HIDE DEF r
  <1>6. ToSet(r) = ToSet(s) \cap A
    <2>1. ToSet(r) = {r[j] : j \in 1..Len(r)} /\ ToSet(s) = {s[i] : i \in 1..Len(s)}
      BY <1>2, Zenon DEF ToSet
    <2>2. ASSUME NEW j \in 1..Len(r)
          PROVE  r[j] \in ToSet(s) \cap A
      <3>1. PICK i \in 1..Len(s) : s[i] \in A /\ c[i] = j
        BY <1>5, Zenon
      <3>2. r[j] = s[i]
        BY <1>4, <3>1, Zenon
      <3> QED BY <2>1, <3>1, <3>2, Zenon
    <2>3. ASSUME NEW i \in 1..Len(s), s[i] \in A
          PROVE  s[i] \in ToSet(r)
      BY <1>4, <2>1, <2>3, Zenon
    <2> QED BY <2>1, <2>2, <2>3, Zenon
  <1>7. Distinct(s) => Distinct(r)
    <2> SUFFICES ASSUME Distinct(s), NEW j \in 1..Len(r), NEW k \in 1..Len(r), r[j] = r[k]
                 PROVE  j = k
      BY <1>2 DEF Distinct
    <2>1. PICK i \in 1..Len(s) : s[i] \in A /\ c[i] = j
      BY <1>5
    <2>2. PICK l \in 1..Len(s) : s[l] \in A /\ c[l] = k
      BY <1>5
    <2>3. s[i] = s[l]
      BY <1>4, <2>1, <2>2
    <2>4. i = l
      BY <1>2, <2>3 DEF Distinct
    <2> QED BY <2>1, <2>2, <2>4
  <1> QED BY <1>1, <1>6, <1>7 DEF r

\* c is a rank in A of the first n elements of s.
Counts(c, s, A, n) ==
    /\ c \in [0..n -> Nat] /\ c[0] = 0
    /\ \A i \in 1..n : c[i] = IF s[i] \in A THEN c[i - 1] + 1 ELSE c[i - 1]

\* Every element is in one of three sets.
Shared(s, A, B, C, n) ==
    /\ A \cap B = {} /\ A \cap C = {} /\ B \cap C = {}
    /\ \A i \in 1..n : s[i] \in A \cup B \cup C

\* The ranks in three parts that share out the elements.
LEMMA RanksAddUp ==
  ASSUME NEW n \in Nat, NEW s, NEW A, NEW B, NEW C, Shared(s, A, B, C, n),
         NEW ca, Counts(ca, s, A, n), NEW cb, Counts(cb, s, B, n),
         NEW cc, Counts(cc, s, C, n)
  PROVE  \A i \in 0..n : ca[i] + cb[i] + cc[i] = i
  <1> DEFINE Bad == {i \in 0..n : ca[i] + cb[i] + cc[i] # i}
  <1> SUFFICES ASSUME Bad # {} PROVE FALSE
    OBVIOUS
  <1>0. /\ ca \in [0..n -> Nat] /\ cb \in [0..n -> Nat] /\ cc \in [0..n -> Nat]
        /\ ca[0] = 0 /\ cb[0] = 0 /\ cc[0] = 0
        /\ \A i \in 1..n :
              /\ ca[i] = IF s[i] \in A THEN ca[i - 1] + 1 ELSE ca[i - 1]
              /\ cb[i] = IF s[i] \in B THEN cb[i - 1] + 1 ELSE cb[i - 1]
              /\ cc[i] = IF s[i] \in C THEN cc[i - 1] + 1 ELSE cc[i - 1]
    BY DEF Counts
  <1>1. PICK m \in Bad : \A k \in Bad : m <= k
    <2>1. Bad \in SUBSET Nat
      OBVIOUS
    <2> HIDE DEF Bad
    <2> QED BY <2>1, LeastNumber
  <1>2. m # 0
    BY <1>0
  <1>3. m \in 1..n /\ m - 1 \in 0..n
    BY <1>2
  <1>4. m - 1 \notin Bad
    <2> HIDE DEF Bad
    <2> QED BY <1>1, <1>3
  <1> DEFINE x == ca[m - 1]
             y == cb[m - 1]
             z == cc[m - 1]
  <1>5. x + y + z = m - 1 /\ x \in Nat /\ y \in Nat /\ z \in Nat
    BY <1>0, <1>3, <1>4
  <1>6. /\ ca[m] = IF s[m] \in A THEN x + 1 ELSE x
        /\ cb[m] = IF s[m] \in B THEN y + 1 ELSE y
        /\ cc[m] = IF s[m] \in C THEN z + 1 ELSE z
    BY <1>0, <1>3
  <1>7. s[m] \in A \cup B \cup C /\ A \cap B = {} /\ A \cap C = {} /\ B \cap C = {}
    BY <1>3 DEF Shared
  <1> HIDE DEF x, y, z
  <1>8. ca[m] + cb[m] + cc[m] = m
    <2>1. CASE s[m] \in A
      <3>1. ca[m] = x + 1 /\ cb[m] = y /\ cc[m] = z
        BY <1>6, <1>7, <2>1
      <3> QED BY <1>3, <1>5, <3>1
    <2>2. CASE s[m] \in B
      <3>1. ca[m] = x /\ cb[m] = y + 1 /\ cc[m] = z
        BY <1>6, <1>7, <2>2
      <3> QED BY <1>3, <1>5, <3>1
    <2>3. CASE s[m] \in C
      <3>1. ca[m] = x /\ cb[m] = y /\ cc[m] = z + 1
        BY <1>6, <1>7, <2>3
      <3> QED BY <1>3, <1>5, <3>1
    <2> QED BY <1>7, <2>1, <2>2, <2>3
  <1> QED BY <1>8

\* A rank never falls.
LEMMA RankGrows ==
  ASSUME NEW n \in Nat, NEW s, NEW A, NEW c, Counts(c, s, A, n)
  PROVE  \A i \in 0..n : c[i] <= c[n]
  <1>0. /\ c \in [0..n -> Nat]
        /\ \A i \in 1..n : c[i] = IF s[i] \in A THEN c[i - 1] + 1 ELSE c[i - 1]
    BY DEF Counts
  <1> DEFINE Bad == {k \in Nat : k <= n /\ c[n - k] > c[n]}
  <1>1. Bad = {}
    <2> SUFFICES ASSUME Bad # {} PROVE FALSE
      OBVIOUS
    <2>1. PICK m \in Bad : \A k \in Bad : m <= k
      <3>1. Bad \in SUBSET Nat
        OBVIOUS
      <3> HIDE DEF Bad
      <3> QED BY <3>1, LeastNumber
    <2>2. m \in Nat /\ m <= n /\ c[n - m] > c[n] /\ n \in 0..n
      OBVIOUS
    <2>3. m # 0
      BY <1>0, <2>2
    <2>4. PICK i \in 1..n : i - 1 = n - m /\ i = n - (m - 1)
      <3>1. n - m + 1 \in 1..n /\ (n - m + 1) - 1 = n - m /\ n - m + 1 = n - (m - 1)
        BY <2>2, <2>3
      <3> QED BY <3>1
    <2>5. m - 1 \notin Bad /\ m - 1 \in Nat /\ m - 1 <= n
      <3> HIDE DEF Bad
      <3> QED BY <2>1, <2>2, <2>3
    <2>6. i \in 0..n /\ i - 1 \in 0..n
      OBVIOUS
    <2>7. c[i] \in Nat /\ c[i - 1] \in Nat /\ c[n] \in Nat
      BY <1>0, <2>2, <2>6
    <2>8. c[i] <= c[n]
      BY <2>4, <2>5, <2>7
    <2>9. c[i - 1] <= c[i]
      <3>1. c[i] = IF s[i] \in A THEN c[i - 1] + 1 ELSE c[i - 1]
        BY <1>0
      <3> QED BY <2>7, <3>1
    <2>10. c[i - 1] > c[n]
      BY <2>2, <2>4
    <2> QED BY <2>7, <2>8, <2>9, <2>10
  <1> SUFFICES ASSUME NEW i \in 0..n PROVE c[i] <= c[n]
    OBVIOUS
  <1>2. n - i \in Nat /\ n - i <= n /\ n - (n - i) = i /\ n \in 0..n
    OBVIOUS
  <1>3. c[i] \in Nat /\ c[n] \in Nat
    BY <1>0, <1>2
  <1>4. n - i \notin Bad
    BY <1>1
  <1> QED BY <1>2, <1>3, <1>4

LEMMA ConcatenationOfTwo ==
  ASSUME NEW T, NEW a \in Seq(T), NEW b \in Seq(T)
  PROVE  /\ a \o b \in Seq(T) /\ Len(a \o b) = Len(a) + Len(b)
         /\ \A j \in 1..Len(a) : (a \o b)[j] = a[j]
         /\ \A j \in 1..Len(b) : (a \o b)[Len(a) + j] = b[j]
  OBVIOUS

\* Where the elements of three sequences are in their concatenation.
IsJoin(r, a, b, c) ==
    /\ Len(r) = Len(a) + Len(b) + Len(c)
    /\ \A j \in 1..Len(a) : r[j] = a[j] /\ j \in 1..Len(r)
    /\ \A j \in 1..Len(b) : r[Len(a) + j] = b[j] /\ Len(a) + j \in 1..Len(r)
    /\ \A j \in 1..Len(c) : /\ r[Len(a) + Len(b) + j] = c[j]
                            /\ Len(a) + Len(b) + j \in 1..Len(r)
    /\ \A j \in 1..Len(r) :
            \/ \E k \in 1..Len(a) : j = k /\ r[j] = a[k]
            \/ \E k \in 1..Len(b) : j = Len(a) + k /\ r[j] = b[k]
            \/ \E k \in 1..Len(c) : j = Len(a) + Len(b) + k /\ r[j] = c[k]

LEMMA Concatenation ==
  ASSUME NEW T, NEW a \in Seq(T), NEW b \in Seq(T), NEW c \in Seq(T),
         NEW r, r = a \o b \o c
  PROVE  r \in Seq(T) /\ IsJoin(r, a, b, c)
  <1>1. Len(a) \in Nat /\ Len(b) \in Nat /\ Len(c) \in Nat
    OBVIOUS
  <1>0. PICK q : q = a \o b
    OBVIOUS
  <1>2. /\ q \in Seq(T) /\ Len(q) = Len(a) + Len(b)
        /\ \A j \in 1..Len(a) : q[j] = a[j]
        /\ \A j \in 1..Len(b) : q[Len(a) + j] = b[j]
    BY <1>0, ConcatenationOfTwo
  <1>3. r = q \o c
    BY <1>0
  <1>4. /\ r \in Seq(T) /\ Len(r) = Len(q) + Len(c)
        /\ \A j \in 1..Len(q) : r[j] = q[j]
        /\ \A j \in 1..Len(c) : r[Len(q) + j] = c[j]
    <2>1. /\ q \o c \in Seq(T) /\ Len(q \o c) = Len(q) + Len(c)
          /\ \A j \in 1..Len(q) : (q \o c)[j] = q[j]
          /\ \A j \in 1..Len(c) : (q \o c)[Len(q) + j] = c[j]
      <3>1. q \in Seq(T)
        BY <1>2
      <3> QED BY <3>1, ConcatenationOfTwo
    <2> QED BY <1>3, <2>1, Zenon
  <1>5. Len(r) = Len(a) + Len(b) + Len(c)
    BY <1>1, <1>2, <1>4
  <1>6. \A j \in 1..Len(a) : r[j] = a[j] /\ j \in 1..Len(r)
    <2> TAKE j \in 1..Len(a)
    <2>1. j \in 1..Len(q) /\ j \in 1..Len(r)
      BY <1>1, <1>2, <1>5
    <2> QED BY <1>2, <1>4, <2>1
  <1>7. \A j \in 1..Len(b) : r[Len(a) + j] = b[j] /\ Len(a) + j \in 1..Len(r)
    <2> TAKE j \in 1..Len(b)
    <2>1. Len(a) + j \in 1..Len(q) /\ Len(a) + j \in 1..Len(r)
      BY <1>1, <1>2, <1>5
    <2> QED BY <1>2, <1>4, <2>1
  <1>8. \A j \in 1..Len(c) : /\ r[Len(a) + Len(b) + j] = c[j]
                             /\ Len(a) + Len(b) + j \in 1..Len(r)
    <2> TAKE j \in 1..Len(c)
    <2>1. Len(a) + Len(b) + j \in 1..Len(r)
      BY <1>1, <1>5
    <2> QED BY <1>2, <1>4, <2>1
  <1>9. ASSUME NEW j \in 1..Len(r)
        PROVE  \/ \E k \in 1..Len(a) : j = k /\ r[j] = a[k]
               \/ \E k \in 1..Len(b) : j = Len(a) + k /\ r[j] = b[k]
               \/ \E k \in 1..Len(c) : j = Len(a) + Len(b) + k /\ r[j] = c[k]
    <2>1. CASE j <= Len(a)
      <3>1. j \in 1..Len(a)
        BY <1>1, <2>1
      <3> QED BY <1>6, <3>1
    <2>2. CASE j > Len(a) /\ j <= Len(a) + Len(b)
      <3>1. j - Len(a) \in 1..Len(b) /\ j = Len(a) + (j - Len(a))
        BY <1>1, <2>2
      <3> QED BY <1>7, <3>1
    <2>3. CASE j > Len(a) + Len(b)
      <3> DEFINE k == j - Len(a) - Len(b)
      <3>1. k \in 1..Len(c) /\ j = Len(a) + Len(b) + k
        BY <1>1, <1>5, <2>3
      <3> HIDE DEF k
      <3> QED BY <1>8, <3>1
    <2>4. j <= Len(a) \/ (j > Len(a) /\ j <= Len(a) + Len(b)) \/ j > Len(a) + Len(b)
      BY <1>1
    <2> QED BY <2>1, <2>2, <2>3, <2>4
  <1> QED BY <1>4, <1>5, <1>6, <1>7, <1>8, <1>9 DEF IsJoin


\* p is the part of s whose elements are in A, and c its rank.
IsPart(p, s, A, c, n) ==
    /\ Counts(c, s, A, n) /\ c[n] = Len(p)
    /\ ToSet(p) = ToSet(s) \cap A
    /\ Distinct(s) => Distinct(p)
    /\ \A i \in 1..n : s[i] \in A => c[i] \in 1..Len(p) /\ p[c[i]] = s[i]

\* r has the elements of s, none that is in C nearer to the front.
InOrder(r, s, C) ==
    /\ Len(r) = Len(s) /\ ToSet(r) = ToSet(s)
    /\ Distinct(s) => Distinct(r)
    /\ \A i \in 1..Len(s) : s[i] \in C => \E j \in 1..Len(r) : i <= j /\ r[j] = s[i]

\* A sequence sorted into three parts keeps its elements, and no element of the
\* last part comes nearer to the front.
LEMMA OnlyPartition ==
  ASSUME NEW T, NEW s \in Seq(T), NEW A, NEW B, NEW C, Shared(s, A, B, C, Len(s))
  PROVE  /\ Only(s, A) \o Only(s, B) \o Only(s, C) \in Seq(T)
         /\ InOrder(Only(s, A) \o Only(s, B) \o Only(s, C), s, C)
  <1>0. PICK r : r = Only(s, A) \o Only(s, B) \o Only(s, C)
    OBVIOUS
  <1>1. Only(s, A) \in Seq(T) /\ Only(s, B) \in Seq(T) /\ Only(s, C) \in Seq(T)
    BY OnlyRank
  <1>2. \A X : \E c : IsPart(Only(s, X), s, X, c, Len(s))
    <2> TAKE X
    <2>1. PICK c : IsRank(c, s, X)
      BY OnlyRank
    <2>2. ToSet(Only(s, X)) = ToSet(s) \cap X /\ (Distinct(s) => Distinct(Only(s, X)))
      BY OnlyElements
    <2>3. IsPart(Only(s, X), s, X, c, Len(s))
      BY <2>1, <2>2, Zenon DEF IsRank, IsPart, Counts
    <2> QED BY <2>3
  <1>3. r \in Seq(T) /\ IsJoin(r, Only(s, A), Only(s, B), Only(s, C))
    BY <1>0, <1>1, Concatenation, Zenon
  <1>4. Len(s) \in Nat /\ DOMAIN s = 1..Len(s)
    OBVIOUS
  <1>6. PICK a, b, c, n : a = Only(s, A) /\ b = Only(s, B) /\ c = Only(s, C) /\ n = Len(s)
    OBVIOUS
  <1>7. PICK ca : IsPart(a, s, A, ca, n)
    BY <1>2, <1>6, Zenon
  <1>8. PICK cb : IsPart(b, s, B, cb, n)
    BY <1>2, <1>6, Zenon
  <1>9. PICK cc : IsPart(c, s, C, cc, n)
    BY <1>2, <1>6, Zenon
  <1>10. /\ a \in Seq(T) /\ b \in Seq(T) /\ c \in Seq(T) /\ r \in Seq(T)
         /\ IsJoin(r, a, b, c) /\ n \in Nat /\ DOMAIN s = 1..n /\ Shared(s, A, B, C, n)
    BY <1>1, <1>3, <1>4, <1>6, Zenon
  <1>11. /\ Len(a) \in Nat /\ Len(b) \in Nat /\ Len(c) \in Nat /\ Len(r) \in Nat
         /\ DOMAIN a = 1..Len(a) /\ DOMAIN b = 1..Len(b) /\ DOMAIN c = 1..Len(c)
         /\ DOMAIN r = 1..Len(r)
    BY <1>10
  <1>12. /\ Counts(ca, s, A, n) /\ Counts(cb, s, B, n) /\ Counts(cc, s, C, n)
         /\ ca[n] = Len(a) /\ cb[n] = Len(b) /\ cc[n] = Len(c)
         /\ ToSet(a) = ToSet(s) \cap A /\ ToSet(b) = ToSet(s) \cap B
         /\ ToSet(c) = ToSet(s) \cap C
         /\ Distinct(s) => Distinct(a) /\ Distinct(b) /\ Distinct(c)
         /\ \A i \in 1..n : s[i] \in C => cc[i] \in 1..Len(c) /\ c[cc[i]] = s[i]
    BY <1>7, <1>8, <1>9, Zenon DEF IsPart
  <1>13. \A i \in 0..n : ca[i] + cb[i] + cc[i] = i
    BY <1>10, <1>12, RanksAddUp
  <1>14. Len(r) = n
    <2>1. n \in 0..n
      BY <1>10
    <2>2. ca[n] + cb[n] + cc[n] = n
      BY <1>13, <2>1
    <2> QED BY <1>12, <2>2, <1>10 DEF IsJoin
  <1>15. /\ \A k \in 1..Len(a) : a[k] \in ToSet(s) /\ a[k] \in A
         /\ \A k \in 1..Len(b) : b[k] \in ToSet(s) /\ b[k] \in B
         /\ \A k \in 1..Len(c) : c[k] \in ToSet(s) /\ c[k] \in C
    <2>1. /\ \A k \in 1..Len(a) : a[k] \in ToSet(a)
          /\ \A k \in 1..Len(b) : b[k] \in ToSet(b)
          /\ \A k \in 1..Len(c) : c[k] \in ToSet(c)
      BY <1>11 DEF ToSet
    <2> QED BY <1>12, <2>1
  <1>16. \A j \in 1..Len(r) : r[j] \in ToSet(r)
    BY <1>11 DEF ToSet
  <1>17. ASSUME NEW j \in 1..Len(r)
         PROVE  /\ r[j] \in ToSet(s)
                /\ \/ r[j] \in A /\ \E k \in 1..Len(a) : j = k /\ r[j] = a[k]
                   \/ r[j] \in B /\ \E k \in 1..Len(b) : j = Len(a) + k /\ r[j] = b[k]
                   \/ r[j] \in C /\ \E k \in 1..Len(c) : /\ j = Len(a) + Len(b) + k
                                                         /\ r[j] = c[k]
    <2>1. \/ \E k \in 1..Len(a) : j = k /\ r[j] = a[k]
          \/ \E k \in 1..Len(b) : j = Len(a) + k /\ r[j] = b[k]
          \/ \E k \in 1..Len(c) : j = Len(a) + Len(b) + k /\ r[j] = c[k]
      BY <1>10, Zenon DEF IsJoin
    <2> QED BY <1>15, <2>1, Zenon
  <1>18. ToSet(r) \subseteq ToSet(s)
    BY <1>11, <1>17 DEF ToSet
  <1>19. ToSet(s) \subseteq ToSet(r)
    <2>1. ToSet(a) \subseteq ToSet(r)
      <3>1. \A k \in 1..Len(a) : r[k] = a[k] /\ k \in 1..Len(r)
        BY <1>10, Zenon DEF IsJoin
      <3>2. \A k \in 1..Len(a) : a[k] \in ToSet(r)
        BY <1>16, <3>1
      <3> QED BY <1>11, <3>2 DEF ToSet
    <2>2. ToSet(b) \subseteq ToSet(r)
      <3>1. \A k \in 1..Len(b) : r[Len(a) + k] = b[k] /\ Len(a) + k \in 1..Len(r)
        BY <1>10, Zenon DEF IsJoin
      <3>2. \A k \in 1..Len(b) : b[k] \in ToSet(r)
        BY <1>16, <3>1
      <3> QED BY <1>11, <3>2 DEF ToSet
    <2>3. ToSet(c) \subseteq ToSet(r)
      <3>1. \A k \in 1..Len(c) : /\ r[Len(a) + Len(b) + k] = c[k]
                                 /\ Len(a) + Len(b) + k \in 1..Len(r)
        BY <1>10, Zenon DEF IsJoin
      <3>2. \A k \in 1..Len(c) : c[k] \in ToSet(r)
        BY <1>16, <3>1
      <3> QED BY <1>11, <3>2 DEF ToSet
    <2>4. ToSet(s) \subseteq A \cup B \cup C
      BY <1>10 DEF ToSet, Shared
    <2> QED BY <1>12, <2>1, <2>2, <2>3, <2>4
  <1>20. ASSUME Distinct(s), NEW j \in 1..Len(r), NEW k \in 1..Len(r), r[j] = r[k]
         PROVE  j = k
    <2>1. /\ \A x, y \in 1..Len(a) : a[x] = a[y] => x = y
          /\ \A x, y \in 1..Len(b) : b[x] = b[y] => x = y
          /\ \A x, y \in 1..Len(c) : c[x] = c[y] => x = y
      BY <1>11, <1>12, <1>20 DEF Distinct
    <2>0. A \cap B = {} /\ A \cap C = {} /\ B \cap C = {}
      BY <1>10 DEF Shared
    <2>2. CASE r[j] \in A
      <3>1. PICK x \in 1..Len(a) : j = x /\ r[j] = a[x]
        BY <1>17, <2>0, <2>2
      <3>2. PICK y \in 1..Len(a) : k = y /\ r[k] = a[y]
        BY <1>17, <1>20, <2>0, <2>2
      <3> QED BY <1>20, <2>1, <3>1, <3>2
    <2>3. CASE r[j] \in B
      <3>1. PICK x \in 1..Len(b) : j = Len(a) + x /\ r[j] = b[x]
        BY <1>17, <2>0, <2>3
      <3>2. PICK y \in 1..Len(b) : k = Len(a) + y /\ r[k] = b[y]
        BY <1>17, <1>20, <2>0, <2>3
      <3>3. x = y
        BY <1>20, <2>1, <3>1, <3>2
      <3> QED BY <3>1, <3>2, <3>3
    <2>4. CASE r[j] \in C
      <3>1. PICK x \in 1..Len(c) : j = Len(a) + Len(b) + x /\ r[j] = c[x]
        BY <1>17, <2>0, <2>4
      <3>2. PICK y \in 1..Len(c) : k = Len(a) + Len(b) + y /\ r[k] = c[y]
        BY <1>17, <1>20, <2>0, <2>4
      <3>3. x = y
        BY <1>20, <2>1, <3>1, <3>2
      <3> QED BY <3>1, <3>2, <3>3
    <2>5. r[j] \in A \/ r[j] \in B \/ r[j] \in C
      BY <1>17
    <2> QED BY <2>2, <2>3, <2>4, <2>5
  <1>21. Distinct(s) => Distinct(r)
    BY <1>11, <1>20 DEF Distinct
  <1>22. ASSUME NEW i \in 1..n, s[i] \in C
         PROVE  \E j \in 1..Len(r) : i <= j /\ r[j] = s[i]
    <2>1. i \in 0..n /\ n \in 0..n
      BY <1>10
    <2>2. ca[i] \in Nat /\ cb[i] \in Nat /\ cc[i] \in 1..Len(c) /\ c[cc[i]] = s[i]
      BY <1>10, <1>12, <1>22, <2>1 DEF Counts
    <2>3. ca[i] + cb[i] + cc[i] = i
      BY <1>13, <2>1
    <2>4. ca[i] <= Len(a)
      <3>1. \A k \in 0..n : ca[k] <= ca[n]
        BY <1>12, <1>10, RankGrows
      <3> QED BY <1>12, <2>1, <3>1
    <2>5. cb[i] <= Len(b)
      <3>1. \A k \in 0..n : cb[k] <= cb[n]
        BY <1>12, <1>10, RankGrows
      <3> QED BY <1>12, <2>1, <3>1
    <2>6. /\ r[Len(a) + Len(b) + cc[i]] = c[cc[i]]
          /\ Len(a) + Len(b) + cc[i] \in 1..Len(r)
      BY <2>2, Zenon, <1>10 DEF IsJoin
    <2>7. i <= Len(a) + Len(b) + cc[i]
      BY <1>11, <2>2, <2>3, <2>4, <2>5
    <2> QED BY <2>2, <2>6, <2>7
  <1>23. /\ Len(r) = n /\ ToSet(r) = ToSet(s) /\ (Distinct(s) => Distinct(r))
         /\ \A i \in 1..n : s[i] \in C => \E j \in 1..Len(r) : i <= j /\ r[j] = s[i]
    BY <1>14, <1>18, <1>19, <1>21, <1>22
  <1>24. r \in Seq(T) /\ InOrder(r, s, C)
    BY <1>6, <1>10, <1>23, Zenon DEF InOrder
  <1> QED BY <1>0, <1>24, Zenon

\* A concatenation has the elements of both.
LEMMA ConcatenationElements ==
  ASSUME NEW T, NEW g \in Seq(T), NEW h \in Seq(T)
  PROVE  g \o h \in Seq(T) /\ ToSet(g \o h) = ToSet(g) \cup ToSet(h)
  <1>1. /\ g \o h \in Seq(T) /\ Len(g \o h) = Len(g) + Len(h)
        /\ \A j \in 1..Len(g) : (g \o h)[j] = g[j]
        /\ \A j \in 1..Len(h) : (g \o h)[Len(g) + j] = h[j]
    BY ConcatenationOfTwo
  <1>2. PICK r : r = g \o h
    OBVIOUS
  <1>3. /\ DOMAIN r = 1..(Len(g) + Len(h)) /\ DOMAIN g = 1..Len(g)
        /\ DOMAIN h = 1..Len(h) /\ Len(g) \in Nat /\ Len(h) \in Nat
    BY <1>1, <1>2
  <1>4. /\ \A j \in 1..Len(g) : r[j] = g[j]
        /\ \A j \in 1..Len(h) : r[Len(g) + j] = h[j]
    BY <1>1, <1>2
  <1>5. ToSet(r) \subseteq ToSet(g) \cup ToSet(h)
    <2> SUFFICES ASSUME NEW j \in 1..(Len(g) + Len(h))
                 PROVE  r[j] \in ToSet(g) \cup ToSet(h)
      BY <1>3 DEF ToSet
    <2>1. CASE j <= Len(g)
      <3>1. j \in 1..Len(g)
        BY <1>3, <2>1
      <3> QED BY <1>3, <1>4, <3>1 DEF ToSet
    <2>2. CASE ~(j <= Len(g))
      <3>1. j - Len(g) \in 1..Len(h) /\ Len(g) + (j - Len(g)) = j
        BY <1>3, <2>2
      <3>2. r[j] = h[j - Len(g)]
        BY <1>4, <3>1
      <3> QED BY <1>3, <3>1, <3>2 DEF ToSet
    <2> QED BY <2>1, <2>2
  <1>6. ToSet(g) \subseteq ToSet(r)
    <2>1. \A j \in 1..Len(g) : j \in 1..(Len(g) + Len(h))
      BY <1>3
    <2> QED BY <1>3, <1>4, <2>1 DEF ToSet
  <1>7. ToSet(h) \subseteq ToSet(r)
    <2>1. \A j \in 1..Len(h) : Len(g) + j \in 1..(Len(g) + Len(h))
      BY <1>3
    <2> QED BY <1>3, <1>4, <2>1 DEF ToSet
  <1> QED BY <1>1, <1>2, <1>5, <1>6, <1>7

\* f is the function by which FlattenSeq(q) is defined, up to n.
IsFlatten(f, q, n) ==
    f = [i \in 1..n |-> IF i = 1 THEN q[i] ELSE f[i - 1] \o q[i]]

LEMMA FlattenExists ==
  ASSUME NEW q, NEW n \in Nat
  PROVE  \E f : IsFlatten(f, q, n)
  <1> DEFINE Bad == {k \in Nat : ~ \E f : IsFlatten(f, q, k)}
  <1> SUFFICES ASSUME Bad # {} PROVE FALSE
    OBVIOUS
  <1>1. PICK m \in Bad : \A k \in Bad : m <= k
    BY LeastNumber
  <1>2. m # 0
    <2>1. IsFlatten([i \in 1..0 |-> <<>>], q, 0)
      BY DEF IsFlatten
    <2> QED BY <2>1
  <1>3. PICK f : IsFlatten(f, q, m - 1)
    <2>1. m - 1 \in Nat /\ m - 1 \notin Bad
      BY <1>1, <1>2
    <2> QED BY <2>1
  <1> DEFINE g == [i \in 1..m |-> IF i = 1 THEN q[i] ELSE f[i - 1] \o q[i]]
  <1>4. \A i \in 1..(m - 1) : g[i] = f[i]
    <2> TAKE i \in 1..(m - 1)
    <2>1. f[i] = IF i = 1 THEN q[i] ELSE f[i - 1] \o q[i]
      BY <1>3, Zenon DEF IsFlatten
    <2>2. i \in 1..m
      OBVIOUS
    <2> QED BY <2>1, <2>2
  <1>5. IsFlatten(g, q, m)
    <2>1. \A i \in 1..m : i # 1 => g[i - 1] = f[i - 1]
      <3> TAKE i \in 1..m
      <3> HAVE i # 1
      <3>1. i - 1 \in 1..(m - 1)
        OBVIOUS
      <3> HIDE DEF g
      <3> QED BY <1>4, <3>1
    <2>2. \A i \in 1..m : g[i] = IF i = 1 THEN q[i] ELSE g[i - 1] \o q[i]
      BY <2>1
    <2>3. g = [i \in 1..m |-> g[i]]
      OBVIOUS
    <2> HIDE DEF g
    <2> QED BY <2>2, <2>3 DEF IsFlatten
  <1> QED BY <1>1, <1>5

LEMMA FlattenElements ==
  ASSUME NEW T, NEW q \in Seq(Seq(T))
  PROVE  /\ FlattenSeq(q) \in Seq(T)
         /\ ToSet(FlattenSeq(q)) = UNION {ToSet(q[i]) : i \in DOMAIN q}
  <1> DEFINE n == Len(q)
  <1>1. n \in Nat /\ DOMAIN q = 1..n /\ \A i \in 1..n : q[i] \in Seq(T)
    OBVIOUS
  <1>2. CASE n = 0
    <2>1. q = <<>>
      BY <1>2
    <2>2. FlattenSeq(q) = <<>>
      BY <1>2, <2>1 DEF FlattenSeq
    <2> QED BY <1>1, <1>2, <2>2 DEF ToSet
  <1>3. CASE n # 0
    <2> DEFINE f == CHOOSE f : IsFlatten(f, q, n)
    <2>1. IsFlatten(f, q, n)
      BY <1>1, FlattenExists
    <2>2. FlattenSeq(q) = f[n]
      BY <1>3 DEF FlattenSeq, IsFlatten
    <2> HIDE DEF f
    <2>3. \A i \in 1..n : f[i] = IF i = 1 THEN q[i] ELSE f[i - 1] \o q[i]
      BY <2>1, Zenon DEF IsFlatten
    <2> DEFINE Kept(k) == /\ f[k] \in Seq(T)
                          /\ ToSet(f[k]) = UNION {ToSet(q[i]) : i \in 1..k}
               Bad == {k \in 1..n : ~Kept(k)}
    <2>4. Bad = {}
      <3> SUFFICES ASSUME Bad # {} PROVE FALSE
        OBVIOUS
      <3>1. PICK m \in Bad : \A k \in Bad : m <= k
        <4>1. Bad \in SUBSET Nat
          BY <1>1
        <4> HIDE DEF Bad
        <4> QED BY <4>1, LeastNumber
      <3>2. m # 1
        <4>1. 1 \in 1..n /\ 1..1 = {1}
          BY <1>1, <1>3
        <4>2. f[1] = q[1]
          BY <2>3, <4>1
        <4>3. Kept(1)
          BY <1>1, <4>1, <4>2
        <4> QED BY <4>3
      <3>3. m \in 1..n /\ m - 1 \in 1..n
        BY <1>1, <3>2
      <3>4. Kept(m - 1)
        <4>1. m - 1 \notin Bad
          <5> HIDE DEF Bad
          <5> QED BY <3>1, <3>3
        <4> QED BY <3>3, <4>1
      <3> DEFINE g == f[m - 1]
                 h == q[m]
      <3>5. g \in Seq(T) /\ h \in Seq(T)
        BY <1>1, <3>3, <3>4
      <3>6. f[m] = g \o h
        BY <2>3, <3>2, <3>3
      <3>7. ToSet(g) = UNION {ToSet(q[i]) : i \in 1..(m - 1)}
        BY <3>4
      <3>8. 1..m = (1..(m - 1)) \cup {m}
        BY <3>3
      <3>9. UNION {ToSet(q[i]) : i \in 1..m} = ToSet(g) \cup ToSet(h)
        BY <3>7, <3>8, SMTT(30)
      <3> HIDE DEF g, h
      <3>10. g \o h \in Seq(T) /\ ToSet(g \o h) = ToSet(g) \cup ToSet(h)
        BY <3>5, ConcatenationElements
      <3>11. Kept(m)
        BY <3>6, <3>9, <3>10
      <3> QED BY <3>11
    <2>5. Kept(n)
      <3>1. n \in 1..n
        BY <1>1, <1>3
      <3> QED BY <2>4, <3>1
    <2> QED BY <1>1, <2>2, <2>5
  <1> QED BY <1>2, <1>3

(***************************************************************************)
(* 2. The ledger                                                           *)
(***************************************************************************)

\* The chain of transactions the server shows: each once, none in a block
\* unless shown, spending outputs that are shown or foreign, in no circle, a
\* mined one none of a waiting one, and no output twice.
Shape ==
    /\ history \in Seq(Txs) /\ Distinct(history)
    /\ tip \in 0..MaxTip /\ height \in [Txs -> 0..tip]
    /\ \A t \in Txs : height[t] > 0 => t \in Known

Chained ==
    /\ \A t \in Known : \A o \in Ins[t] : o[1] \in Known \cup {Elsewhere}
    /\ \A t \in Mined : \A o \in Ins[t] : o[1] \notin Pending
    /\ \A t, u \in Known : t # u => Ins[t] \cap Ins[u] = {}

NoCircle ==
    \A S \in SUBSET Known : S # {} => \E t \in S : \A o \in Ins[t] : o[1] \notin S

Ledger == Shape /\ Chained /\ NoCircle

\* Nothing mined comes nearer to the front of the history.
MinedStay ==
    \A i \in 1..Len(history) : history[i] \in Mined =>
        \E j \in 1..Len(history') : i <= j /\ history'[j] = history[i]

LEMMA Parts ==
  ASSUME Shape
  PROVE  /\ Known \subseteq Txs /\ Known = Pending \cup Mined /\ Pending \cap Mined = {}
         /\ \A t \in Txs : t \in Mined <=> height[t] > 0
         /\ \A t \in Txs : t \in Pending <=> t \in Known /\ height[t] = 0
  <1>1. Known \subseteq Txs
    BY DEF Shape, Known, ToSet
  <1>2. \A t \in Txs : height[t] \in Nat
    BY DEF Shape
  <1> QED BY <1>1, <1>2 DEF Shape, Pending, Mined

LEMMA AcceptEffect ==
  ASSUME Shape, NEW t \in Txs, Accept(t)
  PROVE  /\ Shape' /\ MinedStay
         /\ Known' = Known \cup {t} /\ Pending' = Pending \cup {t} /\ Mined' = Mined
         /\ t \notin Known /\ height[t] = 0
         /\ \A o \in Ins[t] : o[1] \in Known \cup {Elsewhere} /\ o \notin SpentBy(Known)
         /\ UNCHANGED <<height, tip>>
  <1>1. /\ t \notin Known /\ history' = <<t>> \o history /\ UNCHANGED <<height, tip>>
        /\ \A o \in Ins[t] : o[1] \in Known \cup {Elsewhere} /\ o \notin SpentBy(Known)
    BY DEF Accept
  <1>2. history \in Seq(Txs) /\ <<t>> \in Seq(Txs) /\ Len(<<t>>) = 1 /\ <<t>>[1] = t
    BY DEF Shape
  <1>3. /\ history' \in Seq(Txs) /\ Len(history') = 1 + Len(history)
        /\ \A j \in 1..Len(history) : history'[1 + j] = history[j]
        /\ history'[1] = t
    <2>1. /\ <<t>> \o history \in Seq(Txs) /\ Len(<<t>> \o history) = 1 + Len(history)
          /\ \A j \in 1..1 : (<<t>> \o history)[j] = <<t>>[j]
          /\ \A j \in 1..Len(history) : (<<t>> \o history)[1 + j] = history[j]
      BY <1>2, ConcatenationOfTwo
    <2> QED BY <1>1, <1>2, <2>1
  <1>4. /\ Len(history) \in Nat /\ DOMAIN history = 1..Len(history)
        /\ DOMAIN history' = 1..(1 + Len(history))
    BY <1>2, <1>3
  <1>5. \A j \in 1..(1 + Len(history)) : j # 1 =>
            j - 1 \in 1..Len(history) /\ history'[j] = history[j - 1]
    <2> TAKE j \in 1..(1 + Len(history))
    <2> HAVE j # 1
    <2>1. j - 1 \in 1..Len(history) /\ 1 + (j - 1) = j
      BY <1>4
    <2> QED BY <1>3, <2>1
  <1>6. \A j \in 1..Len(history) : history[j] \in Known
    BY <1>4 DEF Known, ToSet
  <1>7. Known' = Known \cup {t}
    <2>1. 1 \in 1..(1 + Len(history)) /\ \A j \in 1..Len(history) : 1 + j \in 1..(1 + Len(history))
      BY <1>4
    <2>2. Known' \subseteq Known \cup {t}
      <3>1. \A j \in 1..(1 + Len(history)) : history'[j] \in Known \cup {t}
        BY <1>3, <1>5, <1>6
      <3> QED BY <1>4, <3>1 DEF Known, ToSet
    <2>3. Known \cup {t} \subseteq Known'
      BY <1>3, <1>4, <2>1 DEF Known, ToSet
    <2> QED BY <2>2, <2>3
  <1>8. Distinct(history)'
    <2> SUFFICES ASSUME NEW i \in 1..(1 + Len(history)), NEW j \in 1..(1 + Len(history)),
                        history'[i] = history'[j]
                 PROVE  i = j
      BY <1>4 DEF Distinct
    <2>1. CASE i = 1 /\ j # 1
      BY <1>1, <1>3, <1>5, <1>6, <2>1
    <2>2. CASE i # 1 /\ j = 1
      BY <1>1, <1>3, <1>5, <1>6, <2>2
    <2>3. CASE i # 1 /\ j # 1
      <3>1. history[i - 1] = history[j - 1] /\ i - 1 \in 1..Len(history) /\ j - 1 \in 1..Len(history)
        BY <1>5, <2>3
      <3>2. i - 1 = j - 1
        BY <1>4, <3>1 DEF Shape, Distinct
      <3> QED BY <3>2
    <2> QED BY <2>1, <2>2, <2>3
  <1>9. height[t] = 0
    BY <1>1 DEF Shape
  <1>10. Shape'
    BY <1>1, <1>3, <1>7, <1>8 DEF Shape
  <1>11. Pending' = Pending \cup {t} /\ Mined' = Mined
    BY <1>1, <1>7, <1>9 DEF Pending, Mined
  <1>12. MinedStay
    <2> SUFFICES ASSUME NEW i \in 1..Len(history)
                 PROVE  \E j \in 1..Len(history') : i <= j /\ history'[j] = history[i]
      BY DEF MinedStay
    <2>1. 1 + i \in 1..Len(history') /\ i <= 1 + i
      BY <1>3, <1>4
    <2> QED BY <1>3, <2>1
  <1> QED BY <1>1, <1>7, <1>9, <1>10, <1>11, <1>12

LEMMA MineEffect ==
  ASSUME Shape, NEW block \in SUBSET Pending, Mine(block)
  PROVE  /\ Shape' /\ MinedStay
         /\ Known' = Known /\ Pending' = Pending \ block /\ Mined' = Mined \cup block
         /\ tip' = tip + 1 /\ \A t \in Txs \ block : height'[t] = height[t]
         /\ \A t \in block : \A o \in Ins[t] : o[1] \notin Pending \ block
  <1>1. /\ tip < MaxTip /\ tip' = tip + 1
        /\ height' = [t \in Txs |-> IF t \in block THEN tip' ELSE height[t]]
        /\ history' = Only(history, Pending \ block) \o Only(history, block)
                        \o Only(history, Mined)
        /\ \A t \in block : \A o \in Ins[t] : o[1] \notin Pending \ block
    BY DEF Mine
  <1>2. history \in Seq(Txs) /\ Distinct(history)
    BY DEF Shape
  <1>0. PICK A, B, C, s, r : /\ A = Pending \ block /\ B = block /\ C = Mined
                             /\ s = history /\ r = history'
    OBVIOUS
  <1>3. Shared(s, A, B, C, Len(s)) /\ s \in Seq(Txs)
    <2>1. DOMAIN s = 1..Len(s) /\ \A i \in 1..Len(s) : s[i] \in Known
      BY <1>0, <1>2 DEF Known, ToSet
    <2> QED BY <1>0, <1>2, <2>1 DEF Shared, Mined, Pending
  <1>4. r = Only(s, A) \o Only(s, B) \o Only(s, C)
    BY <1>0, <1>1
  <1>5. /\ history' \in Seq(Txs) /\ Len(history') = Len(history)
        /\ ToSet(history') = ToSet(history)
        /\ Distinct(history) => Distinct(history')
        /\ \A i \in 1..Len(history) : history[i] \in Mined =>
                \E j \in 1..Len(history') : i <= j /\ history'[j] = history[i]
    <2>1. r \in Seq(Txs) /\ InOrder(r, s, C)
      BY <1>3, <1>4, OnlyPartition
    <2> QED BY <1>0, <2>1, Zenon DEF InOrder
  <1>6. Known' = Known
    BY <1>5 DEF Known
  <1>7. MinedStay
    BY <1>5 DEF MinedStay
  <1>8. /\ tip \in Nat /\ tip + 1 \in 0..MaxTip /\ MaxTip \in Nat
        /\ \A t \in Txs : height[t] \in 0..tip
    BY <1>1, BlockbookAssumption DEF Shape
  <1>9. /\ \A t \in Txs \ block : height'[t] = height[t]
        /\ \A t \in Txs \cap block : height'[t] = tip + 1
        /\ height' \in [Txs -> 0..(tip + 1)]
    BY <1>1, <1>8
  <1>10. block \subseteq Known /\ Known \subseteq Txs /\ \A t \in block : height[t] = 0
    BY Parts DEF Pending
  <1>11. Shape'
    <2>1. \A t \in Txs : height'[t] > 0 => t \in Known
      BY <1>9, <1>10 DEF Shape
    <2>2. Distinct(history)'
      BY <1>2, <1>5
    <2> QED BY <1>1, <1>5, <1>6, <1>8, <1>9, <2>1, <2>2 DEF Shape
  <1>12. Pending' = Pending \ block
    BY <1>6, <1>8, <1>9, <1>10 DEF Pending
  <1>13. Mined' = Mined \cup block
    BY <1>6, <1>10, <1>12 DEF Mined, Pending
  <1> QED BY <1>1, <1>6, <1>7, <1>9, <1>11, <1>12, <1>13

LEMMA EvictEffect ==
  ASSUME Shape, NEW gone \in SUBSET Pending, Evict(gone)
  PROVE  /\ Shape'
         /\ Known' = Known \ gone /\ Pending' = Pending \ gone /\ Mined' = Mined
         /\ gone # {} /\ UNCHANGED <<height, tip>>
         /\ \A t \in Pending : (\E o \in Ins[t] : o[1] \in gone) => t \in gone
  <1>1. /\ history' = Only(history, Known \ gone) /\ UNCHANGED <<height, tip>> /\ gone # {}
        /\ \A t \in Pending : (\E o \in Ins[t] : o[1] \in gone) => t \in gone
    BY DEF Evict
  <1>2. history \in Seq(Txs) /\ Distinct(history)
    BY DEF Shape
  <1>3. /\ history' \in Seq(Txs) /\ ToSet(history') = ToSet(history) \cap (Known \ gone)
        /\ Distinct(history')
    BY <1>1, <1>2, OnlyElements
  <1>4. Known' = Known \ gone
    BY <1>3 DEF Known
  <1>5. \A t \in gone : height[t] = 0
    BY DEF Pending
  <1>6. Shape'
    BY <1>1, <1>3, <1>4, <1>5 DEF Shape
  <1>7. Pending' = Pending \ gone
    BY <1>1, <1>4 DEF Pending
  <1>8. Mined' = Mined
    BY <1>4, <1>7 DEF Mined, Pending
  <1> QED BY <1>1, <1>4, <1>6, <1>7, <1>8

\* What the network does leaves the ledger in order.
LEMMA LedgerKept ==
  ASSUME Ledger, LedgerStep
  PROVE  Ledger'
  <1>1. Shape /\ Chained /\ NoCircle
    BY DEF Ledger
  <1>2. Known \subseteq Txs /\ Known = Pending \cup Mined /\ Pending \cap Mined = {}
    BY <1>1, Parts
  <1>3. ASSUME NEW t \in Txs, Accept(t) PROVE Ledger'
    <2>1. /\ Shape' /\ Known' = Known \cup {t} /\ Pending' = Pending \cup {t} /\ Mined' = Mined
          /\ t \notin Known
          /\ \A o \in Ins[t] : o[1] \in Known \cup {Elsewhere} /\ o \notin SpentBy(Known)
      BY <1>1, <1>3, AcceptEffect
    <2>2. t # Elsewhere
      BY BlockbookAssumption
    <2>3. \A u \in Known : \A o \in Ins[u] : o[1] \in Known \cup {Elsewhere}
      BY <1>1 DEF Chained
    <2>4. \A u \in Known' : \A o \in Ins[u] : o[1] \in Known' \cup {Elsewhere}
      BY <2>1, <2>3
    <2>5. \A u \in Mined' : \A o \in Ins[u] : o[1] \notin Pending'
      BY <1>1, <1>2, <2>1, <2>2, <2>3 DEF Chained
    <2>6. \A u \in Known : Ins[u] \cap Ins[t] = {}
      BY <2>1 DEF SpentBy
    <2>7. \A u, w \in Known' : u # w => Ins[u] \cap Ins[w] = {}
      BY <1>1, <2>1, <2>6 DEF Chained
    <2>8. Chained'
      BY <2>4, <2>5, <2>7 DEF Chained
    <2>9. ASSUME NEW S \in SUBSET Known', S # {}
          PROVE  \E u \in S : \A o \in Ins[u] : o[1] \notin S
      <3>1. CASE t \notin S
        BY <1>1, <2>1, <2>9, <3>1 DEF NoCircle
      <3>2. CASE S = {t}
        BY <2>1, <2>2, <3>2
      <3>3. CASE t \in S /\ S # {t}
        <4>1. S \ {t} \in SUBSET Known /\ S \ {t} # {}
          BY <2>1, <3>3
        <4>2. PICK u \in S \ {t} : \A o \in Ins[u] : o[1] \notin S \ {t}
          BY <1>1, <4>1 DEF NoCircle
        <4>3. \A o \in Ins[u] : o[1] # t
          BY <2>1, <2>2, <2>3, <4>1
        <4> QED BY <4>2, <4>3
      <3> QED BY <3>1, <3>2, <3>3
    <2> QED BY <2>1, <2>8, <2>9 DEF Ledger, NoCircle
  <1>4. ASSUME NEW block \in SUBSET Pending, Mine(block) PROVE Ledger'
    <2>1. /\ Shape' /\ Known' = Known /\ Pending' = Pending \ block
          /\ Mined' = Mined \cup block
          /\ \A t \in block : \A o \in Ins[t] : o[1] \notin Pending \ block
      BY <1>1, <1>4, MineEffect
    <2>2. Chained'
      BY <1>1, <2>1 DEF Chained
    <2>3. NoCircle'
      BY <1>1, <2>1 DEF NoCircle
    <2> QED BY <2>1, <2>2, <2>3 DEF Ledger
  <1>5. ASSUME NEW gone \in SUBSET Pending, Evict(gone) PROVE Ledger'
    <2>1. /\ Shape' /\ Known' = Known \ gone /\ Pending' = Pending \ gone /\ Mined' = Mined
          /\ \A t \in Pending : (\E o \in Ins[t] : o[1] \in gone) => t \in gone
      BY <1>1, <1>5, EvictEffect
    <2>2. \A t \in Known' : \A o \in Ins[t] : o[1] \in Known' \cup {Elsewhere}
      <3> TAKE t \in Known'
      <3> TAKE o \in Ins[t]
      <3>1. o[1] \in Known \cup {Elsewhere}
        BY <1>1, <2>1 DEF Chained
      <3>2. CASE t \in Pending
        BY <2>1, <3>1, <3>2
      <3>3. CASE t \in Mined
        BY <1>1, <2>1, <3>1, <3>3 DEF Chained
      <3> QED BY <1>2, <2>1, <3>2, <3>3
    <2>3. \A t \in Mined' : \A o \in Ins[t] : o[1] \notin Pending'
      BY <1>1, <2>1 DEF Chained
    <2>4. \A t, u \in Known' : t # u => Ins[t] \cap Ins[u] = {}
      BY <1>1, <2>1 DEF Chained
    <2>5. NoCircle'
      BY <1>1, <2>1 DEF NoCircle
    <2> QED BY <2>1, <2>2, <2>3, <2>4, <2>5 DEF Ledger, Chained
  <1> QED BY <1>3, <1>4, <1>5 DEF LedgerStep

\* A block is never taken back, and mined transactions only give way to newer
\* ones; nothing leaves the history unless the server drops it.
LEMMA LedgerMoves ==
  ASSUME Ledger, LedgerStep
  PROVE  /\ Mined \subseteq Mined' /\ tip <= tip'
         /\ \A t \in Mined : height'[t] = height[t]
         /\ Known \subseteq Known' => MinedStay
  <1>1. Shape
    BY DEF Ledger
  <1>2. Mined \subseteq Txs /\ Mined \cap Pending = {}
    BY <1>1, Parts
  <1>3. tip \in Nat
    BY <1>1 DEF Shape
  <1>4. ASSUME NEW t \in Txs, Accept(t)
        PROVE  /\ Mined \subseteq Mined' /\ tip <= tip' /\ MinedStay
               /\ \A u \in Mined : height'[u] = height[u]
    BY <1>1, <1>3, <1>4, AcceptEffect
  <1>5. ASSUME NEW block \in SUBSET Pending, Mine(block)
        PROVE  /\ Mined \subseteq Mined' /\ tip <= tip' /\ MinedStay
               /\ \A u \in Mined : height'[u] = height[u]
    <2>1. /\ Mined' = Mined \cup block /\ tip' = tip + 1 /\ MinedStay
          /\ \A u \in Txs \ block : height'[u] = height[u]
      BY <1>1, <1>5, MineEffect
    <2> QED BY <1>2, <1>3, <2>1
  <1>6. ASSUME NEW gone \in SUBSET Pending, Evict(gone)
        PROVE  /\ Mined \subseteq Mined' /\ tip <= tip' /\ ~(Known \subseteq Known')
               /\ \A u \in Mined : height'[u] = height[u]
    <2>1. /\ Known' = Known \ gone /\ Mined' = Mined /\ gone # {}
          /\ UNCHANGED <<height, tip>>
      BY <1>1, <1>6, EvictEffect
    <2> QED BY <1>3, <2>1 DEF Pending
  <1> QED BY <1>4, <1>5, <1>6 DEF LedgerStep

(***************************************************************************)
(* 3. getTransfers and getTransaction                                      *)
(***************************************************************************)

LEMMA MinOfTwo ==
  ASSUME NEW a \in Int, NEW b \in Int
  PROVE  Min({a, b}) = IF a <= b THEN a ELSE b
  BY DEF Min

\* What SubSeq tells of an interval of a sequence.
LEMMA Interval ==
  ASSUME NEW T, NEW s \in Seq(T), NEW m \in Nat, NEW n \in Int, n <= Len(s)
  PROVE  /\ SubSeq(s, m + 1, n) \in Seq(T)
         /\ Len(SubSeq(s, m + 1, n)) = IF m < n THEN n - m ELSE 0
         /\ \A i \in 1..Len(SubSeq(s, m + 1, n)) : /\ SubSeq(s, m + 1, n)[i] = s[m + i]
                                                   /\ m + i \in 1..Len(s) /\ m + i <= n
  <1>1. PICK r : r = SubSeq(s, m + 1, n)
    OBVIOUS
  <1>2. Len(s) \in Nat
    OBVIOUS
  <1>3. Len(r) = IF m < n THEN n - m ELSE 0
    BY <1>1
  <1>4. r \in Seq(T)
    BY <1>1
  <1>5. ASSUME NEW i \in 1..Len(r)
        PROVE  r[i] = s[m + i] /\ m + i \in 1..Len(s) /\ m + i <= n
    <2>1. m + i \in 1..Len(s) /\ m + i <= n
      BY <1>2, <1>3
    <2>2. r[i] = s[(m + 1) + i - 1]
      BY <1>1, <1>3
    <2>3. (m + 1) + i - 1 = m + i
      BY <2>1
    <2> QED BY <2>1, <2>2, <2>3
  <1> QED BY <1>1, <1>3, <1>4, <1>5

LEMMA SliceOf ==
  ASSUME NEW T, NEW s \in Seq(T), NEW from \in Nat, NEW to \in Nat
  PROVE  /\ Slice(s, from, to) \in Seq(T)
         /\ Len(Slice(s, from, to)) <= to
         /\ \A i \in 1..Len(Slice(s, from, to)) :
                Slice(s, from, to)[i] = s[from + i] /\ from + i \in 1..Len(s)
         /\ \A j \in 1..Len(s) : from < j /\ j <= to =>
                j - from \in 1..Len(Slice(s, from, to))
  <1>1. Len(s) \in Nat
    OBVIOUS
  <1>2. PICK n : n = Min({to, Len(s)})
    OBVIOUS
  <1>3. n = IF to <= Len(s) THEN to ELSE Len(s)
    BY <1>1, <1>2, MinOfTwo
  <1>4. PICK r : r = Slice(s, from, to)
    OBVIOUS
  <1>5. r = SubSeq(s, from + 1, n)
    BY <1>2, <1>4 DEF Slice
  <1>6. n \in Int /\ n <= Len(s) /\ n <= to
    BY <1>1, <1>3
  <1>7. /\ r \in Seq(T) /\ Len(r) = IF from < n THEN n - from ELSE 0
        /\ \A i \in 1..Len(r) : r[i] = s[from + i] /\ from + i \in 1..Len(s)
    BY <1>5, <1>6, Interval
  <1>8. Len(r) <= to
    BY <1>6, <1>7
  <1>9. \A j \in 1..Len(s) : from < j /\ j <= to => j - from \in 1..Len(r)
    BY <1>1, <1>3, <1>7
  <1> QED BY <1>4, <1>7, <1>8, <1>9

LEMMA HistoryLength ==
  ASSUME Shape
  PROVE  Len(history) = Cardinality(Known)
  <1>1. /\ Len(history) \in Nat /\ DOMAIN history = 1..Len(history) /\ Distinct(history)
        /\ history \in [1..Len(history) -> Txs]
    BY DEF Shape
  <1>2. history \in Bijection(1..Len(history), Known)
    <2>1. history \in [1..Len(history) -> Known]
      BY <1>1 DEF Known, ToSet
    <2>2. \A i, j \in 1..Len(history) : history[i] = history[j] => i = j
      BY <1>1 DEF Distinct
    <2>3. \A t \in Known : \E i \in 1..Len(history) : history[i] = t
      BY <1>1 DEF Known, ToSet
    <2> QED BY <2>1, <2>2, <2>3 DEF Bijection, Injection, Surjection, IsInjective
  <1>3. ExistsBijection(1..Len(history), Known)
    BY <1>2 DEF ExistsBijection
  <1> QED BY <1>1, <1>3, FS_CountingElements

\* The types TypeOK abbreviates, and the kind of call each await belongs to.
Typed ==
    /\ pc \in {"idle", "history", "batches", "raw", "tip", "done"}
    /\ call \in Options \cup Txs \cup {None}
    /\ pc \in {"history", "done"} => call # None
    /\ pc = "batches" => call \in Options
    /\ pc \in {"raw", "tip"} => call \in Txs
    /\ page \in Nat \ {0} /\ next \in Nat
    /\ items \in Seq([tx : Txs, height : Int])
    /\ fetched \subseteq Txs \cup {Elsewhere}
    /\ transfers \in Seq(ToSet(transfers))
    /\ call \in Options => Len(transfers) <= call.limit
    /\ mined \subseteq Mined

\* A height shown is the height.
Heights ==
    \A i \in 1..Len(items) :
        /\ items[i].height \in -1..tip
        /\ items[i].height > 0 => /\ items[i].tx \in Mined
                                  /\ items[i].height = height[items[i].tx]

\* getTransaction goes on with the item it asked for.
Found ==
    /\ pc \in {"raw", "tip"} => \E i \in 1..Len(items) : items[i].tx = call
    /\ pc = "tip" => Item.height > 0

\* What was mined when the call began is read, or on a page yet to be read.
Reading ==
    pc = "history" /\ ~blemished =>
        \A t \in mined : \/ Shown(t) \in ToSet(items)
                         \/ \E i \in 1..Len(history) :
                                history[i] = t /\ (page - 1) * PageSize < i

Gathered ==
    pc \in {"batches", "done"} /\ call \in Options /\ ~blemished =>
        \A t \in mined : Shown(t) \in ToSet(items)

\* The items processed have their transfers on the list, as long as it has room.
Listed ==
    /\ pc \in {"history", "idle"} => next = 0 \/ call = None
    /\ pc \in {"history", "batches", "done"} /\ call \in Options /\ ~blemished
         /\ call.skip = 0 /\ Len(transfers) < call.limit =>
            /\ \A i \in 1..Len(items) : i <= next =>
                    ToSet(Rows(items[i], call.direction, {})) \subseteq ToSet(transfers)
            /\ pc = "done" => next >= Len(items)

\* The inductive invariant of the reads.
IInv ==
    /\ Ledger /\ Typed /\ Heights /\ Found /\ ReceiptSound
    /\ Reading /\ Gathered /\ Listed

LEMMA ElementOf ==
  ASSUME NEW T, NEW s \in Seq(T), NEW i \in 1..Len(s)
  PROVE  s[i] \in T
  OBVIOUS

LEMMA SeqOfElements ==
  ASSUME NEW T, NEW s \in Seq(T)
  PROVE  s \in Seq(ToSet(s))
  BY DEF ToSet

LEMMA PageOf ==
  ASSUME Shape, NEW n \in Nat \ {0}
  PROVE  /\ (n - 1) * PageSize \in Nat /\ n * PageSize \in Nat
         /\ Page(n) \in Seq(Known)
         /\ \A j \in 1..Len(history) : (n - 1) * PageSize < j /\ j <= n * PageSize =>
                \E i \in 1..Len(Page(n)) : Page(n)[i] = history[j]
  <1>1. PageSize \in Nat /\ n - 1 \in Nat
    BY BlockbookAssumption
  <1>2. (n - 1) * PageSize \in Nat /\ n * PageSize \in Nat
    BY <1>1
  <1>3. PICK from \in Nat, to \in Nat : from = (n - 1) * PageSize /\ to = n * PageSize
    BY <1>2
  <1>4. Page(n) = Slice(history, from, to)
    BY <1>3 DEF Page, Slice
  <1>5. history \in Seq(Known)
    BY SeqOfElements DEF Shape, Known
  <1>6. /\ Slice(history, from, to) \in Seq(Known)
        /\ \A i \in 1..Len(Slice(history, from, to)) :
                Slice(history, from, to)[i] = history[from + i]
        /\ \A j \in 1..Len(history) : from < j /\ j <= to =>
                j - from \in 1..Len(Slice(history, from, to))
    BY <1>5, SliceOf
  <1>7. ASSUME NEW j \in 1..Len(history), from < j, j <= to
        PROVE  \E i \in 1..Len(Page(n)) : Page(n)[i] = history[j]
    <2>1. j - from \in 1..Len(Page(n)) /\ from + (j - from) = j
      BY <1>4, <1>6, <1>7
    <2> QED BY <1>4, <1>6, <2>1
  <1> QED BY <1>2, <1>3, <1>4, <1>6, <1>7

\* What a mined transaction shows.
LEMMA ShownMined ==
  ASSUME Shape, NEW t \in Mined
  PROVE  Shown(t) = [tx |-> t, height |-> height[t]]
  BY Parts DEF Shown

\* What any shown transaction shows.
LEMMA ShownType ==
  ASSUME Shape, NEW t \in Known
  PROVE  /\ Shown(t) \in [tx : Txs, height : Int] /\ Shown(t).tx = t
         /\ Shown(t).height \in -1..tip
         /\ Shown(t).height > 0 => t \in Mined /\ Shown(t).height = height[t]
  <1>1. t \in Txs /\ height[t] \in 0..tip /\ tip \in Nat
    BY Parts DEF Shape
  <1>2. (t \in Mined <=> height[t] > 0) /\ (t \in Pending <=> height[t] = 0)
    BY <1>1, Parts
  <1>3. CASE t \in Pending
    <2>1. Shown(t) = [tx |-> t, height |-> -1]
      BY <1>3 DEF Shown
    <2> QED BY <1>1, <2>1
  <1>4. CASE t \notin Pending
    <2>1. Shown(t) = [tx |-> t, height |-> height[t]]
      BY <1>4 DEF Shown
    <2> QED BY <1>1, <1>2, <2>1
  <1> QED BY <1>3, <1>4

LEMMA ParentOf ==
  ASSUME NEW t \in Txs, NEW o \in Ins[t]
  PROVE  o[1] \in Txs \cup {Elsewhere}
  <1>1. o \in Outpoints
    BY BlockbookAssumption
  <1>2. PICK u \in Txs \cup {Elsewhere} : o \in OutputsOf(u)
    BY <1>1 DEF Outpoints, OutsOf
  <1>3. o[1] = u
    BY <1>2 DEF OutputsOf
  <1> QED BY <1>3

LEMMA RowsSeq ==
  ASSUME NEW item, item.tx \in Txs, NEW direction, NEW lost
  PROVE  Rows(item, direction, lost) \in Seq(ToSet(Rows(item, direction, lost)))
  <1> DEFINE outs     == Outs[item.tx]
             inputs   == Ins[item.tx] \ lost
             total    == Worth(inputs)
             outgoing == \E o \in inputs : Own(o)
             fee      == IF total > 0 THEN total - Worth(OutputsOf(item.tx)) ELSE None
             row(n)   == [tx |-> item.tx, height |-> item.height, vout |-> n, fee |-> fee,
                          direction |-> IF outgoing THEN "outgoing" ELSE "incoming"]
             rows     == [n \in DOMAIN outs |-> row(n)]
             kept     == {r \in ToSet(rows) :
                              /\ outs[r.vout].own <=> r.direction = "incoming"
                              /\ direction \in {"all", r.direction}}
  <1>1. Rows(item, direction, lost) = Only(rows, kept)
    BY DEF Rows
  <1>2. PICK n \in Nat : DOMAIN outs = 1..n
    BY BlockbookAssumption
  <1> HIDE DEF row
  <1>3. rows \in Seq(ToSet(rows))
    <2>1. rows \in [1..n -> ToSet(rows)]
      BY <1>2 DEF ToSet
    <2> HIDE DEF rows
    <2> QED BY <2>1
  <1> HIDE DEF rows, kept
  <1>4. Only(rows, kept) \in Seq(ToSet(rows))
    BY <1>3, OnlyElements
  <1> QED BY <1>1, <1>4, SeqOfElements

\* The item getTransaction goes on with is one it read, of the transaction.
LEMMA ItemRead ==
  ASSUME Typed, \E i \in 1..Len(items) : items[i].tx = call
  PROVE  \E i \in 1..Len(items) : items[i].tx = call /\ Item = items[i]
  <1>1. DOMAIN items = 1..Len(items) /\ Len(items) \in Nat
    BY DEF Typed
  <1> DEFINE A == {i \in 1..Len(items) : items[i].tx = call}
             First(i) == items[i].tx = call /\ \A j \in 1..(i - 1) : items[j].tx # call
  <1>2. PICK i \in A : \A j \in A : i <= j
    <2>1. A \in SUBSET Nat /\ A # {}
      OBVIOUS
    <2> HIDE DEF A
    <2> QED BY <2>1, LeastNumber
  <1>3. i \in 1..Len(items) /\ First(i)
    <2>1. \A j \in 1..(i - 1) : j \in 1..Len(items) /\ ~(i <= j)
      BY <1>1
    <2> QED BY <1>2, <2>1
  <1>4. \E k \in DOMAIN items : First(k)
    BY <1>1, <1>3
  <1> DEFINE k == CHOOSE k \in DOMAIN items : First(k)
  <1>5. k \in DOMAIN items /\ First(k)
    BY <1>4
  <1>6. Item = items[k]
    BY DEF Item
  <1> QED BY <1>1, <1>5, <1>6

LEMMA InitOK == Init => IInv
  <1> SUFFICES ASSUME Init PROVE IInv
    OBVIOUS
  <1> USE DEF Init, InitLedger
  <1>1. Known = {} /\ Pending = {} /\ Mined = {}
    BY DEF Known, ToSet, Pending, Mined
  <1>2. Shape
    BY <1>1, BlockbookAssumption DEF Shape, Distinct
  <1>3. Ledger
    BY <1>1, <1>2 DEF Ledger, Chained, NoCircle
  <1>4. None \notin Options \cup Txs
    BY AccountReadsAssumption
  <1>5. Typed
    BY <1>1, <1>4 DEF Typed, ToSet
  <1>6. Heights /\ Found /\ ReceiptSound /\ Reading /\ Gathered /\ Listed
    BY <1>4 DEF Heights, Found, ReceiptSound, Reading, Gathered, Listed
  <1> QED BY <1>3, <1>5, <1>6 DEF IInv

\* A step of the network: whatever was read stays true.
LEMMA EnvironmentKeeps == IInv /\ Environment => IInv'
  <1> SUFFICES ASSUME IInv, Environment PROVE IInv'
    OBVIOUS
  <1>1. /\ pc \in {"idle", "history", "raw", "tip"} /\ LedgerStep
        /\ blemished' = (blemished \/ ~(Known \subseteq Known'))
        /\ UNCHANGED <<pc, call, page, items, next, fetched, transfers, receipt, mined>>
    BY DEF Environment
  <1>2. /\ Ledger /\ Typed /\ Heights /\ Found /\ Reading /\ Listed
    BY DEF IInv
  <1>3. Ledger'
    BY <1>1, <1>2, LedgerKept
  <1>4. /\ Mined \subseteq Mined' /\ tip <= tip'
        /\ \A t \in Mined : height'[t] = height[t]
        /\ Known \subseteq Known' => MinedStay
    BY <1>1, <1>2, LedgerMoves
  <1>5. mined \subseteq Mined
    BY <1>2 DEF Typed
  <1>6. Typed'
    BY <1>1, <1>2, <1>4 DEF Typed
  <1>7. Heights'
    <2> SUFFICES ASSUME NEW i \in 1..Len(items)
                 PROVE  /\ items[i].height \in -1..tip'
                        /\ items[i].height > 0 =>
                              /\ items[i].tx \in Mined'
                              /\ items[i].height = height'[items[i].tx]
      BY <1>1 DEF Heights
    <2>1. /\ items[i].height \in -1..tip
          /\ items[i].height > 0 => /\ items[i].tx \in Mined
                                    /\ items[i].height = height[items[i].tx]
      BY <1>2 DEF Heights
    <2>2. tip \in Int /\ tip' \in Int
      BY <1>2, <1>3 DEF Ledger, Shape
    <2> QED BY <1>4, <2>1, <2>2
  <1>8. Found'
    BY <1>1, <1>2 DEF Found, Item
  <1>9. ReceiptSound' /\ Gathered'
    BY <1>1 DEF ReceiptSound, Gathered
  <1>10. Reading'
    <2> SUFFICES ASSUME pc = "history", ~blemished', NEW t \in mined
                 PROVE  \/ Shown(t)' \in ToSet(items)
                        \/ \E i \in 1..Len(history') :
                                history'[i] = t /\ (page - 1) * PageSize < i
      BY <1>1 DEF Reading
    <2>1. ~blemished /\ MinedStay
      BY <1>1, <1>4
    <2>2. Shown(t)' = Shown(t)
      <3>1. Shown(t) = [tx |-> t, height |-> height[t]]
        BY <1>2, <1>5, ShownMined DEF Ledger
      <3>2. t \notin Pending'
        BY <1>4, <1>5 DEF Mined
      <3>3. height'[t] = height[t]
        BY <1>4, <1>5
      <3> QED BY <3>1, <3>2, <3>3 DEF Shown
    <2>3. CASE Shown(t) \in ToSet(items)
      BY <2>2, <2>3
    <2>4. CASE \E i \in 1..Len(history) : history[i] = t /\ (page - 1) * PageSize < i
      <3>1. PICK i \in 1..Len(history) : history[i] = t /\ (page - 1) * PageSize < i
        BY <2>4
      <3>2. PICK j \in 1..Len(history') : i <= j /\ history'[j] = history[i]
        BY <1>5, <2>1, <3>1 DEF MinedStay
      <3>3. (page - 1) * PageSize \in Int
        BY <1>2, PageOf DEF Ledger, Typed
      <3> DEFINE n == (page - 1) * PageSize
      <3>4. n \in Int /\ n < i
        BY <3>1, <3>3
      <3> HIDE DEF n
      <3>5. n < j
        BY <3>2, <3>4
      <3> QED BY <3>1, <3>2, <3>5 DEF n
    <2> QED BY <1>2, <2>1, <2>3, <2>4 DEF Reading
  <1>11. Listed'
    BY <1>1, <1>2 DEF Listed
  <1> QED BY <1>3, <1>6, <1>7, <1>8, <1>9, <1>10, <1>11 DEF IInv

LEMMA LedgerSame ==
  ASSUME UNCHANGED ledger
  PROVE  /\ Ledger => Ledger'
         /\ Known' = Known /\ Pending' = Pending /\ Mined' = Mined
         /\ \A t : Shown(t)' = Shown(t)
  <1>1. history' = history /\ height' = height /\ tip' = tip
    BY DEF ledger
  <1>2. Known' = Known /\ Pending' = Pending /\ Mined' = Mined
    BY <1>1 DEF Known, Pending, Mined
  <1>3. \A t : Shown(t)' = Shown(t)
    BY <1>1, <1>2 DEF Shown
  <1>4. Ledger => Ledger'
    BY <1>1, <1>2 DEF Ledger, Shape, Chained, NoCircle
  <1> QED BY <1>2, <1>3, <1>4

LEMMA BeginKeeps ==
  ASSUME IInv, NEW argument \in Options \cup Txs, Begin(argument)
  PROVE  IInv'
  <1>1. /\ pc' = "history" /\ call' = argument
        /\ page' = 1 /\ items' = <<>> /\ next' = 0 /\ fetched' = {}
        /\ transfers' = <<>> /\ receipt' = None
        /\ mined' = Mined /\ blemished' = FALSE
        /\ UNCHANGED ledger
    BY DEF Begin
  <1>2. Ledger /\ Ledger' /\ Known' = Known /\ Mined' = Mined /\ history' = history
    BY <1>1, LedgerSame DEF IInv, ledger
  <1>3. None \notin Options \cup Txs
    BY AccountReadsAssumption
  <1>4. Typed'
    <2>1. argument \in Options => argument.limit \in Nat
      BY AccountReadsAssumption
    <2>2. <<>> \in Seq({}) /\ ToSet(<<>>) = {} /\ Len(<<>>) = 0
      BY DEF ToSet
    <2> QED BY <1>1, <1>2, <1>3, <2>1, <2>2 DEF Typed
  <1>5. Heights' /\ Found' /\ ReceiptSound' /\ Gathered' /\ Listed'
    BY <1>1 DEF Heights, Found, ReceiptSound, Gathered, Listed
  <1>6. Reading'
    <2> SUFFICES ASSUME NEW t \in Mined
                 PROVE  \E i \in 1..Len(history) : history[i] = t /\ (1 - 1) * PageSize < i
      BY <1>1, <1>2 DEF Reading
    <2>1. PICK i \in DOMAIN history : history[i] = t
      BY DEF Mined, Known, ToSet
    <2>2. i \in 1..Len(history)
      BY <1>2 DEF Ledger, Shape
    <2>3. (1 - 1) * PageSize = 0
      BY BlockbookAssumption
    <2> QED BY <2>1, <2>2, <2>3
  <1> QED BY <1>2, <1>4, <1>5, <1>6 DEF IInv

LEMMA RequestFailsKeeps == IInv /\ RequestFails => IInv'
  <1> SUFFICES ASSUME IInv, RequestFails PROVE IInv'
    OBVIOUS
  <1>1. /\ pc' = "idle" /\ call' = None
        /\ UNCHANGED <<ledger, page, items, next, fetched, transfers, receipt, mined,
                       blemished>>
    BY DEF RequestFails
  <1>2. Ledger' /\ Mined' = Mined /\ height' = height /\ tip' = tip
    BY <1>1, LedgerSame DEF IInv, ledger
  <1>3. None \notin Options \cup Txs
    BY AccountReadsAssumption
  <1>4. Typed /\ Heights
    BY DEF IInv
  <1>5. Typed' /\ Heights'
    BY <1>1, <1>2, <1>3, <1>4 DEF Typed, Heights
  <1>6. Found' /\ ReceiptSound' /\ Reading' /\ Gathered' /\ Listed'
    BY <1>1 DEF Found, ReceiptSound, Reading, Gathered, Listed
  <1> QED BY <1>2, <1>5, <1>6 DEF IInv

LEMMA HistoryPageKeeps == IInv /\ HistoryPage => IInv'
  <1> SUFFICES ASSUME IInv, HistoryPage PROVE IInv'
    OBVIOUS
  <1> DEFINE new  == [i \in DOMAIN Page(page) |-> Shown(Page(page)[i])]
             read == items \o new
  <1>1. /\ pc = "history" /\ items' = read /\ page' = page + 1
        /\ pc' = IF ~IsLastPage(page) THEN "history"
                 ELSE IF call \in Options THEN "batches"
                 ELSE IF \E i \in DOMAIN read : read[i].tx = call THEN "raw"
                 ELSE "idle"
        /\ UNCHANGED <<ledger, call, next, fetched, transfers, receipt, mined, blemished>>
    BY DEF HistoryPage
  <1>2. /\ Ledger' /\ Mined' = Mined /\ height' = height /\ tip' = tip /\ history' = history
        /\ \A t : Shown(t)' = Shown(t)
    BY <1>1, LedgerSame DEF IInv, ledger
  <1>3. Ledger /\ Shape /\ Typed /\ Heights /\ Reading /\ Listed
    BY DEF IInv, Ledger
  <1>4. page \in Nat \ {0} /\ items \in Seq([tx : Txs, height : Int]) /\ call \in Options \cup Txs
    BY <1>1, <1>3 DEF Typed
  <1>5. /\ (page - 1) * PageSize \in Nat /\ page * PageSize \in Nat
        /\ Page(page) \in Seq(Known)
        /\ \A j \in 1..Len(history) : (page - 1) * PageSize < j /\ j <= page * PageSize =>
                \E i \in 1..Len(Page(page)) : Page(page)[i] = history[j]
    BY <1>3, <1>4, PageOf
  <1>6. \A t \in Known :
            /\ Shown(t) \in [tx : Txs, height : Int]
            /\ Shown(t).height \in -1..tip
            /\ Shown(t).height > 0 => t \in Mined /\ Shown(t).height = height[t]
            /\ Shown(t).tx = t
    BY <1>3, ShownType
  <1>7. /\ new \in Seq([tx : Txs, height : Int]) /\ ToSet(new) = {Shown(t) : t \in ToSet(Page(page))}
        /\ ToSet(new) \subseteq {Shown(t) : t \in Known}
    <2>1. PICK p : p = Page(page)
      OBVIOUS
    <2>2. p \in Seq(Known) /\ DOMAIN p = 1..Len(p) /\ Len(p) \in Nat
      BY <1>5, <2>1
    <2>3. \A i \in 1..Len(p) : p[i] \in Known /\ Shown(p[i]) \in [tx : Txs, height : Int]
      BY <1>6, <2>2
    <2>4. new = [i \in 1..Len(p) |-> Shown(p[i])]
      BY <2>1, <2>2
    <2>5. new \in Seq([tx : Txs, height : Int])
      BY <2>2, <2>3, <2>4
    <2>6. ToSet(new) = {Shown(p[i]) : i \in 1..Len(p)}
      BY <2>4 DEF ToSet
    <2> HIDE DEF new
    <2>7. ToSet(p) = {p[i] : i \in 1..Len(p)}
      BY <2>2 DEF ToSet
    <2> QED BY <2>1, <2>3, <2>5, <2>6, <2>7
  <1>8. read \in Seq([tx : Txs, height : Int]) /\ ToSet(read) = ToSet(items) \cup ToSet(new)
    <2> HIDE DEF new
    <2> QED BY <1>4, <1>7, ConcatenationElements
  <1> HIDE DEF new, read
  <1>9. DOMAIN read = 1..Len(read) /\ Len(read) \in Nat
    BY <1>8
  <1>10. Typed'
    <2>1. pc' \in {"idle", "history", "batches", "raw"}
      BY <1>1
    <2>2. (pc' = "batches" => call \in Options) /\ (pc' = "raw" => call \in Txs)
      BY <1>1, <1>4
    <2>3. call # None
      BY <1>4, AccountReadsAssumption
    <2> QED BY <1>1, <1>2, <1>3, <1>4, <1>8, <2>1, <2>2, <2>3 DEF Typed
  <1>11. Heights'
    <2> SUFFICES ASSUME NEW i \in 1..Len(read)
                 PROVE  /\ read[i].height \in -1..tip
                        /\ read[i].height > 0 =>
                              /\ read[i].tx \in Mined
                              /\ read[i].height = height[read[i].tx]
      BY <1>1, <1>2 DEF Heights
    <2>1. read[i] \in ToSet(items) \cup ToSet(new)
      BY <1>8, <1>9 DEF ToSet
    <2>2. CASE read[i] \in ToSet(items)
      <3>1. PICK j \in 1..Len(items) : read[i] = items[j]
        BY <1>4, <2>2 DEF ToSet
      <3> QED BY <1>3, <3>1 DEF Heights
    <2>3. CASE read[i] \in ToSet(new)
      <3>1. PICK t \in Known : read[i] = Shown(t)
        BY <1>7, <2>3
      <3> QED BY <1>6, <3>1
    <2> QED BY <2>1, <2>2, <2>3
  <1>12. Found'
    <2>1. pc' # "tip"
      BY <1>1
    <2>2. pc' = "raw" => \E i \in 1..Len(read) : read[i].tx = call
      BY <1>1, <1>9
    <2> QED BY <1>1, <2>1, <2>2 DEF Found
  <1>13. ASSUME NEW t \in mined, ~blemished
         PROVE  \/ Shown(t) \in ToSet(read)
                \/ \E i \in 1..Len(history) : history[i] = t /\ page * PageSize < i
    <2>1. CASE Shown(t) \in ToSet(items)
      BY <1>8, <2>1
    <2>2. CASE \E i \in 1..Len(history) : history[i] = t /\ (page - 1) * PageSize < i
      <3>1. PICK i \in 1..Len(history) : history[i] = t /\ (page - 1) * PageSize < i
        BY <2>2
      <3>2. CASE i <= page * PageSize
        <4>1. PICK k \in 1..Len(Page(page)) : Page(page)[k] = history[i]
          BY <1>5, <3>1, <3>2
        <4>2. t \in ToSet(Page(page))
          <5>1. DOMAIN Page(page) = 1..Len(Page(page))
            BY <1>5
          <5> QED BY <3>1, <4>1, <5>1 DEF ToSet
        <4> QED BY <1>7, <1>8, <4>2
      <3>3. CASE ~(i <= page * PageSize)
        <4>1. page * PageSize < i
          BY <1>5, <3>3
        <4> QED BY <3>1, <4>1
      <3> QED BY <3>2, <3>3
    <2> QED BY <1>1, <1>3, <1>13, <2>1, <2>2 DEF Reading
  <1>14. Reading'
    <2>1. (page + 1) - 1 = page
      BY <1>4
    <2> QED BY <1>1, <1>2, <1>13, <2>1 DEF Reading
  <1>15. Gathered'
    <2> SUFFICES ASSUME pc' = "batches", ~blemished, NEW t \in mined
                 PROVE  Shown(t) \in ToSet(read)
      BY <1>1, <1>2 DEF Gathered
    <2>1. page * PageSize >= Len(history)
      BY <1>1 DEF IsLastPage
    <2>2. Len(history) \in Nat
      BY <1>3 DEF Shape
    <2>3. ~ \E i \in 1..Len(history) : page * PageSize < i
      BY <1>5, <2>1, <2>2
    <2> QED BY <1>13, <2>3
  <1>16. ReceiptSound'
    BY <1>1 DEF ReceiptSound
  <1>17. Listed'
    <2>1. next = 0
      BY <1>1, <1>3, <1>4, AccountReadsAssumption DEF Listed
    <2>2. pc' # "done"
      BY <1>1
    <2> QED BY <1>1, <1>9, <2>1, <2>2 DEF Listed
  <1> QED BY <1>2, <1>10, <1>11, <1>12, <1>14, <1>15, <1>16, <1>17 DEF IInv

\* With nothing skipped, all that was read is considered.
LEMMA ConsideredItems ==
  ASSUME Typed, call \in Options
  PROVE  /\ Considered \in Seq([tx : Txs, height : Int])
         /\ call.skip = 0 =>
               /\ Len(Considered) = Len(items)
               /\ \A i \in 1..Len(items) : Considered[i] = items[i]
  <1>1. items \in Seq([tx : Txs, height : Int]) /\ Len(items) \in Nat /\ call.skip \in Nat
    BY AccountReadsAssumption DEF Typed
  <1>2. PICK skip \in Nat, n \in Nat : skip = call.skip /\ n = Len(items)
    BY <1>1
  <1>3. PICK s : s = Slice(items, skip, n)
    OBVIOUS
  <1>4. Considered = s
    BY <1>2, <1>3 DEF Considered
  <1>5. /\ s \in Seq([tx : Txs, height : Int]) /\ Len(s) <= n
        /\ \A i \in 1..Len(s) : s[i] = items[skip + i] /\ skip + i \in 1..Len(items)
        /\ \A j \in 1..Len(items) : skip < j /\ j <= n => j - skip \in 1..Len(s)
    BY <1>1, <1>3, SliceOf, SMTT(30)
  <1>6. ASSUME skip = 0
        PROVE  Len(s) = n /\ \A i \in 1..n : s[i] = items[i]
    <2>1. Len(s) \in Nat
      BY <1>5
    <2>2. n # 0 => n \in 1..Len(items) /\ n - skip = n
      BY <1>2, <1>6
    <2>3. n # 0 => n \in 1..Len(s)
      BY <1>2, <1>5, <1>6, <2>2
    <2>4. Len(s) = n
      BY <1>5, <2>1, <2>3
    <2>5. \A i \in 1..n : skip + i = i
      BY <1>6
    <2> QED BY <1>5, <2>4, <2>5
  <1> QED BY <1>2, <1>4, <1>5, <1>6

LEMMA BatchKeeps == IInv /\ Batch => IInv'
  <1> SUFFICES ASSUME IInv, Batch PROVE IInv'
    OBVIOUS
  <1> DEFINE window == Slice(Considered, next, next + BatchSize)
             txs    == {window[i].tx : i \in DOMAIN window}
  <1> DEFINE Effect(missing, lost) ==
               LET rows(i) == IF window[i].tx \in missing THEN <<>>
                              ELSE Rows(window[i], call.direction, lost)
               IN  /\ transfers' = Truncated(
                         transfers \o FlattenSeq([i \in DOMAIN window |-> rows(i)]), call.limit)
                   /\ fetched' = fetched \cup (txs \ missing)
                                   \cup {o[1] : o \in SpentBy(txs \ missing) \ lost}
                   /\ blemished' = (blemished \/ missing # {} \/ lost # {})
  <1>0. PICK missing \in SUBSET (txs \ fetched) :
          \E lost \in SUBSET {o \in SpentBy(txs \ missing) : o[1] \notin fetched} :
             Effect(missing, lost)
    BY DEF Batch
  <1>1. PICK lost : Effect(missing, lost)
    BY <1>0
  <1>2. /\ pc = "batches" /\ next < Len(Considered) /\ Len(transfers) < call.limit
        /\ next' = next + BatchSize
        /\ UNCHANGED <<ledger, pc, call, page, items, receipt, mined>>
    BY DEF Batch, AfterBatch
  <1> DEFINE rows == [i \in DOMAIN window |->
                        IF window[i].tx \in missing THEN <<>>
                        ELSE Rows(window[i], call.direction, lost)]
  <1>3. /\ transfers' = Slice(transfers \o FlattenSeq(rows), 0, call.limit)
        /\ fetched' = fetched \cup (txs \ missing)
                        \cup {o[1] : o \in SpentBy(txs \ missing) \ lost}
        /\ blemished' = (blemished \/ missing # {} \/ lost # {})
    BY <1>1 DEF Truncated
  <1>4. Typed /\ Heights /\ Gathered /\ Listed /\ Ledger
    BY DEF IInv
  <1>5. /\ call \in Options /\ next \in Nat /\ call.limit \in Nat /\ call.skip \in Nat
        /\ BatchSize \in Nat \ {0} /\ transfers \in Seq(ToSet(transfers))
        /\ items \in Seq([tx : Txs, height : Int]) /\ call \notin Txs
    BY <1>2, <1>4, AccountReadsAssumption DEF Typed
  <1>6. /\ Considered \in Seq([tx : Txs, height : Int])
        /\ call.skip = 0 =>
              /\ Len(Considered) = Len(items)
              /\ \A i \in 1..Len(items) : Considered[i] = items[i]
    BY <1>4, <1>5, ConsideredItems
  <1>7. /\ Ledger' /\ Mined' = Mined /\ height' = height /\ tip' = tip
        /\ \A t : Shown(t)' = Shown(t)
    BY <1>2, LedgerSame DEF IInv, ledger
  <1>8. /\ window \in Seq([tx : Txs, height : Int])
        /\ \A i \in 1..Len(window) : window[i] = Considered[next + i]
        /\ \A j \in 1..Len(Considered) : next < j /\ j <= next + BatchSize =>
                j - next \in 1..Len(window)
    <2>1. next + BatchSize \in Nat
      BY <1>5
    <2> QED BY <1>5, <1>6, <2>1, SliceOf
  <1> HIDE DEF window
  <1>9. DOMAIN window = 1..Len(window) /\ Len(window) \in Nat
    BY <1>8
  <1>10. \A i \in 1..Len(window) : window[i].tx \in Txs
    <2> TAKE i \in 1..Len(window)
    <2>1. window[i] \in [tx : Txs, height : Int]
      BY <1>8, ElementOf, Zenon
    <2> QED BY <2>1
  <1>11. txs \subseteq Txs
    BY <1>9, <1>10
  <1>12. fetched' \subseteq Txs \cup {Elsewhere}
    <2>1. \A o \in SpentBy(txs \ missing) : o[1] \in Txs \cup {Elsewhere}
      BY <1>11, ParentOf DEF SpentBy
    <2> QED BY <1>3, <1>4, <1>11, <2>1 DEF Typed
  <1> HIDE DEF txs
  <1> DEFINE T == UNION {ToSet(rows[i]) : i \in DOMAIN rows}
  <1>13. DOMAIN rows = 1..Len(window)
    BY <1>9
  <1>14. \A i \in 1..Len(window) :
            /\ rows[i] = IF window[i].tx \in missing THEN <<>>
                         ELSE Rows(window[i], call.direction, lost)
            /\ rows[i] \in Seq(T)
    <2> TAKE i \in 1..Len(window)
    <2>1. rows[i] = IF window[i].tx \in missing THEN <<>>
                    ELSE Rows(window[i], call.direction, lost)
      BY <1>9
    <2>2. rows[i] \in Seq(ToSet(rows[i]))
      <3> HIDE DEF rows
      <3>1. CASE window[i].tx \in missing
        <4>1. <<>> \in Seq(ToSet(<<>>))
          OBVIOUS
        <4> QED BY <2>1, <3>1, <4>1
      <3>2. CASE window[i].tx \notin missing
        BY <1>10, <2>1, <3>2, RowsSeq
      <3> QED BY <3>1, <3>2
    <2> HIDE DEF rows
    <2>3. ToSet(rows[i]) \subseteq T
      BY <1>13
    <2>4. rows[i] \in Seq(T)
      BY <2>2, <2>3
    <2> QED BY <2>1, <2>4
  <1>15. rows \in Seq(Seq(T))
    <2>1. rows \in [1..Len(window) -> Seq(T)]
      <3>1. rows = [i \in 1..Len(window) |-> rows[i]]
        BY <1>9
      <3> HIDE DEF rows
      <3> QED BY <1>14, <3>1
    <2> HIDE DEF rows, T
    <2> QED BY <1>9, <2>1
  <1> HIDE DEF rows
  <1>16. FlattenSeq(rows) \in Seq(T) /\ ToSet(FlattenSeq(rows)) = T
    <2>1. T = UNION {ToSet(rows[i]) : i \in DOMAIN rows}
      OBVIOUS
    <2> HIDE DEF T
    <2> QED BY <1>15, <2>1, FlattenElements
  <1> DEFINE all == transfers \o FlattenSeq(rows)
             U   == ToSet(transfers) \cup T
  <1>17. all \in Seq(U) /\ ToSet(all) = U
    <2> HIDE DEF T
    <2>1. PICK f : f = FlattenSeq(rows)
      OBVIOUS
    <2>2. f \in Seq(U) /\ transfers \in Seq(U)
      BY <1>5, <1>16, <2>1
    <2> HIDE DEF U
    <2>3. transfers \o f \in Seq(U) /\ ToSet(transfers \o f) = ToSet(transfers) \cup ToSet(f)
      BY <2>2, ConcatenationElements
    <2> QED BY <1>16, <2>1, <2>3 DEF U
  <1> HIDE DEF all, U
  <1>18. /\ transfers' \in Seq(U) /\ Len(transfers') <= call.limit
         /\ \A i \in 1..Len(transfers') : transfers'[i] = all[0 + i]
         /\ \A j \in 1..Len(all) : 0 < j /\ j <= call.limit => j - 0 \in 1..Len(transfers')
    <2>1. transfers' = Slice(all, 0, call.limit)
      BY <1>3 DEF all
    <2> QED BY <1>5, <1>17, <2>1, SliceOf
  <1>19. transfers' \in Seq(ToSet(transfers'))
    BY <1>18, SeqOfElements
  <1>20. Typed'
    <2>1. (transfers \in Seq(ToSet(transfers)))'
      BY <1>19
    <2> QED BY <1>2, <1>4, <1>5, <1>7, <1>12, <1>18, <2>1 DEF Typed
  <1>21. Heights' /\ Found' /\ ReceiptSound' /\ Reading'
    BY <1>2, <1>4, <1>7 DEF Heights, Found, ReceiptSound, Reading
  <1>22. Gathered'
    BY <1>2, <1>3, <1>4, <1>7 DEF Gathered
  <1>23. ASSUME Len(transfers') < call.limit
         PROVE  ToSet(all) \subseteq ToSet(transfers')
    <2>1. Len(all) \in Nat /\ Len(transfers') \in Nat /\ DOMAIN all = 1..Len(all)
          /\ DOMAIN transfers' = 1..Len(transfers')
      BY <1>17, <1>18
    <2>2. Len(all) <= call.limit
      <3>1. SUFFICES ASSUME call.limit < Len(all) PROVE FALSE
        BY <1>5, <2>1
      <3>2. call.limit \in 1..Len(all) /\ call.limit - 0 = call.limit /\ 0 < call.limit
        BY <1>5, <1>23, <2>1, <3>1
      <3>3. call.limit \in 1..Len(transfers')
        BY <1>5, <1>18, <3>2
      <3> QED BY <1>5, <1>23, <2>1, <3>3
    <2>3. ASSUME NEW j \in 1..Len(all) PROVE all[j] \in ToSet(transfers')
      <3>1. 0 < j /\ j <= call.limit /\ j - 0 = j /\ 0 + j = j
        BY <1>5, <2>1, <2>2
      <3>2. j \in 1..Len(transfers')
        BY <1>18, <3>1
      <3>3. transfers'[j] = all[j]
        BY <1>18, <3>1, <3>2
      <3> QED BY <2>1, <3>2, <3>3 DEF ToSet
    <2> QED BY <2>1, <2>3 DEF ToSet
  <1>24. Listed'
    <2> SUFFICES ASSUME ~blemished', call.skip = 0, Len(transfers') < call.limit,
                        NEW i \in 1..Len(items), i <= next + BatchSize
                 PROVE  ToSet(Rows(items[i], call.direction, {})) \subseteq ToSet(transfers')
      BY <1>2 DEF Listed
    <2>1. ~blemished /\ missing = {} /\ lost = {}
      BY <1>3
    <2>2. U \subseteq ToSet(transfers')
      BY <1>17, <1>23
    <2>3. CASE i <= next
      <3>1. ToSet(Rows(items[i], call.direction, {})) \subseteq ToSet(transfers)
        BY <1>2, <1>4, <1>5, <2>1, <2>3 DEF Listed
      <3> QED BY <2>2, <3>1 DEF U
    <2>4. CASE ~(i <= next)
      <3> DEFINE k == i - next
      <3>1. k \in 1..Len(window) /\ next + k = i
        <4>1. next < i /\ i \in 1..Len(Considered)
          BY <1>5, <1>6, <2>4
        <4> QED BY <1>5, <1>8, <4>1
      <3> HIDE DEF k
      <3>2. window[k] = items[i]
        BY <1>6, <1>8, <3>1
      <3>3. rows[k] = Rows(items[i], call.direction, {})
        BY <1>14, <2>1, <3>1, <3>2
      <3>4. ToSet(rows[k]) \subseteq T
        BY <1>13, <3>1
      <3> QED BY <2>2, <3>3, <3>4 DEF U
    <2> QED BY <2>3, <2>4
  <1> QED BY <1>7, <1>20, <1>21, <1>22, <1>24 DEF IInv

LEMMA ReturnKeeps == IInv /\ Return => IInv'
  <1> SUFFICES ASSUME IInv, Return PROVE IInv'
    OBVIOUS
  <1>1. /\ pc = "batches" /\ pc' = "done"
        /\ next >= Len(Considered) \/ Len(transfers) >= call.limit
        /\ UNCHANGED <<ledger, call, page, items, next, fetched, transfers, receipt, mined,
                       blemished>>
    BY DEF Return
  <1>2. /\ Ledger' /\ Mined' = Mined /\ height' = height /\ tip' = tip
        /\ \A t : Shown(t)' = Shown(t)
    BY <1>1, LedgerSame DEF IInv, ledger
  <1>3. Typed /\ Heights /\ Gathered /\ Listed
    BY DEF IInv
  <1>4. /\ call \in Options /\ call \notin Txs /\ call # None /\ call.limit \in Nat
        /\ transfers \in Seq(ToSet(transfers))
    BY <1>1, <1>3, AccountReadsAssumption DEF Typed
  <1>5. Typed' /\ Heights'
    BY <1>1, <1>2, <1>3, <1>4 DEF Typed, Heights
  <1>6. Found' /\ ReceiptSound' /\ Reading'
    BY <1>1, <1>4 DEF Found, ReceiptSound, Reading
  <1>7. Gathered'
    BY <1>1, <1>2, <1>3 DEF Gathered
  <1>8. call.skip = 0 /\ Len(transfers) < call.limit => next >= Len(items)
    <2>1. Len(transfers) \in Nat
      BY <1>4
    <2> QED BY <1>1, <1>3, <1>4, <2>1, ConsideredItems
  <1>9. Listed'
    BY <1>1, <1>3, <1>8 DEF Listed
  <1> QED BY <1>2, <1>5, <1>6, <1>7, <1>9 DEF IInv

LEMMA RawTransactionKeeps == IInv /\ RawTransaction => IInv'
  <1> SUFFICES ASSUME IInv, RawTransaction PROVE IInv'
    OBVIOUS
  <1>1. /\ pc = "raw"
        /\ \/ /\ pc' = "done"
              /\ receipt' = [finality |-> "pending", block |-> None, confirmations |-> 0]
           \/ pc' = "tip" /\ Item.height > 0 /\ receipt' = receipt
        /\ UNCHANGED <<ledger, call, page, items, next, fetched, transfers, mined, blemished>>
    BY DEF RawTransaction
  <1>2. Ledger' /\ Mined' = Mined /\ height' = height /\ tip' = tip
    BY <1>1, LedgerSame DEF IInv, ledger
  <1>3. Typed /\ Heights /\ Found
    BY DEF IInv
  <1>4. call \in Txs /\ call \notin Options /\ call # None
    BY <1>1, <1>3, AccountReadsAssumption DEF Typed
  <1>5. Typed' /\ Heights'
    BY <1>1, <1>2, <1>3, <1>4 DEF Typed, Heights
  <1>6. Found'
    BY <1>1, <1>3 DEF Found, Item
  <1>7. ReceiptSound'
    BY <1>1 DEF ReceiptSound
  <1>8. Reading' /\ Gathered' /\ Listed'
    BY <1>1, <1>4 DEF Reading, Gathered, Listed
  <1> QED BY <1>2, <1>5, <1>6, <1>7, <1>8 DEF IInv

LEMMA TipReadKeeps == IInv /\ TipRead => IInv'
  <1> SUFFICES ASSUME IInv, TipRead PROVE IInv'
    OBVIOUS
  <1>1. PICK best \in 0..tip :
          receipt' = [finality |-> IF Confirmations(best, Item.height) # None
                                        /\ Confirmations(best, Item.height) >= Final
                                   THEN "final" ELSE "confirmed",
                      block |-> Item.height, confirmations |-> Confirmations(best, Item.height)]
    BY DEF TipRead
  <1>2. /\ pc = "tip" /\ pc' = "done"
        /\ UNCHANGED <<ledger, call, page, items, next, fetched, transfers, mined, blemished>>
    BY DEF TipRead
  <1>3. Ledger' /\ Mined' = Mined /\ height' = height /\ tip' = tip
    BY <1>2, LedgerSame DEF IInv, ledger
  <1>4. Typed /\ Heights /\ Found /\ Shape
    BY DEF IInv, Ledger
  <1>5. call \in Txs /\ call \notin Options /\ call # None
    BY <1>2, <1>4, AccountReadsAssumption DEF Typed
  <1>6. Typed' /\ Heights'
    BY <1>2, <1>3, <1>4, <1>5 DEF Typed, Heights
  <1>7. Found' /\ Reading' /\ Gathered' /\ Listed'
    BY <1>2, <1>5 DEF Found, Reading, Gathered, Listed
  <1>8. PICK i \in 1..Len(items) : items[i].tx = call /\ Item = items[i]
    BY <1>2, <1>4, ItemRead DEF Found
  <1>9. Item.height > 0 /\ Item.height = height[call] /\ Item.height \in Nat
    <2>1. Item.height > 0
      BY <1>2, <1>4 DEF Found
    <2>2. Item.height = height[call] /\ Item.height \in -1..tip
      BY <1>4, <1>8, <2>1 DEF Heights
    <2>3. tip \in Nat
      BY <1>4 DEF Shape
    <2> QED BY <2>1, <2>2, <2>3
  <1>10. tip \in Nat /\ best \in Nat /\ best <= tip /\ Final \in Nat
    BY <1>4, AccountReadsAssumption DEF Shape
  <1> DEFINE depth == tip - height[call] + 1
             told  == Confirmations(best, Item.height)
  <1>11. told \in 1..depth \cup {None}
    BY <1>9, <1>10 DEF Confirmations
  <1>12. told # None /\ told >= Final => depth >= Final
    BY <1>9, <1>10, <1>11
  <1> HIDE DEF told
  <1>13. ReceiptSound'
    <2>1. /\ receipt'.block = height[call] /\ receipt'.confirmations = told
          /\ receipt'.finality = "final" => told # None /\ told >= Final
      BY <1>1, <1>9 DEF told
    <2> QED BY <1>2, <1>3, <1>11, <1>12, <2>1 DEF ReceiptSound
  <1> QED BY <1>3, <1>6, <1>7, <1>13 DEF IInv

\* The invariant holds of every reachable state.
THEOREM ReadsInvariant == Spec => []IInv
  <1>1. Init => IInv
    BY InitOK
  <1>2. IInv /\ [Next]_vars => IInv'
    <2> SUFFICES ASSUME IInv, [Next]_vars PROVE IInv'
      OBVIOUS
    <2>1. CASE UNCHANGED vars
      <3>1. UNCHANGED <<ledger, reader>>
        BY <2>1 DEF vars
      <3>2. /\ Ledger' /\ Known' = Known /\ Mined' = Mined /\ height' = height /\ tip' = tip
            /\ history' = history /\ \A t : Shown(t)' = Shown(t)
        BY <3>1, LedgerSame DEF IInv, ledger
      <3>3. UNCHANGED <<pc, call, page, items, next, fetched, transfers, receipt, mined,
                        blemished>>
        BY <3>1 DEF reader
      <3>4. Typed' /\ Heights' /\ Found' /\ ReceiptSound'
        BY <3>2, <3>3 DEF IInv, Typed, Heights, Found, Item, ReceiptSound
      <3>5. Reading' /\ Gathered' /\ Listed'
        BY <3>2, <3>3 DEF IInv, Reading, Gathered, Listed
      <3> QED BY <3>2, <3>4, <3>5 DEF IInv
    <2>2. CASE GetTransfers \/ GetTransaction
      BY <2>2, BeginKeeps DEF GetTransfers, GetTransaction
    <2> QED BY <2>1, <2>2, EnvironmentKeeps, RequestFailsKeeps, HistoryPageKeeps, BatchKeeps,
               ReturnKeeps, RawTransactionKeeps, TipReadKeeps DEF Next
  <1> QED BY <1>1, <1>2, PTL DEF Spec

\* Every variable has its type: the history shows each transaction once, each
\* height is a block's, and getTransfers keeps within its limit.
THEOREM TypeCorrect == Spec => []TypeOK
  <1>1. IInv => TypeOK
    <2> SUFFICES ASSUME IInv PROVE TypeOK
      OBVIOUS
    <2>1. Shape /\ Typed /\ Heights
      BY DEF IInv, Ledger
    <2>2. Known \subseteq Txs /\ Len(history) = Cardinality(Known)
      BY <2>1, Parts, HistoryLength
    <2>3. items \in Seq([tx : Txs, height : Int]) /\ DOMAIN items = 1..Len(items)
      BY <2>1 DEF Typed
    <2>4. \A i \in DOMAIN items : items[i].tx \in Txs /\ items[i].height \in -1..tip
      <3> TAKE i \in DOMAIN items
      <3>1. items[i] \in [tx : Txs, height : Int]
        BY <2>3, ElementOf, Zenon
      <3>2. items[i].height \in -1..tip
        BY <2>1, <2>3 DEF Heights
      <3> QED BY <3>1, <3>2
    <2> QED BY <2>1, <2>2, <2>4 DEF TypeOK, Shape, Typed
  <1> QED BY <1>1, ReadsInvariant, PTL

\* getTransaction: the block it tells is the block, for good; it never tells
\* more confirmations than there are, nor "final" before that depth, although
\* history and tip are two requests and the second may reach a server behind.
THEOREM ReceiptsSound == Spec => []ReceiptSound
  <1>1. IInv => ReceiptSound
    BY DEF IInv
  <1> QED BY <1>1, ReadsInvariant, PTL

\* getTransfers: a list from the first transfer that its limit does not cut short
\* has every transfer of what was mined when the call began, whatever the sizes
\* of pages and batches and whatever comes or is mined while it reads, as long as
\* nothing is evicted and no fetch fails meanwhile.
THEOREM TransfersCompleteAlways == Spec => []TransfersComplete
  <1>1. IInv => TransfersComplete
    <2> SUFFICES ASSUME IInv, pc = "done", call \in Options, ~blemished, call.skip = 0,
                        Len(transfers) < call.limit, NEW t \in mined
                 PROVE  ToSet(Rows(Shown(t), call.direction, {})) \subseteq ToSet(transfers)
      BY DEF TransfersComplete
    <2>1. Typed /\ Gathered /\ Listed
      BY DEF IInv
    <2>2. items \in Seq([tx : Txs, height : Int]) /\ next \in Nat
      BY <2>1 DEF Typed
    <2>3. PICK i \in 1..Len(items) : items[i] = Shown(t)
      <3>1. Shown(t) \in ToSet(items)
        BY <2>1 DEF Gathered
      <3> QED BY <2>2, <3>1 DEF ToSet
    <2>4. next >= Len(items)
      BY <2>1 DEF Listed
    <2>5. i <= next
      BY <2>2, <2>4
    <2>6. ToSet(Rows(items[i], call.direction, {})) \subseteq ToSet(transfers)
      BY <2>1, <2>5 DEF Listed
    <2> QED BY <2>3, <2>6
  <1> QED BY <1>1, ReadsInvariant, PTL

(***************************************************************************)
(* 4. The balance                                                          *)
(***************************************************************************)

\* A finite set of outpoints: what has a worth.
Coins(os) == IsFiniteSet(os) /\ os \subseteq Outpoints

LEMMA WorthIsSum == ASSUME NEW os PROVE Worth(os) = SumOf(Value, os)
  BY DEF Worth, SumOf

LEMMA OutpointOf ==
  ASSUME NEW o \in Outpoints
  PROVE  /\ o[1] \in Txs \cup {Elsewhere} /\ o \in OutputsOf(o[1])
         /\ Value[o] \in Nat
         /\ \A t : o \in OutputsOf(t) => o[1] = t
  <1>1. PICK t \in Txs \cup {Elsewhere} : o \in OutputsOf(t)
    BY DEF Outpoints, OutsOf
  <1>2. PICK n \in DOMAIN Outs[t] : o = <<t, n>>
    BY <1>1 DEF OutputsOf
  <1>3. o[1] = t /\ o[2] = n
    BY <1>2
  <1>4. Outs[t][n] \in [own : BOOLEAN, value : Nat]
    <2>1. Outs[t] \in Seq([own : BOOLEAN, value : Nat])
      BY BlockbookAssumption
    <2>2. DOMAIN Outs[t] = 1..Len(Outs[t])
      BY <2>1
    <2> QED BY <2>1, <2>2, ElementOf
  <1>5. Value[o] = Outs[o[1]][o[2]].value
    BY DEF Value
  <1>6. Value[o] \in Nat
    BY <1>3, <1>4, <1>5
  <1>7. \A u : o \in OutputsOf(u) => o[1] = u
    BY DEF OutputsOf
  <1> QED BY <1>1, <1>3, <1>6, <1>7

LEMMA OutputsAreCoins ==
  ASSUME NEW t \in Txs \cup {Elsewhere}
  PROVE  Coins(OutputsOf(t))
  <1>1. Outs[t] \in Seq([own : BOOLEAN, value : Nat])
    BY BlockbookAssumption
  <1> DEFINE n == Len(Outs[t])
             f == [i \in 1..n |-> <<t, i>>]
  <1>2. DOMAIN Outs[t] = 1..n /\ n \in Nat
    BY <1>1
  <1>3. OutputsOf(t) = {<<t, i>> : i \in 1..n}
    BY <1>2 DEF OutputsOf
  <1>4. f \in Surjection(1..n, OutputsOf(t))
    BY <1>3 DEF Surjection
  <1>5. IsFiniteSet(1..n)
    BY <1>2, FS_Interval
  <1> HIDE DEF f
  <1>6. IsFiniteSet(OutputsOf(t))
    BY <1>4, <1>5, FS_Surjection
  <1> QED BY <1>6 DEF Coins, Outpoints, OutsOf

LEMMA InputsAreCoins ==
  ASSUME NEW t \in Txs
  PROVE  Coins(Ins[t])
  BY BlockbookAssumption DEF Coins

LEMMA SomeCoins ==
  ASSUME NEW os, Coins(os), NEW part \in SUBSET os
  PROVE  /\ Coins(part) /\ Worth(part) \in Nat /\ Worth(os) \in Nat
         /\ Worth(part) <= Worth(os)
         /\ Worth(os) = Worth(part) + Worth(os \ part) /\ Worth(os \ part) \in Nat
         /\ Coins(os \ part)
  <1>1. IsFiniteSet(os) /\ \A o \in os : Value[o] \in Nat
    BY OutpointOf DEF Coins
  <1>2. PICK rest : rest = os \ part
    OBVIOUS
  <1>3. IsFiniteSet(part) /\ IsFiniteSet(rest)
    BY <1>1, <1>2, FS_Subset
  <1>4. Coins(part) /\ Coins(rest)
    BY <1>2, <1>3 DEF Coins
  <1>5. SumOf(Value, part) \in Nat /\ SumOf(Value, rest) \in Nat /\ SumOf(Value, os) \in Nat
    <2>1. /\ \A o \in part : Value[o] \in Nat
          /\ \A o \in rest : Value[o] \in Nat
      BY <1>1, <1>2
    <2> QED BY <1>1, <1>3, <2>1, SumOfType
  <1>6. SumOf(Value, os) = SumOf(Value, part) + SumOf(Value, rest)
    <2>1. part \cup rest = os /\ part \cap rest = {}
      BY <1>2
    <2>2. \A o \in part \cup rest : Value[o] \in Int
      BY <1>1, <2>1
    <2>3. SumOf(Value, part \cup rest) = SumOf(Value, part) + SumOf(Value, rest)
      BY <1>3, <2>1, <2>2, SumOfUnion
    <2> QED BY <2>1, <2>3
  <1> QED BY <1>2, <1>4, <1>5, <1>6, WorthIsSum

LEMMA CoinsTogether ==
  ASSUME NEW a, Coins(a), NEW b, Coins(b), a \cap b = {}
  PROVE  Coins(a \cup b) /\ Worth(a \cup b) = Worth(a) + Worth(b)
  <1>1. Coins(a \cup b)
    BY FS_Union DEF Coins
  <1>2. a \in SUBSET (a \cup b) /\ (a \cup b) \ a = b
    OBVIOUS
  <1>3. Worth(a \cup b) = Worth(a) + Worth((a \cup b) \ a)
    BY <1>1, <1>2, SomeCoins
  <1> QED BY <1>1, <1>2, <1>3

\* The worth of a family of disjoint sets of coins.
LEMMA WorthOfEach ==
  ASSUME NEW ts, IsFiniteSet(ts), NEW F, \A t \in ts : Coins(F[t]),
         \A t, u \in ts : t # u => F[t] \cap F[u] = {},
         NEW s, \A t \in ts : s[t] = Worth(F[t])
  PROVE  /\ Coins(UnionOf(F, ts)) /\ SumOf(s, ts) = Worth(UnionOf(F, ts))
         /\ \A t \in ts : s[t] \in Nat
  <1>1. \A t \in ts : IsFiniteSet(F[t]) /\ F[t] \subseteq Outpoints
    BY DEF Coins
  <1>2. IsFiniteSet(UnionOf(F, ts)) /\ UnionOf(F, ts) \subseteq Outpoints
    BY <1>1, FiniteUnion DEF UnionOf
  <1>3. \A o \in UnionOf(F, ts) : Value[o] \in Int
    BY <1>2, OutpointOf
  <1>4. \A t \in ts : s[t] = SumOf(Value, F[t])
    BY WorthIsSum
  <1>5. SumOf(s, ts) = SumOf(Value, UnionOf(F, ts))
    BY <1>1, <1>3, <1>4, SumOfSets
  <1>6. \A t \in ts : s[t] \in Nat
    BY SomeCoins
  <1> QED BY <1>2, <1>5, <1>6, WorthIsSum DEF Coins

LEMMA KnownFinite ==
  ASSUME Shape
  PROVE  IsFiniteSet(Known) /\ IsFiniteSet(Pending) /\ IsFiniteSet(Mined)
  <1>1. Len(history) \in Nat /\ DOMAIN history = 1..Len(history)
    BY DEF Shape
  <1>2. history \in [1..Len(history) -> Known]
    BY <1>1 DEF Shape, Known, ToSet
  <1>3. \A t \in Known : \E i \in 1..Len(history) : history[i] = t
    BY <1>1 DEF Known, ToSet
  <1>4. history \in Surjection(1..Len(history), Known)
    BY <1>2, <1>3 DEF Surjection
  <1>5. IsFiniteSet(1..Len(history))
    BY <1>1, FS_Interval
  <1>6. IsFiniteSet(Known)
    BY <1>4, <1>5, FS_Surjection
  <1>7. Pending \subseteq Known /\ Mined \subseteq Known
    BY DEF Pending, Mined
  <1> QED BY <1>6, <1>7, FS_Subset

\* The address's own outputs among a set of transactions.
OwnOuts(ts) == {o \in OutsOf(ts) : Own(o)}

\* Own outputs nobody spent yet: what the balance is to be worth.
Left(ts) == OwnOuts(ts) \ SpentBy(Known)

\* Waiting transactions nobody else can undo.
Closed(ts) == \A t \in ts : /\ Ins[t] # {}
                            /\ \A o \in Ins[t] : Own(o) /\ o[1] \notin Pending \ ts
Trust == UNION {ts \in SUBSET Pending : Closed(ts)}

LEMMA SettledIs == Settled = Mined \cup Trust
  BY DEF Settled, Trust, Closed

LEMMA TrustClosed ==
  /\ Trust \subseteq Pending /\ Closed(Trust)
  /\ \A ts \in SUBSET Pending : Closed(ts) => ts \subseteq Trust
  <1>1. Trust \subseteq Pending /\ \A ts \in SUBSET Pending : Closed(ts) => ts \subseteq Trust
    BY DEF Trust
  <1>2. ASSUME NEW t \in Trust
        PROVE  Ins[t] # {} /\ \A o \in Ins[t] : Own(o) /\ o[1] \notin Pending \ Trust
    <2>1. PICK ts \in SUBSET Pending : Closed(ts) /\ t \in ts
      BY <1>2 DEF Trust
    <2>2. ts \subseteq Trust
      BY <1>1, <2>1
    <2> QED BY <2>1, <2>2 DEF Closed
  <1> QED BY <1>1, <1>2 DEF Closed

LEMMA OwnOutput ==
  ASSUME NEW o \in Outpoints, Own(o)
  PROVE  o[1] \in Txs /\ o \in OutputsOf(o[1])
  BY OutpointOf, BlockbookAssumption

LEMMA OwnOutsMember ==
  ASSUME NEW ts \in SUBSET Txs, NEW o
  PROVE  o \in OwnOuts(ts) <=> o \in Outpoints /\ o[1] \in ts /\ Own(o)
  <1>1. ASSUME o \in OwnOuts(ts) PROVE o \in Outpoints /\ o[1] \in ts /\ Own(o)
    <2>1. PICK t \in ts : o \in OutputsOf(t) /\ Own(o)
      BY <1>1 DEF OwnOuts, OutsOf
    <2>2. o \in Outpoints /\ o[1] = t
      BY <2>1 DEF Outpoints, OutsOf, OutputsOf
    <2> QED BY <2>1, <2>2
  <1>2. ASSUME o \in Outpoints, o[1] \in ts, Own(o) PROVE o \in OwnOuts(ts)
    BY <1>2, OutpointOf DEF OwnOuts, OutsOf
  <1> QED BY <1>1, <1>2

LEMMA OutsAreCoins ==
  ASSUME NEW ts \in SUBSET Txs, IsFiniteSet(ts)
  PROVE  Coins(OutsOf(ts)) /\ Coins(OwnOuts(ts))
  <1>1. PICK F : F = [t \in ts |-> OutputsOf(t)]
    OBVIOUS
  <1>2. \A t \in ts : IsFiniteSet(F[t]) /\ F[t] \subseteq Outpoints
    BY <1>1, OutputsAreCoins DEF Coins
  <1>3. IsFiniteSet(UnionOf(F, ts))
    BY <1>2, FiniteUnion
  <1>4. UnionOf(F, ts) = OutsOf(ts)
    BY <1>1 DEF UnionOf, OutsOf
  <1>5. Coins(OutsOf(ts))
    BY <1>2, <1>3, <1>4 DEF Coins, UnionOf
  <1> QED BY <1>5, SomeCoins DEF OwnOuts

\* isTrusted recurses along the chain, which ends; it finds what is settled.
LEMMA Trusting ==
  ASSUME Ledger
  PROVE  \A t \in Pending : IsTrusted[t] <=> t \in Trust
  <1>1. Known \subseteq Txs /\ Pending \subseteq Known /\ NoCircle
    BY Parts DEF Ledger, Pending
  <1> DEFINE Eq(f) == f = [t \in Txs |->
                /\ Ins[t] # {}
                /\ \A o \in Ins[t] : Own(o) /\ (o[1] \in Pending => f[o[1]])]
             Good(t) == /\ Ins[t] # {}
                        /\ \A o \in Ins[t] : Own(o) /\ (o[1] \in Pending => o[1] \in Trust)
  <1>2. \A t \in Pending : Good(t) <=> t \in Trust
    <2>1. ASSUME NEW t \in Pending, Good(t) PROVE t \in Trust
      <3>1. Trust \cup {t} \in SUBSET Pending
        BY <2>1, TrustClosed
      <3>2. Closed(Trust \cup {t})
        BY <2>1, TrustClosed DEF Closed
      <3> QED BY <3>1, <3>2, TrustClosed
    <2>2. ASSUME NEW t \in Trust PROVE Good(t)
      BY <2>2, TrustClosed DEF Closed
    <2> QED BY <2>1, <2>2
  <1>3. \E f : Eq(f)
    <2> DEFINE g == [t \in Txs |-> Good(t)]
    <2>1. \A t \in Pending : g[t] <=> t \in Trust
      BY <1>1, <1>2, Zenon
    <2>2. \A t \in Txs : (\A o \in Ins[t] : Own(o) /\ (o[1] \in Pending => o[1] \in Trust))
                           <=> (\A o \in Ins[t] : Own(o) /\ (o[1] \in Pending => g[o[1]]))
      <3> HIDE DEF g
      <3> QED BY <2>1, Zenon
    <2>3. Eq(g)
      BY <2>2, Zenon
    <2> QED BY <2>3
  <1>4. Eq(IsTrusted)
    <2>1. IsTrusted = CHOOSE f : Eq(f)
      BY DEF IsTrusted
    <2> HIDE DEF Eq
    <2> QED BY <1>3, <2>1
  <1>5. \A t \in Pending : IsTrusted[t] <=>
            /\ Ins[t] # {}
            /\ \A o \in Ins[t] : Own(o) /\ (o[1] \in Pending => IsTrusted[o[1]])
    BY <1>1, <1>4, Zenon
  <1>6. ASSUME NEW t \in Pending, IsTrusted[t] PROVE t \in Trust
    <2> DEFINE S == {u \in Pending : IsTrusted[u]}
    <2>1. ASSUME NEW u \in S
          PROVE  Ins[u] # {} /\ \A o \in Ins[u] : Own(o) /\ o[1] \notin Pending \ S
      BY <1>5, <2>1, Zenon
    <2>2. Closed(S) /\ S \in SUBSET Pending
      BY <2>1 DEF Closed
    <2>3. t \in S
      BY <1>6, Zenon
    <2> HIDE DEF S
    <2> QED BY <2>2, <2>3, TrustClosed
  <1>7. ASSUME NEW t \in Trust, ~IsTrusted[t] PROVE FALSE
    <2> DEFINE D == {u \in Trust : ~IsTrusted[u]}
    <2>1. D # {} /\ D \in SUBSET Known
      BY <1>1, <1>7, TrustClosed, Zenon
    <2>2. PICK u \in D : \A o \in Ins[u] : o[1] \notin D
      <3> HIDE DEF D
      <3> QED BY <1>1, <2>1 DEF NoCircle
    <2>3. u \in Trust /\ u \in Pending /\ ~IsTrusted[u]
      BY <2>2, TrustClosed, Zenon
    <2>4. Good(u)
      BY <1>2, <2>3
    <2>5. \A o \in Ins[u] : o[1] \in Trust => IsTrusted[o[1]]
      BY <2>2, Zenon
    <2> QED BY <1>5, <2>3, <2>4, <2>5, Zenon
  <1> QED BY <1>6, <1>7, Zenon

\* What the address spends of mined transactions is subtracted, and what comes
\* back to it in transactions it trusts is added: in all, each coin once.
LEMMA BalanceOf == Ledger => /\ Balance = Worth(Left(Settled)) /\ Coins(Left(Settled))
                             /\ BalanceIsSettled
  <1> SUFFICES ASSUME Ledger
               PROVE  /\ Balance = Worth(Left(Settled)) /\ Coins(Left(Settled))
                      /\ BalanceIsSettled
    OBVIOUS
  <1>1. Shape /\ Chained
    BY DEF Ledger
  <1>2. /\ Known \subseteq Txs /\ Known = Pending \cup Mined /\ Pending \cap Mined = {}
        /\ IsFiniteSet(Pending) /\ IsFiniteSet(Mined) /\ Trust \subseteq Pending
    BY <1>1, Parts, KnownFinite, TrustClosed
  <1>3. IsFiniteSet(Trust)
    BY <1>2, FS_Subset
  <1>4. /\ Mined \in SUBSET Txs /\ Trust \in SUBSET Txs /\ Pending \in SUBSET Txs
        /\ Known \in SUBSET Txs
    BY <1>2
  <1>5. Coins(OwnOuts(Mined)) /\ Coins(OwnOuts(Trust))
    BY <1>2, <1>3, <1>4, OutsAreCoins
  <1>6. SpentBy(Known) = SpentBy(Mined) \cup SpentBy(Pending)
    BY <1>2 DEF SpentBy
  <1>7. SpentBy(Mined) \cap SpentBy(Pending) = {}
    BY <1>1, <1>2 DEF SpentBy, Chained
  <1>8. PICK A, P : A = OwnOuts(Mined) \ SpentBy(Mined)
                    /\ P = OwnOuts(Mined) \cap SpentBy(Pending)
    OBVIOUS
  <1>9. P \in SUBSET A /\ A \ P = Left(Mined) /\ A \in SUBSET OwnOuts(Mined)
    BY <1>6, <1>7, <1>8 DEF Left
  <1>10. Confirmed = Worth(A)
    <2>1. {o \in OutsOf(Mined) \ SpentBy(Mined) : Own(o)} = A
      BY <1>8 DEF OwnOuts
    <2> QED BY <2>1 DEF Confirmed, OwnedValue
  <1>11. /\ Worth(A) = Worth(P) + Worth(Left(Mined)) /\ Worth(P) \in Nat
         /\ Coins(Left(Mined)) /\ Worth(Left(Mined)) \in Nat
    <2>1. Coins(A)
      BY <1>5, <1>9, SomeCoins
    <2> QED BY <1>9, <2>1, SomeCoins
  <1>12. PICK FS : FS = [t \in Pending |-> {o \in {p \in Ins[t] : p[1] \notin Pending} : Own(o)}]
    OBVIOUS
  <1>13. PICK spent : spent = [t \in Pending |-> Worth(FS[t])]
    OBVIOUS
  <1>14. UnionOf(FS, Pending) = P
    <2>1. ASSUME NEW o \in UnionOf(FS, Pending) PROVE o \in P
      <3>1. PICK t \in Pending : o \in Ins[t] /\ o[1] \notin Pending /\ Own(o)
        BY <1>12, <2>1 DEF UnionOf
      <3>2. t \in Txs /\ t \in Known
        BY <1>2
      <3>3. o \in Outpoints /\ o[1] \in Known \cup {Elsewhere}
        BY <1>1, <3>1, <3>2, BlockbookAssumption DEF Chained
      <3>4. o[1] \in Mined
        BY <1>2, <3>1, <3>3, OwnOutput, BlockbookAssumption
      <3>5. o \in OwnOuts(Mined)
        BY <1>4, <3>1, <3>3, <3>4, OwnOutsMember
      <3> QED BY <1>8, <3>1, <3>5 DEF SpentBy
    <2>2. ASSUME NEW o \in P PROVE o \in UnionOf(FS, Pending)
      <3>1. PICK t \in Pending : o \in Ins[t]
        BY <1>8, <2>2 DEF SpentBy
      <3>2. o[1] \in Mined /\ Own(o)
        BY <1>4, <1>8, <2>2, OwnOutsMember
      <3> QED BY <1>2, <1>12, <3>1, <3>2 DEF UnionOf
    <2> QED BY <2>1, <2>2
  <1>15. SumOf(spent, Pending) = Worth(P) /\ \A t \in Pending : spent[t] \in Nat
    <2>1. \A t \in Pending : Coins(FS[t])
      <3> TAKE t \in Pending
      <3>1. Coins(Ins[t])
        BY <1>4, InputsAreCoins
      <3>2. FS[t] \in SUBSET Ins[t]
        BY <1>12
      <3> QED BY <3>1, <3>2, SomeCoins
    <2>2. \A t, u \in Pending : t # u => FS[t] \cap FS[u] = {}
      BY <1>1, <1>2, <1>12 DEF Chained
    <2>3. \A t \in Pending : spent[t] = Worth(FS[t])
      BY <1>13
    <2> QED BY <1>2, <1>14, <2>1, <2>2, <2>3, WorthOfEach
  <1>16. PICK FC : FC = [t \in Pending |-> IF t \in Trust
                                           THEN {o \in OutputsOf(t) \ Consumed : Own(o)} ELSE {}]
    OBVIOUS
  <1>17. PICK change : change = [t \in Pending |-> Worth(FC[t])]
    OBVIOUS
  <1>18. UnionOf(FC, Pending) = Left(Trust)
    <2>1. ASSUME NEW o \in OwnOuts(Trust) PROVE o \in Consumed <=> o \in SpentBy(Known)
      <3>1. o[1] \in Pending
        BY <1>2, <1>4, <2>1, OwnOutsMember
      <3>2. o \notin SpentBy(Mined)
        BY <1>1, <3>1 DEF SpentBy, Chained
      <3> QED BY <1>6, <3>1, <3>2 DEF Consumed
    <2>2. UnionOf(FC, Pending) = OwnOuts(Trust) \ Consumed
      BY <1>2, <1>16 DEF UnionOf, OwnOuts, OutsOf
    <2> QED BY <2>1, <2>2 DEF Left
  <1>19. SumOf(change, Pending) = Worth(Left(Trust)) /\ \A t \in Pending : change[t] \in Nat
    <2>1. \A t \in Pending : Coins(FC[t])
      <3> TAKE t \in Pending
      <3>1. Coins(OutputsOf(t))
        BY <1>4, OutputsAreCoins
      <3>2. FC[t] \in SUBSET OutputsOf(t)
        BY <1>16
      <3> QED BY <3>1, <3>2, SomeCoins
    <2>2. \A t, u \in Pending : t # u => FC[t] \cap FC[u] = {}
      BY <1>16 DEF OutputsOf
    <2>3. \A t \in Pending : change[t] = Worth(FC[t])
      BY <1>17
    <2> QED BY <1>2, <1>18, <2>1, <2>2, <2>3, WorthOfEach
  <1>20. PICK outgoing : outgoing = [t \in Pending |->
                OwnedValue({o \in Ins[t] : o[1] \notin Pending}) - Change(t)]
    OBVIOUS
  <1>21. UnconfirmedOutgoing = SumOf(outgoing, Pending)
    BY <1>20 DEF UnconfirmedOutgoing, SumOf
  <1>22. \A t \in Pending : outgoing[t] = spent[t] - change[t]
    <2> TAKE t \in Pending
    <2>1. OwnedValue({o \in Ins[t] : o[1] \notin Pending}) = spent[t]
      BY <1>12, <1>13 DEF OwnedValue
    <2>2. Change(t) = change[t]
      <3>1. CASE t \in Trust
        <4>1. IsTrusted[t]
          BY <3>1, Trusting
        <4> QED BY <1>16, <1>17, <3>1, <4>1 DEF Change, OwnedValue
      <3>2. CASE t \notin Trust
        <4>1. ~IsTrusted[t]
          BY <3>2, Trusting
        <4>2. Change(t) = 0
          BY <4>1 DEF Change
        <4>3. change[t] = 0
          BY <1>16, <1>17, <3>2, WorthIsSum, SumOfNothing
        <4> QED BY <4>2, <4>3
      <3> QED BY <3>1, <3>2
    <2> QED BY <1>20, <2>1, <2>2
  <1>23. UnconfirmedOutgoing = Worth(P) - Worth(Left(Trust))
    <2>1. \A t \in Pending : /\ spent[t] \in Int /\ change[t] \in Int
                             /\ outgoing[t] = spent[t] - change[t]
      BY <1>15, <1>19, <1>22
    <2>2. SumOf(outgoing, Pending) = SumOf(spent, Pending) - SumOf(change, Pending)
      BY <1>2, <2>1, SumOfDifference
    <2> QED BY <1>15, <1>19, <1>21, <2>2
  <1>24. Coins(Left(Trust)) /\ Worth(Left(Trust)) \in Nat
    <2>1. Left(Trust) \in SUBSET OwnOuts(Trust)
      BY DEF Left
    <2> QED BY <1>5, <2>1, SomeCoins
  <1>25. Left(Mined) \cap Left(Trust) = {}
    BY <1>2, <1>4, OwnOutsMember DEF Left
  <1>26. Left(Settled) = Left(Mined) \cup Left(Trust)
    BY SettledIs DEF Left, OwnOuts, OutsOf
  <1>27. Coins(Left(Settled)) /\ Worth(Left(Settled)) = Worth(Left(Mined)) + Worth(Left(Trust))
    BY <1>11, <1>24, <1>25, <1>26, CoinsTogether
  <1>28. Balance = Worth(Left(Settled))
    BY <1>10, <1>11, <1>23, <1>24, <1>27 DEF Balance
  <1>29. Left(Settled) = {o \in OutsOf(Settled) \ SpentBy(Known) : Own(o)}
    BY DEF Left, OwnOuts
  <1> QED BY <1>27, <1>28, <1>29 DEF BalanceIsSettled, OwnedValue

\* getBalance: what the client computes from the server's confirmed balance and
\* the waiting transactions is the worth of the address's unspent outputs of
\* settled transactions, however long a chain of own transactions waits.
THEOREM BalanceSettled == Spec => []BalanceIsSettled
  <1>1. IInv => BalanceIsSettled
    BY BalanceOf DEF IInv
  <1> QED BY <1>1, ReadsInvariant, PTL

\* What is settled stays so, but for what a server drops.
LEMMA SettledStays ==
  ASSUME Ledger, Ledger', LedgerStep
  PROVE  \/ Settled \subseteq Settled' /\ SpentBy(Known) \subseteq SpentBy(Known')
         \/ \E gone \in SUBSET Pending :
                /\ Settled \ gone \subseteq Settled' /\ Known' = Known \ gone
  <1>1. Shape /\ Chained
    BY DEF Ledger
  <1>2. Known \subseteq Txs /\ Known = Pending \cup Mined /\ Pending \cap Mined = {}
    BY <1>1, Parts
  <1>3. /\ Trust \subseteq Pending
        /\ \A u \in Trust : Ins[u] # {} /\ \A o \in Ins[u] : Own(o) /\ o[1] \notin Pending \ Trust
    BY TrustClosed DEF Closed
  <1>4. /\ Settled' = Mined' \cup Trust'
        /\ \A ts \in SUBSET Pending' : Closed(ts)' => ts \subseteq Trust'
    BY DEF Settled, Trust, Closed
  <1>5. ASSUME NEW ts \in SUBSET Pending', ts \subseteq Trust,
               \A u \in ts : \A o \in Ins[u] : o[1] \notin Pending' \ ts
        PROVE  ts \subseteq Settled'
    <2>1. Closed(ts)'
      BY <1>3, <1>5 DEF Closed
    <2> QED BY <1>4, <2>1
  <1>6. ASSUME NEW t \in Txs, Accept(t)
        PROVE  Settled \subseteq Settled' /\ SpentBy(Known) \subseteq SpentBy(Known')
    <2>1. /\ Known' = Known \cup {t} /\ Pending' = Pending \cup {t} /\ Mined' = Mined
          /\ t \notin Known
      BY <1>1, <1>6, AcceptEffect
    <2>2. \A u \in Trust : \A o \in Ins[u] : o[1] # t
      BY <1>1, <1>2, <1>3, <2>1, BlockbookAssumption DEF Chained
    <2>3. Trust \subseteq Settled'
      BY <1>3, <1>5, <2>1, <2>2
    <2>4. SpentBy(Known) \subseteq SpentBy(Known')
      BY <2>1 DEF SpentBy
    <2> QED BY <1>4, <2>1, <2>3, <2>4, SettledIs
  <1>7. ASSUME NEW block \in SUBSET Pending, Mine(block)
        PROVE  Settled \subseteq Settled' /\ SpentBy(Known) \subseteq SpentBy(Known')
    <2>1. Known' = Known /\ Pending' = Pending \ block /\ Mined' = Mined \cup block
      BY <1>1, <1>7, MineEffect
    <2>2. Trust \ block \subseteq Settled'
      <3>1. /\ Trust \ block \in SUBSET Pending' /\ Trust \ block \subseteq Trust
            /\ \A u \in Trust \ block : \A o \in Ins[u] : o[1] \notin Pending' \ (Trust \ block)
        BY <1>3, <2>1
      <3> QED BY <1>5, <3>1
    <2> QED BY <1>4, <2>1, <2>2, SettledIs
  <1>8. ASSUME NEW gone \in SUBSET Pending, Evict(gone)
        PROVE  Settled \ gone \subseteq Settled' /\ Known' = Known \ gone
    <2>1. Known' = Known \ gone /\ Pending' = Pending \ gone /\ Mined' = Mined
      BY <1>1, <1>8, EvictEffect
    <2>2. Trust \ gone \subseteq Settled'
      <3>1. /\ Trust \ gone \in SUBSET Pending' /\ Trust \ gone \subseteq Trust
            /\ \A u \in Trust \ gone : \A o \in Ins[u] : o[1] \notin Pending' \ (Trust \ gone)
        BY <1>3, <2>1
      <3> QED BY <1>5, <3>1
    <2> QED BY <1>4, <2>1, <2>2, SettledIs
  <1> QED BY <1>6, <1>7, <1>8 DEF LedgerStep

\* Settled transactions that wait do not make money.
LEMMA NoneCreated ==
  ASSUME NEW ts \in SUBSET Txs, IsFiniteSet(ts),
         \A t \in ts : Ins[t] # {},
         \A t, u \in ts : t # u => Ins[t] \cap Ins[u] = {}
  PROVE  Coins(SpentBy(ts)) /\ Worth(OutsOf(ts)) <= Worth(SpentBy(ts))
  <1>1. PICK FO, FI, v, w : /\ FO = [t \in ts |-> OutputsOf(t)] /\ FI = [t \in ts |-> Ins[t]]
                            /\ v = [t \in ts |-> Worth(OutputsOf(t))]
                            /\ w = [t \in ts |-> Worth(Ins[t])]
    OBVIOUS
  <1>2. UnionOf(FO, ts) = OutsOf(ts) /\ UnionOf(FI, ts) = SpentBy(ts)
    BY <1>1 DEF UnionOf, OutsOf, SpentBy
  <1>3. SumOf(v, ts) = Worth(UnionOf(FO, ts)) /\ \A t \in ts : v[t] \in Nat
    <2>1. \A t \in ts : Coins(FO[t]) /\ v[t] = Worth(FO[t])
      BY <1>1, OutputsAreCoins
    <2>2. \A t, u \in ts : t # u => FO[t] \cap FO[u] = {}
      BY <1>1 DEF OutputsOf
    <2> QED BY <2>1, <2>2, WorthOfEach
  <1>4. /\ Coins(UnionOf(FI, ts)) /\ SumOf(w, ts) = Worth(UnionOf(FI, ts))
        /\ \A t \in ts : w[t] \in Nat
    <2>1. \A t \in ts : Coins(FI[t]) /\ w[t] = Worth(FI[t])
      BY <1>1, InputsAreCoins
    <2>2. \A t, u \in ts : t # u => FI[t] \cap FI[u] = {}
      BY <1>1
    <2> QED BY <2>1, <2>2, WorthOfEach
  <1>5. \A t \in ts : v[t] \in Int /\ w[t] \in Int /\ v[t] <= w[t]
    BY <1>1, <1>3, <1>4, BlockbookAssumption
  <1>6. SumOf(v, ts) <= SumOf(w, ts)
    BY <1>5, SumOfSmaller
  <1> QED BY <1>2, <1>3, <1>4, <1>6

\* The coins that leave the balance with evicted transactions are worth no more
\* than the ones these spent, which come back.
LEMMA EvictionPays ==
  ASSUME Ledger, NEW gone \in SUBSET Pending,
         NEW now, Coins(now),
         \A o \in Left(Settled) : o[1] \notin gone => o \in now,
         \A o \in SpentBy(Trust \cap gone) : o[1] \notin Trust \cap gone => o \in now
  PROVE  Worth(Left(Settled)) <= Worth(now)
  <1>1. Shape /\ Chained
    BY DEF Ledger
  <1>2. /\ Known \subseteq Txs /\ Known = Pending \cup Mined /\ Pending \cap Mined = {}
        /\ IsFiniteSet(Pending) /\ Trust \subseteq Pending
    BY <1>1, Parts, KnownFinite, TrustClosed
  <1>3. PICK G, N, A, X, B : /\ G = Trust \cap gone /\ N = Left(Settled)
                             /\ A = N \ now
                             /\ X = {o \in SpentBy(G) : o[1] \in G}
                             /\ B = SpentBy(G) \ X
    OBVIOUS
  <1>4. G \in SUBSET Txs /\ G \subseteq Known /\ IsFiniteSet(G) /\ Settled \in SUBSET Txs
    BY <1>2, <1>3, FS_Subset, SettledIs
  <1>5. Coins(SpentBy(G)) /\ Worth(OutsOf(G)) <= Worth(SpentBy(G))
    <2>1. \A t \in G : Ins[t] # {}
      BY <1>3, TrustClosed DEF Closed
    <2>2. \A t, u \in G : t # u => Ins[t] \cap Ins[u] = {}
      BY <1>1, <1>4 DEF Chained
    <2> QED BY <1>4, <2>1, <2>2, NoneCreated
  <1>6. Coins(OutsOf(G))
    BY <1>4, OutsAreCoins
  <1>7. Coins(N)
    BY <1>3, BalanceOf
  <1>8. A \in SUBSET N /\ A \in SUBSET OwnOuts(G) /\ A \cap SpentBy(G) = {}
    <2>1. ASSUME NEW o \in A PROVE o \in OwnOuts(G) /\ o \notin SpentBy(G)
      <3>1. o \in Outpoints /\ o[1] \in Settled /\ Own(o) /\ o \notin SpentBy(Known)
        BY <1>3, <1>4, <2>1, OwnOutsMember DEF Left
      <3>2. o[1] \in gone
        BY <1>3, <2>1
      <3>3. o[1] \in G
        BY <1>2, <1>3, <3>1, <3>2, SettledIs
      <3>4. o \in OwnOuts(G)
        BY <1>4, <3>1, <3>3, OwnOutsMember
      <3> QED BY <1>4, <3>1, <3>4 DEF SpentBy
    <2> QED BY <1>3, <2>1
  <1>9. X \in SUBSET OutsOf(G) /\ X \in SUBSET SpentBy(G) /\ A \in SUBSET (OutsOf(G) \ X)
    <2>1. X \in SUBSET OutsOf(G)
      <3> SUFFICES ASSUME NEW o \in X PROVE o \in OutsOf(G)
        OBVIOUS
      <3>1. o \in Outpoints /\ o[1] \in G
        BY <1>3, <1>5 DEF Coins
      <3> QED BY <3>1, OutpointOf DEF OutsOf
    <2>2. OwnOuts(G) \subseteq OutsOf(G)
      BY DEF OwnOuts
    <2> QED BY <1>3, <1>8, <2>1, <2>2
  <1>10. /\ Worth(A) <= Worth(OutsOf(G)) - Worth(X) /\ Worth(A) \in Nat
         /\ Worth(X) \in Nat /\ Worth(OutsOf(G)) \in Nat
    <2>1. PICK R : R = OutsOf(G) \ X
      OBVIOUS
    <2>2. Worth(OutsOf(G)) = Worth(X) + Worth(R) /\ Coins(R) /\ Worth(X) \in Nat
          /\ Worth(R) \in Nat /\ Worth(OutsOf(G)) \in Nat
      BY <1>6, <1>9, <2>1, SomeCoins
    <2>3. Worth(A) <= Worth(R) /\ Worth(A) \in Nat
      BY <1>9, <2>1, <2>2, SomeCoins
    <2> QED BY <2>2, <2>3
  <1>11. /\ Worth(B) = Worth(SpentBy(G)) - Worth(X) /\ Worth(B) \in Nat
         /\ Worth(SpentBy(G)) \in Nat
    <2>1. PICK S : S = SpentBy(G)
      OBVIOUS
    <2>2. Worth(S) = Worth(X) + Worth(B) /\ Worth(B) \in Nat /\ Worth(S) \in Nat
      BY <1>3, <1>5, <1>9, <2>1, SomeCoins
    <2> QED BY <1>10, <2>1, <2>2
  <1>12. Worth(A) <= Worth(B)
    BY <1>5, <1>10, <1>11
  <1>13. PICK K : K = N \ A
    OBVIOUS
  <1>14. Worth(N) = Worth(A) + Worth(K) /\ Coins(K) /\ Worth(K) \in Nat
    BY <1>7, <1>8, <1>13, SomeCoins
  <1>15. B \subseteq now /\ K \subseteq now /\ B \cap K = {}
    <2>1. SpentBy(G) \subseteq SpentBy(Known)
      BY <1>4 DEF SpentBy
    <2>2. K \cap SpentBy(Known) = {}
      BY <1>3, <1>13 DEF Left
    <2> QED BY <1>3, <1>13, <2>1, <2>2
  <1>16. Coins(B)
    BY <1>3, <1>5, SomeCoins
  <1>17. Coins(B \cup K) /\ Worth(B \cup K) = Worth(B) + Worth(K)
    BY <1>14, <1>15, <1>16, CoinsTogether
  <1>18. Worth(B \cup K) <= Worth(now) /\ Worth(now) \in Nat
    <2>1. B \cup K \in SUBSET now
      BY <1>15
    <2> QED BY <2>1, SomeCoins
  <1> QED BY <1>3, <1>10, <1>11, <1>12, <1>14, <1>17, <1>18

\* Unless own coins are newly spent, the balance is kept.
LEMMA BalanceKept ==
  ASSUME Ledger, Ledger', LedgerStep,
         \A o \in SpentBy(Known') \ SpentBy(Known) : ~Own(o)
  PROVE  Balance <= Balance' /\ Balance \in Nat /\ Balance' \in Nat
  <1>1. /\ Ledger => /\ Balance = Worth(Left(Settled)) /\ Coins(Left(Settled))
        /\ Ledger' => /\ Balance' = Worth(Left(Settled)') /\ Coins(Left(Settled)')
    <2>1. (Ledger => /\ Balance = Worth(Left(Settled)) /\ Coins(Left(Settled)))'
      BY BalanceOf, PTL
    <2> QED BY <2>1, BalanceOf
  <1>2. PICK now : now = Left(Settled)'
    OBVIOUS
  <1>3. /\ Balance = Worth(Left(Settled)) /\ Coins(Left(Settled))
        /\ Balance' = Worth(now) /\ Coins(now)
    BY <1>1, <1>2
  <1>4. \A o : o \in now <=> /\ o \in Outpoints /\ o[1] \in Settled' /\ Own(o)
                             /\ o \notin SpentBy(Known')
    <2>1. PICK ts, K : ts = Settled' /\ K = Known'
      OBVIOUS
    <2>2. now = OwnOuts(ts) \ SpentBy(K)
      BY <1>2, <2>1 DEF Left, OwnOuts, OutsOf, SpentBy
    <2>3. ts \in SUBSET Txs
      <3>1. Shape'
        BY DEF Ledger
      <3>2. Known' \subseteq Txs
        BY <3>1 DEF Shape, Known, ToSet
      <3>3. Settled' \subseteq Known'
        BY DEF Settled, Mined, Pending
      <3> QED BY <2>1, <3>2, <3>3
    <2> QED BY <2>1, <2>2, <2>3, OwnOutsMember
  <1>5. Shape /\ Chained /\ Chained'
    BY DEF Ledger
  <1>6. /\ Known \subseteq Txs /\ Known = Pending \cup Mined /\ Pending \cap Mined = {}
        /\ Trust \subseteq Pending /\ Settled = Mined \cup Trust
    BY <1>5, Parts, TrustClosed, SettledIs
  <1>7. \A o \in Left(Settled) : o \in Outpoints /\ o[1] \in Settled /\ Own(o)
                                 /\ o \notin SpentBy(Known)
    <2>1. Settled \in SUBSET Txs
      BY <1>6
    <2> QED BY <2>1, OwnOutsMember DEF Left
  <1>8. CASE Settled \subseteq Settled' /\ SpentBy(Known) \subseteq SpentBy(Known')
    <2>1. Left(Settled) \in SUBSET now
      <3> SUFFICES ASSUME NEW o \in Left(Settled) PROVE o \in now
        OBVIOUS
      <3>1. o \notin SpentBy(Known')
        BY <1>7
      <3> QED BY <1>4, <1>7, <1>8, <3>1
    <2> QED BY <1>3, <2>1, SomeCoins
  <1>9. ASSUME NEW gone \in SUBSET Pending,
               Settled \ gone \subseteq Settled' /\ Known' = Known \ gone
        PROVE  Balance <= Balance' /\ Balance \in Nat /\ Balance' \in Nat
    <2>1. SpentBy(Known') \subseteq SpentBy(Known)
      BY <1>9 DEF SpentBy
    <2>2. \A o \in Left(Settled) : o[1] \notin gone => o \in now
      BY <1>4, <1>7, <1>9, <2>1
    <2>3. ASSUME NEW o \in SpentBy(Trust \cap gone), o[1] \notin Trust \cap gone
          PROVE  o \in now
      <3>1. PICK t \in Trust \cap gone : o \in Ins[t]
        BY DEF SpentBy
      <3>2. /\ t \in Known /\ t \in Txs /\ o \in Outpoints /\ o[1] \in Known \cup {Elsewhere}
        BY <1>5, <1>6, <3>1, BlockbookAssumption DEF Chained
      <3>3. Own(o) /\ o[1] \notin Pending \ Trust
        BY <3>1, TrustClosed DEF Closed
      <3>4. o[1] \in Settled /\ o[1] \notin gone
        BY <1>6, <2>3, <3>2, <3>3, OwnOutput, BlockbookAssumption
      <3>5. o \notin SpentBy(Known')
        BY <1>5, <1>9, <3>1, <3>2 DEF SpentBy, Chained
      <3> QED BY <1>4, <1>9, <3>2, <3>3, <3>4, <3>5
    <2>4. Worth(Left(Settled)) <= Worth(now)
      BY <1>3, <2>2, <2>3, EvictionPays
    <2> QED BY <1>3, <2>4, SomeCoins
  <1> QED BY <1>8, <1>9, SettledStays

\* getBalance: what it told leaves the balance only in a transaction that spends
\* the address's coins; no block takes any away, and what an evicted transaction
\* brought back is made up for by what it spent.
THEOREM OnlySpendingLowersBalance == Spec => OnlySpendingLowers
  <1> DEFINE Kept == ledger' # ledger /\ Balance' < Balance =>
                        \E o \in SpentBy(Known') \ SpentBy(Known) : Own(o)
  <1>1. IInv /\ IInv' /\ [Next]_vars => [Kept]_ledger
    <2> SUFFICES ASSUME IInv, IInv', [Next]_vars, ledger' # ledger, Balance' < Balance
                 PROVE  \E o \in SpentBy(Known') \ SpentBy(Known) : Own(o)
      OBVIOUS
    <2>1. LedgerStep
      BY DEF Next, vars, Environment, GetTransfers, GetTransaction, Begin, RequestFails,
             HistoryPage, Batch, Return, RawTransaction, TipRead
    <2>2. Ledger /\ Ledger'
      BY DEF IInv
    <2>3. SUFFICES ASSUME \A o \in SpentBy(Known') \ SpentBy(Known) : ~Own(o) PROVE FALSE
      OBVIOUS
    <2>4. Balance <= Balance' /\ Balance \in Nat /\ Balance' \in Nat
      BY <2>1, <2>2, <2>3, BalanceKept
    <2> QED BY <2>4
  <1>2. Spec => [][Kept]_ledger
    BY <1>1, ReadsInvariant, PTL DEF Spec
  <1> QED BY <1>2 DEF OnlySpendingLowers
=============================================================================
