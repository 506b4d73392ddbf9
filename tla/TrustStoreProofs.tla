-------------------------- MODULE TrustStoreProofs --------------------------
(***************************************************************************)
(* Theorems about TrustStore for every set of threads, certificates and    *)
(* messages and every number of calls.                                     *)
(*                                                                         *)
(* The pointers of the store always form a list that ends (Linked), each   *)
(* call adds a certificate of its own (Enrolled), an append stands at a    *)
(* node of the list (Appending), and what a climb has passed it has        *)
(* verified (Vouched, Climbing).                                           *)
(***************************************************************************)
EXTENDS TrustStore, FiniteSetTheorems, WellFoundedInduction, TLAPS

LEMMA Least ==
  ASSUME NEW T \in SUBSET Nat, T # {}
  PROVE  \E i \in T : \A j \in T : i <= j
  <1>. DEFINE R == OpToRel(<, Nat)
  <1>1. IsWellFoundedOn(R, Nat)
    BY NatLessThanWellFounded DEF OpToRel
  <1>2. \A m, n \in Nat : m < n => <<m, n>> \in R
    BY DEF OpToRel
  <1>. HIDE DEF R
  <1>3. PICK n \in T : \A m \in T : ~ (<<m, n>> \in R)
    BY <1>1, WFMin
  <1>4. \A m \in T : ~ (m < n)
    BY <1>2, <1>3
  <1>. QED BY <1>4

LEMMA SetInduction ==
  ASSUME NEW S, 0 \in S, \A n \in Nat : n \in S => n + 1 \in S
  PROVE  \A n \in Nat : n \in S
  <1>. SUFFICES ASSUME Nat \ S # {} PROVE FALSE
    OBVIOUS
  <1>1. PICK n \in Nat \ S : \A m \in Nat \ S : n <= m
    BY Least
  <1>2. n # 0 /\ n - 1 \in Nat
    BY <1>1
  <1>. QED BY <1>1, <1>2

-----------------------------------------------------------------------------
(* Lists.                                                                  *)

\* The i-th certificate of list q, and the pointer at its end.
Nth(q, i) == IF i \in 1..Len(q) THEN q[i] ELSE Null

\* From h on the pointers lead through the certificates of q, and end.
IsPath(ptr, h, q) ==
  /\ q \in Seq(Cert)
  /\ h = Nth(q, 1)
  /\ \A i \in 1..Len(q) : ptr[q[i]] = Nth(q, i + 1)

Distinct(q) == \A i, j \in 1..Len(q) : q[i] = q[j] => i = j

LEMMA WalkTurns ==
  ASSUME NEW ptr, NEW h, NEW n \in Nat
  PROVE  /\ Walk(ptr, h, n)[0] = h
         /\ \A i \in 1..n :
              Walk(ptr, h, n)[i] = IF Walk(ptr, h, n)[i - 1] = Null THEN Null
                                   ELSE ptr[Walk(ptr, h, n)[i - 1]]
  <1>. DEFINE After(c) == IF c = Null THEN Null ELSE ptr[c]
              IsLoop(f, m) ==
                f = [i \in 0..m |-> IF i = 0 THEN h ELSE After(f[i - 1])]
              S == {m \in Nat : \E f : IsLoop(f, m)}
  <1>1. 0 \in S
    <2>1. IsLoop([i \in 0..0 |-> h], 0)
      OBVIOUS
    <2>. QED BY <2>1
  <1>2. ASSUME NEW m \in Nat, m \in S PROVE m + 1 \in S
    <2>1. PICK f : IsLoop(f, m)
      BY <1>2
    <2>. DEFINE g == [i \in 0..(m + 1) |-> IF i <= m THEN f[i] ELSE After(f[m])]
    <2>. HIDE DEF IsLoop, After
    <2>2. \A i \in 0..(m + 1) : g[i] = IF i = 0 THEN h ELSE After(g[i - 1])
      <3>1. \A i \in 0..m : f[i] = IF i = 0 THEN h ELSE After(f[i - 1])
        BY <2>1 DEF IsLoop
      <3>. QED BY <3>1
    <2>3. IsLoop(g, m + 1)
      BY <2>2 DEF IsLoop
    <2>. QED BY <2>3
  <1>3. \E f : IsLoop(f, n)
    <2>. HIDE DEF S
    <2>1. n \in S
      BY <1>1, <1>2, SetInduction
    <2>. QED BY <2>1 DEF S
  <1>4. IsLoop(Walk(ptr, h, n), n)
    BY <1>3 DEF Walk
  <1>. QED BY <1>4

\* One turn of Kept: certificate c joins s unless it is gone.
Passed(s, c, gone) == IF c \in gone THEN s ELSE Append(s, c)

LEMMA KeptTurns ==
  ASSUME NEW list, NEW gone, NEW n \in Nat
  PROVE  /\ Kept(list, gone, n)[0] = <<>>
         /\ \A i \in 1..n :
              Kept(list, gone, n)[i] =
                Passed(Kept(list, gone, n)[i - 1], list[i], gone)
  <1>. DEFINE IsLoop(f, m) ==
                f = [i \in 0..m |-> IF i = 0 THEN <<>> ELSE Passed(f[i - 1], list[i], gone)]
              S == {m \in Nat : \E f : IsLoop(f, m)}
  <1>1. 0 \in S
    <2>1. IsLoop([i \in 0..0 |-> <<>>], 0)
      OBVIOUS
    <2>. QED BY <2>1
  <1>2. ASSUME NEW m \in Nat, m \in S PROVE m + 1 \in S
    <2>1. PICK f : IsLoop(f, m)
      BY <1>2
    <2>. DEFINE g == [i \in 0..(m + 1) |-> IF i <= m THEN f[i]
                                           ELSE Passed(f[m], list[m + 1], gone)]
    <2>. HIDE DEF IsLoop
    <2>2. \A i \in 0..(m + 1) : g[i] = IF i = 0 THEN <<>> ELSE Passed(g[i - 1], list[i], gone)
      <3>1. \A i \in 0..m : f[i] = IF i = 0 THEN <<>> ELSE Passed(f[i - 1], list[i], gone)
        BY <2>1 DEF IsLoop
      <3>. QED BY <3>1
    <2>3. IsLoop(g, m + 1)
      BY <2>2 DEF IsLoop
    <2>. QED BY <2>3
  <1>3. \E f : IsLoop(f, n)
    <2>. HIDE DEF S
    <2>1. n \in S
      BY <1>1, <1>2, SetInduction
    <2>. QED BY <2>1 DEF S
  <1>4. IsLoop(Kept(list, gone, n), n)
    BY <1>3, Zenon DEF Kept, Passed
  <1>. QED BY <1>4

LEMMA WalkPath ==
  ASSUME NEW ptr, NEW h, NEW q, IsPath(ptr, h, q), NEW n \in Nat
  PROVE  \A i \in 0..n : Walk(ptr, h, n)[i] = Nth(q, i + 1)
  <1>. DEFINE w == Walk(ptr, h, n)
              S == {i \in Nat : i <= n => w[i] = Nth(q, i + 1)}
  <1>1. /\ w[0] = h
        /\ \A i \in 1..n : w[i] = IF w[i - 1] = Null THEN Null ELSE ptr[w[i - 1]]
    BY WalkTurns
  <1>2. /\ \A i \in 1..Len(q) : q[i] # Null /\ ptr[q[i]] = Nth(q, i + 1)
        /\ h = Nth(q, 1) /\ Len(q) \in Nat
    BY CertAssumption DEF IsPath
  <1>. HIDE DEF w
  <1>3. 0 \in S
    BY <1>1, <1>2
  <1>4. ASSUME NEW i \in Nat, i \in S PROVE i + 1 \in S
    <2>. SUFFICES ASSUME i + 1 <= n PROVE w[i + 1] = Nth(q, i + 2)
      OBVIOUS
    <2>1. w[i] = Nth(q, i + 1)
      BY <1>4
    <2>2. w[i + 1] = IF w[i] = Null THEN Null ELSE ptr[w[i]]
      BY <1>1
    <2>. QED BY <2>1, <2>2, <1>2 DEF Nth
  <1>. HIDE DEF S
  <1>5. \A i \in Nat : i \in S
    BY <1>3, <1>4, SetInduction
  <1>. QED BY <1>5 DEF S, w

\* The model's bounded walk returns a list that is not too long for it.
LEMMA TracePath ==
  ASSUME NEW ptr, NEW h, NEW q, IsPath(ptr, h, q), NEW n \in Nat, Len(q) <= n
  PROVE  Trace(ptr, h, n) = q
  <1>. DEFINE w == Walk(ptr, h, n)
              Nodes == {i \in 0..n : w[i] # Null}
  <1>1. \A i \in 0..n : w[i] = Nth(q, i + 1)
    BY WalkPath
  <1>2. q \in Seq(Cert) /\ Len(q) \in Nat /\ \A i \in 1..Len(q) : q[i] # Null
    BY CertAssumption DEF IsPath
  <1>. HIDE DEF w
  <1>3. Nodes = 0..(Len(q) - 1)
    BY <1>1, <1>2 DEF Nth
  <1>4. Cardinality(Nodes) = Len(q)
    <2>1. CASE Len(q) = 0
      BY <2>1, <1>3, FS_EmptySet
    <2>2. CASE Len(q) # 0
      <3>1. 0 \in Int /\ Len(q) - 1 \in Int
        BY <1>2
      <3>. DEFINE top == Len(q) - 1
      <3>2. Cardinality(0..top) = IF 0 > top THEN 0 ELSE top - 0 + 1
        <4>. HIDE DEF top
        <4>1. 0 \in Int /\ top \in Int
          BY <3>1 DEF top
        <4>. QED BY <4>1, FS_Interval
      <3>3. ~(0 > top) /\ top - 0 + 1 = Len(q)
        BY <2>2, <1>2
      <3>. QED BY <3>2, <3>3, <1>3
    <2>. QED BY <2>1, <2>2
  <1>5. Trace(ptr, h, n) = [i \in 1..Cardinality(Nodes) |-> w[i - 1]]
    BY DEF Trace, w
  <1>6. q = [i \in 1..Len(q) |-> q[i]]
    BY <1>2
  <1>7. \A i \in 1..Len(q) : w[i - 1] = q[i]
    BY <1>1, <1>2 DEF Nth
  <1>8. [i \in 1..Len(q) |-> w[i - 1]] = [i \in 1..Len(q) |-> q[i]]
    BY <1>7
  <1>. QED BY <1>4, <1>5, <1>6, <1>8

LEMMA Short ==
  ASSUME NEW q \in Seq(Cert), Distinct(q), NEW G, IsFiniteSet(G), Items(q) \subseteq G
  PROVE  Len(q) <= Cardinality(G)
  <1>. DEFINE n == Len(q)
              f == [i \in 1..n |-> q[i]]
  <1>1. n \in Nat /\ DOMAIN q = 1..n
    OBVIOUS
  <1>2. \A i \in 1..n : q[i] \in G
    BY <1>1 DEF Items
  <1>3. f \in Injection(1..n, G)
    BY <1>2 DEF Distinct, Injection, IsInjective
  <1>4. Cardinality(1..n) <= Cardinality(G)
    <2>. HIDE DEF f, n
    <2>. QED BY <1>3, FS_Injection
  <1>5. Cardinality(1..n) = n
    <2>. HIDE DEF n
    <2>1. Cardinality(1..n) = IF 1 > n THEN 0 ELSE n - 1 + 1
      BY <1>1, FS_Interval
    <2>. QED BY <2>1, <1>1
  <1>. QED BY <1>4, <1>5

\* A path through different certificates of G is what the walk finds.
LEMMA Found ==
  ASSUME NEW ptr, NEW h, NEW q, IsPath(ptr, h, q), Distinct(q),
         NEW G, IsFiniteSet(G), Items(q) \subseteq G
  PROVE  Trace(ptr, h, Cardinality(G)) = q
  <1>1. q \in Seq(Cert)
    BY DEF IsPath
  <1>2. Len(q) <= Cardinality(G) /\ Cardinality(G) \in Nat
    BY <1>1, Short, FS_CardinalityType
  <1>. QED BY <1>2, TracePath

LEMMA ItemsAppend ==
  ASSUME NEW S, NEW s \in Seq(S), NEW c \in S
  PROVE  Append(s, c) \in Seq(S) /\ Items(Append(s, c)) = Items(s) \union {c}
  <1>. DEFINE n == Len(s)
              more == Append(s, c)
  <1>1. n \in Nat /\ DOMAIN s = 1..n /\ DOMAIN more = 1..(n + 1)
    OBVIOUS
  <1>2. more[n + 1] = c /\ \A i \in 1..n : more[i] = s[i]
    OBVIOUS
  <1>3. more \in Seq(S)
    OBVIOUS
  <1>. HIDE DEF more, n
  <1>4. Items(more) = Items(s) \union {c}
    <2>1. 1..(n + 1) = (1..n) \union {n + 1}
      BY <1>1
    <2>. QED BY <1>1, <1>2, <2>1 DEF Items
  <1>. QED BY <1>3, <1>4 DEF more

LEMMA ItemsEmpty ==
  ASSUME NEW S
  PROVE  <<>> \in Seq(S) /\ Items(<<>>) = {} /\ Len(<<>>) = 0
  <1>1. <<>> \in Seq(S) /\ Len(<<>>) = 0 /\ DOMAIN <<>> = {}
    OBVIOUS
  <1>. QED BY <1>1, Zenon DEF Items

\* The first i certificates of list without those gone are r.
IsKept(S, list, gone, i, r) ==
  r \in Seq(S) /\ Items(r) = {list[j] : j \in 1..i} \ gone

LEMMA KeptItems ==
  ASSUME NEW S, NEW list \in Seq(S), NEW gone
  PROVE  \A i \in 0..Len(list) :
           IsKept(S, list, gone, i, Kept(list, gone, Len(list))[i])
  <1>. DEFINE n == Len(list)
              k == Kept(list, gone, n)
              Right(i) == k[i] \in Seq(S) /\ Items(k[i]) = {list[j] : j \in 1..i} \ gone
              T == {i \in Nat : i <= n => Right(i)}
  <1>1. n \in Nat /\ \A i \in 1..n : list[i] \in S
    OBVIOUS
  <1>2. /\ k[0] = <<>>
        /\ \A i \in 1..n : k[i] = Passed(k[i - 1], list[i], gone)
    BY <1>1, KeptTurns
  <1>. HIDE DEF n, k
  <1>3. 0 \in T
    <2>1. {list[j] : j \in 1..0} = {}
      OBVIOUS
    <2>2. Right(0)
      BY <1>2, <2>1, ItemsEmpty, Zenon
    <2>. QED BY <2>2
  <1>4. ASSUME NEW i \in Nat, i \in T PROVE i + 1 \in T
    <2>. SUFFICES ASSUME i + 1 <= n PROVE Right(i + 1)
      OBVIOUS
    <2>. HIDE DEF Right
    <2>1. Right(i) /\ i + 1 \in 1..n
      BY <1>4, <1>1
    <2>2. {list[j] : j \in 1..(i + 1)} = {list[j] : j \in 1..i} \union {list[i + 1]}
      OBVIOUS
    <2>. DEFINE c == list[i + 1]
                more == Append(k[i], c)
    <2>3. k[i] \in Seq(S) /\ c \in S
      BY <2>1, <1>1 DEF Right
    <2>4. k[i + 1] = Passed(k[i], c, gone)
      BY <1>2, <2>1
    <2>5. more \in Seq(S) /\ Items(more) = Items(k[i]) \union {c}
      <3>. HIDE DEF c
      <3>. QED BY <2>3, ItemsAppend
    <2>6. k[i + 1] = IF c \in gone THEN k[i] ELSE more
      BY <2>4, Zenon DEF Passed
    <2>. HIDE DEF more, c
    <2>7. {list[j] : j \in 1..(i + 1)} = {list[j] : j \in 1..i} \union {c}
      BY <2>2 DEF c
    <2>. QED BY <2>1, <2>3, <2>5, <2>6, <2>7 DEF Right
  <1>. HIDE DEF T
  <1>5. \A i \in Nat : i \in T
    BY <1>3, <1>4, SetInduction
  <1>6. \A i \in 0..n : Right(i)
    BY <1>5, <1>1 DEF T
  <1>. QED BY <1>6, Zenon DEF n, k, IsKept

LEMMA WithoutItems ==
  ASSUME NEW S, NEW list \in Seq(S), NEW gone
  PROVE  /\ Without(list, gone) \in Seq(S)
         /\ Items(Without(list, gone)) = Items(list) \ gone
  <1>. DEFINE n == Len(list)
              w == Kept(list, gone, n)[n]
  <1>1. n \in 0..n /\ DOMAIN list = 1..n
    OBVIOUS
  <1>2. w \in Seq(S) /\ Items(w) = {list[j] : j \in 1..n} \ gone
    <2>1. \A i \in 0..n : IsKept(S, list, gone, i, Kept(list, gone, n)[i])
      BY KeptItems
    <2>2. IsKept(S, list, gone, n, w)
      BY <1>1, <2>1
    <2>. QED BY <2>2, Zenon DEF IsKept
  <1>. QED BY <1>1, <1>2, Zenon DEF Without, Items

LEMMA KeptPrefix ==
  ASSUME NEW list1, NEW list2, NEW gone, NEW m \in Nat, NEW n \in Nat, m <= n,
         \A i \in 1..m : list1[i] = list2[i]
  PROVE  Kept(list1, gone, m)[m] = Kept(list2, gone, n)[m]
  <1>. DEFINE a == Kept(list1, gone, m)
              b == Kept(list2, gone, n)
              T == {i \in Nat : i <= m => a[i] = b[i]}
  <1>1. a[0] = <<>> /\ \A i \in 1..m : a[i] = Passed(a[i - 1], list1[i], gone)
    BY KeptTurns
  <1>2. b[0] = <<>> /\ \A i \in 1..n : b[i] = Passed(b[i - 1], list2[i], gone)
    BY KeptTurns
  <1>. HIDE DEF a, b
  <1>3. 0 \in T
    BY <1>1, <1>2
  <1>4. ASSUME NEW i \in Nat, i \in T PROVE i + 1 \in T
    <2>. SUFFICES ASSUME i + 1 <= m PROVE a[i + 1] = b[i + 1]
      OBVIOUS
    <2>1. a[i] = b[i] /\ list1[i + 1] = list2[i + 1]
      BY <1>4
    <2>2. a[i + 1] = Passed(a[i], list1[i + 1], gone)
      BY <1>1
    <2>3. b[i + 1] = Passed(b[i], list2[i + 1], gone)
      BY <1>2
    <2>. QED BY <2>1, <2>2, <2>3
  <1>. HIDE DEF T
  <1>5. \A i \in Nat : i \in T
    BY <1>3, <1>4, SetInduction
  <1>. QED BY <1>5 DEF T, a, b

LEMMA WithoutAppend ==
  ASSUME NEW S, NEW list \in Seq(S), NEW c \in S, NEW gone, c \notin gone
  PROVE  Without(Append(list, c), gone) = Append(Without(list, gone), c)
  <1>. DEFINE n == Len(list)
              more == Append(list, c)
              k == Kept(more, gone, n + 1)
  <1>1. n \in Nat /\ Len(more) = n + 1 /\ more[n + 1] = c
    OBVIOUS
  <1>2. \A i \in 1..n : list[i] = more[i]
    OBVIOUS
  <1>. HIDE DEF more, n
  <1>3. k[n] = Kept(list, gone, n)[n]
    BY <1>1, <1>2, KeptPrefix
  <1>4. k[n + 1] = Passed(k[n], more[n + 1], gone)
    <2>1. \A i \in 1..(n + 1) : k[i] = Passed(k[i - 1], more[i], gone)
      <3>1. n + 1 \in Nat
        BY <1>1
      <3>. QED BY <3>1, KeptTurns
    <2>. HIDE DEF k
    <2>. QED BY <2>1, <1>1
  <1>5. Without(more, gone) = k[n + 1]
    BY <1>1, Zenon DEF Without
  <1>6. k[n + 1] = Append(k[n], c)
    BY <1>1, <1>4, Zenon DEF Passed
  <1>7. Without(list, gone) = Kept(list, gone, n)[n]
    BY DEF Without, n
  <1>8. Without(more, gone) = Append(Without(list, gone), c)
    BY <1>3, <1>5, <1>6, <1>7, Zenon
  <1>. QED BY <1>8 DEF more

\* A list is empty when all of it is gone.
LEMMA WithoutAll ==
  ASSUME NEW S, NEW list \in Seq(S), NEW gone, Items(list) \subseteq gone
  PROVE  Without(list, gone) = <<>>
  <1>. DEFINE w == Without(list, gone)
  <1>1. w \in Seq(S) /\ Items(w) = {}
    BY WithoutItems
  <1>. HIDE DEF w
  <1>2. Len(w) = 0
    <2>1. Len(w) \in Nat /\ DOMAIN w = 1..Len(w)
      BY <1>1
    <2>2. \A i \in 1..Len(w) : w[i] \in Items(w)
      BY <2>1, Zenon DEF Items
    <2>. QED BY <1>1, <2>1, <2>2
  <1>. QED BY <1>1, <1>2 DEF w

-----------------------------------------------------------------------------
(* Certificates.                                                           *)

LEMMA FindIn ==
  ASSUME NEW list \in Seq(Cert), NEW a, NEW b
  PROVE  Find(list, a, b) \in Items(list) \union {Null}
  <1>. DEFINE hits == {i \in DOMAIN list : Wanted(list[i], a, b)}
              first == CHOOSE i \in hits : \A j \in hits : i <= j
  <1>1. CASE hits = {}
    BY <1>1, Zenon DEF Find
  <1>2. CASE hits # {}
    <2>1. hits \in SUBSET Nat /\ hits \subseteq DOMAIN list
      OBVIOUS
    <2>. HIDE DEF hits
    <2>2. \E i \in hits : \A j \in hits : i <= j
      BY <1>2, <2>1, Least
    <2>3. first \in hits
      BY <2>2, Zenon
    <2>4. Find(list, a, b) = list[first]
      BY <1>2, Zenon DEF Find, hits
    <2>. QED BY <2>1, <2>3, <2>4, Zenon DEF Items
  <1>. QED BY <1>1, <1>2

LEMMA VerifiedCodes ==
  ASSUME NEW k, NEW c
  PROVE  /\ Verified(k, c) \in Codes /\ Verified(k, c) # "climb"
         /\ Verified(k, c) = "ok" => SignedBy[c] = KeyOf[k]
  BY DEF Verified, Codes

\* Only the key of a certificate of the store makes the store's answer "ok".
LEMMA AnchoredCodes ==
  ASSUME NEW anchors \in Seq(Cert), NEW c, NEW a, NEW b, NEW e \in Codes, e # "ok"
  PROVE  /\ Anchored(anchors, c, a, b, e) \in Codes
         /\ Anchored(anchors, c, a, b, e) = "ok" =>
              \E k \in Items(anchors) : SignedBy[c] = KeyOf[k]
  <1>. DEFINE k == Find(anchors, a, b)
              r == Anchored(anchors, c, a, b, e)
  <1>1. k \in Items(anchors) \union {Null}
    BY FindIn
  <1>2. /\ k = Null => r = e
        /\ k # Null /\ Mismatch(k, a, b) => r = "EKEYREJECTED"
        /\ k # Null /\ ~Mismatch(k, a, b) => r = Verified(k, c)
    BY Zenon DEF Anchored
  <1>. HIDE DEF k, r
  <1>3. "EKEYREJECTED" \in Codes /\ "EKEYREJECTED" # "ok"
    BY DEF Codes
  <1>4. r \in Codes
    BY <1>2, <1>3, VerifiedCodes
  <1>5. ASSUME r = "ok" PROVE \E a1 \in Items(anchors) : SignedBy[c] = KeyOf[a1]
    <2>1. k # Null /\ r = Verified(k, c)
      BY <1>2, <1>3, <1>5
    <2>2. k \in Items(anchors) /\ SignedBy[c] = KeyOf[k]
      BY <1>1, <1>5, <2>1, VerifiedCodes
    <2>. QED BY <2>2
  <1>. QED BY <1>4, <1>5 DEF r

\* The verdict of a turn that finds the issuer p.
LEMMA TurnIs ==
  ASSUME NEW list, NEW anchors, NEW c, NEW marked, NEW anchored, NEW p,
         p = Find(list, Auth0[c], Auth1[c])
  PROVE  LET r == Turn(list, anchors, c, marked, anchored) IN
         /\ p = Null =>
              r = IF anchored THEN Anchored(anchors, c, Auth0[c], Auth1[c], "EKEYREJECTED")
                              ELSE "EKEYREJECTED"
         /\ p # Null /\ Unfit(p, c, marked) => r = "EKEYREJECTED"
         /\ p # Null /\ ~Unfit(p, c, marked) /\ Root(p) =>
              r = IF anchored THEN Anchored(anchors, c, Id[p], Skid[p], "ENOKEY")
                              ELSE Verified(p, c)
         /\ p # Null /\ ~Unfit(p, c, marked) /\ ~Root(p) =>
              r = IF Verified(p, c) = "ok" THEN "climb" ELSE Verified(p, c)
  BY Zenon DEF Turn

LEMMA TurnCodes ==
  ASSUME NEW anchors \in Seq(Cert), NEW list, NEW c, NEW marked, NEW anchored \in BOOLEAN
  PROVE  Turn(list, anchors, c, marked, anchored) \in Codes \union {"climb"}
  <1>. DEFINE p == Find(list, Auth0[c], Auth1[c])
              r == Turn(list, anchors, c, marked, anchored)
              a1 == Anchored(anchors, c, Auth0[c], Auth1[c], "EKEYREJECTED")
              a2 == Anchored(anchors, c, Id[p], Skid[p], "ENOKEY")
  <1>1. {"EKEYREJECTED", "ENOKEY"} \subseteq Codes \ {"ok"}
    BY DEF Codes
  <1>2. a1 \in Codes /\ a2 \in Codes
    BY <1>1, AnchoredCodes
  <1>3. Verified(p, c) \in Codes
    BY VerifiedCodes
  <1>4. r \in {a1, a2, "EKEYREJECTED", Verified(p, c), "climb"}
    BY TurnIs
  <1>. QED BY <1>1, <1>2, <1>3, <1>4

\* A climb goes on with a CA whose key verifies the certificate.
LEMMA TurnClimbs ==
  ASSUME NEW anchors \in Seq(Cert), NEW list \in Seq(Cert), NEW c, NEW marked,
         NEW anchored \in BOOLEAN, Turn(list, anchors, c, marked, anchored) = "climb"
  PROVE  LET p == Find(list, Auth0[c], Auth1[c])
         IN  p \in Items(list) /\ p \in CertSign /\ SignedBy[c] = KeyOf[p]
  <1>. DEFINE p == Find(list, Auth0[c], Auth1[c])
              r == Turn(list, anchors, c, marked, anchored)
              a1 == Anchored(anchors, c, Auth0[c], Auth1[c], "EKEYREJECTED")
              a2 == Anchored(anchors, c, Id[p], Skid[p], "ENOKEY")
  <1>1. {"EKEYREJECTED", "ENOKEY"} \subseteq Codes \ {"ok"} /\ "climb" \notin Codes
    BY DEF Codes
  <1>2. a1 \in Codes /\ a2 \in Codes
    BY <1>1, AnchoredCodes
  <1>3. Verified(p, c) \in Codes
    BY VerifiedCodes
  <1>4. p # Null /\ ~Unfit(p, c, marked) /\ Verified(p, c) = "ok"
    BY <1>1, <1>2, <1>3, TurnIs
  <1>5. p \in Items(list)
    BY <1>4, FindIn
  <1>6. p \in CertSign
    BY <1>4, Zenon DEF Unfit
  <1>. QED BY <1>4, <1>5, <1>6, VerifiedCodes

EndsWell(list, anchors, c, marked) == Turn(list, anchors, c, marked, FALSE) = "ok"
EndsWellIn(anchors, list, c, marked) == Turn(list, anchors, c, marked, TRUE) = "ok"

\* The key of a certificate in S verifies c.
Signs(S, c) == \E k \in S : SignedBy[c] = KeyOf[k]
Roots(S) == {p \in S : Root(p) /\ p \in CertSign}

\* Without a trust store a climb ends well at a root CA of the list.
LEMMA TurnEndsAtRoot ==
  ASSUME NEW list \in Seq(Cert), NEW anchors, NEW c, NEW marked,
         EndsWell(list, anchors, c, marked)
  PROVE  Signs(Roots(Items(list)), c)
  <1>. DEFINE p == Find(list, Auth0[c], Auth1[c])
  <1>1. LET r == Turn(list, anchors, c, marked, FALSE) IN
        /\ p = Null => r = "EKEYREJECTED"
        /\ p # Null /\ Unfit(p, c, marked) => r = "EKEYREJECTED"
        /\ p # Null /\ ~Unfit(p, c, marked) /\ Root(p) => r = Verified(p, c)
        /\ p # Null /\ ~Unfit(p, c, marked) /\ ~Root(p) =>
             r = IF Verified(p, c) = "ok" THEN "climb" ELSE Verified(p, c)
    BY Zenon DEF Turn
  <1>2. p # Null /\ ~Unfit(p, c, marked) /\ Root(p) /\ Verified(p, c) = "ok"
    <2>. HIDE DEF p
    <2>. QED BY <1>1 DEF EndsWell
  <1>3. p \in Items(list)
    BY <1>2, FindIn
  <1>4. p \in CertSign
    BY <1>2, Zenon DEF Unfit
  <1>. QED BY <1>2, <1>3, <1>4, VerifiedCodes DEF Signs, Roots

\* With one it ends well at a certificate of the store.
LEMMA TurnEndsInStore ==
  ASSUME NEW anchors \in Seq(Cert), NEW list, NEW c, NEW marked,
         EndsWellIn(anchors, list, c, marked)
  PROVE  Signs(Items(anchors), c)
  <1>. DEFINE p == Find(list, Auth0[c], Auth1[c])
              a1 == Anchored(anchors, c, Auth0[c], Auth1[c], "EKEYREJECTED")
              a2 == Anchored(anchors, c, Id[p], Skid[p], "ENOKEY")
  <1>1. {"EKEYREJECTED", "ENOKEY"} \subseteq Codes \ {"ok"}
    BY DEF Codes
  <1>2. LET r == Turn(list, anchors, c, marked, TRUE) IN
        /\ p = Null => r = a1
        /\ p # Null /\ Unfit(p, c, marked) => r = "EKEYREJECTED"
        /\ p # Null /\ ~Unfit(p, c, marked) /\ Root(p) => r = a2
        /\ p # Null /\ ~Unfit(p, c, marked) /\ ~Root(p) =>
             r = IF Verified(p, c) = "ok" THEN "climb" ELSE Verified(p, c)
    BY Zenon DEF Turn
  <1>3. a1 = "ok" \/ a2 = "ok"
    <2>. HIDE DEF a1, a2, p
    <2>. QED BY <1>2 DEF EndsWellIn
  <1>. QED BY <1>1, <1>3, AnchoredCodes DEF Signs

\* Derived, said of sets of keys that need not be of the message.
LEMMA DerivedIs ==
  ASSUME NEW m, NEW K, NEW k
  PROVE  k \in Derived(m, K) <=> \A S : Closed(m, S) /\ K \subseteq S => k \in S
  <1>. DEFINE keys == {KeyOf[c] : c \in Bundled(m)}
  <1>1. \A c \in Bundled(m) : KeyOf[c] \in keys
    OBVIOUS
  <1>2. Derived(m, K) = {j \in K \union keys :
          \A T \in SUBSET keys : Closed(m, K \union T) => j \in K \union T}
    BY DEF Derived
  <1>. HIDE DEF keys
  <1>3. ASSUME k \in Derived(m, K), NEW S, Closed(m, S), K \subseteq S PROVE k \in S
    <2>. DEFINE T == S \intersect keys
    <2>1. Closed(m, K \union T)
      BY <1>1, <1>3 DEF Closed
    <2>2. k \in K \union T
      <3>1. T \in SUBSET keys
        OBVIOUS
      <3>. HIDE DEF T
      <3>. QED BY <1>2, <1>3, <2>1, <3>1
    <2>. QED BY <1>3, <2>2
  <1>4. ASSUME \A S : Closed(m, S) /\ K \subseteq S => k \in S
        PROVE  k \in Derived(m, K)
    <2>1. Closed(m, K \union keys)
      BY <1>1 DEF Closed
    <2>2. k \in K \union keys
      BY <1>4, <2>1
    <2>. QED BY <1>2, <1>4, <2>2
  <1>. QED BY <1>3, <1>4

-----------------------------------------------------------------------------
(* What happens to a list.                                                 *)

Pointers == [Cert \union {Anchor} -> Cert \union {Null}]

LEMMA PathKept ==
  ASSUME NEW ptr, NEW ptr2, NEW h, NEW q, IsPath(ptr, h, q),
         \A c \in Items(q) : ptr2[c] = ptr[c]
  PROVE  IsPath(ptr2, h, q)
  <1>1. q \in Seq(Cert) /\ DOMAIN q = 1..Len(q)
    BY DEF IsPath
  <1>2. \A i \in 1..Len(q) : q[i] \in Items(q)
    BY <1>1, Zenon DEF Items
  <1>. QED BY <1>2 DEF IsPath

\* The compare-and-swap of the pointer that ends the list.
LEMMA PathAppend ==
  ASSUME NEW ptr \in Pointers, NEW q, IsPath(ptr, ptr[Anchor], q), Distinct(q),
         NEW p \in Items(q) \union {Anchor}, ptr[p] = Null,
         NEW c \in Cert \ Items(q), ptr[c] = Null
  PROVE  LET ptr2 == [ptr EXCEPT ![p] = c]
         IN  /\ IsPath(ptr2, ptr2[Anchor], Append(q, c))
             /\ Distinct(Append(q, c))
  <1>. DEFINE n == Len(q)
              more == Append(q, c)
              ptr2 == [ptr EXCEPT ![p] = c]
  <1>1. /\ q \in Seq(Cert) /\ n \in Nat /\ DOMAIN q = 1..n
        /\ ptr[Anchor] = Nth(q, 1)
        /\ \A i \in 1..n : ptr[q[i]] = Nth(q, i + 1)
    BY DEF IsPath
  <1>2. \A i \in 1..n : q[i] \in Cert /\ q[i] \in Items(q) /\ q[i] # c
    <2>1. \A i \in 1..n : q[i] \in Items(q)
      BY <1>1, Zenon DEF Items
    <2>. QED BY <1>1, <2>1
  <1>3. /\ more \in Seq(Cert) /\ Len(more) = n + 1
        /\ more[n + 1] = c /\ \A i \in 1..n : more[i] = q[i]
    BY <1>1
  <1>. HIDE DEF more, n
  <1>4. Anchor \notin Cert /\ Null \notin Cert
    BY CertAssumption
  <1>5. p = IF n = 0 THEN Anchor ELSE q[n]
    <2>1. CASE p = Anchor
      BY <1>1, <1>2, <1>4, <2>1 DEF Nth
    <2>2. CASE p \in Items(q)
      <3>1. PICK i \in 1..n : p = q[i]
        BY <1>1, <2>2, Zenon DEF Items
      <3>2. i = n
        BY <1>1, <1>2, <1>4, <3>1 DEF Nth
      <3>. QED BY <1>1, <3>1, <3>2
    <2>. QED BY <2>1, <2>2
  <1>6. \A i, j \in 1..n : q[i] = q[j] => i = j
    BY DEF Distinct, n
  <1>7. Distinct(more)
    BY <1>1, <1>2, <1>3, <1>6 DEF Distinct
  <1>8. ptr2[p] = c /\ \A d \in (Cert \union {Anchor}) \ {p} : ptr2[d] = ptr[d]
    <2>1. p \in Cert \union {Anchor}
      BY <1>1, <1>2, <1>5
    <2>. QED BY <2>1 DEF Pointers
  <1>. HIDE DEF ptr2
  <1>9. \A i \in 1..(n + 1) : Nth(more, i) = more[i]
    BY <1>1, <1>3 DEF Nth
  <1>10. ptr2[Anchor] = Nth(more, 1)
    <2>1. CASE n = 0
      BY <1>3, <1>5, <1>8, <1>9, <2>1
    <2>2. CASE n # 0
      <3>1. 1 \in 1..n
        BY <1>1, <2>2
      <3>2. ptr[Anchor] = q[1]
        BY <1>1, <3>1 DEF Nth, n
      <3>3. p # Anchor
        BY <1>1, <1>2, <1>4, <1>5, <2>2
      <3>4. ptr2[Anchor] = ptr[Anchor]
        BY <1>8, <3>3
      <3>5. 1 \in 1..(n + 1)
        BY <1>1
      <3>6. Nth(more, 1) = more[1] /\ more[1] = q[1]
        BY <1>3, <1>9, <3>1, <3>5
      <3>. QED BY <3>2, <3>4, <3>6
    <2>. QED BY <2>1, <2>2
  <1>11. ASSUME NEW i \in 1..(n + 1) PROVE ptr2[more[i]] = Nth(more, i + 1)
    <2>1. CASE i = n + 1
      <3>1. p # c
        BY <1>1, <1>2, <1>4, <1>5
      <3>2. Nth(more, n + 2) = Null
        BY <1>1, <1>3 DEF Nth
      <3>. QED BY <1>1, <1>3, <1>8, <2>1, <3>1, <3>2
    <2>2. CASE i = n
      <3>1. i \in 1..n /\ p = q[n] /\ i + 1 = n + 1
        BY <1>1, <1>5, <2>2
      <3>. QED BY <1>1, <1>3, <1>8, <1>9, <2>2, <3>1
    <2>3. CASE i # n /\ i # n + 1
      <3>1. i \in 1..n /\ i + 1 \in 1..n /\ i # n /\ n \in 1..n
        BY <1>1, <2>3
      <3>2. q[i] # p
        BY <1>5, <1>6, <3>1, <1>1
      <3>3. ptr2[q[i]] = ptr[q[i]]
        BY <1>2, <1>8, <3>1, <3>2
      <3>4. ptr[q[i]] = q[i + 1]
        BY <1>1, <3>1 DEF Nth, n
      <3>. QED BY <1>1, <1>3, <1>9, <3>1, <3>3, <3>4
    <2>. QED BY <2>1, <2>2, <2>3
  <1>12. IsPath(ptr2, ptr2[Anchor], more)
    BY <1>3, <1>10, <1>11 DEF IsPath
  <1>. QED BY <1>7, <1>12 DEF more, ptr2

\* After lc_pkcs7_trust_store_clear the head pointer still leads to the first
\* certificate of a list that was not empty.
LEMMA PathCleared ==
  ASSUME NEW ptr \in Pointers, NEW q, IsPath(ptr, ptr[Anchor], q), q # <<>>,
         NEW ptr2, ptr2 = [c \in DOMAIN ptr |-> IF c \in Items(q) THEN Null ELSE ptr[c]]
  PROVE  /\ IsPath(ptr2, ptr2[Anchor], <<q[1]>>)
         /\ Distinct(<<q[1]>>)
         /\ q[1] \in Items(q) /\ Items(<<q[1]>>) = {q[1]}
         /\ ptr2[Anchor] = ptr[Anchor]
  <1>. DEFINE one == <<q[1]>>
  <1>1. /\ q \in Seq(Cert) /\ Len(q) \in Nat /\ DOMAIN q = 1..Len(q)
        /\ ptr[Anchor] = Nth(q, 1)
    BY DEF IsPath
  <1>2. 1 \in 1..Len(q)
    BY <1>1
  <1>3. q[1] \in Items(q) /\ q[1] \in Cert
    <2>1. q[1] \in Items(q)
      BY <1>1, <1>2, Zenon DEF Items
    <2>. QED BY <1>1, <1>2, <2>1
  <1>4. Anchor \notin Items(q)
    <2>1. \A c \in Items(q) : c \in Cert
      BY <1>1 DEF Items
    <2>. QED BY <2>1, CertAssumption
  <1>5. one \in Seq(Cert) /\ Len(one) = 1 /\ one[1] = q[1] /\ DOMAIN one = {1}
    BY <1>3
  <1>. HIDE DEF one
  <1>6. ptr2[Anchor] = ptr[Anchor] /\ ptr2[q[1]] = Null
    BY <1>3, <1>4 DEF Pointers
  <1>7. Nth(one, 1) = q[1] /\ Nth(one, 2) = Null /\ Nth(q, 1) = q[1]
    BY <1>2, <1>5 DEF Nth
  <1>8. IsPath(ptr2, ptr2[Anchor], one)
    BY <1>1, <1>5, <1>6, <1>7 DEF IsPath
  <1>9. Distinct(one)
    BY <1>5 DEF Distinct
  <1>10. Items(one) = {q[1]}
    BY <1>5 DEF Items
  <1>. QED BY <1>3, <1>6, <1>8, <1>9, <1>10 DEF one

-----------------------------------------------------------------------------
(* The inductive invariant.                                                *)

Entries == ListFrom(next[Anchor])

Adding(t) == op[t] = "add" /\ pc[t] # "idle"

\* A certificate of the store has verified c.
Certified(c) ==
  \E a \in Members \ wiped : a \in CertSign /\ SignedBy[c] = KeyOf[a]

\* The pointers lead from the head through different certificates to an end.
Linked ==
  /\ IsFiniteSet(given)
  /\ IsPath(next, next[Anchor], Entries)
  /\ Distinct(Entries)
  /\ Members \subseteq given

\* What is given is in the store, was there, or is being added by one call.
Enrolled ==
  /\ \A t \in Thread : Adding(t) => subject[t] \in given \ (Members \union wiped)
  /\ \A t, u \in Thread : Adding(t) /\ Adding(u) /\ subject[t] = subject[u] => t = u
  /\ \A c \in given : \/ c \in Members \union wiped
                       \/ \E t \in Thread : Adding(t) /\ subject[t] = c

\* A loop over the store stands at a certificate of the store; what is to be
\* appended ends the list.
Appending ==
  \A t \in Thread :
    /\ pc[t] \in {"reset", "detach", "swap"} => op[t] = "add"
    /\ pc[t] = "reset" => at[t] \in Members \union {Null}
    /\ pc[t] = "swap" => /\ next[subject[t]] = Null
                         /\ at[t] \in Members \union {Anchor}

\* What is appended is a root CA, or a certificate of the store verified it
\* in the first turn of the climb.
Vouched ==
  \A t \in Thread : Adding(t) =>
    /\ pc[t] \in {"reset", "mark", "climb"} =>
         /\ chain[t] \in {Null, next[Anchor]} /\ x[t] \in Cert
         /\ x[t] = subject[t] \/ Certified(subject[t])
    /\ pc[t] \in {"detach", "swap"} =>
         Root(subject[t]) \/ Certified(subject[t])

\* A climb in a message has verified each certificate it has passed.
Climbing ==
  \A t \in Thread : op[t] # "add" =>
    /\ pc[t] # "idle" =>
         /\ msg[t] \in Message /\ x[t] \in Bundled(msg[t])
         /\ SignedBy[Signer[msg[t]]] \in Derived(msg[t], {SignedBy[x[t]]})
    /\ rc[t] = "ok" /\ pc[t] = "idle" => msg[t] \in Message

StoreInv ==
  TypeOK /\ Linked /\ Enrolled /\ Appending /\ Vouched /\ Climbing /\ ChainIsSound

LEMMA AnchorsAre ==
  ASSUME Linked
  PROVE  /\ Anchors = Without(Entries, wiped)
         /\ Anchors \in Seq(Cert) /\ Items(Anchors) = Members \ wiped
         /\ Entries \in Seq(Cert)
  <1>1. Entries \in Seq(Cert)
    BY Zenon DEF Linked, IsPath
  <1>2. Anchors = Without(Entries, wiped) /\ Members = Items(Entries)
    BY Zenon DEF Anchors, Live, Entries, Members
  <1>. QED BY <1>1, <1>2, WithoutItems

LEMMA MembersAreCerts ==
  ASSUME Linked
  PROVE  Members \subseteq Cert
  <1>1. Entries \in Seq(Cert) /\ Members = Items(Entries)
    BY Zenon DEF Linked, IsPath, Entries, Members
  <1>. QED BY <1>1 DEF Items

\* Behind a certificate of the store comes another or the end.
LEMMA AfterMember ==
  ASSUME Linked, NEW p \in Members
  PROVE  next[p] \in Members \union {Null}
  <1>. DEFINE q == Entries
              n == Len(q)
  <1>1. /\ q \in Seq(Cert) /\ n \in Nat /\ DOMAIN q = 1..n /\ Items(q) = Members
        /\ \A i \in 1..n : next[q[i]] = Nth(q, i + 1)
    BY DEF Linked, IsPath, Entries, Members
  <1>2. PICK i \in 1..n : p = q[i]
    BY <1>1, Zenon DEF Items
  <1>3. next[p] = IF i = n THEN Null ELSE q[i + 1]
    <2>1. next[p] = Nth(q, i + 1)
      BY <1>1, <1>2
    <2>2. i + 1 \in 1..n <=> i # n
      <3>. HIDE DEF n
      <3>. QED BY <1>1
    <2>. QED BY <2>1, <2>2, Zenon DEF Nth
  <1>4. i # n => q[i + 1] \in Members
    <2>. HIDE DEF q, n
    <2>1. i # n => i + 1 \in DOMAIN q
      BY <1>1
    <2>. QED BY <1>1, <2>1, Zenon DEF Items
  <1>. QED BY <1>3, <1>4

LEMMA AtHead ==
  ASSUME Linked
  PROVE  next[Anchor] \in Members \union {Null}
  <1>. DEFINE q == Entries
  <1>1. /\ q \in Seq(Cert) /\ DOMAIN q = 1..Len(q) /\ Items(q) = Members
        /\ next[Anchor] = Nth(q, 1)
    BY DEF Linked, IsPath, Entries, Members
  <1>. HIDE DEF q
  <1>. QED BY <1>1, Zenon DEF Items, Nth

\* A step that leaves the pointers of the list alone leaves the list alone.
LEMMA Rests ==
  ASSUME Linked, IsFiniteSet(given'), Members \subseteq given',
         next'[Anchor] = next[Anchor], \A c \in Members : next'[c] = next[c]
  PROVE  Entries' = Entries /\ Members' = Members /\ Linked'
  <1>. DEFINE q == Entries
  <1>1. IsPath(next, next[Anchor], q) /\ Distinct(q) /\ Items(q) = Members
    BY Zenon DEF Linked, Entries, Members
  <1>. HIDE DEF q
  <1>2. IsPath(next', next'[Anchor], q)
    BY <1>1, PathKept
  <1>3. Trace(next', next'[Anchor], Cardinality(given')) = q
    BY <1>1, <1>2, Found
  <1>4. Entries' = q
    BY <1>3, Zenon DEF Entries, ListFrom
  <1>5. Members' = Items(q)
    BY <1>4, Zenon DEF Entries, Members
  <1>. QED BY <1>1, <1>2, <1>4, <1>5, Zenon DEF q, Linked

LEMMA AnchorsRest ==
  ASSUME Linked, IsFiniteSet(given'), Members \subseteq given', wiped' = wiped,
         next'[Anchor] = next[Anchor], \A c \in Members : next'[c] = next[c]
  PROVE  Anchors' = Anchors
  <1>1. Entries' = Entries
    BY Rests
  <1>. QED BY <1>1, Zenon DEF Anchors, Live, Entries

LEMMA Joins ==
  ASSUME TypeOK, Linked, given' = given,
         NEW p \in Members \union {Anchor}, next[p] = Null,
         NEW c \in given \ Members, next[c] = Null,
         next' = [next EXCEPT ![p] = c]
  PROVE  /\ Entries' = Append(Entries, c) /\ Members' = Members \union {c}
         /\ Linked'
  <1>. DEFINE q == Entries
              more == Append(q, c)
  <1>1. IsPath(next, next[Anchor], q) /\ Distinct(q) /\ Items(q) = Members
    BY Zenon DEF Linked, Entries, Members
  <1>2. next \in Pointers /\ c \in Cert /\ q \in Seq(Cert)
    BY <1>1 DEF TypeOK, Pointers, IsPath
  <1>. HIDE DEF q
  <1>3. IsPath(next', next'[Anchor], more) /\ Distinct(more)
    BY <1>1, <1>2, PathAppend, Zenon
  <1>4. Items(more) = Members \union {c}
    <2>1. Items(more) = Items(q) \union {c}
      BY <1>2, ItemsAppend
    <2>. QED BY <1>1, <2>1
  <1>. HIDE DEF more
  <1>5. IsFiniteSet(given') /\ Items(more) \subseteq given'
    BY <1>4 DEF Linked
  <1>6. Trace(next', next'[Anchor], Cardinality(given')) = more
    BY <1>3, <1>5, Found
  <1>7. Entries' = more
    BY <1>6, Zenon DEF Entries, ListFrom
  <1>8. Members' = Items(more)
    BY <1>7, Zenon DEF Entries, Members
  <1>9. Linked'
    BY <1>3, <1>5, <1>7, <1>8, Zenon DEF Linked
  <1>. QED BY <1>4, <1>7, <1>8, <1>9, Zenon DEF q, more

LEMMA Empties ==
  ASSUME TypeOK, Linked, Clear
  PROVE  /\ Members' \subseteq Members /\ wiped' = wiped \union Members
         /\ Linked' /\ Anchors' = <<>> /\ next'[Anchor] = next[Anchor]
  <1>. DEFINE q == Entries
              one == <<q[1]>>
  <1>1. IsPath(next, next[Anchor], q) /\ Distinct(q) /\ Items(q) = Members
    BY Zenon DEF Linked, Entries, Members
  <1>2. next \in Pointers /\ q \in Seq(Cert)
    BY <1>1 DEF TypeOK, Pointers, IsPath
  <1>3. q # <<>>
    <2>. SUFFICES ASSUME q = <<>> PROVE FALSE
      OBVIOUS
    <2>1. Items(q) = {}
      BY ItemsEmpty
    <2>2. Without(q, wiped) = <<>>
      <3>. HIDE DEF q
      <3>. QED BY <2>1, <1>2, WithoutAll
    <2>3. Anchors # <<>>
      BY Zenon DEF Clear
    <2>. QED BY <2>2, <2>3, AnchorsAre
  <1>4. next' = [c \in DOMAIN next |-> IF c \in Items(q) THEN Null ELSE next[c]]
    BY <1>1, Zenon DEF Clear
  <1>. HIDE DEF q
  <1>5. /\ IsPath(next', next'[Anchor], one) /\ Distinct(one)
        /\ q[1] \in Members /\ Items(one) = {q[1]}
        /\ next'[Anchor] = next[Anchor]
    BY <1>1, <1>2, <1>3, <1>4, PathCleared
  <1>. HIDE DEF one
  <1>6. IsFiniteSet(given') /\ Items(one) \subseteq given'
    BY <1>5 DEF Linked, Clear
  <1>7. Trace(next', next'[Anchor], Cardinality(given')) = one
    BY <1>5, <1>6, Found
  <1>8. Entries' = one
    BY <1>7, Zenon DEF Entries, ListFrom
  <1>9. Members' = Items(one)
    BY <1>8, Zenon DEF Entries, Members
  <1>10. Linked'
    BY <1>5, <1>6, <1>8, <1>9, Zenon DEF Linked
  <1>11. wiped' = wiped \union Members
    BY Zenon DEF Clear
  <1>12. Anchors' = Without(one, wiped')
    BY <1>8, Zenon DEF Anchors, Live, Entries
  <1>13. one \in Seq(Cert) /\ Items(one) \subseteq wiped'
    BY <1>5, <1>11 DEF IsPath
  <1>14. Anchors' = <<>>
    BY <1>12, <1>13, WithoutAll
  <1>. QED BY <1>5, <1>9, <1>10, <1>11, <1>14

\* The certificates a climb looks through.
LEMMA ListToClimb ==
  ASSUME StoreInv, NEW t \in Thread, pc[t] = "climb"
  PROVE  /\ List(t) \in Seq(Cert)
         /\ op[t] = "add" => Items(List(t)) \subseteq Members \ wiped
         /\ op[t] # "add" => Items(List(t)) = Bundled(msg[t])
  <1>. USE DEF StoreInv
  <1>1. CASE op[t] = "add"
    <2>1. chain[t] = Null \/ chain[t] = next[Anchor]
      BY <1>1 DEF Vouched, Adding
    <2>2. CASE chain[t] = next[Anchor]
      <3>1. List(t) = Anchors
        BY <1>1, <2>2, Zenon DEF List, Anchors
      <3>. QED BY <1>1, <3>1, AnchorsAre
    <2>3. CASE chain[t] = Null
      <3>1. IsPath(next, Null, <<>>)
        BY DEF IsPath, Nth
      <3>2. Len(<<>>) <= Cardinality(given) /\ Cardinality(given) \in Nat
        <4>1. Cardinality(given) \in Nat
          BY FS_CardinalityType DEF Linked
        <4>. QED BY <4>1
      <3>3. ListFrom(Null) = <<>>
        BY <3>1, <3>2, TracePath DEF ListFrom
      <3>4. List(t) = Without(<<>>, wiped)
        BY <1>1, <2>3, <3>3, Zenon DEF List, Live
      <3>5. <<>> \in Seq(Cert) /\ Items(<<>>) = {}
        BY ItemsEmpty
      <3>6. Without(<<>>, wiped) = <<>>
        BY <3>5, WithoutAll
      <3>. QED BY <1>1, <3>4, <3>5, <3>6
    <2>. QED BY <2>1, <2>2, <2>3
  <1>2. CASE op[t] # "add"
    <2>1. msg[t] \in Message
      BY <1>2 DEF Climbing
    <2>2. List(t) = Bundle[msg[t]]
      BY <1>2, Zenon DEF List
    <2>3. Bundle[msg[t]] \in Seq(Cert)
      BY <2>1, BundleAssumption
    <2>. QED BY <1>2, <2>2, <2>3, Zenon DEF Items, Bundled
  <1>. QED BY <1>1, <1>2

-----------------------------------------------------------------------------
(* The steps that leave the list alone.                                    *)

\* What a step of thread t does to the rest of the state, when the list, the
\* certificates cleared and those given stay as they are.
Still ==
  /\ Members' = Members /\ wiped' = wiped /\ given' = given
  /\ Entries' = Entries /\ next'[Anchor] = next[Anchor] /\ Linked'

LEMMA StepStill ==
  ASSUME Linked, UNCHANGED <<next, wiped, given>>
  PROVE  Still
  <1>1. IsFiniteSet(given') /\ Members \subseteq given'
    BY DEF Linked
  <1>. QED BY <1>1, Rests DEF Still

\* Nobody loses a key of the store: the message a thread accepted stays sound.
LEMMA StaysSound ==
  ASSUME ChainIsSound, Climbing, Members \union wiped \subseteq Members' \union wiped',
         NEW t \in Thread, pc[t] = "idle", rc[t] = "ok", op[t] # "add",
         rc'[t] = rc[t], op'[t] = op[t], msg'[t] = msg[t]
  PROVE  LET K == IF op'[t] = "verify"
                  THEN {KeyOf[c] : c \in Members' \union wiped'}
                  ELSE {KeyOf[c] : c \in {d \in Bundled(msg'[t]) : Root(d)}}
         IN  SignedBy[Signer[msg'[t]]] \in Derived(msg'[t], K)
  <1>. DEFINE Keys(S) == {KeyOf[c] : c \in S}
              roots == Keys({d \in Bundled(msg[t]) : Root(d)})
              K0 == IF op[t] = "verify" THEN Keys(Members \union wiped) ELSE roots
              K1 == IF op[t] = "verify" THEN Keys(Members' \union wiped') ELSE roots
              k == SignedBy[Signer[msg[t]]]
  <1>1. k \in Derived(msg[t], K0)
    BY Zenon DEF ChainIsSound
  <1>2. K0 \subseteq K1
    OBVIOUS
  <1>. HIDE DEF K0, K1, k
  <1>3. \A S : Closed(msg[t], S) /\ K1 \subseteq S => k \in S
    BY <1>1, <1>2, DerivedIs
  <1>4. k \in Derived(msg[t], K1)
    BY <1>3, DerivedIs
  <1>. QED BY <1>4, Zenon DEF K1, k

LEMMA SoundAfter ==
  ASSUME ChainIsSound, Climbing, Members \union wiped \subseteq Members' \union wiped',
         \A t \in Thread : pc'[t] = "idle" /\ rc'[t] = "ok" /\ op'[t] # "add" =>
            pc[t] = "idle" /\ rc'[t] = rc[t] /\ op'[t] = op[t] /\ msg'[t] = msg[t]
  PROVE  ChainIsSound'
  <1>. SUFFICES ASSUME NEW t \in Thread,
                       pc'[t] = "idle", rc'[t] = "ok", op'[t] # "add"
                PROVE  LET K == IF op'[t] = "verify"
                                THEN {KeyOf[c] : c \in Members' \union wiped'}
                                ELSE {KeyOf[c] : c \in {d \in Bundled(msg'[t]) : Root(d)}}
                       IN  SignedBy[Signer[msg'[t]]] \in Derived(msg'[t], K)
    BY Zenon DEF ChainIsSound
  <1>1. pc[t] = "idle" /\ rc'[t] = rc[t] /\ op'[t] = op[t] /\ msg'[t] = msg[t]
    OBVIOUS
  <1>2. rc[t] = "ok" /\ op[t] # "add"
    BY <1>1
  <1>. QED BY <1>1, <1>2, StaysSound

LEMMA ResetSeenKeeps ==
  ASSUME StoreInv, NEW t \in Thread, ResetSeen(t)
  PROVE  StoreInv'
  <1>. USE DEF StoreInv
  <1>1. Still
    BY StepStill DEF ResetSeen
  <1>2. /\ pc[t] = "reset" /\ at[t] \in Members \union {Null} /\ op[t] = "add"
        /\ UNCHANGED <<next, wiped, given, op, subject, msg, chain, x, rc, calls, entitled>>
        /\ \/ /\ at[t] = Null /\ pc' = [pc EXCEPT ![t] = "mark"]
              /\ UNCHANGED <<seen, at>>
           \/ /\ at[t] # Null /\ seen' = seen \ {at[t]}
              /\ at' = [at EXCEPT ![t] = next[at[t]]] /\ UNCHANGED pc
    BY DEF ResetSeen, Goto, Appending
  <1>3. at[t] # Null => next[at[t]] \in Members \union {Null}
    BY <1>2, AfterMember
  <1>4. TypeOK'
    BY <1>2, <1>3, MembersAreCerts DEF TypeOK, Labels
  <1>5. Enrolled'
    BY <1>1, <1>2 DEF Still, TypeOK, Enrolled, Adding
  <1>6. Appending'
    BY <1>1, <1>2, <1>3 DEF Still, TypeOK, Appending
  <1>7. Vouched'
    BY <1>1, <1>2 DEF Still, TypeOK, Vouched, Adding, Certified
  <1>8. Climbing'
    BY <1>1, <1>2 DEF Still, TypeOK, Climbing
  <1>9. ChainIsSound'
    BY <1>1, <1>2, SoundAfter DEF Still, TypeOK
  <1>. QED BY <1>1, <1>4, <1>5, <1>6, <1>7, <1>8, <1>9 DEF Still

LEMMA MarkSeenKeeps ==
  ASSUME StoreInv, NEW t \in Thread, MarkSeen(t)
  PROVE  StoreInv'
  <1>. USE DEF StoreInv
  <1>1. Still
    BY StepStill DEF MarkSeen
  <1>2. /\ pc[t] = "mark" /\ pc' = [pc EXCEPT ![t] = "climb"]
        /\ seen' = seen \union {x[t]}
        /\ UNCHANGED <<next, wiped, given, op, subject, msg, chain, x, at, rc,
                       calls, entitled>>
    BY DEF MarkSeen, Goto, frame
  <1>3. x[t] \in Cert
    <2>1. CASE op[t] = "add"
      BY <1>2, <2>1 DEF Vouched, Adding
    <2>2. CASE op[t] # "add"
      <3>1. msg[t] \in Message /\ x[t] \in Bundled(msg[t])
        BY <1>2, <2>2 DEF Climbing
      <3>2. Bundle[msg[t]] \in Seq(Cert)
        BY <3>1, BundleAssumption
      <3>. QED BY <3>1, <3>2 DEF Bundled
    <2>. QED BY <2>1, <2>2
  <1>4. TypeOK'
    BY <1>2, <1>3 DEF TypeOK, Labels
  <1>5. Enrolled'
    BY <1>1, <1>2 DEF Still, TypeOK, Enrolled, Adding
  <1>6. Appending'
    BY <1>1, <1>2 DEF Still, TypeOK, Appending
  <1>7. Vouched'
    BY <1>1, <1>2 DEF Still, TypeOK, Vouched, Adding, Certified
  <1>8. Climbing'
    BY <1>1, <1>2 DEF Still, TypeOK, Climbing
  <1>9. ChainIsSound'
    BY <1>1, <1>2, SoundAfter DEF Still, TypeOK
  <1>. QED BY <1>1, <1>4, <1>5, <1>6, <1>7, <1>8, <1>9 DEF Still

LEMMA DetachKeeps ==
  ASSUME StoreInv, NEW t \in Thread, Detach(t)
  PROVE  StoreInv'
  <1>. USE DEF StoreInv
  <1>. DEFINE c == subject[t]
  <1>1. /\ pc[t] = "detach" /\ pc' = [pc EXCEPT ![t] = "swap"]
        /\ next' = [next EXCEPT ![c] = Null]
        /\ at' = [at EXCEPT ![t] = Anchor] /\ op[t] = "add"
        /\ UNCHANGED <<seen, wiped, given, op, subject, msg, chain, x, rc, calls, entitled>>
    BY DEF Detach, Goto, Appending
  <1>2. c \in given \ (Members \union wiped) /\ c \in Cert
    BY <1>1 DEF Enrolled, Adding, TypeOK
  <1>3. /\ next'[c] = Null
        /\ \A d \in Cert \union {Anchor} : d # c => next'[d] = next[d]
    BY <1>1, <1>2 DEF TypeOK
  <1>4. Still
    <2>1. IsFiniteSet(given') /\ Members \subseteq given'
      BY <1>1 DEF Linked
    <2>2. next'[Anchor] = next[Anchor]
      BY <1>2, <1>3, CertAssumption
    <2>3. \A d \in Members : next'[d] = next[d]
      BY <1>2, <1>3, MembersAreCerts
    <2>. QED BY <1>1, <2>1, <2>2, <2>3, Rests DEF Still
  <1>5. TypeOK'
    BY <1>1, <1>2, CertAssumption DEF TypeOK, Labels
  <1>6. Enrolled'
    BY <1>1, <1>4 DEF Still, TypeOK, Enrolled, Adding
  <1>7. Appending'
    <2>. SUFFICES ASSUME NEW u \in Thread
                  PROVE  /\ pc'[u] \in {"reset", "detach", "swap"} => op'[u] = "add"
                         /\ pc'[u] = "reset" => at'[u] \in Members' \union {Null}
                         /\ pc'[u] = "swap" => /\ next'[subject'[u]] = Null
                                              /\ at'[u] \in Members' \union {Anchor}
      BY Zenon DEF Appending
    <2>1. CASE u = t
      BY <1>1, <1>3, <1>4, <2>1 DEF Still, TypeOK
    <2>2. CASE u # t
      <3>1. pc'[u] = pc[u] /\ at'[u] = at[u] /\ subject'[u] = subject[u] /\ op'[u] = op[u]
        BY <1>1, <2>2 DEF TypeOK
      <3>2. pc[u] = "swap" => subject[u] \in Cert /\ subject[u] # c
        BY <1>1, <2>2 DEF Enrolled, Adding, Appending, TypeOK
      <3>. QED BY <1>3, <1>4, <3>1, <3>2 DEF Still, Appending
    <2>. QED BY <2>1, <2>2
  <1>8. Vouched'
    BY <1>1, <1>4 DEF Still, TypeOK, Vouched, Adding, Certified
  <1>9. Climbing'
    BY <1>1, <1>4 DEF Still, TypeOK, Climbing
  <1>10. ChainIsSound'
    BY <1>1, <1>4, SoundAfter DEF Still, TypeOK
  <1>. QED BY <1>4, <1>5, <1>6, <1>7, <1>8, <1>9, <1>10 DEF Still

\* An append that finds its pointer taken.
LEMMA SwapTakenKeeps ==
  ASSUME StoreInv, NEW t \in Thread, Swap(t), next[at[t]] # Null
  PROVE  StoreInv'
  <1>. USE DEF StoreInv
  <1>1. Still
    BY StepStill DEF Swap
  <1>2. /\ pc[t] = "swap" /\ op[t] = "add"
        /\ at' = [at EXCEPT ![t] = next[at[t]]]
        /\ UNCHANGED <<next, seen, wiped, given, pc, op, subject, msg, chain, x,
                       rc, calls, entitled>>
    BY DEF Swap, Appending
  <1>3. next[at[t]] \in Members /\ Members \subseteq Cert
    BY <1>2, AfterMember, AtHead, MembersAreCerts DEF Appending
  <1>4. TypeOK'
    BY <1>2, <1>3, CertAssumption DEF TypeOK
  <1>5. Enrolled'
    BY <1>1, <1>2 DEF Still, TypeOK, Enrolled, Adding
  <1>6. Appending'
    BY <1>1, <1>2, <1>3 DEF Still, TypeOK, Appending
  <1>7. Vouched'
    BY <1>1, <1>2 DEF Still, TypeOK, Vouched, Adding, Certified
  <1>8. Climbing'
    BY <1>1, <1>2 DEF Still, TypeOK, Climbing
  <1>9. ChainIsSound'
    BY <1>1, <1>2, SoundAfter DEF Still, TypeOK
  <1>. QED BY <1>1, <1>4, <1>5, <1>6, <1>7, <1>8, <1>9 DEF Still

-----------------------------------------------------------------------------
(* The steps that change the list.                                         *)

LEMMA SwapJoins ==
  ASSUME StoreInv, NEW t \in Thread, Swap(t), next[at[t]] = Null
  PROVE  /\ op[t] = "add" /\ subject[t] \in Cert \ (Members \union wiped)
         /\ at[t] \in Members \union {Anchor} /\ Members \subseteq Cert
         /\ subject[t] \in given /\ subject[t] # Anchor
         /\ next' = [next EXCEPT ![at[t]] = subject[t]]
         /\ pc' = [pc EXCEPT ![t] = "idle"] /\ rc' = [rc EXCEPT ![t] = "ok"]
         /\ chain' = [chain EXCEPT ![t] = Null]
         /\ x' = [x EXCEPT ![t] = Null] /\ at' = [at EXCEPT ![t] = Null]
         /\ UNCHANGED <<seen, wiped, given, op, subject, msg, calls, entitled>>
         /\ Entries' = Append(Entries, subject[t])
         /\ Members' = Members \union {subject[t]} /\ Linked'
  <1>. USE DEF StoreInv
  <1>1. /\ next' = [next EXCEPT ![at[t]] = subject[t]]
        /\ pc' = [pc EXCEPT ![t] = "idle"] /\ rc' = [rc EXCEPT ![t] = "ok"]
        /\ chain' = [chain EXCEPT ![t] = Null]
        /\ x' = [x EXCEPT ![t] = Null] /\ at' = [at EXCEPT ![t] = Null]
        /\ UNCHANGED <<seen, wiped, given, op, subject, msg, calls, entitled>>
        /\ pc[t] = "swap"
    BY DEF Swap, Return, Goto
  <1>2. op[t] = "add" /\ next[subject[t]] = Null /\ at[t] \in Members \union {Anchor}
    BY <1>1 DEF Appending
  <1>3. subject[t] \in given \ (Members \union wiped) /\ given \subseteq Cert
    BY <1>1, <1>2 DEF Enrolled, Adding, TypeOK
  <1>4. /\ Entries' = Append(Entries, subject[t])
        /\ Members' = Members \union {subject[t]} /\ Linked'
    <2>. DEFINE p == at[t]
                c == subject[t]
    <2>1. /\ p \in Members \union {Anchor} /\ next[p] = Null
          /\ c \in given \ Members /\ next[c] = Null
          /\ next' = [next EXCEPT ![p] = c] /\ given' = given
      BY <1>1, <1>2, <1>3
    <2>. HIDE DEF p, c
    <2>2. Entries' = Append(Entries, c) /\ Members' = Members \union {c} /\ Linked'
      BY <2>1, Joins, Zenon
    <2>. QED BY <2>2 DEF c
  <1>5. Members \subseteq Cert /\ subject[t] # Anchor
    BY <1>3, MembersAreCerts, CertAssumption
  <1>. QED BY <1>1, <1>2, <1>3, <1>4, <1>5, Zenon

LEMMA SwapKeeps ==
  ASSUME StoreInv, NEW t \in Thread, Swap(t), next[at[t]] = Null
  PROVE  StoreInv'
  <1>. USE DEF StoreInv
  <1>. DEFINE c == subject[t]
  <1>1. /\ op[t] = "add" /\ c \in Cert \ (Members \union wiped) /\ pc[t] = "swap"
        /\ at[t] \in Members \union {Anchor} /\ Members \subseteq Cert
        /\ c \in given /\ c # Anchor
        /\ next' = [next EXCEPT ![at[t]] = c]
        /\ pc' = [pc EXCEPT ![t] = "idle"] /\ rc' = [rc EXCEPT ![t] = "ok"]
        /\ chain' = [chain EXCEPT ![t] = Null]
        /\ x' = [x EXCEPT ![t] = Null] /\ at' = [at EXCEPT ![t] = Null]
        /\ UNCHANGED <<seen, wiped, given, op, subject, msg, calls, entitled>>
        /\ Members' = Members \union {c} /\ Linked'
    BY SwapJoins DEF Swap
  <1>2. TypeOK'
    BY <1>1 DEF TypeOK, Labels, Codes
  <1>3. Enrolled'
    <2>1. \A u \in Thread : Adding(u)' <=> Adding(u) /\ u # t
      BY <1>1 DEF Adding, TypeOK
    <2>2. Adding(t)
      BY <1>1 DEF Adding
    <2>. QED BY <1>1, <2>1, <2>2 DEF Enrolled
  <1>4. Appending'
    <2>. SUFFICES ASSUME NEW u \in Thread
                  PROVE  /\ pc'[u] \in {"reset", "detach", "swap"} => op'[u] = "add"
                         /\ pc'[u] = "reset" => at'[u] \in Members' \union {Null}
                         /\ pc'[u] = "swap" => /\ next'[subject'[u]] = Null
                                              /\ at'[u] \in Members' \union {Anchor}
      BY Zenon DEF Appending
    <2>1. CASE u = t
      BY <1>1, <2>1 DEF TypeOK
    <2>2. CASE u # t
      <3>1. pc'[u] = pc[u] /\ at'[u] = at[u] /\ subject'[u] = subject[u] /\ op'[u] = op[u]
        BY <1>1, <2>2 DEF TypeOK
      <3>2. pc[u] = "swap" => subject[u] \in Cert \ Members
        BY <1>1, <2>2 DEF Enrolled, Adding, Appending, TypeOK
      <3>3. pc[u] = "swap" => next'[subject[u]] = next[subject[u]]
        BY <1>1, <3>2, CertAssumption DEF TypeOK
      <3>. QED BY <1>1, <3>1, <3>3 DEF Appending
    <2>. QED BY <2>1, <2>2
  <1>5. Vouched'
    <2>1. \A u \in Thread : Adding(u)' =>
            /\ Adding(u) /\ u # t /\ pc'[u] = pc[u] /\ chain'[u] = chain[u]
            /\ x'[u] = x[u] /\ subject'[u] = subject[u]
      BY <1>1 DEF Adding, TypeOK
    <2>2. \A d : Certified(d) => Certified(d)'
      BY <1>1 DEF Certified
    <2>3. \A d \in {Null, next[Anchor]} : d \in {Null, next'[Anchor]}
      BY <1>1, AtHead, CertAssumption DEF TypeOK, Swap
    <2>4. \A u \in Thread : Certified(subject[u]) => Certified(subject[u])'
      BY <1>1 DEF Certified
    <2>. QED BY <2>1, <2>3, <2>4 DEF Vouched
  <1>6. Climbing'
    BY <1>1 DEF TypeOK, Climbing
  <1>7. ChainIsSound'
    BY <1>1, SoundAfter DEF TypeOK
  <1>. QED BY <1>1, <1>2, <1>3, <1>4, <1>5, <1>6, <1>7

LEMMA ClearKeeps ==
  ASSUME StoreInv, Clear
  PROVE  StoreInv'
  <1>. USE DEF StoreInv
  <1>1. /\ \A t \in Thread : pc[t] = "idle"
        /\ next' = [c \in DOMAIN next |-> IF c \in Members THEN Null ELSE next[c]]
        /\ seen' = seen \ Members
        /\ UNCHANGED <<given, pc, op, subject, msg, chain, x, at, rc, calls, entitled>>
    BY DEF Clear, frame
  <1>2. Members' \subseteq Members /\ wiped' = wiped \union Members /\ Linked'
    BY Empties
  <1>3. Members \subseteq given
    BY DEF Linked
  <1>4. TypeOK'
    BY <1>1, <1>2, <1>3 DEF TypeOK
  <1>5. Enrolled'
    BY <1>1, <1>2 DEF Enrolled, Adding
  <1>6. Appending' /\ Vouched' /\ Climbing'
    BY <1>1, <1>2 DEF Appending, Vouched, Adding, Climbing
  <1>7. ChainIsSound'
    BY <1>1, <1>2, SoundAfter
  <1>. QED BY <1>2, <1>4, <1>5, <1>6, <1>7

-----------------------------------------------------------------------------
(* The climb.                                                              *)

Verdict(t) == Turn(List(t), Anchors, x[t], seen, op[t] = "verify")
Issuer(t) == Find(List(t), Auth0[x[t]], Auth1[x[t]])

LEMMA ClimbOn ==
  ASSUME StoreInv, NEW t \in Thread, pc[t] = "climb", Verdict(t) = "climb"
  PROVE  /\ Issuer(t) \in Items(List(t)) /\ Issuer(t) \in CertSign
         /\ SignedBy[x[t]] = KeyOf[Issuer(t)]
  <1>. DEFINE l == List(t)
              c == x[t]
              b == op[t] = "verify"
  <1>1. l \in Seq(Cert) /\ b \in BOOLEAN
    BY ListToClimb
  <1>2. Anchors \in Seq(Cert)
    BY AnchorsAre DEF StoreInv
  <1>3. Turn(l, Anchors, c, seen, b) = "climb"
    BY Zenon DEF Verdict
  <1>. HIDE DEF l, c, b
  <1>4. LET p == Find(l, Auth0[c], Auth1[c])
        IN  p \in Items(l) /\ p \in CertSign /\ SignedBy[c] = KeyOf[p]
    BY <1>1, <1>2, <1>3, TurnClimbs
  <1>. QED BY <1>4, Zenon DEF l, c, Issuer

LEMMA ClimbUpKeeps ==
  ASSUME StoreInv, NEW t \in Thread, Climb(t), Verdict(t) = "climb"
  PROVE  StoreInv'
  <1>. USE DEF StoreInv
  <1>. DEFINE p == Issuer(t)
  <1>1. /\ pc[t] = "climb" /\ pc' = [pc EXCEPT ![t] = "mark"]
        /\ x' = [x EXCEPT ![t] = p]
        /\ UNCHANGED <<next, seen, wiped, given, op, subject, msg, chain, at, rc,
                       calls, entitled>>
    BY Zenon DEF Climb, Verdict, Issuer, Goto
  <1>2. p \in Items(List(t)) /\ p \in CertSign /\ SignedBy[x[t]] = KeyOf[p]
    BY <1>1, ClimbOn
  <1>. HIDE DEF p
  <1>3. Still
    BY <1>1, StepStill
  <1>4. /\ op[t] = "add" => p \in Members \ wiped
        /\ op[t] # "add" => p \in Bundled(msg[t])
    BY <1>1, <1>2, ListToClimb
  <1>5. p \in Cert
    <2>1. List(t) \in Seq(Cert)
      BY <1>1, ListToClimb
    <2>. HIDE DEF StoreInv
    <2>. QED BY <1>2, <2>1 DEF Items
  <1>6. TypeOK'
    BY <1>1, <1>5 DEF TypeOK, Labels
  <1>7. Enrolled'
    BY <1>1, <1>3 DEF Still, TypeOK, Enrolled, Adding
  <1>8. Appending'
    BY <1>1, <1>3 DEF Still, TypeOK, Appending
  <1>9. Vouched'
    <2>. SUFFICES ASSUME NEW u \in Thread, Adding(u)'
                  PROVE  /\ pc'[u] \in {"reset", "mark", "climb"} =>
                              /\ chain'[u] \in {Null, next'[Anchor]} /\ x'[u] \in Cert
                              /\ x'[u] = subject'[u] \/ Certified(subject[u])'
                         /\ pc'[u] \in {"detach", "swap"} =>
                              Root(subject'[u]) \/ Certified(subject[u])'
      BY Zenon DEF Vouched
    <2>1. Certified(subject[u])' <=> Certified(subject[u])
      BY <1>1, <1>3 DEF Still, Certified
    <2>2. CASE u = t
      <3>1. op[t] = "add"
        BY <1>1, <2>2 DEF Adding
      <3>2. x[t] = subject[t] \/ Certified(subject[t])
        BY <1>1, <3>1 DEF Vouched, Adding
      <3>3. Certified(subject[t])
        BY <1>2, <1>4, <3>1, <3>2 DEF Certified
      <3>. QED BY <1>1, <1>3, <1>5, <2>1, <2>2, <3>1, <3>3
                  DEF Vouched, Adding, TypeOK, Still
    <2>3. CASE u # t
      BY <1>1, <1>3, <2>1, <2>3 DEF Vouched, Adding, TypeOK, Still
    <2>. QED BY <2>2, <2>3
  <1>10. Climbing'
    <2>1. ASSUME op[t] # "add"
          PROVE  SignedBy[Signer[msg[t]]] \in Derived(msg[t], {SignedBy[p]})
      <3>. DEFINE m == msg[t]
                  k == SignedBy[Signer[m]]
      <3>1. k \in Derived(m, {KeyOf[p]})
        BY <1>1, <1>2, <2>1 DEF Climbing
      <3>2. p \in Bundled(m) \intersect CertSign
        BY <1>2, <1>4, <2>1
      <3>. HIDE DEF m, k
      <3>3. \A S : Closed(m, S) /\ {SignedBy[p]} \subseteq S => k \in S
        <4>. SUFFICES ASSUME NEW S, Closed(m, S), SignedBy[p] \in S PROVE k \in S
          OBVIOUS
        <4>1. KeyOf[p] \in S
          BY <3>2 DEF Closed
        <4>. QED BY <3>1, <4>1, DerivedIs
      <3>4. k \in Derived(m, {SignedBy[p]})
        BY <3>3, DerivedIs
      <3>. QED BY <3>4 DEF m, k
    <2>2. x'[t] = p /\ msg' = msg /\ op' = op /\ rc' = rc
      BY <1>1 DEF TypeOK
    <2>3. \A u \in Thread : u # t => x'[u] = x[u] /\ pc'[u] = pc[u]
      BY <1>1 DEF TypeOK
    <2>4. pc'[t] = "mark"
      BY <1>1 DEF TypeOK
    <2>5. op[t] # "add" => msg[t] \in Message
      BY <1>1 DEF Climbing
    <2>. QED BY <1>4, <2>1, <2>2, <2>3, <2>4, <2>5 DEF Climbing
  <1>11. ChainIsSound'
    BY <1>1, <1>3, SoundAfter DEF Still, TypeOK
  <1>. QED BY <1>3, <1>6, <1>7, <1>8, <1>9, <1>10, <1>11 DEF Still

\* A climb through the store that ends at one of its roots.
LEMMA ClimbDoneKeeps ==
  ASSUME StoreInv, NEW t \in Thread, Climb(t), Verdict(t) = "ok", op[t] = "add"
  PROVE  StoreInv'
  <1>. USE DEF StoreInv
  <1>1. /\ pc[t] = "climb" /\ pc' = [pc EXCEPT ![t] = "detach"]
        /\ UNCHANGED <<next, seen, wiped, given, op, subject, msg, chain, x, at, rc,
                       calls, entitled>>
    BY Zenon DEF Climb, Verdict, Goto
  <1>2. Certified(subject[t])
    <2>. DEFINE l == List(t)
                c == x[t]
    <2>1. l \in Seq(Cert) /\ Items(l) \subseteq Members \ wiped
      BY <1>1, ListToClimb
    <2>2. (op[t] = "verify") = FALSE
      OBVIOUS
    <2>3. EndsWell(l, Anchors, c, seen)
      BY <2>2, Zenon DEF Verdict, EndsWell
    <2>. HIDE DEF l
    <2>4. Signs(Roots(Items(l)), c)
      BY <2>1, <2>3, TurnEndsAtRoot
    <2>5. Certified(c)
      BY <2>1, <2>4 DEF Certified, Signs, Roots
    <2>6. c = subject[t] \/ Certified(subject[t])
      BY <1>1 DEF Vouched, Adding
    <2>. QED BY <2>5, <2>6
  <1>3. Still
    BY <1>1, StepStill
  <1>4. TypeOK'
    BY <1>1 DEF TypeOK, Labels
  <1>5. Enrolled'
    BY <1>1, <1>3 DEF Still, TypeOK, Enrolled, Adding
  <1>6. Appending'
    BY <1>1, <1>3 DEF Still, TypeOK, Appending
  <1>7. Vouched'
    BY <1>1, <1>2, <1>3 DEF Still, TypeOK, Vouched, Adding, Certified
  <1>8. Climbing'
    BY <1>1, <1>3 DEF Still, TypeOK, Climbing
  <1>9. ChainIsSound'
    BY <1>1, <1>3, SoundAfter DEF Still, TypeOK
  <1>. QED BY <1>3, <1>4, <1>5, <1>6, <1>7, <1>8, <1>9 DEF Still

LEMMA VerdictCodes ==
  ASSUME StoreInv, NEW t \in Thread
  PROVE  Verdict(t) \in Codes \union {"climb"}
  <1>1. Anchors \in Seq(Cert)
    BY AnchorsAre DEF StoreInv
  <1>2. (op[t] = "verify") \in BOOLEAN
    OBVIOUS
  <1>. QED BY <1>1, <1>2, TurnCodes DEF Verdict

\* A message is accepted at a key of the store or, without a store, of a root
\* CA in the message; from there the keys the climb has passed are derived.
LEMMA Accepted ==
  ASSUME StoreInv, NEW t \in Thread, pc[t] = "climb", op[t] # "add",
         Verdict(t) = "ok"
  PROVE  LET K == IF op[t] = "verify"
                  THEN {KeyOf[c] : c \in Members \union wiped}
                  ELSE {KeyOf[c] : c \in {d \in Bundled(msg[t]) : Root(d)}}
         IN  SignedBy[Signer[msg[t]]] \in Derived(msg[t], K)
  <1>. USE DEF StoreInv
  <1>. DEFINE Keys(S) == {KeyOf[c] : c \in S}
              roots == {d \in Bundled(msg[t]) : Root(d)}
              K == IF op[t] = "verify" THEN Keys(Members \union wiped) ELSE Keys(roots)
              k == SignedBy[Signer[msg[t]]]
              l == List(t)
  <1>1. /\ k \in Derived(msg[t], {SignedBy[x[t]]})
        /\ l \in Seq(Cert) /\ Items(l) = Bundled(msg[t])
    BY ListToClimb DEF Climbing
  <1>. HIDE DEF l
  <1>2. SignedBy[x[t]] \in K
    <2>1. CASE op[t] = "verify"
      <3>1. EndsWellIn(Anchors, l, x[t], seen)
        BY <2>1, Zenon DEF Verdict, EndsWellIn, l
      <3>2. Anchors \in Seq(Cert) /\ Items(Anchors) = Members \ wiped
        BY AnchorsAre
      <3>3. Signs(Items(Anchors), x[t])
        BY <3>1, <3>2, TurnEndsInStore
      <3>. QED BY <2>1, <3>2, <3>3 DEF Signs
    <2>2. CASE op[t] # "verify"
      <3>1. (op[t] = "verify") = FALSE
        BY <2>2
      <3>2. EndsWell(l, Anchors, x[t], seen)
        BY <3>1, Zenon DEF Verdict, EndsWell, l
      <3>3. Signs(Roots(Items(l)), x[t])
        BY <1>1, <3>2, TurnEndsAtRoot
      <3>. QED BY <1>1, <2>2, <3>3 DEF Signs, Roots
    <2>. QED BY <2>1, <2>2
  <1>. HIDE DEF K, k
  <1>3. \A S : Closed(msg[t], S) /\ K \subseteq S => k \in S
    <2>. SUFFICES ASSUME NEW S, Closed(msg[t], S), K \subseteq S PROVE k \in S
      OBVIOUS
    <2>1. {SignedBy[x[t]]} \subseteq S
      BY <1>2
    <2>. QED BY <1>1, <2>1, DerivedIs
  <1>4. k \in Derived(msg[t], K)
    BY <1>3, DerivedIs
  <1>. QED BY <1>4, Zenon DEF K, k

\* A climb whose verdict the call returns.
LEMMA ClimbEndsKeeps ==
  ASSUME StoreInv, NEW t \in Thread, Climb(t), Verdict(t) # "climb",
         Verdict(t) # "ok" \/ op[t] # "add"
  PROVE  StoreInv'
  <1>. USE DEF StoreInv
  <1>. DEFINE r == Verdict(t)
  <1>1. /\ pc[t] = "climb" /\ pc' = [pc EXCEPT ![t] = "idle"]
        /\ rc' = [rc EXCEPT ![t] = r]
        /\ chain' = [chain EXCEPT ![t] = Null]
        /\ x' = [x EXCEPT ![t] = Null] /\ at' = [at EXCEPT ![t] = Null]
        /\ given' = IF op[t] = "add" THEN given \ {subject[t]} ELSE given
        /\ UNCHANGED <<next, seen, wiped, op, subject, msg, calls, entitled>>
    BY Zenon DEF Climb, Verdict, Goto, Return
  <1>2. r \in Codes
    BY VerdictCodes
  <1>3. op[t] = "add" => subject[t] \in given \ (Members \union wiped)
    BY <1>1 DEF Enrolled, Adding
  <1>4. Members' = Members /\ Linked'
    <2>1. IsFiniteSet(given) /\ Members \subseteq given
      BY DEF Linked
    <2>2. IsFiniteSet(given') /\ Members \subseteq given'
      BY <1>1, <1>3, <2>1, FS_RemoveElement
    <2>. QED BY <1>1, <2>2, Rests
  <1>. HIDE DEF r
  <1>5. TypeOK'
    BY <1>1, <1>2, <1>3 DEF TypeOK, Labels
  <1>6. Enrolled'
    <2>1. \A u \in Thread : Adding(u)' <=> Adding(u) /\ u # t
      BY <1>1 DEF Adding, TypeOK
    <2>2. op[t] = "add" <=> Adding(t)
      BY <1>1 DEF Adding
    <2>. QED BY <1>1, <1>3, <1>4, <2>1, <2>2 DEF Enrolled
  <1>7. Appending'
    BY <1>1, <1>4 DEF TypeOK, Appending
  <1>8. Vouched'
    BY <1>1, <1>4 DEF TypeOK, Vouched, Adding, Certified
  <1>9. Climbing'
    BY <1>1, <1>4 DEF TypeOK, Climbing
  <1>10. ChainIsSound'
    <2>. SUFFICES ASSUME NEW u \in Thread,
                         pc'[u] = "idle", rc'[u] = "ok", op'[u] # "add"
                  PROVE  LET K == IF op'[u] = "verify"
                                  THEN {KeyOf[c] : c \in Members' \union wiped'}
                                  ELSE {KeyOf[c] : c \in {d \in Bundled(msg'[u]) : Root(d)}}
                         IN  SignedBy[Signer[msg'[u]]] \in Derived(msg'[u], K)
      BY Zenon DEF ChainIsSound
    <2>1. CASE u = t
      <3>1. Verdict(t) = "ok" /\ op[t] # "add" /\ msg' = msg /\ op' = op
        BY <1>1, <2>1 DEF TypeOK, r
      <3>2. LET K == IF op[t] = "verify"
                     THEN {KeyOf[c] : c \in Members \union wiped}
                     ELSE {KeyOf[c] : c \in {d \in Bundled(msg[t]) : Root(d)}}
            IN  SignedBy[Signer[msg[t]]] \in Derived(msg[t], K)
        BY <1>1, <3>1, Accepted
      <3>3. Members' = Members /\ wiped' = wiped
        BY <1>1, <1>4
      <3>. QED BY <2>1, <3>1, <3>2, <3>3, Zenon
    <2>2. CASE u # t
      <3>1. pc'[u] = pc[u] /\ rc'[u] = rc[u] /\ op'[u] = op[u] /\ msg'[u] = msg[u]
        BY <1>1, <2>2 DEF TypeOK
      <3>2. pc[u] = "idle" /\ rc[u] = "ok" /\ op[u] # "add"
        BY <3>1
      <3>3. Members \union wiped \subseteq Members' \union wiped'
        BY <1>1, <1>4
      <3>. QED BY <3>1, <3>2, <3>3, StaysSound
    <2>. QED BY <2>1, <2>2
  <1>. QED BY <1>4, <1>5, <1>6, <1>7, <1>8, <1>9, <1>10

-----------------------------------------------------------------------------
(* Calls.                                                                  *)

\* A call that begins to append c or to climb from c.
LEMMA AddKeeps ==
  ASSUME StoreInv, NEW t \in Thread, NEW c \in Cert, Add(t, c)
  PROVE  StoreInv'
  <1>. USE DEF StoreInv
  <1>1. /\ c \notin given \union wiped /\ pc[t] = "idle" /\ calls[t] < MaxCalls[t]
        /\ calls' = [calls EXCEPT ![t] = @ + 1]
        /\ op' = [op EXCEPT ![t] = "add"]
        /\ subject' = [subject EXCEPT ![t] = c]
        /\ entitled' = [entitled EXCEPT ![t] = Root(c) \/ (c \in CA /\ Alone(c) = "ok")]
        /\ UNCHANGED <<next, seen, wiped, msg>>
    BY Zenon DEF Add, Begin
  <1>2. \/ /\ Root(c) /\ given' = given \union {c}
           /\ pc' = [pc EXCEPT ![t] = "detach"]
           /\ UNCHANGED <<chain, x, at, rc>>
        \/ /\ given' = given /\ pc' = [pc EXCEPT ![t] = "idle"]
           /\ rc' = [rc EXCEPT ![t] = "EKEYREJECTED"]
           /\ chain' = [chain EXCEPT ![t] = Null]
           /\ x' = [x EXCEPT ![t] = Null] /\ at' = [at EXCEPT ![t] = Null]
        \/ /\ given' = given \union {c} /\ pc' = [pc EXCEPT ![t] = "reset"]
           /\ chain' = [chain EXCEPT ![t] = next[Anchor]]
           /\ at' = [at EXCEPT ![t] = next[Anchor]]
           /\ x' = [x EXCEPT ![t] = c] /\ UNCHANGED rc
    BY Zenon DEF Add, Return, Goto
  <1>3. next[Anchor] \in Members \union {Null} /\ Members \subseteq Cert \intersect given
    BY AtHead, MembersAreCerts DEF Linked
  <1>4. Members' = Members /\ Linked' /\ next'[Anchor] = next[Anchor] /\ wiped' = wiped
    <2>1. IsFiniteSet(given)
      BY DEF Linked
    <2>2. IsFiniteSet(given') /\ Members \subseteq given'
      BY <1>2, <1>3, <2>1, FS_AddElement
    <2>. QED BY <1>1, <2>2, Rests
  <1>5. TypeOK'
    <2>1. calls' \in [Thread -> Nat] /\ \A u \in Thread : calls'[u] <= MaxCalls[u]
      <3>1. calls \in [Thread -> Nat] /\ \A u \in Thread : calls[u] <= MaxCalls[u]
        BY DEF TypeOK
      <3>2. calls' = [calls EXCEPT ![t] = calls[t] + 1] /\ calls[t] < MaxCalls[t]
        BY <1>1
      <3>3. calls[t] \in Nat /\ MaxCalls[t] \in Nat
        BY <3>1, BoundAssumption
      <3>. HIDE DEF StoreInv
      <3>4. calls[t] + 1 \in Nat /\ calls[t] + 1 <= MaxCalls[t]
        BY <3>2, <3>3
      <3>. QED BY <3>1, <3>2, <3>4
    <2>2. entitled' \in [Thread -> BOOLEAN]
      <3>1. (Root(c) \/ (c \in CA /\ Alone(c) = "ok")) \in BOOLEAN
        OBVIOUS
      <3>. QED BY <1>1, <3>1 DEF TypeOK
    <2>3. /\ pc' \in [Thread -> Labels] /\ rc' \in [Thread -> Codes]
          /\ \A u \in Thread : pc'[u] = "swap" => at'[u] # Null
      BY <1>2 DEF TypeOK, Labels, Codes
    <2>4. /\ chain' \in [Thread -> Cert \union {Null}]
          /\ x' \in [Thread -> Cert \union {Null}]
          /\ at' \in [Thread -> Cert \union {Anchor, Null}]
      BY <1>2, <1>3 DEF TypeOK
    <2>5. op' \in [Thread -> Ops] /\ subject' \in [Thread -> Cert \union {Null}]
      BY <1>1 DEF TypeOK, Ops
    <2>6. wiped' \subseteq given' /\ given' \subseteq Cert
      BY <1>1, <1>2 DEF TypeOK
    <2>. QED BY <1>1, <2>1, <2>2, <2>3, <2>4, <2>5, <2>6 DEF TypeOK
  <1>6. Enrolled'
    <2>1. \A u \in Thread : u # t =>
            /\ Adding(u)' <=> Adding(u)
            /\ subject'[u] = subject[u]
      BY <1>1, <1>2 DEF Adding, TypeOK
    <2>2. ~Adding(t) /\ subject'[t] = c /\ (Adding(t)' <=> given' # given)
          /\ given' \in {given, given \union {c}}
      BY <1>1, <1>2 DEF Adding, TypeOK
    <2>. QED BY <1>1, <1>3, <1>4, <2>1, <2>2 DEF Enrolled
  <1>7. Appending'
    BY <1>1, <1>2, <1>3, <1>4 DEF TypeOK, Appending
  <1>8. Vouched'
    <2>2. ASSUME NEW u \in Thread, u # t
          PROVE  /\ Adding(u)' <=> Adding(u)
                 /\ pc'[u] = pc[u] /\ chain'[u] = chain[u] /\ x'[u] = x[u]
                 /\ subject'[u] = subject[u]
      BY <1>1, <1>2, <2>2 DEF Adding, TypeOK
    <2>3. /\ subject'[t] = c
          /\ pc'[t] = "detach" => Root(c)
          /\ pc'[t] # "swap"
          /\ pc'[t] \in {"reset", "mark", "climb"} =>
               chain'[t] = next[Anchor] /\ x'[t] = c
      BY <1>1, <1>2 DEF TypeOK
    <2>4. ASSUME NEW u \in Thread, Adding(u)'
          PROVE  /\ pc'[u] \in {"reset", "mark", "climb"} =>
                      /\ chain'[u] \in {Null, next'[Anchor]} /\ x'[u] \in Cert
                      /\ x'[u] = subject'[u] \/ Certified(subject'[u])
                 /\ pc'[u] \in {"detach", "swap"} =>
                      Root(subject'[u]) \/ Certified(subject'[u])
      <3>1. CASE u = t
        BY <1>4, <2>3, <3>1
      <3>2. CASE u # t
        BY <1>4, <2>2, <2>4, <3>2 DEF Vouched
      <3>. QED BY <3>1, <3>2
    <2>5. \A d : Certified(d) =>
            \E a \in Members' \ wiped' : a \in CertSign /\ SignedBy[d] = KeyOf[a]
      BY <1>4 DEF Certified
    <2>. SUFFICES ASSUME NEW u \in Thread, Adding(u)'
                  PROVE  /\ pc'[u] \in {"reset", "mark", "climb"} =>
                              /\ chain'[u] \in {Null, next'[Anchor]} /\ x'[u] \in Cert
                              /\ x'[u] = subject'[u] \/ Certified(subject[u])'
                         /\ pc'[u] \in {"detach", "swap"} =>
                              Root(subject'[u]) \/ Certified(subject[u])'
      BY Zenon DEF Vouched
    <2>6. Certified(subject'[u]) => Certified(subject[u])'
      BY <2>5 DEF Certified
    <2>. QED BY <2>4, <2>6
  <1>9. Climbing'
    <2>1. \A u \in Thread : op'[u] # "add" =>
            /\ op[u] # "add" /\ u # t /\ pc'[u] = pc[u] /\ x'[u] = x[u]
            /\ rc'[u] = rc[u] /\ msg'[u] = msg[u]
      BY <1>1, <1>2 DEF TypeOK
    <2>. QED BY <2>1 DEF Climbing
  <1>10. ChainIsSound'
    BY <1>1, <1>2, <1>4, SoundAfter DEF TypeOK
  <1>. QED BY <1>4, <1>5, <1>6, <1>7, <1>8, <1>9, <1>10

LEMMA VerifyChainKeeps ==
  ASSUME StoreInv, NEW t \in Thread, NEW m \in Message, NEW o \in Ops, VerifyChain(t, m, o)
  PROVE  StoreInv'
  <1>. USE DEF StoreInv
  <1>1. /\ pc[t] = "idle" /\ calls[t] < MaxCalls[t] /\ o # "add"
        /\ calls' = [calls EXCEPT ![t] = @ + 1]
        /\ op' = [op EXCEPT ![t] = o]
        /\ msg' = [msg EXCEPT ![t] = m]
        /\ x' = [x EXCEPT ![t] = Signer[m]]
        /\ seen' = seen \ Bundled(m)
        /\ pc' = [pc EXCEPT ![t] = "mark"]
        /\ UNCHANGED <<next, wiped, given, subject, chain, at, rc, entitled>>
    BY DEF VerifyChain, Begin, Goto
  <1>2. Signer[m] \in Bundled(m) /\ Signer[m] \in Cert
    <2>1. Signer[m] \in Bundled(m) /\ Bundle[m] \in Seq(Cert)
      BY BundleAssumption
    <2>. HIDE DEF StoreInv
    <2>. QED BY <2>1 DEF Bundled
  <1>3. Still
    BY <1>1, StepStill
  <1>4. TypeOK'
    <2>1. calls' \in [Thread -> Nat] /\ \A u \in Thread : calls'[u] <= MaxCalls[u]
      <3>1. calls \in [Thread -> Nat] /\ \A u \in Thread : calls[u] <= MaxCalls[u]
        BY DEF TypeOK
      <3>2. calls' = [calls EXCEPT ![t] = calls[t] + 1] /\ calls[t] < MaxCalls[t]
        BY <1>1
      <3>3. calls[t] \in Nat /\ MaxCalls[t] \in Nat
        BY <3>1, BoundAssumption
      <3>. HIDE DEF StoreInv
      <3>4. calls[t] + 1 \in Nat /\ calls[t] + 1 <= MaxCalls[t]
        BY <3>2, <3>3
      <3>. QED BY <3>1, <3>2, <3>4
    <2>. QED BY <1>1, <1>2, <2>1 DEF TypeOK, Labels
  <1>5. Enrolled'
    BY <1>1, <1>3 DEF Still, TypeOK, Enrolled, Adding
  <1>6. Appending'
    BY <1>1, <1>3 DEF Still, TypeOK, Appending
  <1>7. Vouched'
    BY <1>1, <1>3 DEF Still, TypeOK, Vouched, Adding, Certified
  <1>8. Climbing'
    <2>1. SignedBy[Signer[m]] \in Derived(m, {SignedBy[Signer[m]]})
      <3>1. \A S : Closed(m, S) /\ {SignedBy[Signer[m]]} \subseteq S => SignedBy[Signer[m]] \in S
        OBVIOUS
      <3>. QED BY <3>1, DerivedIs
    <2>. QED BY <1>1, <1>2, <1>3, <2>1 DEF TypeOK, Climbing
  <1>9. ChainIsSound'
    BY <1>1, <1>3, SoundAfter DEF Still, TypeOK
  <1>. QED BY <1>3, <1>4, <1>5, <1>6, <1>7, <1>8, <1>9 DEF Still

-----------------------------------------------------------------------------
(* Theorems.                                                               *)

LEMMA StoreInvInit ==
  ASSUME Init
  PROVE  StoreInv /\ Anchors = <<>>
  <1>1. IsPath(next, next[Anchor], <<>>) /\ Distinct(<<>>)
    BY DEF Init, IsPath, Nth, Distinct
  <1>2. Items(<<>>) = {} /\ <<>> \in Seq(Cert)
    BY ItemsEmpty
  <1>3. IsFiniteSet(given) /\ Items(<<>>) \subseteq given
    BY <1>2, FS_EmptySet DEF Init
  <1>4. ListFrom(next[Anchor]) = <<>>
    BY <1>1, <1>3, Found DEF ListFrom
  <1>5. Entries = <<>> /\ Members = {}
    BY <1>2, <1>4, Zenon DEF Entries, Members
  <1>6. Linked
    BY <1>1, <1>3, <1>5 DEF Linked
  <1>7. Anchors = <<>>
    BY <1>2, <1>5, <1>6, AnchorsAre, WithoutAll
  <1>8. TypeOK
    BY BoundAssumption DEF Init, TypeOK, Labels, Ops, Codes
  <1>9. Enrolled /\ Appending /\ Vouched /\ Climbing /\ ChainIsSound
    BY DEF Init, Enrolled, Adding, Appending, Vouched, Climbing, ChainIsSound
  <1>. QED BY <1>6, <1>7, <1>8, <1>9 DEF StoreInv

LEMMA StoreInvStep ==
  ASSUME StoreInv, [Next]_vars
  PROVE  StoreInv'
  <1>1. CASE Clear
    BY <1>1, ClearKeeps
  <1>2. ASSUME NEW t \in Thread, Step(t) PROVE StoreInv'
    <2>1. CASE ResetSeen(t)
      BY <2>1, ResetSeenKeeps
    <2>2. CASE MarkSeen(t)
      BY <2>2, MarkSeenKeeps
    <2>3. CASE Climb(t)
      BY <2>3, ClimbUpKeeps, ClimbDoneKeeps, ClimbEndsKeeps
    <2>4. CASE Detach(t)
      BY <2>4, DetachKeeps
    <2>5. CASE Swap(t)
      BY <2>5, SwapKeeps, SwapTakenKeeps
    <2>. QED BY <1>2, <2>1, <2>2, <2>3, <2>4, <2>5 DEF Step
  <1>3. ASSUME NEW t \in Thread, Call(t) PROVE StoreInv'
    BY <1>3, AddKeeps, VerifyChainKeeps DEF Call
  <1>4. CASE UNCHANGED vars
    <2>1. Still
      BY <1>4, StepStill DEF vars, store, StoreInv
    <2>2. UNCHANGED <<next, seen, wiped, given, pc, op, subject, msg, chain, x, at,
                     rc, calls, entitled>>
      BY <1>4 DEF vars, store, frame
    <2>3. TypeOK'
      BY <2>2 DEF TypeOK, StoreInv
    <2>4. Enrolled' /\ Appending' /\ Climbing'
      BY <2>1, <2>2 DEF Still, StoreInv, Enrolled, Adding, Appending, Climbing
    <2>5. Vouched'
      BY <2>1, <2>2 DEF Still, StoreInv, Vouched, Adding, Certified
    <2>6. ChainIsSound'
      BY <2>1, <2>2, SoundAfter DEF Still, StoreInv
    <2>. QED BY <2>1, <2>3, <2>4, <2>5, <2>6 DEF Still, StoreInv
  <1>. QED BY <1>1, <1>2, <1>3, <1>4 DEF Next

\* The inductive invariant: whatever the threads do and in whatever order, the
\* list of pkcs7_trust.c stays a list without a cycle, every append stands at
\* one of its nodes, and what a climb of pkcs7_verify.c has passed is verified.
THEOREM StoreInvHolds == Spec => []StoreInv
  BY StoreInvInit, StoreInvStep, PTL DEF Spec

\* Whatever the threads do, an append never runs past the end of the list and
\* the fields of the store keep their types (pkcs7_trust.c:136-175).
THEOREM TypesHold == Spec => []TypeOK
  <1>1. StoreInv => TypeOK
    BY DEF StoreInv
  <1>. QED BY <1>1, StoreInvHolds, PTL

\* Concurrent calls of lc_pkcs7_trust_store_add, whose compare-and-swap loop
\* takes no lock, lose none of the certificates they report as added.
THEOREM NothingIsLost == Spec => []NothingLost
  <1>1. StoreInv => NothingLost
    <2>. SUFFICES ASSUME StoreInv, NEW c \in given \ wiped,
                         \A t \in Thread : subject[t] = c => pc[t] = "idle"
                  PROVE  \E i \in 1..Len(Anchors) : Anchors[i] = c
      BY DEF NothingLost
    <2>1. c \in Members
      BY DEF StoreInv, Enrolled, Adding
    <2>2. Anchors \in Seq(Cert) /\ c \in Items(Anchors)
      BY <2>1, AnchorsAre DEF StoreInv
    <2>. QED BY <2>2 DEF Items
  <1>. QED BY <1>1, StoreInvHolds, PTL

\* lc_pkcs7_verify_sig_chain accepts a message only with a chain of signatures
\* from a key of the trust store or of a root CA, whoever adds to the store,
\* resets the bits "seen" or clears the store meanwhile.
THEOREM ChainsAreSound == Spec => []ChainIsSound
  <1>1. StoreInv => ChainIsSound
    BY DEF StoreInv
  <1>. QED BY <1>1, StoreInvHolds, PTL

LEMMA StepKeepsPromise ==
  ASSUME StoreInv, [Next]_vars
  PROVE  [Promise!Next]_Anchors
  <1>. USE DEF StoreInv
  <1>1. ASSUME Still PROVE Anchors' = Anchors
    <2>1. Anchors = Without(Entries, wiped)
      BY AnchorsAre
    <2>2. Anchors' = Without(Entries', wiped')
      BY Zenon DEF Anchors, Live, Entries
    <2>. QED BY <1>1, <2>1, <2>2 DEF Still
  <1>2. CASE Clear
    <2>1. Anchors' = <<>>
      BY <1>2, Empties
    <2>. QED BY <2>1 DEF Promise!Next, Promise!Clear
  <1>3. ASSUME NEW t \in Thread, Swap(t), next[at[t]] = Null
        PROVE  Promise!Next
    <2>. DEFINE c == subject[t]
    <2>1. /\ c \in Cert \ (Members \union wiped) /\ wiped' = wiped
          /\ Entries' = Append(Entries, c) /\ op[t] = "add" /\ pc[t] = "swap"
      BY <1>3, SwapJoins DEF Swap
    <2>2. /\ Anchors = Without(Entries, wiped) /\ Entries \in Seq(Cert)
          /\ Anchors \in Seq(Cert) /\ Items(Anchors) = Members \ wiped
      BY AnchorsAre
    <2>3. Anchors' = Without(Entries', wiped')
      BY Zenon DEF Anchors, Live, Entries
    <2>4. Anchors' = Append(Anchors, c)
      <3>1. Without(Append(Entries, c), wiped) = Append(Without(Entries, wiped), c)
        BY <2>1, <2>2, WithoutAppend
      <3>. QED BY <2>1, <2>2, <2>3, <3>1, Zenon
    <2>5. \A d : Promise!Member(d) <=> d \in Members \ wiped
      <3>1. DOMAIN Anchors = 1..Len(Anchors)
        BY <2>2
      <3>2. \A d : Promise!Member(d) <=> d \in Items(Anchors)
        BY <3>1, Zenon DEF Promise!Member, Items
      <3>. QED BY <2>2, <3>2
    <2>6. Root(c) \/ Certified(c)
      BY <2>1 DEF Vouched, Adding
    <2>7. Certified(c) =>
            \E a \in Cert : /\ Promise!Member(a)
                          /\ <<a, c>> \in {pair \in CertSign \X Cert :
                                          SignedBy[pair[2]] = KeyOf[pair[1]]}
      BY <2>1, <2>5, MembersAreCerts DEF Certified
    <2>8. Promise!Trust(c)
      BY <2>1, <2>4, <2>5, <2>6, <2>7 DEF Promise!Trust
    <2>. QED BY <2>1, <2>8 DEF Promise!Next
  <1>4. ASSUME NEW t \in Thread, Climb(t) PROVE Anchors' = Anchors
    <2>1. /\ UNCHANGED <<next, wiped>> /\ pc[t] = "climb"
          /\ given' = given \/ (given' = given \ {subject[t]} /\ op[t] = "add")
      BY <1>4, Zenon DEF Climb
    <2>2. op[t] = "add" => subject[t] \notin Members
      BY <2>1 DEF Enrolled, Adding
    <2>3. IsFiniteSet(given') /\ Members \subseteq given'
      BY <2>1, <2>2, FS_RemoveElement DEF Linked
    <2>. QED BY <2>1, <2>3, AnchorsRest
  <1>5. ASSUME NEW t \in Thread, NEW c \in Cert, Add(t, c) PROVE Anchors' = Anchors
    <2>1. UNCHANGED <<next, wiped>> /\ (given' = given \/ given' = given \union {c})
      BY <1>5, Zenon DEF Add
    <2>2. IsFiniteSet(given') /\ Members \subseteq given'
      BY <2>1, FS_AddElement DEF Linked
    <2>. QED BY <2>1, <2>2, AnchorsRest
  <1>6. ASSUME NEW t \in Thread, Detach(t) PROVE Anchors' = Anchors
    <2>. DEFINE c == subject[t]
    <2>1. next' = [next EXCEPT ![c] = Null] /\ UNCHANGED <<given, wiped>> /\ pc[t] = "detach"
      BY <1>6 DEF Detach
    <2>2. c \in Cert \ Members
      BY <2>1 DEF Enrolled, Adding, Appending, TypeOK
    <2>3. \A d \in Members \union {Anchor} : next'[d] = next[d]
      BY <2>1, <2>2, MembersAreCerts, CertAssumption DEF TypeOK
    <2>4. IsFiniteSet(given') /\ Members \subseteq given'
      BY <2>1 DEF Linked
    <2>. QED BY <2>1, <2>3, <2>4, AnchorsRest
  <1>7. ASSUME NEW t \in Thread, Step(t) PROVE Promise!Next \/ Anchors' = Anchors
    <2>1. CASE ResetSeen(t) \/ MarkSeen(t)
      BY <2>1, <1>1, StepStill DEF ResetSeen, MarkSeen
    <2>2. CASE Swap(t)
      BY <2>2, <1>1, <1>3, StepStill DEF Swap
    <2>. QED BY <1>4, <1>6, <1>7, <2>1, <2>2 DEF Step
  <1>8. ASSUME NEW t \in Thread, Call(t) PROVE Anchors' = Anchors
    <2>1. ASSUME NEW m \in Message, NEW o \in Ops, VerifyChain(t, m, o)
          PROVE  Anchors' = Anchors
      BY <2>1, <1>1, StepStill DEF VerifyChain
    <2>. QED BY <1>5, <1>8, <2>1 DEF Call
  <1>9. CASE UNCHANGED vars
    BY <1>9, <1>1, StepStill DEF vars, store
  <1>. QED BY <1>2, <1>7, <1>8, <1>9 DEF Next

\* The store keeps the promise of TrustAnchors: a certificate appears at the
\* end, once, and only if it is a root CA or one that was there before has
\* verified it; nothing goes but all at once (pkcs7_trust.c:136-331).
THEOREM StoreIsTrustAnchors == Spec => StoreKeepsPromise
  <1>1. Init => Promise!Init
    BY StoreInvInit DEF Promise!Init
  <1>2. StoreInv /\ [Next]_vars => [Promise!Next]_Anchors
    BY StepKeepsPromise
  <1>. QED BY <1>1, <1>2, StoreInvHolds, PTL DEF Spec, StoreKeepsPromise, Promise!Spec

-----------------------------------------------------------------------------
(* Rejections, where one thread at a time climbs through the store.        *)

LEMMA VerdictsTurn ==
  ASSUME NEW list, NEW n \in Nat
  PROVE  \A i \in 0..n, c \in Cert :
           LET r == LoneTurn(list, c)
               p == Find(list, Auth0[c], Auth1[c])
           IN  Verdicts(list, n)[i][c] =
                 IF r # "climb" THEN r
                 ELSE IF i = 0 THEN "EKEYREJECTED" ELSE Verdicts(list, n)[i - 1][p]
  <1>. DEFINE Round(f, i) ==
                [c \in Cert |->
                   LET r == LoneTurn(list, c)
                       p == Find(list, Auth0[c], Auth1[c])
                   IN  IF r # "climb" THEN r
                       ELSE IF i = 0 THEN "EKEYREJECTED" ELSE f[p]]
              IsLoop(f, m) == f = [i \in 0..m |-> Round(f[i - 1], i)]
              S == {m \in Nat : \E f : IsLoop(f, m)}
  <1>1. 0 \in S
    <2>. DEFINE g == [i \in 0..0 |-> Round(<<>>, 0)]
    <2>1. \A f1, f2 : Round(f1, 0) = Round(f2, 0)
      OBVIOUS
    <2>. HIDE DEF Round
    <2>2. \A i \in 0..0 : g[i] = Round(g[i - 1], i)
      BY <2>1
    <2>3. IsLoop(g, 0)
      BY <2>2
    <2>. QED BY <2>3
  <1>2. ASSUME NEW m \in Nat, m \in S PROVE m + 1 \in S
    <2>1. PICK f : IsLoop(f, m)
      BY <1>2
    <2>. DEFINE g == [i \in 0..(m + 1) |-> IF i <= m THEN f[i]
                                           ELSE Round(f[m], m + 1)]
    <2>2. \A f1, f2 : Round(f1, 0) = Round(f2, 0)
      OBVIOUS
    <2>. HIDE DEF IsLoop, Round
    <2>3. \A i \in 0..(m + 1) : g[i] = Round(g[i - 1], i)
      <3>1. \A i \in 0..m : f[i] = Round(f[i - 1], i)
        BY <2>1 DEF IsLoop
      <3>2. CASE m = 0
        BY <2>2, <3>1, <3>2
      <3>3. CASE m # 0
        BY <2>2, <3>1, <3>3
      <3>. QED BY <3>2, <3>3
    <2>4. IsLoop(g, m + 1)
      BY <2>3 DEF IsLoop
    <2>. QED BY <2>4
  <1>3. \E f : IsLoop(f, n)
    <2>. HIDE DEF S
    <2>1. n \in S
      BY <1>1, <1>2, SetInduction
    <2>. QED BY <2>1 DEF S
  <1>4. IsLoop(Verdicts(list, n), n)
    BY <1>3, Zenon DEF Verdicts
  <1>5. \A i \in 0..n : Verdicts(list, n)[i] = Round(Verdicts(list, n)[i - 1], i)
    <2>. HIDE DEF Round
    <2>. QED BY <1>4
  <1>6. \A f, i : \A c \in Cert :
          LET r == LoneTurn(list, c)
              p == Find(list, Auth0[c], Auth1[c])
          IN  Round(f, i)[c] = IF r # "climb" THEN r
                               ELSE IF i = 0 THEN "EKEYREJECTED" ELSE f[p]
    OBVIOUS
  <1>. HIDE DEF Round
  <1>. QED BY <1>5, <1>6

\* An undisturbed climb from c ends well.
Accepts(list, c) == \E n \in Nat : \E i \in 0..n : Verdicts(list, n)[i][c] = "ok"

LEMMA TurnPasses ==
  ASSUME NEW list \in Seq(Cert), NEW c, LoneTurn(list, c) = "climb"
  PROVE  LET p == Find(list, Auth0[c], Auth1[c])
         IN  p \in Items(list) /\ p \in Cert /\ ~Root(p)
  <1>. DEFINE p == Find(list, Auth0[c], Auth1[c])
  <1>1. LET r == LoneTurn(list, c) IN
        /\ p = Null => r = "EKEYREJECTED"
        /\ p # Null /\ Unfit(p, c, {}) => r = "EKEYREJECTED"
        /\ p # Null /\ ~Unfit(p, c, {}) /\ Root(p) => r = Verified(p, c)
    BY Zenon DEF Turn, LoneTurn
  <1>2. p # Null /\ ~Root(p)
    BY <1>1, VerifiedCodes
  <1>3. p \in Items(list)
    BY <1>2, FindIn
  <1>. HIDE DEF p
  <1>4. p \in Cert
    BY <1>3 DEF Items
  <1>. QED BY <1>2, <1>3, <1>4 DEF p

\* An undisturbed climb that ends well is at its end or goes on to do so.
LEMMA AcceptsTurn ==
  ASSUME NEW list \in Seq(Cert), NEW c \in Cert, Accepts(list, c)
  PROVE  /\ LoneTurn(list, c) \in {"ok", "climb"}
         /\ LoneTurn(list, c) = "climb" =>
              Accepts(list, Find(list, Auth0[c], Auth1[c]))
  <1>. DEFINE r == LoneTurn(list, c)
              p == Find(list, Auth0[c], Auth1[c])
  <1>1. PICK n \in Nat : \E i \in 0..n : Verdicts(list, n)[i][c] = "ok"
    BY DEF Accepts
  <1>2. PICK i \in 0..n : Verdicts(list, n)[i][c] = "ok"
    BY <1>1
  <1>3. Verdicts(list, n)[i][c] =
          IF r # "climb" THEN r
          ELSE IF i = 0 THEN "EKEYREJECTED" ELSE Verdicts(list, n)[i - 1][p]
    BY VerdictsTurn
  <1>. HIDE DEF r, p
  <1>4. r \in {"ok", "climb"}
    BY <1>2, <1>3
  <1>5. r = "climb" => i - 1 \in 0..n /\ Verdicts(list, n)[i - 1][p] = "ok"
    BY <1>2, <1>3
  <1>6. r = "climb" => Accepts(list, p)
    BY <1>5 DEF Accepts
  <1>. QED BY <1>4, <1>6 DEF r, p

\* No climb in a circle ends well.
LEMMA CircleRejects ==
  ASSUME NEW list, NEW L \in SUBSET Cert,
         \A c \in L : /\ LoneTurn(list, c) = "climb"
                      /\ Find(list, Auth0[c], Auth1[c]) \in L
  PROVE  \A c \in L : ~Accepts(list, c)
  <1>. SUFFICES ASSUME NEW n \in Nat
                PROVE  \A i \in 0..n : \A c \in L : Verdicts(list, n)[i][c] # "ok"
    BY DEF Accepts
  <1>. DEFINE v == Verdicts(list, n)
              T == {i \in Nat : i <= n => \A c \in L : v[i][c] # "ok"}
  <1>1. \A i \in 0..n, c \in L :
          v[i][c] = IF i = 0 THEN "EKEYREJECTED"
                    ELSE v[i - 1][Find(list, Auth0[c], Auth1[c])]
    BY VerdictsTurn
  <1>. HIDE DEF v
  <1>2. 0 \in T
    BY <1>1
  <1>3. ASSUME NEW i \in Nat, i \in T PROVE i + 1 \in T
    <2>. SUFFICES ASSUME i + 1 <= n, NEW c \in L PROVE v[i + 1][c] # "ok"
      OBVIOUS
    <2>. DEFINE p == Find(list, Auth0[c], Auth1[c])
    <2>1. p \in L
      OBVIOUS
    <2>2. v[i + 1][c] = v[i][p]
      BY <1>1
    <2>3. \A d \in L : v[i][d] # "ok"
      BY <1>3
    <2>. QED BY <2>1, <2>2, <2>3
  <1>. HIDE DEF T
  <1>4. \A i \in Nat : i \in T
    BY <1>2, <1>3, SetInduction
  <1>. QED BY <1>4 DEF T, v

\* A certificate that is found is found in a longer list, too.
LEMMA FindAppend ==
  ASSUME NEW list \in Seq(Cert), NEW s \in Cert, NEW a, NEW b,
         Find(list, a, b) # Null
  PROVE  Find(Append(list, s), a, b) = Find(list, a, b)
  <1>. DEFINE n == Len(list)
              more == Append(list, s)
              hits == {i \in DOMAIN list : Wanted(list[i], a, b)}
              hits2 == {i \in DOMAIN more : Wanted(more[i], a, b)}
              Lowest(S, i) == i \in S /\ \A j \in S : i <= j
              first == CHOOSE i \in hits : \A j \in hits : i <= j
              first2 == CHOOSE i \in hits2 : \A j \in hits2 : i <= j
  <1>1. /\ n \in Nat /\ DOMAIN list = 1..n /\ DOMAIN more = 1..(n + 1)
        /\ \A i \in 1..n : more[i] = list[i]
    OBVIOUS
  <1>2. hits # {}
    BY Zenon DEF Find
  <1>. HIDE DEF more, n
  <1>3. hits \in SUBSET Nat /\ hits2 \in SUBSET Nat
    BY <1>1
  <1>4. hits \subseteq hits2 /\ hits2 \subseteq hits \union {n + 1}
        /\ \A i \in hits : i <= n
    BY <1>1
  <1>5. Find(list, a, b) = list[first]
    BY <1>2, Zenon DEF Find
  <1>6. hits2 # {}
    BY <1>2, <1>4
  <1>7. Find(more, a, b) = more[first2]
    BY <1>6, Zenon DEF Find
  <1>. HIDE DEF hits, hits2
  <1>8. \E i \in hits : \A j \in hits : i <= j
    BY <1>2, <1>3, Least
  <1>9. first \in hits /\ \A j \in hits : first <= j
    BY <1>8, Zenon
  <1>10. \E i \in hits2 : \A j \in hits2 : i <= j
    BY <1>6, <1>3, Least
  <1>11. first2 \in hits2 /\ \A j \in hits2 : first2 <= j
    BY <1>10, Zenon
  <1>. HIDE DEF first, first2
  <1>12. first2 = first
    BY <1>1, <1>3, <1>4, <1>9, <1>11
  <1>13. first \in 1..n
    BY <1>1, <1>9 DEF hits
  <1>14. Find(more, a, b) = Find(list, a, b)
    BY <1>1, <1>5, <1>7, <1>12, <1>13
  <1>. QED BY <1>14 DEF more

\* A climb from c does not end badly at once.
Passing(list, c) == LoneTurn(list, c) \in {"ok", "climb"}

\* A climb from c takes the same turn in both lists.
SameTurn(l1, l2, c) ==
  /\ LoneTurn(l2, c) = LoneTurn(l1, c)
  /\ Find(l2, Auth0[c], Auth1[c]) = Find(l1, Auth0[c], Auth1[c])

LEMMA TurnAppend ==
  ASSUME NEW list \in Seq(Cert), NEW s \in Cert, NEW c, Passing(list, c)
  PROVE  SameTurn(list, Append(list, s), c)
  <1>. DEFINE more == Append(list, s)
              p == Find(list, Auth0[c], Auth1[c])
              p2 == Find(more, Auth0[c], Auth1[c])
  <1>1. p = Null => LoneTurn(list, c) = "EKEYREJECTED"
    BY Zenon DEF Turn, LoneTurn
  <1>2. p # Null
    BY <1>1 DEF Passing
  <1>3. p2 = p
    BY <1>2, FindAppend
  <1>. HIDE DEF more
  <1>4. LoneTurn(more, c) = LoneTurn(list, c)
    BY <1>3, Zenon DEF Turn, LoneTurn
  <1>. QED BY <1>3, <1>4, Zenon DEF more, SameTurn

LEMMA AcceptsAppend ==
  ASSUME NEW list \in Seq(Cert), NEW s \in Cert, NEW d \in Cert, Accepts(list, d)
  PROVE  Accepts(Append(list, s), d)
  <1>1. \A c : Passing(list, c) => SameTurn(list, Append(list, s), c)
    BY TurnAppend, Zenon
  <1>2. PICK more : more = Append(list, s)
    OBVIOUS
  <1>3. PICK n \in Nat : \E k \in 0..n : Verdicts(list, n)[k][d] = "ok"
    BY DEF Accepts
  <1>4. PICK k \in 0..n : Verdicts(list, n)[k][d] = "ok"
    BY <1>3
  <1>5. \A c : Passing(list, c) => SameTurn(list, more, c)
    BY <1>1, <1>2, Zenon
  <1>. DEFINE v == Verdicts(list, n)
              w == Verdicts(more, n)
              T == {i \in Nat : i <= n => \A c \in Cert : v[i][c] = "ok" => w[i][c] = "ok"}
              R(l, c) == LoneTurn(l, c)
              P(l, c) == Find(l, Auth0[c], Auth1[c])
  <1>6. \A i \in 0..n, c \in Cert :
          v[i][c] = IF R(list, c) # "climb" THEN R(list, c)
                    ELSE IF i = 0 THEN "EKEYREJECTED" ELSE v[i - 1][P(list, c)]
    BY VerdictsTurn
  <1>7. \A i \in 0..n, c \in Cert :
          w[i][c] = IF R(more, c) # "climb" THEN R(more, c)
                    ELSE IF i = 0 THEN "EKEYREJECTED" ELSE w[i - 1][P(more, c)]
    BY VerdictsTurn
  <1>8. \A c \in Cert : R(list, c) \in {"ok", "climb"} =>
          R(more, c) = R(list, c) /\ P(more, c) = P(list, c)
    <2>. HIDE DEF v, w, T
    <2>. SUFFICES ASSUME NEW c \in Cert, R(list, c) \in {"ok", "climb"}
                  PROVE  R(more, c) = R(list, c) /\ P(more, c) = P(list, c)
      OBVIOUS
    <2>1. Passing(list, c)
      BY Zenon DEF Passing
    <2>2. SameTurn(list, more, c)
      BY <1>5, <2>1, Zenon
    <2>. QED BY <2>2, Zenon DEF SameTurn
  <1>9. \A c \in Cert : R(list, c) = "climb" => P(list, c) \in Cert
    BY TurnPasses
  <1>. HIDE DEF v, w, R, P
  <1>10. 0 \in T
    <2>. SUFFICES ASSUME NEW c \in Cert, v[0][c] = "ok" PROVE w[0][c] = "ok"
      OBVIOUS
    <2>1. R(list, c) = "ok"
      BY <1>6
    <2>. QED BY <1>7, <1>8, <2>1
  <1>11. ASSUME NEW i \in Nat, i \in T PROVE i + 1 \in T
    <2>. SUFFICES ASSUME i + 1 <= n, NEW c \in Cert, v[i + 1][c] = "ok"
                  PROVE  w[i + 1][c] = "ok"
      OBVIOUS
    <2>1. v[i + 1][c] = IF R(list, c) # "climb" THEN R(list, c) ELSE v[i][P(list, c)]
      BY <1>6
    <2>2. w[i + 1][c] = IF R(more, c) # "climb" THEN R(more, c) ELSE w[i][P(more, c)]
      BY <1>7
    <2>3. R(list, c) \in {"ok", "climb"}
      BY <2>1
    <2>4. \A e \in Cert : v[i][e] = "ok" => w[i][e] = "ok"
      BY <1>11
    <2>. QED BY <1>8, <1>9, <2>1, <2>2, <2>3, <2>4
  <1>. HIDE DEF T
  <1>12. \A i \in Nat : i \in T
    BY <1>10, <1>11, SetInduction
  <1>13. w[k][d] = "ok"
    BY <1>4, <1>12 DEF T, v
  <1>. QED BY <1>13, <1>2 DEF Accepts, w

\* Thread c alone offers CAs that need a chain.
SoleClimber(c) == \A t \in Thread \ {c} : \A d \in Offers[t] : d \in CA => Root(d)

\* The certificates of the store that carry the mark, and that it tells from
\* others: a marked root is not taken for a loop.
Marked == {d \in seen \intersect Members : ~Root(d)}

\* The loop that clears the marks has left none behind.
Swept(c) ==
  \E i \in 1..(Len(Entries) + 1) :
    at[c] = Nth(Entries, i) /\ \A j \in 1..(i - 1) : Entries[j] \notin Marked

\* From each mark the climb went on to another or to where it stands.
Trail(c) ==
  \A d \in Marked \ {x[c]} :
    /\ LoneTurn(Anchors, d) = "climb"
    /\ Find(Anchors, Auth0[d], Auth1[d]) \in Marked \union {x[c]}

Offered == given \subseteq UNION {Offers[t] : t \in Thread}

OthersAppend(c) ==
  \A t \in Thread \ {c} : Adding(t) => pc[t] \in {"detach", "swap"} /\ Root(subject[t])

\* The climb that would end well alone still does.
Hopeful(c) ==
  pc[c] \in {"reset", "mark", "climb"} /\ op[c] = "add" /\ entitled[c] =>
    /\ chain[c] = next[Anchor] /\ chain[c] # Null
    /\ Accepts(Anchors, x[c]) /\ x[c] \in given
    /\ pc[c] = "reset" => Swept(c)
    /\ pc[c] # "reset" => Trail(c)
    /\ pc[c] = "climb" => x[c] \in seen

SoleInv(c) == Offered /\ OthersAppend(c) /\ Hopeful(c) /\ RejectedHasNoChain

\* Messages bring certificates of their own.
LEMMA Foreign ==
  ASSUME Linked, Offered, NEW m \in Message
  PROVE  Bundled(m) \intersect Members = {}
  BY BundleAssumption DEF Linked, Offered

LEMMA MembersListed ==
  ASSUME Linked
  PROVE  /\ Entries \in Seq(Cert) /\ Len(Entries) \in Nat
         /\ \A d : d \in Members <=> \E i \in 1..Len(Entries) : d = Entries[i]
  <1>1. Entries \in Seq(Cert) /\ Members = Items(Entries)
    BY Zenon DEF Linked, IsPath, Entries, Members
  <1>. QED BY <1>1 DEF Items

\* What matters to thread c is as it was.
LEMMA HopefulStays ==
  ASSUME NEW c \in Thread, Hopeful(c), Anchors' = Anchors, Entries' = Entries,
         next'[Anchor] = next[Anchor], Marked' = Marked,
         x[c] \in seen => x[c] \in seen', x[c] \in given => x[c] \in given',
         pc'[c] = pc[c], op'[c] = op[c], chain'[c] = chain[c], x'[c] = x[c],
         at'[c] = at[c], entitled'[c] = entitled[c]
  PROVE  Hopeful(c)'
  <1>1. Swept(c) => Swept(c)'
    BY DEF Swept
  <1>2. Trail(c) => Trail(c)'
    BY DEF Trail
  <1>. QED BY <1>1, <1>2 DEF Hopeful

\* A turn that goes on does so without regard to the marks.
LEMMA ClimbUnmarked ==
  ASSUME NEW list, NEW anchors, NEW c, NEW marked,
         Turn(list, anchors, c, marked, FALSE) = "climb"
  PROVE  LoneTurn(list, c) = "climb"
  <1>. DEFINE p == Find(list, Auth0[c], Auth1[c])
  <1>1. \A a, S : LET r == Turn(list, a, c, S, FALSE) IN
        /\ p = Null => r = "EKEYREJECTED"
        /\ p # Null /\ Unfit(p, c, S) => r = "EKEYREJECTED"
        /\ p # Null /\ ~Unfit(p, c, S) /\ Root(p) => r = Verified(p, c)
        /\ p # Null /\ ~Unfit(p, c, S) /\ ~Root(p) =>
             r = IF Verified(p, c) = "ok" THEN "climb" ELSE Verified(p, c)
    BY Zenon DEF Turn, LoneTurn
  <1>2. p # Null /\ ~Unfit(p, c, marked) /\ ~Root(p) /\ Verified(p, c) = "ok"
    BY <1>1, VerifiedCodes
  <1>3. ~Unfit(p, c, {})
    BY <1>2 DEF Unfit
  <1>. QED BY <1>1, <1>2, <1>3 DEF LoneTurn

\* A bad end of a turn is one without the marks too, or it is a loop.
LEMMA RejectedUnmarked ==
  ASSUME NEW list, NEW anchors, NEW c, NEW marked,
         Turn(list, anchors, c, marked, FALSE) \notin {"ok", "climb"},
         LoneTurn(list, c) \in {"ok", "climb"}
  PROVE  LET p == Find(list, Auth0[c], Auth1[c])
         IN  LoneTurn(list, c) = "climb" /\ p \in marked
  <1>. DEFINE p == Find(list, Auth0[c], Auth1[c])
  <1>1. \A a, S : LET r == Turn(list, a, c, S, FALSE) IN
        /\ p = Null => r = "EKEYREJECTED"
        /\ p # Null /\ Unfit(p, c, S) => r = "EKEYREJECTED"
        /\ p # Null /\ ~Unfit(p, c, S) /\ Root(p) => r = Verified(p, c)
        /\ p # Null /\ ~Unfit(p, c, S) /\ ~Root(p) =>
             r = IF Verified(p, c) = "ok" THEN "climb" ELSE Verified(p, c)
    BY Zenon DEF Turn, LoneTurn
  <1>2. p # Null /\ ~Unfit(p, c, {})
    BY <1>1 DEF LoneTurn
  <1>3. Unfit(p, c, marked)
    BY <1>1, <1>2 DEF LoneTurn
  <1>4. ~Root(p) /\ p \in marked
    BY <1>2, <1>3 DEF Unfit
  <1>. QED BY <1>1, <1>2, <1>4 DEF LoneTurn

\* The climb of c rejects nothing that would be accepted undisturbed.
LEMMA HopeIsKept ==
  ASSUME StoreInv, NEW c \in Thread, SoleInv(c), pc[c] = "climb", op[c] = "add",
         entitled[c]
  PROVE  /\ Verdict(c) \in {"ok", "climb"}
         /\ Verdict(c) = "climb" =>
              /\ LoneTurn(Anchors, x[c]) = "climb"
              /\ Issuer(c) = Find(Anchors, Auth0[x[c]], Auth1[x[c]])
              /\ Accepts(Anchors, Issuer(c))
  <1>. DEFINE l == Anchors
              y == x[c]
              p == Find(l, Auth0[y], Auth1[y])
  <1>1. /\ l \in Seq(Cert) /\ Items(l) = Members \ wiped
        /\ List(c) = l /\ y \in Cert
    <2>1. List(c) = l
      BY Zenon DEF SoleInv, Hopeful, List, Anchors
    <2>. QED BY <2>1, AnchorsAre DEF StoreInv, Vouched, Adding
  <1>2. Accepts(l, y) /\ Trail(c)
    BY DEF SoleInv, Hopeful
  <1>3. (op[c] = "verify") = FALSE
    OBVIOUS
  <1>4. Verdict(c) = Turn(l, Anchors, y, seen, FALSE) /\ Issuer(c) = p
    BY <1>1, <1>3, Zenon DEF Verdict, Issuer
  <1>5. /\ LoneTurn(l, y) \in {"ok", "climb"}
        /\ LoneTurn(l, y) = "climb" => Accepts(l, p)
    BY <1>1, <1>2, AcceptsTurn
  <1>6. Turn(l, Anchors, y, seen, FALSE) \in {"ok", "climb"}
    <2>. SUFFICES ASSUME Turn(l, Anchors, y, seen, FALSE) \notin {"ok", "climb"} PROVE FALSE
      OBVIOUS
    <2>. DEFINE L == Marked \union {y}
    <2>1. LoneTurn(l, y) = "climb" /\ p \in seen
      BY <1>5, RejectedUnmarked
    <2>2. p \in Items(l) /\ p \in Cert /\ ~Root(p)
      BY <1>1, <2>1, TurnPasses
    <2>3. p \in Marked
      BY <1>1, <2>1, <2>2 DEF Marked
    <2>4. L \in SUBSET Cert
      BY <1>1, MembersAreCerts DEF Marked, StoreInv
    <2>5. ASSUME NEW d \in L
          PROVE  LoneTurn(l, d) = "climb" /\ Find(l, Auth0[d], Auth1[d]) \in L
      <3>1. CASE d = y
        BY <2>1, <2>3, <3>1
      <3>2. CASE d # y
        BY <1>2, <3>2 DEF Trail
      <3>. QED BY <3>1, <3>2
    <2>. HIDE DEF L, l
    <2>6. \A d \in L : ~Accepts(l, d)
      BY <2>4, <2>5, CircleRejects
    <2>7. y \in L
      BY DEF L
    <2>. QED BY <1>2, <2>6, <2>7
  <1>7. Turn(l, Anchors, y, seen, FALSE) = "climb" => LoneTurn(l, y) = "climb"
    BY ClimbUnmarked
  <1>. QED BY <1>4, <1>5, <1>6, <1>7

LEMMA SoleReset ==
  ASSUME StoreInv, NEW c \in Thread, SoleInv(c), NEW t \in Thread, ResetSeen(t)
  PROVE  SoleInv(c)'
  <1>. USE DEF SoleInv, StoreInv
  <1>1. /\ pc[t] = "reset" /\ op[t] = "add"
        /\ UNCHANGED <<next, wiped, given, op, subject, msg, chain, x, rc, calls, entitled>>
        /\ \/ /\ at[t] = Null /\ pc' = [pc EXCEPT ![t] = "mark"]
              /\ UNCHANGED <<seen, at>>
           \/ /\ at[t] # Null /\ seen' = seen \ {at[t]}
              /\ at' = [at EXCEPT ![t] = next[at[t]]] /\ UNCHANGED pc
    BY DEF ResetSeen, Goto, Appending
  <1>2. Still /\ Anchors' = Anchors
    <2>1. IsFiniteSet(given') /\ Members \subseteq given'
      BY <1>1 DEF Linked
    <2>. QED BY <1>1, <2>1, StepStill, AnchorsRest
  <1>3. t = c
    BY <1>1 DEF OthersAppend, Adding
  <1>4. Offered' /\ OthersAppend(c)' /\ RejectedHasNoChain'
    BY <1>1, <1>3 DEF Offered, OthersAppend, Adding, RejectedHasNoChain, TypeOK
  <1>5. ASSUME entitled[c] PROVE IF at[c] = Null THEN Trail(c)' ELSE Swept(c)'
    <2>. DEFINE q == Entries
                n == Len(q)
    <2>1. /\ q \in Seq(Cert) /\ n \in Nat
          /\ \A d : d \in Members <=> \E i \in 1..n : d = q[i]
      BY MembersListed
    <2>2. \A i \in 1..n : q[i] # Null /\ next[q[i]] = Nth(q, i + 1)
      BY CertAssumption DEF Linked, IsPath
    <2>3. PICK i \in 1..(n + 1) :
            at[c] = Nth(q, i) /\ \A j \in 1..(i - 1) : q[j] \notin Marked
      BY <1>1, <1>3, <1>5 DEF Hopeful, Swept
    <2>. HIDE DEF q, n
    <2>4. CASE at[c] = Null
      <3>1. i = n + 1
        BY <2>1, <2>2, <2>3, <2>4 DEF Nth, n
      <3>2. Marked = {}
        BY <2>1, <2>3, <3>1 DEF Marked
      <3>3. Marked' = {}
        BY <1>1, <1>2, <1>3, <2>4, <3>2 DEF Marked, Still
      <3>. QED BY <2>4, <3>3 DEF Trail
    <2>5. CASE at[c] # Null
      <3>1. i \in 1..n /\ at[c] = q[i]
        BY <2>1, <2>3, <2>5 DEF Nth, n
      <3>2. at'[c] = Nth(q, i + 1) /\ seen' = seen \ {q[i]}
        BY <1>1, <1>3, <2>2, <2>5, <3>1 DEF TypeOK
      <3>3. Marked' = Marked \ {q[i]}
        BY <1>2, <3>2 DEF Marked, Still
      <3>4. i + 1 \in 1..(n + 1) /\ \A j \in 1..(i + 1 - 1) : q[j] \notin Marked'
        BY <2>1, <2>3, <3>1, <3>3
      <3>5. Entries' = q
        BY <1>2 DEF Still, q
      <3>6. Swept(c)'
        BY <3>2, <3>4, <3>5 DEF Swept, n
      <3>. QED BY <2>5, <3>6
    <2>. QED BY <2>4, <2>5
  <1>6. Hopeful(c)'
    BY <1>1, <1>2, <1>3, <1>5 DEF Hopeful, Still, TypeOK
  <1>. QED BY <1>4, <1>6

LEMMA SoleMark ==
  ASSUME StoreInv, NEW c \in Thread, SoleInv(c), NEW t \in Thread, MarkSeen(t)
  PROVE  SoleInv(c)'
  <1>. USE DEF SoleInv, StoreInv
  <1>1. /\ pc[t] = "mark" /\ pc' = [pc EXCEPT ![t] = "climb"]
        /\ seen' = seen \union {x[t]}
        /\ UNCHANGED <<next, wiped, given, op, subject, msg, chain, x, at, rc,
                       calls, entitled>>
    BY DEF MarkSeen, Goto, frame
  <1>2. Still /\ Anchors' = Anchors
    <2>1. IsFiniteSet(given') /\ Members \subseteq given'
      BY <1>1 DEF Linked
    <2>. QED BY <1>1, <2>1, StepStill, AnchorsRest
  <1>3. Offered' /\ OthersAppend(c)' /\ RejectedHasNoChain'
    BY <1>1 DEF Offered, OthersAppend, Adding, RejectedHasNoChain, TypeOK
  <1>4. ASSUME t # c PROVE Hopeful(c)'
    <2>1. op[t] # "add"
      BY <1>1, <1>4 DEF OthersAppend, Adding
    <2>2. msg[t] \in Message /\ x[t] \in Bundled(msg[t])
      BY <1>1, <2>1 DEF Climbing
    <2>3. x[t] \notin Members
      BY <2>2, Foreign
    <2>4. Marked' = Marked
      BY <1>1, <1>2, <2>3 DEF Marked, Still
    <2>. QED BY <1>1, <1>2, <1>4, <2>4, HopefulStays DEF Still, TypeOK
  <1>5. ASSUME t = c, op[c] = "add", entitled[c] PROVE Trail(c)'
    <2>1. Trail(c)
      BY <1>1, <1>5 DEF Hopeful
    <2>2. Marked' \ {x'[c]} = Marked \ {x[c]} /\ Marked \subseteq Marked'
      BY <1>1, <1>2, <1>5 DEF Marked, Still
    <2>. QED BY <1>1, <1>2, <2>1, <2>2 DEF Trail
  <1>6. ASSUME t = c PROVE Hopeful(c)'
    BY <1>1, <1>2, <1>5, <1>6 DEF Hopeful, Still, TypeOK
  <1>. QED BY <1>3, <1>4, <1>6

LEMMA SoleClimb ==
  ASSUME StoreInv, NEW c \in Thread, SoleInv(c), NEW t \in Thread, Climb(t)
  PROVE  SoleInv(c)'
  <1>. USE DEF SoleInv, StoreInv
  <1>. DEFINE p == Issuer(t)
              r == Verdict(t)
  <1>1. /\ pc[t] = "climb"
        /\ UNCHANGED <<next, seen, wiped, op, subject, msg, calls, entitled>>
        /\ \/ /\ r = "climb" /\ x' = [x EXCEPT ![t] = p]
              /\ pc' = [pc EXCEPT ![t] = "mark"]
              /\ UNCHANGED <<given, chain, at, rc>>
           \/ /\ r = "ok" /\ op[t] = "add" /\ pc' = [pc EXCEPT ![t] = "detach"]
              /\ UNCHANGED <<given, chain, x, at, rc>>
           \/ /\ r # "climb" /\ (r # "ok" \/ op[t] # "add")
              /\ pc' = [pc EXCEPT ![t] = "idle"]
              /\ rc' = [rc EXCEPT ![t] = r]
              /\ chain' = [chain EXCEPT ![t] = Null]
              /\ x' = [x EXCEPT ![t] = Null]
              /\ at' = [at EXCEPT ![t] = Null]
              /\ given' = IF op[t] = "add" THEN given \ {subject[t]} ELSE given
    BY Zenon DEF Climb, Verdict, Issuer, Goto, Return
  <1>. HIDE DEF p, r
  <1>2. op[t] = "add" => t = c
    BY <1>1 DEF OthersAppend, Adding
  <1>3. Anchors' = Anchors /\ Entries' = Entries /\ Members' = Members
    <2>1. op[t] = "add" => subject[t] \notin Members
      BY <1>1 DEF Enrolled, Adding
    <2>2. IsFiniteSet(given') /\ Members \subseteq given'
      BY <1>1, <2>1, FS_RemoveElement DEF Linked
    <2>. QED BY <1>1, <2>2, Rests, AnchorsRest
  <1>4. Marked' = Marked
    BY <1>1, <1>3 DEF Marked
  <1>5. op[t] = "add" /\ entitled[t] => r \in {"ok", "climb"}
    BY <1>1, <1>2, HopeIsKept DEF r
  <1>6. Offered' /\ OthersAppend(c)'
    BY <1>1, <1>2 DEF Offered, OthersAppend, Adding, TypeOK
  <1>7. RejectedHasNoChain'
    BY <1>1, <1>5 DEF RejectedHasNoChain, TypeOK
  <1>8. ASSUME t # c PROVE Hopeful(c)'
    <2>1. given' = given
      BY <1>1, <1>2, <1>8
    <2>2. /\ pc'[c] = pc[c] /\ op'[c] = op[c] /\ chain'[c] = chain[c] /\ x'[c] = x[c]
          /\ at'[c] = at[c] /\ entitled'[c] = entitled[c]
      BY <1>1, <1>8 DEF TypeOK
    <2>. QED BY <1>1, <1>3, <1>4, <2>1, <2>2, HopefulStays
  <1>9. ASSUME t = c, op[c] = "add", entitled[c], r = "climb"
        PROVE  Accepts(Anchors, p) /\ p \in given' /\ Trail(c)'
    <2>1. /\ LoneTurn(Anchors, x[c]) = "climb"
          /\ p = Find(Anchors, Auth0[x[c]], Auth1[x[c]])
          /\ Accepts(Anchors, p)
      BY <1>1, <1>9, HopeIsKept DEF r, p
    <2>2. Trail(c) /\ x[c] \in seen
      BY <1>1, <1>9 DEF Hopeful
    <2>3. x'[c] = p
      BY <1>1, <1>9 DEF TypeOK
    <2>4. ASSUME NEW d \in Marked \ {p}
          PROVE  /\ LoneTurn(Anchors, d) = "climb"
                 /\ Find(Anchors, Auth0[d], Auth1[d]) \in Marked \union {p}
      <3>1. CASE d = x[c]
        BY <2>1, <3>1
      <3>2. CASE d # x[c]
        <4>. DEFINE e == Find(Anchors, Auth0[d], Auth1[d])
        <4>1. LoneTurn(Anchors, d) = "climb" /\ e \in Marked \union {x[c]}
          BY <2>2, <3>2 DEF Trail
        <4>2. Anchors \in Seq(Cert) /\ Items(Anchors) = Members \ wiped
          BY AnchorsAre
        <4>3. e \in Items(Anchors) /\ ~Root(e)
          BY <4>1, <4>2, TurnPasses
        <4>4. e \in Marked
          BY <2>2, <4>1, <4>2, <4>3 DEF Marked
        <4>. QED BY <4>1, <4>4
      <3>. QED BY <3>1, <3>2
    <2>5. p \in given'
      <3>1. Anchors \in Seq(Cert) /\ Items(Anchors) = Members \ wiped
        BY AnchorsAre
      <3>2. x[c] \in Cert
        BY <1>1, <1>9 DEF Vouched, Adding
      <3>3. p \in Items(Anchors)
        BY <2>1, <3>1, <3>2, TurnPasses
      <3>. QED BY <1>1, <1>9, <3>1, <3>3 DEF Linked
    <2>. QED BY <1>3, <1>4, <2>1, <2>3, <2>4, <2>5 DEF Trail
  <1>10. ASSUME t = c PROVE Hopeful(c)'
    BY <1>1, <1>3, <1>5, <1>9, <1>10 DEF Hopeful, TypeOK
  <1>. QED BY <1>6, <1>7, <1>8, <1>10

LEMMA SoleDetach ==
  ASSUME StoreInv, NEW c \in Thread, SoleInv(c), NEW t \in Thread, Detach(t)
  PROVE  SoleInv(c)'
  <1>. USE DEF SoleInv, StoreInv
  <1>. DEFINE y == subject[t]
  <1>1. /\ pc[t] = "detach" /\ pc' = [pc EXCEPT ![t] = "swap"]
        /\ next' = [next EXCEPT ![y] = Null] /\ at' = [at EXCEPT ![t] = Anchor]
        /\ UNCHANGED <<seen, wiped, given, op, subject, msg, chain, x, rc, calls, entitled>>
    BY DEF Detach, Goto
  <1>2. y \in Cert \ Members
    BY <1>1 DEF Enrolled, Adding, Appending, TypeOK
  <1>3. \A d \in Members \union {Anchor} : next'[d] = next[d]
    BY <1>1, <1>2, MembersAreCerts, CertAssumption DEF TypeOK
  <1>4. Anchors' = Anchors /\ Entries' = Entries /\ Members' = Members
    <2>1. IsFiniteSet(given') /\ Members \subseteq given'
      BY <1>1 DEF Linked
    <2>. QED BY <1>1, <1>3, <2>1, Rests, AnchorsRest
  <1>5. Marked' = Marked
    BY <1>1, <1>4 DEF Marked
  <1>6. Offered' /\ OthersAppend(c)' /\ RejectedHasNoChain'
    BY <1>1 DEF Offered, OthersAppend, Adding, RejectedHasNoChain, TypeOK
  <1>7. CASE t = c
    BY <1>1, <1>6, <1>7 DEF Hopeful, TypeOK
  <1>8. CASE t # c
    <2>1. Hopeful(c)'
      BY <1>1, <1>3, <1>4, <1>5, <1>8, HopefulStays DEF TypeOK
    <2>. QED BY <1>6, <2>1
  <1>. QED BY <1>7, <1>8

LEMMA SoleSwapTaken ==
  ASSUME StoreInv, NEW c \in Thread, SoleInv(c), NEW t \in Thread, Swap(t),
         next[at[t]] # Null
  PROVE  SoleInv(c)'
  <1>. USE DEF SoleInv, StoreInv
  <1>1. /\ pc[t] = "swap" /\ at' = [at EXCEPT ![t] = next[at[t]]]
        /\ UNCHANGED <<next, seen, wiped, given, pc, op, subject, msg, chain, x,
                       rc, calls, entitled>>
    BY DEF Swap
  <1>2. Anchors' = Anchors /\ Entries' = Entries /\ Members' = Members
    <2>1. IsFiniteSet(given') /\ Members \subseteq given'
      BY <1>1 DEF Linked
    <2>. QED BY <1>1, <2>1, Rests, AnchorsRest
  <1>3. Marked' = Marked
    BY <1>1, <1>2 DEF Marked
  <1>4. Offered' /\ OthersAppend(c)' /\ RejectedHasNoChain'
    BY <1>1 DEF Offered, OthersAppend, Adding, RejectedHasNoChain, TypeOK
  <1>5. CASE t = c
    BY <1>1, <1>4, <1>5 DEF Hopeful, TypeOK
  <1>6. CASE t # c
    <2>1. Hopeful(c)'
      BY <1>1, <1>2, <1>3, <1>6, HopefulStays DEF TypeOK
    <2>. QED BY <1>4, <2>1
  <1>. QED BY <1>5, <1>6

\* A root joins the store while c climbs.
LEMMA SoleSwap ==
  ASSUME StoreInv, NEW c \in Thread, SoleInv(c), NEW t \in Thread, Swap(t),
         next[at[t]] = Null
  PROVE  SoleInv(c)'
  <1>. USE DEF SoleInv, StoreInv
  <1>. DEFINE y == subject[t]
  <1>1. /\ op[t] = "add" /\ y \in Cert \ (Members \union wiped) /\ pc[t] = "swap"
        /\ at[t] \in Members \union {Anchor} /\ Members \subseteq Cert
        /\ next' = [next EXCEPT ![at[t]] = y]
        /\ pc' = [pc EXCEPT ![t] = "idle"] /\ rc' = [rc EXCEPT ![t] = "ok"]
        /\ chain' = [chain EXCEPT ![t] = Null]
        /\ x' = [x EXCEPT ![t] = Null] /\ at' = [at EXCEPT ![t] = Null]
        /\ UNCHANGED <<seen, wiped, given, op, subject, msg, calls, entitled>>
        /\ Members' = Members \union {y} /\ Entries' = Append(Entries, y)
    BY SwapJoins DEF Swap
  <1>2. Offered' /\ OthersAppend(c)' /\ RejectedHasNoChain'
    BY <1>1 DEF Offered, OthersAppend, Adding, RejectedHasNoChain, TypeOK
  <1>3. CASE t = c
    BY <1>1, <1>2, <1>3 DEF Hopeful, TypeOK
  <1>4. CASE t # c
    <2>. SUFFICES ASSUME pc[c] \in {"reset", "mark", "climb"}, op[c] = "add", entitled[c]
                  PROVE  Hopeful(c)'
      <3>1. pc'[c] = pc[c] /\ op'[c] = op[c] /\ entitled'[c] = entitled[c]
        BY <1>1, <1>4 DEF TypeOK
      <3>. QED BY <1>2, <3>1 DEF Hopeful
    <2>1. /\ chain[c] = next[Anchor] /\ chain[c] # Null
          /\ Accepts(Anchors, x[c]) /\ x[c] \in given
          /\ pc[c] = "reset" => Swept(c)
          /\ pc[c] # "reset" => Trail(c)
          /\ pc[c] = "climb" => x[c] \in seen
      BY DEF Hopeful
    <2>2. /\ pc'[c] = pc[c] /\ op'[c] = op[c] /\ chain'[c] = chain[c] /\ x'[c] = x[c]
          /\ at'[c] = at[c] /\ x[c] \in Cert
      BY <1>1, <1>4 DEF TypeOK, Vouched, Adding
    <2>3. next'[Anchor] = next[Anchor]
      BY <1>1, <2>1 DEF TypeOK
    <2>4. Root(y)
      BY <1>1, <1>4 DEF OthersAppend, Adding
    <2>5. Marked' = Marked
      BY <1>1, <2>4 DEF Marked
    <2>6. Anchors \in Seq(Cert) /\ Entries \in Seq(Cert)
      BY AnchorsAre
    <2>7. PICK more : more = Append(Anchors, y)
      OBVIOUS
    <2>8. Anchors' = more
      <3>1. Anchors = Without(Entries, wiped) /\ Anchors' = Without(Entries', wiped')
        BY AnchorsAre, Zenon DEF Anchors, Live, Entries
      <3>2. Without(Append(Entries, y), wiped) = Append(Without(Entries, wiped), y)
        BY <1>1, <2>6, WithoutAppend
      <3>. QED BY <1>1, <2>7, <3>1, <3>2, Zenon
    <2>9. Accepts(Anchors', x'[c])
      <3>1. Accepts(Append(Anchors, y), x[c])
        BY <1>1, <2>1, <2>2, <2>6, AcceptsAppend
      <3>. QED BY <2>2, <2>7, <2>8, <3>1, Zenon
    <2>10. ASSUME pc[c] # "reset" PROVE Trail(c)'
      <3>1. \A d : Passing(Anchors, d) => SameTurn(Anchors, Append(Anchors, y), d)
        BY <1>1, <2>6, TurnAppend, Zenon
      <3>2. \A d : Passing(Anchors, d) => SameTurn(Anchors, more, d)
        BY <2>7, <3>1, Zenon
      <3>3. ASSUME NEW d \in Marked \ {x[c]}
            PROVE  /\ LoneTurn(more, d) = "climb"
                   /\ Find(more, Auth0[d], Auth1[d]) \in Marked \union {x[c]}
        <4>1. /\ LoneTurn(Anchors, d) = "climb"
              /\ Find(Anchors, Auth0[d], Auth1[d]) \in Marked \union {x[c]}
          BY <2>1, <2>10 DEF Trail
        <4>2. SameTurn(Anchors, more, d)
          BY <3>2, <4>1 DEF Passing
        <4>. QED BY <4>1, <4>2 DEF SameTurn
      <3>. QED BY <2>2, <2>5, <2>8, <3>3 DEF Trail
    <2>11. ASSUME pc[c] = "reset" PROVE Swept(c)'
      <3>. DEFINE q == Entries
                  n == Len(q)
      <3>1. PICK i \in 1..(n + 1) :
              at[c] = Nth(q, i) /\ \A j \in 1..(i - 1) : q[j] \notin Marked
        BY <2>1, <2>11 DEF Swept
      <3>2. PICK longer : longer = Append(q, y)
        OBVIOUS
      <3>3. /\ n \in Nat /\ Len(longer) = n + 1 /\ longer[n + 1] = y
            /\ \A j \in 1..n : longer[j] = q[j] /\ q[j] # Null
        BY <2>6, <3>2, CertAssumption
      <3>4. Entries' = longer
        BY <1>1, <3>2
      <3>5. y \notin Marked
        BY <2>4 DEF Marked
      <3>. HIDE DEF q, n
      <3>6. CASE i \in 1..n
        <4>1. at[c] = Nth(longer, i) /\ i \in 1..(n + 1 + 1)
          BY <3>1, <3>3, <3>6 DEF Nth, n
        <4>2. \A j \in 1..(i - 1) : longer[j] \notin Marked
          BY <3>1, <3>3, <3>6
        <4>. QED BY <2>2, <2>5, <3>3, <3>4, <4>1, <4>2 DEF Swept
      <3>7. CASE i \notin 1..n
        <4>1. i = n + 1
          BY <3>1, <3>3, <3>7
        <4>2. at[c] = Null
          BY <3>1, <3>7 DEF Nth, n
        <4>3. Nth(longer, n + 2) = Null /\ n + 2 \in 1..(n + 1 + 1)
          BY <3>3 DEF Nth
        <4>4. \A j \in 1..(n + 2 - 1) : longer[j] \notin Marked
          BY <3>1, <3>3, <3>5, <4>1
        <4>. QED BY <2>2, <2>5, <3>3, <3>4, <4>2, <4>3, <4>4 DEF Swept
      <3>. QED BY <3>6, <3>7
    <2>12. (x'[c] \in seen' <=> x[c] \in seen) /\ (x'[c] \in given' <=> x[c] \in given)
      BY <1>1, <2>2
    <2>. QED BY <2>1, <2>2, <2>3, <2>9, <2>10, <2>11, <2>12 DEF Hopeful
  <1>. QED BY <1>2, <1>3, <1>4

\* An accepted climb has somewhere to begin.
LEMMA AcceptsSome ==
  ASSUME StoreInv, NEW y \in Cert, Accepts(Anchors, y)
  PROVE  next[Anchor] # Null
  <1>. SUFFICES ASSUME next[Anchor] = Null PROVE FALSE
    OBVIOUS
  <1>. DEFINE p == Find(Anchors, Auth0[y], Auth1[y])
  <1>1. IsPath(next, next[Anchor], <<>>) /\ Distinct(<<>>)
    BY DEF IsPath, Nth, Distinct
  <1>2. Items(<<>>) = {} /\ <<>> \in Seq(Cert)
    BY ItemsEmpty
  <1>3. IsFiniteSet(given) /\ Items(<<>>) \subseteq given
    BY <1>2 DEF StoreInv, Linked
  <1>4. ListFrom(next[Anchor]) = <<>>
    BY <1>1, <1>3, Found DEF ListFrom
  <1>5. Members = {}
    BY <1>2, <1>4, Zenon DEF Members
  <1>6. Anchors \in Seq(Cert) /\ Items(Anchors) = {}
    BY <1>5, AnchorsAre DEF StoreInv
  <1>7. p = Null
    BY <1>6, FindIn
  <1>8. LoneTurn(Anchors, y) = "EKEYREJECTED"
    BY <1>7, Zenon DEF LoneTurn, Turn
  <1>9. LoneTurn(Anchors, y) \in {"ok", "climb"}
    BY <1>6, AcceptsTurn
  <1>. QED BY <1>8, <1>9

LEMMA SoleAdd ==
  ASSUME StoreInv, NEW c \in Thread, SoleClimber(c), SoleInv(c),
         NEW t \in Thread, NEW y \in Cert, Add(t, y)
  PROVE  SoleInv(c)'
  <1>. USE DEF SoleInv, StoreInv
  <1>1. /\ y \in Offers[t] /\ pc[t] = "idle"
        /\ op' = [op EXCEPT ![t] = "add"]
        /\ subject' = [subject EXCEPT ![t] = y]
        /\ entitled' = [entitled EXCEPT ![t] = Root(y) \/ (y \in CA /\ Alone(y) = "ok")]
        /\ UNCHANGED <<next, seen, wiped, msg>>
    BY Zenon DEF Add, Begin
  <1>2. \/ /\ Root(y) /\ given' = given \union {y}
           /\ pc' = [pc EXCEPT ![t] = "detach"]
           /\ UNCHANGED <<chain, x, at, rc>>
        \/ /\ ~Root(y) /\ y \notin CA
           /\ given' = given /\ pc' = [pc EXCEPT ![t] = "idle"]
           /\ rc' = [rc EXCEPT ![t] = "EKEYREJECTED"]
           /\ chain' = [chain EXCEPT ![t] = Null]
           /\ x' = [x EXCEPT ![t] = Null] /\ at' = [at EXCEPT ![t] = Null]
        \/ /\ ~Root(y) /\ y \in CA
           /\ given' = given \union {y} /\ pc' = [pc EXCEPT ![t] = "reset"]
           /\ chain' = [chain EXCEPT ![t] = next[Anchor]]
           /\ at' = [at EXCEPT ![t] = next[Anchor]]
           /\ x' = [x EXCEPT ![t] = y] /\ UNCHANGED rc
    BY Zenon DEF Add, Return, Goto
  <1>3. Anchors' = Anchors /\ Entries' = Entries /\ Members' = Members
    <2>1. IsFiniteSet(given') /\ Members \subseteq given'
      BY <1>2, FS_AddElement DEF Linked
    <2>. QED BY <1>1, <2>1, Rests, AnchorsRest
  <1>4. Marked' = Marked
    BY <1>1, <1>3 DEF Marked
  <1>5. Offered'
    BY <1>1, <1>2 DEF Offered
  <1>6. OthersAppend(c)'
    <2>1. ~(t # c /\ ~Root(y) /\ y \in CA)
      BY <1>1 DEF SoleClimber
    <2>. QED BY <1>1, <1>2, <2>1 DEF OthersAppend, Adding, TypeOK
  <1>7. RejectedHasNoChain'
    <2>1. \A u \in Thread : u # t =>
            /\ pc'[u] = pc[u] /\ op'[u] = op[u] /\ rc'[u] = rc[u]
            /\ entitled'[u] = entitled[u]
      BY <1>1, <1>2 DEF TypeOK
    <2>2. pc'[t] = "idle" => ~entitled'[t]
      BY <1>1, <1>2 DEF TypeOK
    <2>. QED BY <2>1, <2>2 DEF RejectedHasNoChain
  <1>8. CASE t # c
    <2>1. /\ pc'[c] = pc[c] /\ op'[c] = op[c] /\ chain'[c] = chain[c] /\ x'[c] = x[c]
          /\ at'[c] = at[c] /\ entitled'[c] = entitled[c]
          /\ x[c] \in given => x[c] \in given'
      BY <1>1, <1>2, <1>8 DEF TypeOK
    <2>2. Hopeful(c)'
      BY <1>1, <1>3, <1>4, <2>1, HopefulStays
    <2>. QED BY <1>5, <1>6, <1>7, <2>2
  <1>9. CASE t = c
    <2>. SUFFICES ASSUME pc'[c] \in {"reset", "mark", "climb"}, entitled'[c]
                  PROVE  Hopeful(c)'
      BY <1>5, <1>6, <1>7 DEF Hopeful
    <2>1. /\ ~Root(y) /\ pc'[c] = "reset" /\ chain'[c] = next[Anchor]
          /\ at'[c] = next[Anchor] /\ x'[c] = y /\ y \in given'
      BY <1>2, <1>9 DEF TypeOK
    <2>2. Alone(y) = "ok"
      BY <1>1, <1>9, <2>1 DEF TypeOK
    <2>3. Accepts(Anchors, y)
      <3>. DEFINE n == Cardinality(given)
      <3>1. n \in Nat /\ n \in 0..n
        BY FS_CardinalityType DEF Linked
      <3>2. Verdicts(Anchors, n)[n][y] = "ok"
        BY <2>2, Zenon DEF Alone
      <3>. HIDE DEF n
      <3>. QED BY <3>1, <3>2 DEF Accepts
    <2>4. next[Anchor] # Null
      BY <2>3, AcceptsSome
    <2>5. Swept(c)'
      <3>1. next[Anchor] = Nth(Entries, 1) /\ Len(Entries) \in Nat
        BY MembersListed DEF Linked, IsPath
      <3>. DEFINE n == Len(Entries)
      <3>. HIDE DEF n
      <3>2. 1 \in 1..(n + 1) /\ \A j \in 1..(1 - 1) : FALSE
        BY <3>1 DEF n
      <3>3. \E i \in 1..(n + 1) :
              at'[c] = Nth(Entries, i) /\ \A j \in 1..(i - 1) : Entries[j] \notin Marked
        BY <2>1, <3>1, <3>2
      <3>. QED BY <1>3, <1>4, <3>3 DEF Swept, n
    <2>. QED BY <1>1, <1>3, <2>1, <2>3, <2>4, <2>5 DEF Hopeful
  <1>. QED BY <1>8, <1>9

LEMMA SoleVerify ==
  ASSUME StoreInv, NEW c \in Thread, SoleInv(c), NEW t \in Thread,
         NEW m \in Message, NEW o \in Ops, VerifyChain(t, m, o)
  PROVE  SoleInv(c)'
  <1>. USE DEF SoleInv, StoreInv
  <1>1. /\ pc[t] = "idle" /\ o # "add"
        /\ op' = [op EXCEPT ![t] = o] /\ msg' = [msg EXCEPT ![t] = m]
        /\ x' = [x EXCEPT ![t] = Signer[m]]
        /\ seen' = seen \ Bundled(m)
        /\ pc' = [pc EXCEPT ![t] = "mark"]
        /\ UNCHANGED <<next, wiped, given, subject, chain, at, rc, entitled>>
    BY DEF VerifyChain, Begin, Goto
  <1>2. Anchors' = Anchors /\ Entries' = Entries /\ Members' = Members
    <2>1. IsFiniteSet(given') /\ Members \subseteq given'
      BY <1>1 DEF Linked
    <2>. QED BY <1>1, <2>1, Rests, AnchorsRest
  <1>3. Marked' = Marked
    BY <1>1, <1>2, Foreign DEF Marked
  <1>4. Offered' /\ OthersAppend(c)' /\ RejectedHasNoChain'
    BY <1>1 DEF Offered, OthersAppend, Adding, RejectedHasNoChain, TypeOK
  <1>5. CASE t = c
    BY <1>1, <1>4, <1>5 DEF Hopeful, TypeOK
  <1>6. CASE t # c
    <2>. SUFFICES ASSUME pc[c] \in {"reset", "mark", "climb"}, op[c] = "add", entitled[c]
                  PROVE  Hopeful(c)'
      <3>1. pc'[c] = pc[c] /\ op'[c] = op[c] /\ entitled'[c] = entitled[c]
        BY <1>1, <1>6 DEF TypeOK
      <3>. QED BY <1>4, <3>1 DEF Hopeful
    <2>2. x[c] \in seen => x[c] \in seen'
      BY <1>1, BundleAssumption DEF Offered, Hopeful
    <2>. QED BY <1>1, <1>2, <1>3, <1>6, <2>2, HopefulStays DEF TypeOK
  <1>. QED BY <1>5, <1>6

LEMMA SoleClear ==
  ASSUME StoreInv, NEW c \in Thread, SoleInv(c), Clear
  PROVE  SoleInv(c)'
  <1>1. /\ \A t \in Thread : pc[t] = "idle"
        /\ UNCHANGED <<given, pc, op, subject, rc, entitled>>
    BY DEF Clear, frame
  <1>2. Offered' /\ OthersAppend(c)' /\ RejectedHasNoChain'
    BY <1>1 DEF SoleInv, Offered, OthersAppend, Adding, RejectedHasNoChain
  <1>. QED BY <1>1, <1>2 DEF SoleInv, Hopeful


LEMMA SoleInvInit ==
  ASSUME NEW c \in Thread, Init
  PROVE  SoleInv(c)
  BY DEF Init, SoleInv, Offered, OthersAppend, Adding, Hopeful, RejectedHasNoChain

LEMMA SoleInvStep ==
  ASSUME StoreInv, NEW c \in Thread, SoleClimber(c), SoleInv(c), [Next]_vars
  PROVE  SoleInv(c)'
  <1>1. CASE Clear
    BY <1>1, SoleClear
  <1>2. ASSUME NEW t \in Thread, Step(t) PROVE SoleInv(c)'
    <2>1. CASE ResetSeen(t)
      BY <2>1, SoleReset
    <2>2. CASE MarkSeen(t)
      BY <2>2, SoleMark
    <2>3. CASE Climb(t)
      BY <2>3, SoleClimb
    <2>4. CASE Detach(t)
      BY <2>4, SoleDetach
    <2>5. CASE Swap(t)
      BY <2>5, SoleSwap, SoleSwapTaken
    <2>. QED BY <1>2, <2>1, <2>2, <2>3, <2>4, <2>5 DEF Step
  <1>3. ASSUME NEW t \in Thread, Call(t) PROVE SoleInv(c)'
    BY <1>3, SoleAdd, SoleVerify DEF Call
  <1>4. CASE UNCHANGED vars
    <2>1. /\ UNCHANGED <<next, seen, wiped, given, pc, op, subject, msg, chain,
                         x, at, rc, calls, entitled>>
      BY <1>4 DEF vars, store, frame
    <2>2. Anchors' = Anchors /\ Entries' = Entries /\ Members' = Members
      BY <2>1 DEF Anchors, Live, Entries, Members, ListFrom
    <2>3. Marked' = Marked
      BY <2>1, <2>2 DEF Marked
    <2>4. Hopeful(c)'
      BY <2>1, <2>2, <2>3, HopefulStays DEF SoleInv
    <2>. QED BY <2>1, <2>4 DEF SoleInv, Offered, OthersAppend, Adding, RejectedHasNoChain
  <1>. QED BY <1>1, <1>2, <1>3, <1>4 DEF Next

\* A CA that is rejected had no chain to a root of the store when its addition
\* began, as asn1/api/lc_pkcs7_parser.h:399-400 says, if no two threads add
\* CAs that need a chain: the marks that lc_pkcs7_trust_store_add clears and
\* lc_pkcs7_verify_sig_chain sets are in the certificates, and the marks of a
\* second climb are taken for a loop.  Roots may be added, messages verified
\* and the store cleared by any thread.
THEOREM RejectionIsJust ==
  ASSUME NEW c \in Thread, SoleClimber(c)
  PROVE  Spec => []RejectedHasNoChain
  <1>1. Init => SoleInv(c)
    BY SoleInvInit
  <1>2. StoreInv /\ SoleInv(c) /\ [Next]_vars => SoleInv(c)'
    BY SoleInvStep
  <1>3. SoleInv(c) => RejectedHasNoChain
    BY DEF SoleInv
  <1>. QED BY <1>1, <1>2, <1>3, StoreInvHolds, PTL DEF Spec

=============================================================================
