----------------------------- MODULE SpongeProofs -----------------------------
(***************************************************************************)
(* Theorems about HashStream and Kmac for every rate and block size, every *)
(* message and every way of cutting it.  A context that has absorbed a     *)
(* message has one form, which depends on the message only; each update    *)
(* takes that form to that of the longer message.                          *)
(***************************************************************************)
EXTENDS HashStream, Kmac, SequenceTheorems, WellFoundedInduction, TLAPS

\* Induction over the natural numbers for a set.
LEMMA SetInduction ==
  ASSUME NEW S, 0 \in S, \A n \in Nat : n \in S => n + 1 \in S
  PROVE  \A n \in Nat : n \in S
  <1>. DEFINE T == Nat \ S
              Less == OpToRel(<, Nat)
  <1>. SUFFICES ASSUME T # {} PROVE FALSE
    OBVIOUS
  <1>1. IsWellFoundedOn(Less, Nat)
    BY NatLessThanWellFounded DEF OpToRel
  <1>2. \A m, n \in Nat : m < n => <<m, n>> \in Less
    BY DEF OpToRel
  <1>. HIDE DEF Less
  <1>3. PICK n \in T : \A m \in T : ~ (<<m, n>> \in Less)
    BY <1>1, WFMin
  <1>4. n # 0 /\ n - 1 \in Nat /\ n - 1 < n
    BY <1>3
  <1>5. n - 1 \notin T
    BY <1>2, <1>3, <1>4
  <1>. QED BY <1>3, <1>4, <1>5

-----------------------------------------------------------------------------
(* Blocks of a message.                                                    *)

Rate == R \in Nat /\ R >= 2

\* Division of a length by the rate.
LEMMA Parts ==
  ASSUME Rate, NEW n \in Nat
  PROVE  /\ n \div R \in Nat /\ n % R \in 0..(R - 1)
         /\ n = (n \div R) * R + (n % R)
  <1>. USE DEF Rate
  <1>1. n \div R \in Nat
    OBVIOUS
  <1>2. n % R \in 0..(R - 1)
    OBVIOUS
  <1>3. n = (n \div R) * R + (n % R)
    OBVIOUS
  <1>. QED BY <1>1, <1>2, <1>3

\* A quotient and a remainder are the only ones.
LEMMA PartsAre ==
  ASSUME Rate, NEW n \in Nat, NEW k \in Nat, NEW p \in 0..(R - 1), n = k * R + p
  PROVE  n \div R = k /\ n % R = p
  BY DEF Rate

\* The boundary after block i.
LEMMA Multiples ==
  ASSUME Rate, NEW i \in Nat, NEW n \in Nat, i + 1 <= n
  PROVE  /\ i * R \in Nat /\ n * R \in Nat
         /\ (i + 1) * R = i * R + R /\ i * R + R <= n * R
  <1>1. i * R \in Nat /\ n * R \in Nat /\ (i + 1) * R = i * R + R
    BY DEF Rate
  <1>2. PICK j \in Nat : n = i + 1 + j
    <2>1. n - (i + 1) \in Nat /\ n = i + 1 + (n - (i + 1))
      OBVIOUS
    <2>. QED BY <2>1
  <1>3. n * R = i * R + R + j * R /\ j * R \in Nat
    BY <1>2 DEF Rate
  <1>. QED BY <1>1, <1>3 DEF Rate

\* The full blocks of a message, and what is left of it.
LEMMA WholeBlocks ==
  ASSUME Rate, NEW m \in Seq(Int)
  PROVE  /\ Len(m) \div R \in Nat /\ (Len(m) \div R) * R \in 0..Len(m)
         /\ Len(m) - (Len(m) \div R) * R = Len(m) % R
         /\ Len(m) % R \in 0..(R - 1)
  <1>. DEFINE q == Len(m) \div R
              p == Len(m) % R
              d == q * R
  <1>1. q \in Nat /\ p \in 0..(R - 1) /\ Len(m) = d + p /\ Len(m) \in Nat
    <2>1. Len(m) \in Nat
      OBVIOUS
    <2>. QED BY <2>1, Parts, Zenon
  <1>2. d \in Nat
    BY <1>1 DEF Rate
  <1>. HIDE DEF p, d
  <1>3. d \in 0..Len(m) /\ Len(m) - d = p
    BY <1>1, <1>2 DEF Rate
  <1>. QED BY <1>1, <1>3 DEF p, d

IsCat(s, t, u) ==
  /\ s \in Seq(Int) /\ t \in Seq(Int) /\ u \in Seq(Int)
  /\ Len(s) = Len(t) + Len(u)
  /\ \A i \in 1..Len(t) : s[i] = t[i]
  /\ \A i \in 1..Len(u) : s[Len(t) + i] = u[i]

\* A concatenation, byte by byte.
LEMMA Joined ==
  ASSUME NEW s \in Seq(Int), NEW t \in Seq(Int)
  PROVE  s \o t \in Seq(Int) /\ IsCat(s \o t, s, t)
  BY DEF IsCat

\* What agrees with a concatenation byte by byte is it.
LEMMA CatIs ==
  ASSUME NEW s, NEW t, NEW u, IsCat(s, t, u)
  PROVE  s = t \o u
  <1>1. IsCat(t \o u, t, u)
    BY Joined DEF IsCat
  <1>2. PICK v : v = t \o u
    OBVIOUS
  <1>3. /\ s \in Seq(Int) /\ v \in Seq(Int) /\ t \in Seq(Int) /\ u \in Seq(Int)
        /\ Len(s) = Len(v) /\ Len(s) = Len(t) + Len(u)
    BY <1>1, <1>2 DEF IsCat
  <1>4. ASSUME NEW i \in 1..Len(s) PROVE s[i] = v[i]
    <2>1. CASE i <= Len(t)
      BY <1>1, <1>2, <1>3, <2>1 DEF IsCat
    <2>2. CASE i > Len(t)
      <3>. DEFINE j == i - Len(t)
      <3>1. j \in 1..Len(u) /\ i = Len(t) + j
        BY <1>3, <2>2
      <3>. HIDE DEF j
      <3>2. s[Len(t) + j] = u[j] /\ v[Len(t) + j] = u[j]
        BY <1>1, <1>2, <3>1 DEF IsCat
      <3>. QED BY <3>1, <3>2
    <2>. QED BY <1>3, <2>1, <2>2
  <1>5. s = v
    <2>1. s \in Seq(Int) /\ v \in Seq(Int) /\ Len(s) = Len(v)
      BY <1>3
    <2>. QED BY <2>1, <1>4
  <1>. QED BY <1>2, <1>5

\* s and the first n bytes of t.
Upto(s, t, n) == s \o SubSeq(t, 1, n)

\* A longer prefix of t after s continues a shorter one.
LEMMA UptoGrows ==
  ASSUME NEW s \in Seq(Int), NEW t \in Seq(Int), NEW m \in 0..Len(t),
         NEW n \in m..Len(t)
  PROVE  /\ IsCat(Upto(s, t, n), Upto(s, t, m), SubSeq(t, m + 1, n))
         /\ Len(Upto(s, t, n)) = Len(s) + n
         /\ Len(SubSeq(t, m + 1, n)) = n - m
  <1>. DEFINE sm == SubSeq(t, 1, m)
              sn == SubSeq(t, 1, n)
              mid == SubSeq(t, m + 1, n)
  <1>1. sm \in Seq(Int) /\ Len(sm) = m /\ \A i \in 1..m : sm[i] = t[i]
    OBVIOUS
  <1>2. sn \in Seq(Int) /\ Len(sn) = n /\ \A i \in 1..n : sn[i] = t[i]
    OBVIOUS
  <1>3. /\ mid \in Seq(Int) /\ Len(mid) = n - m
        /\ \A i \in 1..(n - m) : mid[i] = t[m + i]
    <2>1. m + 1 \in 1..(Len(t) + 1) /\ n \in m..Len(t)
      OBVIOUS
    <2>2. mid \in Seq(Int) /\ Len(mid) = n - m
      OBVIOUS
    <2>3. ASSUME NEW i \in 1..(n - m) PROVE mid[i] = t[m + i]
      BY <2>1
    <2>. QED BY <2>2, <2>3
  <1>. HIDE DEF sm, sn, mid
  <1>4. IsCat(s \o sm, s, sm) /\ IsCat(s \o sn, s, sn)
    BY <1>1, <1>2, Joined
  <1>5. IsCat(s \o sn, s \o sm, mid)
    <2>. DEFINE a == s \o sm
                b == s \o sn
    <2>1. IsCat(a, s, sm) /\ IsCat(b, s, sn)
      BY <1>4
    <2>. HIDE DEF a, b
    <2>2. Len(a) = Len(s) + m /\ Len(b) = Len(s) + n /\ Len(s) \in Nat
      BY <1>1, <1>2, <2>1 DEF IsCat
    <2>3. ASSUME NEW i \in 1..Len(a) PROVE b[i] = a[i]
      <3>1. CASE i <= Len(s)
        BY <2>1, <2>2, <3>1 DEF IsCat
      <3>2. CASE i > Len(s)
        <4>. DEFINE j == i - Len(s)
        <4>1. j \in 1..m /\ j \in 1..n /\ i = Len(s) + j
          BY <2>2, <3>2
        <4>. HIDE DEF j
        <4>2. b[Len(s) + j] = sn[j] /\ a[Len(s) + j] = sm[j]
          BY <1>1, <1>2, <2>1, <4>1 DEF IsCat
        <4>3. sn[j] = sm[j]
          BY <1>1, <1>2, <4>1
        <4>. QED BY <4>1, <4>2, <4>3
      <3>. QED BY <2>2, <3>1, <3>2
    <2>4. ASSUME NEW i \in 1..Len(mid) PROVE b[Len(a) + i] = mid[i]
      <3>1. m + i \in 1..n /\ Len(a) + i = Len(s) + (m + i)
        BY <1>3, <2>2
      <3>. QED BY <1>2, <1>3, <2>1, <3>1 DEF IsCat
    <2>5. Len(b) = Len(a) + Len(mid)
      BY <1>3, <2>2
    <2>6. IsCat(b, a, mid)
      BY <1>3, <2>1, <2>3, <2>4, <2>5 DEF IsCat
    <2>. QED BY <2>6 DEF a, b
  <1>6. Len(s \o sn) = Len(s) + n
    BY <1>2, <1>4 DEF IsCat
  <1>. QED BY <1>3, <1>5, <1>6 DEF Upto, sm, sn, mid

\* None of t, and all of it.
LEMMA UptoEnds ==
  ASSUME NEW s \in Seq(Int), NEW t \in Seq(Int)
  PROVE  Upto(s, t, 0) = s /\ Upto(s, t, Len(t)) = s \o t
  BY DEF Upto

\* The bytes of block b of a message with their positions.
BytesOf(m, b) ==
  {<<p, m[(b - 1) * R + p + 1]>> :
     p \in {q \in 0..(R - 1) : (b - 1) * R + q + 1 <= Len(m)}}

\* The state that has absorbed k blocks of m, and the next one in part.
Held(m, k) == [past |-> [b \in 1..k |-> BytesOf(m, b)], cur |-> BytesOf(m, k + 1)]

\* Block b of k blocks ends within them.
LEMMA BlocksBefore ==
  ASSUME Rate, NEW k \in Nat, NEW b \in 1..k
  PROVE  /\ (b - 1) * R \in Nat /\ (b - 1) * R + R <= k * R
  BY DEF Rate

\* More bytes behind a full block leave it as it is.
LEMMA SameBytes ==
  ASSUME Rate, NEW s, NEW t, NEW u, IsCat(s, t, u), NEW k \in Nat,
         k * R <= Len(t), NEW b \in 1..k
  PROVE  BytesOf(s, b) = BytesOf(t, b)
  <1>. DEFINE d == (b - 1) * R
  <1>1. d \in Nat /\ d + R <= k * R /\ k * R \in Nat
    BY BlocksBefore DEF Rate
  <1>2. BytesOf(s, b) = {<<p, s[d + p + 1]>> : p \in {q \in 0..(R - 1) : d + q + 1 <= Len(s)}}
    BY DEF BytesOf
  <1>3. BytesOf(t, b) = {<<p, t[d + p + 1]>> : p \in {q \in 0..(R - 1) : d + q + 1 <= Len(t)}}
    BY DEF BytesOf
  <1>. HIDE DEF d
  <1>4. /\ Len(s) \in Nat /\ Len(t) \in Nat /\ Len(t) <= Len(s)
        /\ \A i \in 1..Len(t) : s[i] = t[i]
    BY DEF IsCat
  <1>5. \A q \in 0..(R - 1) : d + q + 1 \in 1..Len(t)
    BY <1>1, <1>4 DEF Rate
  <1>. QED BY <1>2, <1>3, <1>4, <1>5

\* Bytes that are XORed in behind those of a block continue the message.
LEMMA XorHeld ==
  ASSUME Rate, NEW s, NEW t, NEW u, IsCat(s, t, u), NEW k \in Nat,
         NEW at \in Nat, Len(t) = k * R + at, at + Len(u) <= R
  PROVE  Xor(Held(t, k), at, u) = Held(s, k)
  <1>. DEFINE d == k * R
              new == {<<at + i - 1, u[i]>> : i \in 1..Len(u)}
              old == BytesOf(t, k + 1)
  <1>1. d \in Nat /\ (k + 1 - 1) * R = d
    BY DEF Rate
  <1>2. \A m : BytesOf(m, k + 1) =
                 {<<p, m[d + p + 1]>> : p \in {q \in 0..(R - 1) : d + q + 1 <= Len(m)}}
    BY <1>1 DEF BytesOf
  <1>3. [b \in 1..k |-> BytesOf(t, b)] = [b \in 1..k |-> BytesOf(s, b)]
    BY SameBytes, <1>1
  <1>4. Len(t) = d + at
    OBVIOUS
  <1>. HIDE DEF d
  <1>5. /\ Len(s) \in Nat /\ Len(u) \in Nat /\ Len(s) = d + at + Len(u)
        /\ \A i \in 1..(d + at) : s[i] = t[i]
        /\ \A i \in 1..Len(u) : s[d + at + i] = u[i]
    BY <1>4, SMTT(30) DEF IsCat
  <1>6. \A e \in old : e[1] \in Int /\ e[1] < at
    BY <1>1, <1>2, <1>4 DEF Rate
  <1>7. \A e \in new : e[1] \in Int /\ e[1] >= at
    BY <1>5
  <1>8. old \cap new = {}
    <2>. HIDE DEF old, new
    <2>. SUFFICES ASSUME NEW e \in old, e \in new PROVE FALSE
      OBVIOUS
    <2>. QED BY <1>6, <1>7
  <1>9. old \union new = BytesOf(s, k + 1)
    <2>1. ASSUME NEW e \in BytesOf(s, k + 1) PROVE e \in old \union new
      <3>1. PICK p \in 0..(R - 1) : d + p + 1 <= Len(s) /\ e = <<p, s[d + p + 1]>>
        BY <2>1, <1>2
      <3>2. CASE p < at
        <4>1. d + p + 1 <= Len(t) /\ s[d + p + 1] = t[d + p + 1]
          BY <1>1, <1>4, <1>5, <3>2
        <4>. QED BY <1>2, <3>1, <4>1
      <3>3. CASE p >= at
        <4>1. PICK i \in 1..Len(u) : i = p - at + 1
          BY <1>1, <1>5, <3>1, <3>3
        <4>2. at + i - 1 = p /\ d + p + 1 = d + at + i
          BY <1>1, <4>1
        <4>3. s[d + p + 1] = u[i]
          BY <1>5, <4>2
        <4>. QED BY <3>1, <4>2, <4>3
      <3>. QED BY <3>2, <3>3
    <2>2. ASSUME NEW e \in old PROVE e \in BytesOf(s, k + 1)
      <3>1. PICK p \in 0..(R - 1) : d + p + 1 <= Len(t) /\ e = <<p, t[d + p + 1]>>
        BY <2>2, <1>2
      <3>2. d + p + 1 <= Len(s) /\ s[d + p + 1] = t[d + p + 1]
        BY <1>1, <1>4, <1>5, <3>1
      <3>. QED BY <1>2, <3>1, <3>2
    <2>3. ASSUME NEW e \in new PROVE e \in BytesOf(s, k + 1)
      <3>1. PICK i \in 1..Len(u) : e = <<at + i - 1, u[i]>>
        BY <2>3
      <3>2. PICK p \in 0..(R - 1) : p = at + i - 1
        BY <1>5, <3>1 DEF Rate
      <3>3. d + p + 1 <= Len(s) /\ s[d + p + 1] = u[i]
        BY <1>1, <1>5, <3>1, <3>2
      <3>. QED BY <1>2, <3>1, <3>2, <3>3
    <2>. HIDE DEF old, new
    <2>. QED BY <2>1, <2>2, <2>3
  <1>10. Xor(Held(t, k), at, u) =
           [past |-> Held(t, k).past, cur |-> (old \ new) \union (new \ old)]
    <2>. HIDE DEF new, old
    <2>1. PICK q : Held(t, k) = [past |-> q, cur |-> old]
      BY DEF Held, old
    <2>2. \A h : Xor(h, at, u) = [h EXCEPT !.cur = (@ \ new) \union (new \ @)]
      BY SMT DEF Xor, new
    <2>3. Held(t, k).past = q
      BY <2>1
    <2>4. Xor(Held(t, k), at, u) =
            [[past |-> q, cur |-> old] EXCEPT !.cur = (@ \ new) \union (new \ @)]
      BY <2>1, <2>2
    <2>. QED BY <2>3, <2>4
  <1>11. (old \ new) \union (new \ old) = old \union new
    <2>. HIDE DEF old, new
    <2>. QED BY <1>8
  <1>. QED BY <1>3, <1>9, <1>10, <1>11 DEF Held

\* A permutation ends the block.
LEMMA PermuteHeld ==
  ASSUME Rate, NEW m \in Seq(Int), NEW k \in Nat, Len(m) <= (k + 1) * R
  PROVE  Permute(Held(m, k)) = Held(m, k + 1)
  <1>. DEFINE blocks == [b \in 1..k |-> BytesOf(m, b)]
              more == [b \in 1..(k + 1) |-> BytesOf(m, b)]
  <1>1. BytesOf(m, k + 1 + 1) = {}
    <2>1. \A q \in 0..(R - 1) : ~ ((k + 1 + 1 - 1) * R + q + 1 <= Len(m))
      <3>1. (k + 1 + 1 - 1) * R = (k + 1) * R /\ (k + 1) * R \in Nat
        BY DEF Rate
      <3>. QED BY <3>1 DEF Rate
    <2>. QED BY <2>1 DEF BytesOf
  <1>2. Append(blocks, BytesOf(m, k + 1)) = more
    <2>. DEFINE T == {BytesOf(m, b) : b \in 1..(k + 1)}
    <2>1. blocks \in Seq(T) /\ Len(blocks) = k /\ more \in Seq(T) /\ Len(more) = k + 1
      OBVIOUS
    <2>2. \A b \in 1..k : blocks[b] = BytesOf(m, b)
      OBVIOUS
    <2>3. \A b \in 1..(k + 1) : more[b] = BytesOf(m, b)
      OBVIOUS
    <2>. HIDE DEF blocks, more
    <2>. QED BY <2>1, <2>2, <2>3
  <1>3. Held(m, k).past = blocks /\ Held(m, k).cur = BytesOf(m, k + 1)
    BY DEF Held
  <1>. HIDE DEF blocks, more
  <1>4. Permute(Held(m, k)) = [past |-> more, cur |-> {}]
    BY <1>2, <1>3 DEF Permute
  <1>. QED BY <1>1, <1>4 DEF Held, more

\* The states of a loop over full blocks.
LEMMA AfterBlocksTurns ==
  ASSUME NEW s, NEW in, NEW n \in Nat, Len(in) \div R = n
  PROVE  /\ AfterBlocks(s, in)[0] = s
         /\ \A i \in 1..n :
              AfterBlocks(s, in)[i] =
                Permute(Xor(AfterBlocks(s, in)[i - 1], 0,
                            SubSeq(in, (i - 1) * R + 1, i * R)))
  <1>. DEFINE Then(x, i) == Permute(Xor(x, 0, SubSeq(in, (i - 1) * R + 1, i * R)))
              IsLoop(f, m) == f = [i \in 0..m |-> IF i = 0 THEN s ELSE Then(f[i - 1], i)]
              S == {m \in Nat : \E f : IsLoop(f, m)}
  <1>1. 0 \in S
    <2>1. IsLoop([i \in 0..0 |-> s], 0)
      OBVIOUS
    <2>. QED BY <2>1
  <1>2. ASSUME NEW m \in Nat, m \in S PROVE m + 1 \in S
    <2>1. PICK f : IsLoop(f, m)
      BY <1>2
    <2>. HIDE DEF Then
    <2>. DEFINE g == [i \in 0..(m + 1) |-> IF i <= m THEN f[i] ELSE Then(f[m], m + 1)]
    <2>. HIDE DEF IsLoop
    <2>2. \A i \in 0..(m + 1) : g[i] = IF i = 0 THEN s ELSE Then(g[i - 1], i)
      <3>1. \A i \in 0..m : f[i] = IF i = 0 THEN s ELSE Then(f[i - 1], i)
        BY <2>1 DEF IsLoop
      <3>. QED BY <3>1
    <2>3. IsLoop(g, m + 1)
      BY <2>2 DEF IsLoop
    <2>. QED BY <2>3
  <1>3. \E f : IsLoop(f, n)
    <2>. HIDE DEF S
    <2>1. n \in S
      BY <1>1, <1>2, SetInduction
    <2>. QED BY <2>1 DEF S
  <1>4. IsLoop(AfterBlocks(s, in), n)
    BY <1>3 DEF AfterBlocks
  <1>. HIDE DEF Then
  <1>5. AfterBlocks(s, in)[0] = s /\ \A i \in 1..n : AfterBlocks(s, in)[i] = Then(AfterBlocks(s, in)[i - 1], i)
    BY <1>4
  <1>. QED BY <1>5 DEF Then

\* After n turns n blocks more have been absorbed.
LEMMA AfterBlocksHeld ==
  ASSUME Rate, NEW m \in Seq(Int), NEW in \in Seq(Int), NEW k \in Nat,
         Len(m) = k * R, NEW n \in Nat, Len(in) \div R = n
  PROVE  AfterBlocks(Held(m, k), in)[n] = Held(Upto(m, in, n * R), k + n)
  <1>. DEFINE a == AfterBlocks(Held(m, k), in)
              S == {i \in Nat : i <= n => a[i] = Held(Upto(m, in, i * R), k + i)}
  <1>1. /\ a[0] = Held(m, k)
        /\ \A i \in 1..n : a[i] = Permute(Xor(a[i - 1], 0, SubSeq(in, (i - 1) * R + 1, i * R)))
    BY AfterBlocksTurns
  <1>. HIDE DEF a
  <1>2. 0 \in S
    BY <1>1, UptoEnds DEF Rate
  <1>3. ASSUME NEW i \in Nat, i \in S PROVE i + 1 \in S
    <2>. SUFFICES ASSUME i + 1 <= n
                  PROVE  a[i + 1] = Held(Upto(m, in, (i + 1) * R), k + (i + 1))
      OBVIOUS
    <2>. DEFINE lo == i * R
                hi == (i + 1) * R
                old == Upto(m, in, lo)
                new == Upto(m, in, hi)
                piece == SubSeq(in, lo + 1, hi)
    <2>1. a[i] = Held(old, k + i)
      BY <1>3
    <2>2. a[i + 1] = Permute(Xor(Held(old, k + i), 0, piece))
      <3>1. i + 1 \in 1..n /\ (i + 1) - 1 = i
        OBVIOUS
      <3>. QED BY <1>1, <2>1, <3>1
    <2>3. lo \in 0..Len(in) /\ hi \in lo..Len(in) /\ hi - lo = R
      <3>1. n * R \in 0..Len(in)
        BY WholeBlocks
      <3>2. lo \in Nat /\ hi = lo + R /\ lo + R <= n * R
        BY Multiples
      <3>. HIDE DEF lo, hi
      <3>. QED BY <3>1, <3>2 DEF Rate
    <2>4. (k + i) * R = Len(m) + lo /\ (k + i + 1) * R = Len(m) + hi
      BY DEF Rate
    <2>. HIDE DEF lo, hi
    <2>5. /\ IsCat(new, old, piece) /\ Len(old) = Len(m) + lo
          /\ Len(new) = Len(m) + hi /\ Len(piece) = R
      <3>1. IsCat(new, old, piece) /\ Len(new) = Len(m) + hi /\ Len(piece) = hi - lo
        BY <2>3, UptoGrows, Zenon
      <3>2. Len(old) = Len(m) + lo
        BY <2>3, UptoGrows
      <3>. QED BY <2>3, <3>1, <3>2
    <2>. HIDE DEF old, new, piece
    <2>6. Xor(Held(old, k + i), 0, piece) = Held(new, k + i)
      <3>1. k + i \in Nat /\ 0 \in Nat /\ Len(old) = (k + i) * R + 0 /\ 0 + Len(piece) <= R
        BY <2>3, <2>4, <2>5 DEF Rate
      <3>. QED BY <2>5, <3>1, XorHeld
    <2>7. Permute(Held(new, k + i)) = Held(new, k + i + 1)
      <3>1. new \in Seq(Int)
        BY <2>5 DEF IsCat
      <3>. QED BY <2>4, <2>5, <3>1, PermuteHeld
    <2>. QED BY <2>2, <2>6, <2>7 DEF new, hi
  <1>4. n \in S
    <2>. HIDE DEF S
    <2>. QED BY <1>2, <1>3, SetInduction
  <1>. QED BY <1>4 DEF a

\* Absorbing at the start of a block continues the message.
LEMMA AbsorbBlocksHeld ==
  ASSUME Rate, NEW m \in Seq(Int), NEW in \in Seq(Int), NEW k \in Nat,
         Len(m) = k * R
  PROVE  AbsorbBlocks(Held(m, k), in) = Held(m \o in, k + (Len(in) \div R))
  <1>. DEFINE n == Len(in) \div R
              lo == n * R
              old == Upto(m, in, lo)
              rest == SubSeq(in, lo + 1, Len(in))
  <1>1. AbsorbBlocks(Held(m, k), in) = Xor(AfterBlocks(Held(m, k), in)[n], 0, rest)
    BY DEF AbsorbBlocks
  <1>2. n \in Nat /\ lo \in 0..Len(in) /\ Len(in) \in lo..Len(in) /\ Len(in) - lo < R
    <2>1. n \in Nat /\ lo \in 0..Len(in) /\ Len(in) - lo \in 0..(R - 1)
      BY WholeBlocks
    <2>. HIDE DEF n, lo
    <2>. QED BY <2>1 DEF Rate
  <1>3. AfterBlocks(Held(m, k), in)[n] = Held(old, k + n)
    BY <1>2, AfterBlocksHeld
  <1>4. (k + n) * R = Len(m) + lo
    BY <1>2 DEF Rate
  <1>. HIDE DEF n, lo
  <1>5. IsCat(m \o in, old, rest) /\ Len(old) = Len(m) + lo /\ Len(rest) = Len(in) - lo
    <2>1. /\ IsCat(Upto(m, in, Len(in)), old, rest) /\ Len(rest) = Len(in) - lo
      BY <1>2, UptoGrows
    <2>2. Len(old) = Len(m) + lo
      BY <1>2, UptoGrows
    <2>. QED BY <2>1, <2>2, UptoEnds
  <1>. HIDE DEF old, rest
  <1>6. Xor(Held(old, k + n), 0, rest) = Held(m \o in, k + n)
    <2>1. k + n \in Nat /\ 0 \in Nat /\ Len(old) = (k + n) * R + 0 /\ 0 + Len(rest) <= R
      BY <1>2, <1>4, <1>5 DEF Rate
    <2>. QED BY <1>5, <2>1, XorHeld
  <1>. QED BY <1>1, <1>3, <1>6 DEF n

-----------------------------------------------------------------------------
(* Absorbing.                                                              *)

\* A hash context that absorbs, and one that puts out.
Absorbing(s, l) ==
  [state |-> s, msg_len |-> l, offset |-> 0, squeeze_more |-> FALSE]
Squeezing(s, l, o) ==
  [state |-> s, msg_len |-> l, offset |-> o, squeeze_more |-> TRUE]

\* The state and the context after absorbing m.
HeldAll(m) == Held(m, Len(m) \div R)

Absorbed(m) == Absorbing(HeldAll(m), Len(m))

\* A context after init has absorbed the empty message.
LEMMA FreshIsAbsorbed ==
  ASSUME Rate
  PROVE  FreshContext = Absorbed(<<>>)
  <1>1. Len(<<>>) = 0 /\ 0 \div R = 0
    BY DEF Rate
  <1>2. BytesOf(<<>>, 0 + 1) = {}
    BY <1>1 DEF BytesOf, Rate
  <1>3. [b \in 1..0 |-> BytesOf(<<>>, b)] = <<>>
    OBVIOUS
  <1>. QED BY <1>1, <1>2, <1>3 DEF FreshContext, EmptyState, Absorbed, Absorbing,
                                   HeldAll, Held

\* An update that begins at the start of a block.
LEMMA FromBoundary ==
  ASSUME Rate, NEW m \in Seq(Int), NEW in \in Seq(Int), Len(m) % R = 0
  PROVE  AbsorbBlocks(HeldAll(m), in) = HeldAll(m \o in)
  <1>. DEFINE k == Len(m) \div R
              n == Len(in) \div R
              d == k * R
              e == n * R
              p == Len(in) - e
  <1>1. k \in Nat /\ Len(m) = d
    BY WholeBlocks
  <1>2. n \in Nat /\ e \in 0..Len(in) /\ p \in 0..(R - 1)
    BY WholeBlocks
  <1>3. AbsorbBlocks(Held(m, k), in) = Held(m \o in, k + n)
    BY <1>1, AbsorbBlocksHeld
  <1>4. Len(m \o in) = Len(m) + Len(in) /\ Len(m) + Len(in) \in Nat
    OBVIOUS
  <1>5. (k + n) * R = d + e
    BY <1>1, <1>2 DEF Rate
  <1>6. Len(m \o in) = (k + n) * R + p /\ k + n \in Nat
    <2>. HIDE DEF k, n, d, e
    <2>. QED BY <1>1, <1>2, <1>4, <1>5
  <1>7. Len(m \o in) \div R = k + n
    <2>. HIDE DEF k, n, p
    <2>. QED BY <1>2, <1>4, <1>6, PartsAre
  <1>. QED BY <1>3, <1>7 DEF HeldAll

\* The state after a message of k blocks and p bytes.
LEMMA HeldAllIs ==
  ASSUME Rate, NEW m \in Seq(Int), NEW k \in Nat, NEW p \in 0..(R - 1),
         Len(m) = k * R + p
  PROVE  HeldAll(m) = Held(m, k)
  <1>1. Len(m) \div R = k
    BY PartsAre
  <1>. QED BY <1>1 DEF HeldAll

\* An update that ends in the block it begins in.
LEMMA InsideBlock ==
  ASSUME Rate, NEW m \in Seq(Int), NEW in \in Seq(Int), NEW k \in Nat,
         NEW p \in 0..(R - 1), Len(m) = k * R + p, p + Len(in) < R
  PROVE  Xor(Held(m, k), p, in) = HeldAll(m \o in)
  <1>1. IsCat(m \o in, m, in) /\ m \o in \in Seq(Int) /\ Len(in) \in Nat
    BY Joined
  <1>2. Xor(Held(m, k), p, in) = Held(m \o in, k)
    <2>1. p + Len(in) <= R /\ p \in Nat
      BY <1>1 DEF Rate
    <2>. QED BY <1>1, <2>1, XorHeld
  <1>3. k * R \in Nat
    BY DEF Rate
  <1>4. Len(m \o in) = k * R + (p + Len(in)) /\ p + Len(in) \in 0..(R - 1)
    <2>. DEFINE d == k * R
    <2>1. d \in Nat /\ Len(m) = d + p
      BY <1>3
    <2>. HIDE DEF d
    <2>2. Len(m \o in) = d + (p + Len(in)) /\ p + Len(in) \in 0..(R - 1)
      BY <1>1, <2>1 DEF IsCat, Rate
    <2>. QED BY <2>2 DEF d
  <1>. QED BY <1>1, <1>2, <1>4, HeldAllIs

\* An update that fills the block it begins in.
LEMMA OverBoundary ==
  ASSUME Rate, NEW m \in Seq(Int), NEW in \in Seq(Int), NEW k \in Nat,
         NEW p \in 0..(R - 1), Len(m) = k * R + p, NEW todo \in 1..R,
         p + todo = R, Len(in) >= todo
  PROVE  AbsorbBlocks(Permute(Xor(Held(m, k), p, SubSeq(in, 1, todo))),
                      SubSeq(in, todo + 1, Len(in))) = HeldAll(m \o in)
  <1>. DEFINE first == SubSeq(in, 1, todo)
              rest == SubSeq(in, todo + 1, Len(in))
              mid == Upto(m, in, todo)
  <1>1. todo \in 0..Len(in) /\ Len(in) \in todo..Len(in)
    BY DEF Rate
  <1>2. IsCat(mid, m, first) /\ IsCat(m \o in, mid, rest)
    <2>1. IsCat(mid, Upto(m, in, 0), SubSeq(in, 0 + 1, todo))
      <3>1. 0 \in 0..Len(in) /\ todo \in 0..Len(in)
        BY <1>1
      <3>. QED BY <3>1, UptoGrows, Zenon
    <2>2. IsCat(Upto(m, in, Len(in)), mid, rest)
      BY <1>1, UptoGrows, Zenon
    <2>3. 0 + 1 = 1
      OBVIOUS
    <2>. QED BY <2>1, <2>2, <2>3, UptoEnds, Zenon
  <1>3. Len(first) = todo
    BY <1>1
  <1>4. m \o in = mid \o rest
    BY <1>2, CatIs, Zenon
  <1>5. mid \in Seq(Int) /\ rest \in Seq(Int)
    BY <1>2, Zenon DEF IsCat
  <1>. HIDE DEF first, rest, mid
  <1>6. Len(mid) = (k + 1) * R /\ (k + 1) * R \in Nat
    <2>. DEFINE d == k * R
    <2>1. d \in Nat /\ Len(m) = d + p /\ (k + 1) * R = d + R
      BY DEF Rate
    <2>2. Len(mid) = Len(m) + todo
      BY <1>2, <1>3 DEF IsCat
    <2>. HIDE DEF d
    <2>3. Len(mid) = d + R /\ d + R \in Nat
      BY <2>1, <2>2 DEF Rate
    <2>. QED BY <2>1, <2>3
  <1>7. Xor(Held(m, k), p, first) = Held(mid, k)
    <2>1. p + Len(first) <= R /\ p \in Nat
      BY <1>3 DEF Rate
    <2>. QED BY <1>2, <2>1, XorHeld
  <1>8. Permute(Held(mid, k)) = Held(mid, k + 1)
    <2>1. Len(mid) <= (k + 1) * R
      BY <1>6
    <2>. QED BY <1>5, <2>1, PermuteHeld
  <1>9. Len(mid) \div R = k + 1 /\ Len(mid) % R = 0
    <2>1. Len(mid) = (k + 1) * R + 0 /\ 0 \in 0..(R - 1) /\ k + 1 \in Nat /\ Len(mid) \in Nat
      BY <1>6 DEF Rate
    <2>. QED BY <2>1, PartsAre
  <1>10. AbsorbBlocks(HeldAll(mid), rest) = HeldAll(mid \o rest)
    BY <1>5, <1>9, FromBoundary
  <1>. QED BY <1>4, <1>7, <1>8, <1>9, <1>10 DEF HeldAll, first, rest

\* The state x after absorbing in, with p bytes in its block.
TakenFrom(x, p, in, permute) ==
  LET filled == Xor(x, p, SubSeq(in, 1, R - p))
  IN CASE p = 0 -> AbsorbBlocks(x, in)
       [] p # 0 /\ Len(in) < R - p -> Xor(x, p, in)
       [] p # 0 /\ Len(in) >= R - p ->
            AbsorbBlocks(IF permute THEN Permute(filled) ELSE filled,
                         SubSeq(in, R - p + 1, Len(in)))

Taken(m, in, permute) ==
  [state |-> TakenFrom(HeldAll(m), Len(m) % R, in, permute),
   msg_len |-> Len(m) + Len(in), offset |-> 0, squeeze_more |-> FALSE]

\* Both absorb functions, on the context of a message.
LEMMA AbsorbTakes ==
  ASSUME NEW m, NEW in
  PROVE  /\ KeccakAbsorb(Absorbed(m), in) = Taken(m, in, TRUE)
         /\ AsconAbsorb(Absorbed(m), in) =
              Taken(m, in, Len(SubSeq(in, R - (Len(m) % R) + 1, Len(in))) > 0)
  <1>1. \A c : KeccakAbsorb(c, in) =
                 [state |-> TakenFrom(c.state, c.msg_len % R, in, TRUE),
                  msg_len |-> c.msg_len + Len(in), offset |-> c.offset,
                  squeeze_more |-> FALSE]
    BY DEF KeccakAbsorb, Absorb, TakenFrom
  <1>2. \A c : AsconAbsorb(c, in) =
                 [state |->
                    TakenFrom(c.state, c.msg_len % R, in,
                      Len(SubSeq(in, R - (c.msg_len % R) + 1, Len(in))) > 0),
                  msg_len |-> c.msg_len + Len(in), offset |-> c.offset,
                  squeeze_more |-> FALSE]
    BY DEF AsconAbsorb, Absorb, TakenFrom
  <1>3. /\ Absorbed(m).state = HeldAll(m) /\ Absorbed(m).msg_len = Len(m)
        /\ Absorbed(m).offset = 0
    BY DEF Absorbed, Absorbing
  <1>4. KeccakAbsorb(Absorbed(m), in) = Taken(m, in, TRUE)
    BY <1>1, <1>3, Zenon DEF Taken
  <1>5. AsconAbsorb(Absorbed(m), in) =
          Taken(m, in, Len(SubSeq(in, R - (Len(m) % R) + 1, Len(in))) > 0)
    BY <1>2, <1>3, Zenon DEF Taken
  <1>. QED BY <1>4, <1>5

\* The first two cases of an update.
LEMMA TakenCases ==
  ASSUME Rate, NEW x, NEW p \in 0..(R - 1), NEW in \in Seq(Int), NEW permute,
         NEW todo, todo = R - p
  PROVE  /\ p = 0 => TakenFrom(x, p, in, permute) = AbsorbBlocks(x, in)
         /\ p # 0 /\ Len(in) < todo =>
              TakenFrom(x, p, in, permute) = Xor(x, p, in)
  <1>1. CASE p = 0
    BY <1>1 DEF TakenFrom
  <1>2. CASE p # 0 /\ Len(in) < todo
    BY <1>2 DEF TakenFrom, Rate
  <1>. QED BY <1>1, <1>2

\* The third case, if the filled block is permuted.
LEMMA TakenOver ==
  ASSUME Rate, NEW x, NEW p \in 0..(R - 1), NEW in \in Seq(Int), NEW permute,
         NEW todo, todo = R - p, p # 0, Len(in) >= todo, permute
  PROVE  TakenFrom(x, p, in, permute) =
           AbsorbBlocks(Permute(Xor(x, p, SubSeq(in, 1, todo))),
                        SubSeq(in, todo + 1, Len(in)))
  <1>1. Len(in) \in Nat /\ todo \in Nat
    BY DEF Rate
  <1>. QED BY <1>1 DEF TakenFrom

\* An update continues the message if it permutes each block it fills.
LEMMA TakenIs ==
  ASSUME Rate, NEW m \in Seq(Int), NEW in \in Seq(Int), NEW permute \in BOOLEAN,
         Len(m) % R # 0 /\ Len(in) >= R - (Len(m) % R) => permute
  PROVE  Taken(m, in, permute) = Absorbed(m \o in)
  <1>1. PICK k \in Nat, p \in 0..(R - 1) :
          p = Len(m) % R /\ k = Len(m) \div R /\ Len(m) = k * R + p
    <2>1. Len(m) \in Nat
      OBVIOUS
    <2>. QED BY <2>1, Parts, Zenon
  <1>2. PICK todo \in 1..R : todo = R - p /\ p + todo = R
    <2>1. R - p \in 1..R /\ p + (R - p) = R
      BY DEF Rate
    <2>. QED BY <2>1, Zenon
  <1>3. Len(in) \in Nat /\ Len(m \o in) = Len(m) + Len(in)
    OBVIOUS
  <1>4. HeldAll(m) = Held(m, k)
    BY <1>1, Zenon DEF HeldAll
  <1>5. TakenFrom(HeldAll(m), p, in, permute) = HeldAll(m \o in)
    <2>1. CASE p = 0
      <3>1. TakenFrom(HeldAll(m), p, in, permute) = AbsorbBlocks(HeldAll(m), in)
        BY <1>2, <2>1, TakenCases, Zenon
      <3>. QED BY <1>1, <2>1, <3>1, FromBoundary, Zenon
    <2>2. CASE p # 0 /\ Len(in) < todo
      <3>1. TakenFrom(HeldAll(m), p, in, permute) = Xor(Held(m, k), p, in)
        <4>1. TakenFrom(HeldAll(m), p, in, permute) = Xor(HeldAll(m), p, in)
          BY <1>2, <2>2, TakenCases
        <4>. QED BY <1>4, <4>1
      <3>2. p + Len(in) < R
        BY <1>2, <1>3, <2>2 DEF Rate
      <3>. QED BY <1>1, <3>1, <3>2, InsideBlock, Zenon
    <2>3. CASE p # 0 /\ Len(in) >= todo
      <3>1. permute
        BY <1>1, <1>2, <2>3, Zenon
      <3>2. TakenFrom(HeldAll(m), p, in, permute) =
              AbsorbBlocks(Permute(Xor(Held(m, k), p, SubSeq(in, 1, todo))),
                             SubSeq(in, todo + 1, Len(in)))
        <4>1. TakenFrom(HeldAll(m), p, in, permute) =
                AbsorbBlocks(Permute(Xor(HeldAll(m), p, SubSeq(in, 1, todo))),
                             SubSeq(in, todo + 1, Len(in)))
          BY <1>2, <2>3, <3>1, TakenOver, ZenonT(40)
        <4>. QED BY <1>4, <4>1
      <3>. QED BY <1>1, <1>2, <2>3, <3>2, OverBoundary, Zenon
    <2>. QED BY <1>2, <1>3, <2>1, <2>2, <2>3
  <1>. QED BY <1>1, <1>3, <1>5, Zenon DEF Taken, Absorbed, Absorbing

\* keccak_absorb: the context after two pieces is that of their concatenation.
LEMMA KeccakAbsorbs ==
  ASSUME Rate, NEW m \in Seq(Int), NEW in \in Seq(Int)
  PROVE  KeccakAbsorb(Absorbed(m), in) = Absorbed(m \o in)
  BY AbsorbTakes, TakenIs

\* ascon_hash.h: a partial block that the input fills exactly is not permuted.
LEMMA AsconAbsorbs ==
  ASSUME Rate, NEW m \in Seq(Int), NEW in \in Seq(Int),
         ~ (Len(m) % R # 0 /\ (Len(m) + Len(in)) % R = 0)
  PROVE  AsconAbsorb(Absorbed(m), in) = Absorbed(m \o in)
  <1>1. PICK k \in Nat, p \in 0..(R - 1) :
          p = Len(m) % R /\ k = Len(m) \div R /\ Len(m) = k * R + p
    <2>1. Len(m) \in Nat
      OBVIOUS
    <2>. QED BY <2>1, Parts, Zenon
  <1>. DEFINE more == Len(SubSeq(in, R - p + 1, Len(in))) > 0
  <1>2. ASSUME p # 0, Len(in) >= R - p PROVE more
    <2>1. PICK l \in Nat : l = Len(in)
      OBVIOUS
    <2>2. Len(SubSeq(in, R - p + 1, Len(in))) = Len(in) - (R - p)
      BY <1>2 DEF Rate
    <2>3. CASE Len(in) = R - p
      <3>1. (k + 1) * R = k * R + R /\ k * R \in Nat
        BY DEF Rate
      <3>2. Len(m) + Len(in) = (k + 1) * R + 0 /\ Len(m) + Len(in) \in Nat
        <4>. DEFINE d == k * R
                    e == (k + 1) * R
        <4>1. e = d + R /\ d \in Nat /\ Len(m) = d + p
          BY <1>1, <3>1
        <4>. HIDE DEF d, e
        <4>2. Len(m) + Len(in) = e + 0 /\ Len(m) + Len(in) \in Nat
          BY <4>1, <2>1, <2>3 DEF Rate
        <4>. QED BY <4>2 DEF e
      <3>3. (Len(m) + Len(in)) % R = 0
        <4>1. 0 \in 0..(R - 1) /\ k + 1 \in Nat
          BY DEF Rate
        <4>. QED BY <3>2, <4>1, PartsAre
      <3>. QED BY <1>1, <1>2, <3>3, Zenon
    <2>4. CASE Len(in) # R - p
      BY <1>2, <2>1, <2>2, <2>4 DEF Rate
    <2>. QED BY <2>3, <2>4
  <1>3. more \in BOOLEAN
    OBVIOUS
  <1>. HIDE DEF more
  <1>4. Taken(m, in, more) = Absorbed(m \o in)
    BY <1>1, <1>2, <1>3, TakenIs, Zenon
  <1>. QED BY <1>1, <1>4, AbsorbTakes, Zenon DEF more

-----------------------------------------------------------------------------
(* Padding.                                                                *)

\* The blocks of the standard hold the bytes of the message.
LEMMA PaddedBlock ==
  ASSUME Rate, NEW m \in Seq(Int), NEW b \in Nat, b >= 1
  PROVE  {<<i - (b - 1) * R - 1, m[i]>> :
            i \in {j \in 1..Len(m) : (j - 1) \div R = b - 1}} = BytesOf(m, b)
  <1>. DEFINE d == (b - 1) * R
              X == {<<i - d - 1, m[i]>> : i \in {j \in 1..Len(m) : (j - 1) \div R = b - 1}}
              Y == {<<p, m[d + p + 1]>> : p \in {q \in 0..(R - 1) : d + q + 1 <= Len(m)}}
  <1>1. d \in Nat /\ b - 1 \in Nat
    BY DEF Rate
  <1>2. ASSUME NEW e \in X PROVE e \in Y
    <2>1. PICK i \in 1..Len(m) : (i - 1) \div R = b - 1 /\ e = <<i - d - 1, m[i]>>
      BY <1>2
    <2>2. i - 1 \in Nat
      OBVIOUS
    <2>3. i - 1 = d + ((i - 1) % R) /\ (i - 1) % R \in 0..(R - 1)
      BY <2>1, <2>2, Parts
    <2>4. PICK p \in 0..(R - 1) : i - 1 = d + p
      BY <2>3, Zenon
    <2>. HIDE DEF d
    <2>5. i - d - 1 = p /\ i = d + p + 1 /\ d + p + 1 <= Len(m)
      BY <1>1, <2>4
    <2>. QED BY <2>1, <2>5
  <1>3. ASSUME NEW e \in Y PROVE e \in X
    <2>1. PICK p \in 0..(R - 1) : d + p + 1 <= Len(m) /\ e = <<p, m[d + p + 1]>>
      BY <1>3
    <2>2. (d + p) \div R = b - 1
      <3>1. d + p \in Nat
        BY <1>1
      <3>2. PICK n \in Nat : n = d + p
        BY <3>1
      <3>. QED BY <1>1, <3>2, PartsAre
    <2>. HIDE DEF d
    <2>3. PICK i \in 1..Len(m) : i = d + p + 1 /\ i - 1 = d + p /\ i - d - 1 = p
      <3>1. d + p + 1 \in 1..Len(m) /\ d + p + 1 - 1 = d + p /\ d + p + 1 - d - 1 = p
        BY <1>1, <2>1
      <3>. QED BY <1>1, <3>1
    <2>. QED BY <2>1, <2>2, <2>3
  <1>4. X = Y
    <2>. HIDE DEF X, Y
    <2>. QED BY <1>2, <1>3
  <1>5. Y = BytesOf(m, b)
    BY DEF BytesOf
  <1>. QED BY <1>4, <1>5

\* A function on 1..n is a sequence.
LEMMA FunIsSeq ==
  ASSUME NEW T, NEW n \in Nat, NEW f \in [1..n -> T]
  PROVE  f \in Seq(T) /\ Len(f) = n
  OBVIOUS

\* Sequences with the same elements are the same.
LEMMA SeqSame ==
  ASSUME NEW T, NEW s \in Seq(T), NEW t \in Seq(T), Len(s) = Len(t),
         \A i \in 1..Len(s) : s[i] = t[i]
  PROVE  s = t
  OBVIOUS

\* A sequence is its front with its last element appended.
LEMMA AppendIs ==
  ASSUME NEW T, NEW k \in Nat, NEW f \in [1..k -> T], NEW g \in [1..(k + 1) -> T],
         \A b \in 1..k : g[b] = f[b]
  PROVE  g = Append(f, g[k + 1])
  <1>1. f \in Seq(T) /\ Len(f) = k /\ g \in Seq(T) /\ Len(g) = k + 1
    BY FunIsSeq
  <1>2. PICK x \in T : x = g[k + 1]
    OBVIOUS
  <1>3. PICK h : h = Append(f, x)
    OBVIOUS
  <1>4. /\ h \in Seq(T) /\ Len(h) = k + 1 /\ h[k + 1] = x
        /\ \A b \in 1..k : h[b] = f[b]
    BY <1>1, <1>3
  <1>5. \A b \in 1..(k + 1) : g[b] = h[b]
    BY <1>2, <1>4
  <1>6. g = h
    BY <1>1, <1>4, <1>5, SeqSame
  <1>. QED BY <1>2, <1>3, <1>6

\* What a message and its padding leave behind: the blocks before the last
\* one are those of the message.
LEMMA PaddedIs ==
  ASSUME Rate, NEW m \in Seq(Int), NEW ends, NEW k \in Nat, k = Len(m) \div R
  PROVE  PaddedBlocks(m, ends) =
           Append(Held(m, k).past, BytesOf(m, k + 1) \union ends)
  <1>. DEFINE F(b) == {<<i - (b - 1) * R - 1, m[i]>> :
                         i \in {j \in 1..Len(m) : (j - 1) \div R = b - 1}}
              P == [b \in 1..(k + 1) |->
                      F(b) \union (IF b = k + 1 THEN ends ELSE {})]
              Q == [b \in 1..k |-> BytesOf(m, b)]
              T == {BytesOf(m, b) : b \in 1..(k + 1)} \union {BytesOf(m, k + 1) \union ends}
  <1>1. PaddedBlocks(m, ends) = P
    BY DEF PaddedBlocks
  <1>2. \A b \in 1..(k + 1) : F(b) = BytesOf(m, b)
    BY PaddedBlock
  <1>. HIDE DEF F
  <1>3. ASSUME NEW b \in 1..(k + 1)
        PROVE  P[b] = IF b = k + 1 THEN BytesOf(m, k + 1) \union ends
                                   ELSE BytesOf(m, b)
    <2>1. F(b) = BytesOf(m, b)
      BY <1>2
    <2>2. P[b] = F(b) \union (IF b = k + 1 THEN ends ELSE {})
      OBVIOUS
    <2>. HIDE DEF P
    <2>. QED BY <2>1, <2>2
  <1>4. P \in [1..(k + 1) -> T]
    <2>1. P = [b \in 1..(k + 1) |-> P[b]]
      OBVIOUS
    <2>. HIDE DEF P
    <2>2. ASSUME NEW b \in 1..(k + 1) PROVE P[b] \in T
      BY <1>3
    <2>. HIDE DEF T
    <2>. QED BY <2>1, <2>2
  <1>5. Q \in [1..k -> T] /\ \A b \in 1..k : Q[b] = BytesOf(m, b)
    <2>1. \A b \in 1..k : Q[b] = BytesOf(m, b)
      OBVIOUS
    <2>2. \A b \in 1..k : BytesOf(m, b) \in T
      OBVIOUS
    <2>. HIDE DEF T
    <2>. QED BY <2>1, <2>2
  <1>. HIDE DEF P, Q, T
  <1>6. P[k + 1] = BytesOf(m, k + 1) \union ends /\ \A b \in 1..k : P[b] = Q[b]
    BY <1>3, <1>5
  <1>7. P = Append(Q, P[k + 1])
    BY <1>4, <1>5, <1>6, AppendIs
  <1>. QED BY <1>1, <1>6, <1>7 DEF Held, Q

\* The blocks are elements of a set to which the empty block belongs.
LEMMA PaddedIsSeq ==
  ASSUME Rate, NEW m \in Seq(Int), NEW ends
  PROVE  \E T : PaddedBlocks(m, ends) \in Seq(T) /\ {} \in T
  <1>1. PICK k \in Nat : k = Len(m) \div R
    BY WholeBlocks
  <1>2. PICK f, F : /\ PaddedBlocks(m, ends) = f
                    /\ f = [b \in 1..(k + 1) |-> F[b]]
    <2>1. PaddedBlocks(m, ends) = [b \in 1..(k + 1) |-> PaddedBlocks(m, ends)[b]]
      BY <1>1 DEF PaddedBlocks
    <2>. QED BY <2>1
  <1>. DEFINE T == {f[b] : b \in 1..(k + 1)} \union {{}}
  <1>3. f \in [1..(k + 1) -> T]
    BY <1>2
  <1>4. f \in Seq(T)
    <2>. HIDE DEF T
    <2>. QED BY <1>3, FunIsSeq
  <1>. QED BY <1>2, <1>4

\* The state when the padded message and q further blocks have been permuted.
Ended(m, ends, q) ==
  [past |-> PaddedBlocks(m, ends) \o [i \in 1..q |-> {}], cur |-> {}]

\* The padding ends the message.
LEMMA PermuteFilled ==
  ASSUME Rate, NEW m \in Seq(Int), NEW ends
  PROVE  Permute([past |-> HeldAll(m).past, cur |-> HeldAll(m).cur \union ends]) =
           Ended(m, ends, 0)
  <1>1. PICK k \in Nat : k = Len(m) \div R
    BY WholeBlocks
  <1>2. PICK p : p = PaddedBlocks(m, ends)
    OBVIOUS
  <1>3. p = Append(HeldAll(m).past, HeldAll(m).cur \union ends)
    <2>1. HeldAll(m).past = Held(m, k).past /\ HeldAll(m).cur = BytesOf(m, k + 1)
      BY <1>1 DEF HeldAll, Held
    <2>. QED BY <1>1, <1>2, <2>1, PaddedIs, Zenon
  <1>4. p \o [i \in 1..0 |-> {}] = p
    <2>1. \E T : p \in Seq(T)
      BY <1>2, PaddedIsSeq
    <2>. QED BY <2>1
  <1>. QED BY <1>2, <1>3, <1>4, Zenon DEF Permute, Ended

\* Each further permutation is an empty block more.
LEMMA PermuteEnded ==
  ASSUME Rate, NEW m \in Seq(Int), NEW ends, NEW q \in Nat
  PROVE  Permute(Ended(m, ends, q)) = Ended(m, ends, q + 1)
  <1>1. PICK p : p = PaddedBlocks(m, ends)
    OBVIOUS
  <1>2. PICK T : p \in Seq(T) /\ {} \in T
    BY <1>1, PaddedIsSeq
  <1>. DEFINE E(n) == [i \in 1..n |-> {}]
  <1>3. Append(p \o E(q), {}) = p \o E(q + 1)
    <2>1. E(q) \in [1..q -> T] /\ E(q + 1) \in [1..(q + 1) -> T]
      BY <1>2
    <2>2. E(q + 1)[q + 1] = {} /\ \A i \in 1..q : E(q + 1)[i] = E(q)[i]
      OBVIOUS
    <2>. HIDE DEF E
    <2>3. Append(E(q), {}) = E(q + 1)
      <3>1. E(q + 1) = Append(E(q), E(q + 1)[q + 1])
        BY <2>1, <2>2, AppendIs
      <3>. QED BY <2>2, <3>1
    <2>4. E(q) \in Seq(T)
      BY <2>1, FunIsSeq
    <2>5. \A e \in Seq(T) : Append(p \o e, {}) = p \o Append(e, {})
      <3>. TAKE e \in Seq(T)
      <3>1. p \o e \in Seq(T)
        BY <1>2
      <3>2. PICK o \in Seq(T) : o = <<{}>>
        <4>1. \A x \in T : <<x>> \in Seq(T)
          OBVIOUS
        <4>2. <<{}>> \in Seq(T)
          BY <1>2, <4>1
        <4>. QED BY <4>2, Zenon
      <3>3. Append(p \o e, {}) = (p \o e) \o o
        BY <1>2, <3>1, <3>2, AppendIsConcat, Zenon
      <3>4. Append(e, {}) = e \o o
        BY <1>2, <3>2, AppendIsConcat, Zenon
      <3>5. (p \o e) \o o = p \o (e \o o)
        BY <1>2
      <3>. QED BY <3>3, <3>4, <3>5, Zenon
    <2>. QED BY <2>3, <2>4, <2>5
  <1>. QED BY <1>1, <1>3 DEF Permute, Ended

-----------------------------------------------------------------------------
(* Squeezing.                                                              *)

KeccakEnds(m) == {<<Len(m) % R, PadByte>>, <<R - 1, Terminator>>}
AsconEnds(m) == {<<Len(m) % R, PadByte>>}

\* The context of the message m after k bytes of output.
KeccakOut(m, k) ==
  Squeezing(IF k = 0 THEN [past |-> HeldAll(m).past,
                           cur |-> HeldAll(m).cur \union KeccakEnds(m)]
            ELSE Ended(m, KeccakEnds(m), (k - 1) \div R),
            Len(m), k % R)

AsconOut(m, k) ==
  Squeezing(Ended(m, AsconEnds(m), k \div R), Len(m), k % R)

Marked(c, t) == [c EXCEPT !.state = t, !.squeeze_more = TRUE]
Moved(c, t, o) == [c EXCEPT !.state = t, !.offset = o]

\* A context turns from absorbing to putting out.
LEMMA MarkedContext ==
  ASSUME NEW s, NEW l, NEW t
  PROVE  Marked(Absorbing(s, l), t) = Squeezing(t, l, 0)
  <1>. DEFINE Fields == {"state", "msg_len", "offset", "squeeze_more"}
  <1>1. PICK r : r = Marked(Absorbing(s, l), t)
    OBVIOUS
  <1>2. DOMAIN Absorbing(s, l) = Fields
    BY DEF Absorbing
  <1>3. r = [f \in Fields |-> r[f]]
    BY <1>1, <1>2 DEF Marked
  <1>4. r.state = t /\ r.msg_len = l /\ r.offset = 0 /\ r.squeeze_more = TRUE
    BY <1>1 DEF Marked, Absorbing
  <1>5. r = Squeezing(t, l, 0)
    BY <1>3, <1>4 DEF Squeezing
  <1>. QED BY <1>1, <1>5

\* A context that puts out moves on.
LEMMA MovedContext ==
  ASSUME NEW s, NEW l, NEW o, NEW t, NEW v
  PROVE  Moved(Squeezing(s, l, o), t, v) = Squeezing(t, l, v)
  <1>. DEFINE Fields == {"state", "msg_len", "offset", "squeeze_more"}
  <1>1. PICK r : r = Moved(Squeezing(s, l, o), t, v)
    OBVIOUS
  <1>2. DOMAIN Squeezing(s, l, o) = Fields
    BY DEF Squeezing
  <1>3. r = [f \in Fields |-> r[f]]
    BY <1>1, <1>2 DEF Moved
  <1>4. r.state = t /\ r.msg_len = l /\ r.offset = v /\ r.squeeze_more = TRUE
    BY <1>1 DEF Moved, Squeezing
  <1>5. r = Squeezing(t, l, v)
    BY <1>3, <1>4 DEF Squeezing
  <1>. QED BY <1>1, <1>5

\* A byte that is XORed where nothing is yet.
LEMMA XorOne ==
  ASSUME NEW q, NEW c, NEW at \in Int, NEW x, <<at, x>> \notin c
  PROVE  Xor([past |-> q, cur |-> c], at, <<x>>) =
           [past |-> q, cur |-> c \union {<<at, x>>}]
  <1>. DEFINE s == [past |-> q, cur |-> c]
  <1>1. {<<at + i - 1, <<x>>[i]>> : i \in 1..Len(<<x>>)} = {<<at, x>>}
    OBVIOUS
  <1>2. Xor(s, at, <<x>>) =
          [s EXCEPT !.cur = (@ \ {<<at, x>>}) \union ({<<at, x>>} \ @)]
    BY <1>1 DEF Xor
  <1>3. s.cur = c
    OBVIOUS
  <1>4. (c \ {<<at, x>>}) \union ({<<at, x>>} \ c) = c \union {<<at, x>>}
    BY <1>3
  <1>. QED BY <1>2, <1>3, <1>4

\* A block that is not full has no byte where the padding goes.
LEMMA HeldBelow ==
  ASSUME Rate, NEW m \in Seq(Int), NEW e \in HeldAll(m).cur
  PROVE  e[1] \in 0..(R - 1) /\ e[1] < Len(m) % R
  <1>1. PICK k \in Nat, p \in 0..(R - 1) :
          p = Len(m) % R /\ k = Len(m) \div R /\ Len(m) = k * R + p
    <2>1. Len(m) \in Nat
      OBVIOUS
    <2>. QED BY <2>1, Parts, Zenon
  <1>2. e \in BytesOf(m, k + 1)
    BY <1>1 DEF HeldAll, Held
  <1>3. PICK q \in 0..(R - 1) : (k + 1 - 1) * R + q + 1 <= Len(m) /\ e[1] = q
    BY <1>2 DEF BytesOf
  <1>4. k * R \in Nat /\ (k + 1 - 1) * R = k * R
    BY DEF Rate
  <1>5. q < p
    <2>. DEFINE d == k * R
    <2>1. d \in Nat /\ d + q + 1 <= Len(m) /\ Len(m) = d + p
      BY <1>1, <1>3, <1>4
    <2>. HIDE DEF d
    <2>. QED BY <2>1 DEF Rate
  <1>. QED BY <1>1, <1>3, <1>5

\* ascon_squeeze_common pads the last block.
LEMMA FillAscon ==
  ASSUME Rate, NEW m \in Seq(Int)
  PROVE  Xor(HeldAll(m), Len(m) % R, <<PadByte>>) =
           [past |-> HeldAll(m).past, cur |-> HeldAll(m).cur \union AsconEnds(m)]
  <1>1. PICK q, c : HeldAll(m) = [past |-> q, cur |-> c]
    BY DEF HeldAll, Held
  <1>2. HeldAll(m).past = q /\ HeldAll(m).cur = c
    BY <1>1
  <1>3. PICK p \in 0..(R - 1) : p = Len(m) % R
    BY WholeBlocks, Zenon
  <1>4. <<p, PadByte>> \notin c
    <2>. SUFFICES ASSUME <<p, PadByte>> \in c PROVE FALSE
      OBVIOUS
    <2>1. <<p, PadByte>>[1] < p
      BY <1>2, <1>3, HeldBelow
    <2>. QED BY <2>1 DEF Rate
  <1>5. p \in Int
    BY DEF Rate
  <1>6. Xor(HeldAll(m), p, <<PadByte>>) = [past |-> q, cur |-> c \union {<<p, PadByte>>}]
    BY <1>1, <1>4, <1>5, XorOne
  <1>. QED BY <1>2, <1>3, <1>6, Zenon DEF AsconEnds

\* keccak_squeeze pads the last block, perhaps with both bytes at one place.
LEMMA FillKeccak ==
  ASSUME Rate, NEW m \in Seq(Int)
  PROVE  Xor(Xor(HeldAll(m), Len(m) % R, <<PadByte>>), R - 1, <<Terminator>>) =
           [past |-> HeldAll(m).past, cur |-> HeldAll(m).cur \union KeccakEnds(m)]
  <1>1. PICK q, c : q = HeldAll(m).past /\ c = HeldAll(m).cur
    OBVIOUS
  <1>2. PICK p \in 0..(R - 1) : p = Len(m) % R
    BY WholeBlocks, Zenon
  <1>3. PICK s : s = [past |-> q, cur |-> c \union {<<p, PadByte>>}]
    OBVIOUS
  <1>4. <<R - 1, Terminator>> \notin c \union {<<p, PadByte>>}
    <2>1. <<R - 1, Terminator>> \notin c
      <3>. SUFFICES ASSUME <<R - 1, Terminator>> \in c PROVE FALSE
        OBVIOUS
      <3>1. <<R - 1, Terminator>>[1] < p
        BY <1>1, <1>2, HeldBelow
      <3>. QED BY <3>1 DEF Rate
    <2>2. PadByte # Terminator
      BY DEF PadByte, Terminator
    <2>. QED BY <2>1, <2>2
  <1>5. R - 1 \in Int
    BY DEF Rate
  <1>6. Xor(s, R - 1, <<Terminator>>) =
          [past |-> q, cur |-> (c \union {<<p, PadByte>>}) \union {<<R - 1, Terminator>>}]
    BY <1>3, <1>4, <1>5, XorOne
  <1>7. Xor(HeldAll(m), p, <<PadByte>>) = s
    BY <1>1, <1>2, <1>3, FillAscon, Zenon DEF AsconEnds
  <1>8. (c \union {<<p, PadByte>>}) \union {<<R - 1, Terminator>>} = c \union KeccakEnds(m)
    BY <1>2 DEF KeccakEnds
  <1>. QED BY <1>1, <1>2, <1>6, <1>7, <1>8, Zenon

\* The message is padded once.
LEMMA KeccakPadded ==
  ASSUME Rate, NEW m \in Seq(Int)
  PROVE  /\ KeccakPad(Absorbed(m)) = KeccakOut(m, 0)
         /\ \A k \in Nat : KeccakPad(KeccakOut(m, k)) = KeccakOut(m, k)
  <1>1. PICK x : x = [past |-> HeldAll(m).past, cur |-> HeldAll(m).cur \union KeccakEnds(m)]
    OBVIOUS
  <1>2. KeccakPad(Absorbed(m)) = Marked(Absorbed(m), x)
    <2>1. /\ Absorbed(m).squeeze_more = FALSE /\ Absorbed(m).state = HeldAll(m)
          /\ Absorbed(m).msg_len = Len(m)
      BY DEF Absorbed, Absorbing
    <2>2. \A c : c.squeeze_more = FALSE =>
            KeccakPad(c) =
              Marked(c, Xor(Xor(c.state, c.msg_len % R, <<PadByte>>),
                            R - 1, <<Terminator>>))
      BY Zenon DEF KeccakPad, Marked
    <2>3. Xor(Xor(HeldAll(m), Len(m) % R, <<PadByte>>), R - 1, <<Terminator>>) = x
      BY <1>1, FillKeccak, Zenon
    <2>. QED BY <2>1, <2>2, <2>3, Zenon
  <1>3. 0 % R = 0
    BY DEF Rate
  <1>4. KeccakOut(m, 0) = Squeezing(x, Len(m), 0)
    BY <1>1, <1>3 DEF KeccakOut
  <1>5. Marked(Absorbed(m), x) = Squeezing(x, Len(m), 0)
    BY MarkedContext, Zenon DEF Absorbed
  <1>6. ASSUME NEW k \in Nat PROVE KeccakPad(KeccakOut(m, k)) = KeccakOut(m, k)
    <2>1. KeccakOut(m, k).squeeze_more = TRUE
      BY DEF KeccakOut, Squeezing
    <2>. QED BY <2>1, Zenon DEF KeccakPad
  <1>. QED BY <1>2, <1>4, <1>5, <1>6, Zenon

\* The message is padded once.
LEMMA AsconPadded ==
  ASSUME Rate, NEW m \in Seq(Int)
  PROVE  /\ AsconPad(Absorbed(m)) = AsconOut(m, 0)
         /\ \A k \in Nat : AsconPad(AsconOut(m, k)) = AsconOut(m, k)
  <1>1. PICK x : x = Ended(m, AsconEnds(m), 0)
    OBVIOUS
  <1>2. AsconPad(Absorbed(m)) = Marked(Absorbed(m), x)
    <2>1. /\ Absorbed(m).squeeze_more = FALSE /\ Absorbed(m).state = HeldAll(m)
          /\ Absorbed(m).msg_len = Len(m)
      BY DEF Absorbed, Absorbing
    <2>2. \A c : c.squeeze_more = FALSE =>
            AsconPad(c) =
              Marked(c, Permute(Xor(c.state, c.msg_len % R, <<PadByte>>)))
      BY Zenon DEF AsconPad, Marked
    <2>3. Permute(Xor(HeldAll(m), Len(m) % R, <<PadByte>>)) = x
      BY <1>1, FillAscon, PermuteFilled, Zenon
    <2>. QED BY <2>1, <2>2, <2>3, Zenon
  <1>3. 0 % R = 0 /\ 0 \div R = 0
    BY DEF Rate
  <1>4. AsconOut(m, 0) = Squeezing(x, Len(m), 0)
    BY <1>1, <1>3 DEF AsconOut
  <1>5. Marked(Absorbed(m), x) = Squeezing(x, Len(m), 0)
    BY MarkedContext, Zenon DEF Absorbed
  <1>6. ASSUME NEW k \in Nat PROVE AsconPad(AsconOut(m, k)) = AsconOut(m, k)
    <2>1. AsconOut(m, k).squeeze_more = TRUE
      BY DEF AsconOut, Squeezing
    <2>. QED BY <2>1, Zenon DEF AsconPad
  <1>. QED BY <1>2, <1>4, <1>5, <1>6, Zenon

\* Counting bytes and blocks of output.
LEMMA NextByte ==
  ASSUME Rate, NEW k \in Nat
  PROVE  /\ k % R \in 0..(R - 1) /\ k \div R \in Nat
         /\ (k + 1) % R = ((k % R) + 1) % R
         /\ (k + 1) % R = 0 => (k + 1) \div R = (k \div R) + 1
         /\ (k + 1) % R # 0 => (k + 1) \div R = k \div R
         /\ k % R = 0 /\ k # 0 => ((k - 1) \div R) + 1 = k \div R
         /\ k % R # 0 => (k - 1) \div R = k \div R
  <1>1. PICK q \in Nat, p \in 0..(R - 1) :
          p = k % R /\ q = k \div R /\ k = q * R + p
    BY Parts, Zenon
  <1>2. (q + 1) * R = q * R + R /\ q * R \in Nat
    BY DEF Rate
  <1>3. /\ p + 1 < R => (k + 1) % R = p + 1 /\ (k + 1) \div R = q
        /\ p + 1 = R => (k + 1) % R = 0 /\ (k + 1) \div R = q + 1
    <2>1. CASE p + 1 < R
      <3>1. p + 1 \in 0..(R - 1) /\ k + 1 \in Nat /\ k + 1 = q * R + (p + 1)
        BY <1>1, <1>2, <2>1 DEF Rate
      <3>. QED BY <2>1, <3>1, PartsAre
    <2>2. CASE p + 1 = R
      <3>1. 0 \in 0..(R - 1) /\ k + 1 \in Nat /\ k + 1 = (q + 1) * R + 0 /\ q + 1 \in Nat
        BY <1>1, <1>2, <2>2 DEF Rate
      <3>. QED BY <2>2, <3>1, PartsAre
    <2>. QED BY <2>1, <2>2 DEF Rate
  <1>4. /\ p + 1 < R => (p + 1) % R = p + 1
        /\ p + 1 = R => (p + 1) % R = 0
    BY DEF Rate
  <1>5. p = 0 /\ k # 0 => ((k - 1) \div R) + 1 = q
    <2>. SUFFICES ASSUME p = 0, k # 0 PROVE (k - 1) \div R = q - 1 /\ q \in Nat
      OBVIOUS
    <2>1. q # 0
      BY <1>1 DEF Rate
    <2>2. (q - 1) * R = q * R - R
      BY DEF Rate
    <2>3. /\ q - 1 \in Nat /\ R - 1 \in 0..(R - 1) /\ k - 1 \in Nat
          /\ k - 1 = (q - 1) * R + (R - 1)
      BY <1>1, <1>2, <2>1, <2>2 DEF Rate
    <2>. QED BY <2>3, PartsAre
  <1>6. p # 0 => (k - 1) \div R = q
    <2>. SUFFICES ASSUME p # 0 PROVE (k - 1) \div R = q
      OBVIOUS
    <2>1. p - 1 \in 0..(R - 1) /\ k - 1 \in Nat /\ k - 1 = q * R + (p - 1)
      BY <1>1, <1>2 DEF Rate
    <2>. QED BY <2>1, PartsAre
  <1>7. p + 1 < R \/ p + 1 = R
    BY DEF Rate
  <1>8. p + 1 # 0
    BY DEF Rate
  <1>. QED BY <1>1, <1>3, <1>4, <1>5, <1>6, <1>7, <1>8

\* A byte of the padded and permuted state is that of the standard.
LEMMA ByteOfEnded ==
  ASSUME Rate, NEW m \in Seq(Int), NEW ends, NEW k \in Nat
  PROVE  ByteAt(Ended(m, ends, k \div R), k % R) =
           SpongeByte(PaddedBlocks(m, ends), k + 1)
  <1>1. PICK j : j = k + 1 /\ j - 1 = k
    OBVIOUS
  <1>2. PICK e, q : /\ e = Ended(m, ends, k \div R)
                    /\ q = PaddedBlocks(m, ends) \o [i \in 1..(k \div R) |-> {}]
    OBVIOUS
  <1>3. e.past = q /\ {x \in e.cur : x[1] = k % R} = {}
    <2>1. e = [past |-> q, cur |-> {}]
      BY <1>2, Zenon DEF Ended
    <2>. QED BY <2>1
  <1>4. ByteAt(e, k % R) = [past |-> q, xor |-> {}, at |-> k % R]
    BY <1>3, Zenon DEF ByteAt
  <1>5. SpongeByte(PaddedBlocks(m, ends), j) = [past |-> q, xor |-> {}, at |-> k % R]
    BY <1>1, <1>2, Zenon DEF SpongeByte
  <1>. QED BY <1>1, <1>2, <1>4, <1>5, Zenon

\* One turn of the loops that put out bytes.
KeccakThen(x) ==
  LET d == x.ctx
      s == IF d.offset = 0 THEN Permute(d.state) ELSE d.state
  IN [ctx |-> Moved(d, s, (d.offset + 1) % R),
      out |-> Append(x.out, ByteAt(s, d.offset))]

AsconThen(x) ==
  LET d == x.ctx
      o == (d.offset + 1) % R
  IN [ctx |-> Moved(d, IF o = 0 THEN Permute(d.state) ELSE d.state, o),
      out |-> Append(x.out, ByteAt(d.state, d.offset))]

\* The turns of keccak_squeeze.
LEMMA KeccakTurns ==
  ASSUME NEW c, NEW n \in Nat
  PROVE  /\ KeccakSteps(c, n)[0] = [ctx |-> KeccakPad(c), out |-> <<>>]
         /\ \A i \in 1..n :
              KeccakSteps(c, n)[i] = KeccakThen(KeccakSteps(c, n)[i - 1])
  <1>. DEFINE Start == [ctx |-> KeccakPad(c), out |-> <<>>]
              IsLoop(f, m) ==
                f = [i \in 0..m |-> IF i = 0 THEN Start ELSE KeccakThen(f[i - 1])]
              S == {m \in Nat : \E f : IsLoop(f, m)}
  <1>. HIDE DEF Start
  <1>1. 0 \in S
    <2>1. IsLoop([i \in 0..0 |-> Start], 0)
      OBVIOUS
    <2>. QED BY <2>1
  <1>2. ASSUME NEW m \in Nat, m \in S PROVE m + 1 \in S
    <2>1. PICK f : IsLoop(f, m)
      BY <1>2
    <2>. DEFINE g == [i \in 0..(m + 1) |-> IF i <= m THEN f[i] ELSE KeccakThen(f[m])]
    <2>. HIDE DEF IsLoop
    <2>2. \A i \in 0..(m + 1) : g[i] = IF i = 0 THEN Start ELSE KeccakThen(g[i - 1])
      <3>1. \A i \in 0..m : f[i] = IF i = 0 THEN Start ELSE KeccakThen(f[i - 1])
        BY <2>1 DEF IsLoop
      <3>. QED BY <3>1
    <2>3. IsLoop(g, m + 1)
      BY <2>2 DEF IsLoop
    <2>. QED BY <2>3
  <1>3. \E f : IsLoop(f, n)
    <2>. HIDE DEF S
    <2>1. n \in S
      BY <1>1, <1>2, SetInduction
    <2>. QED BY <2>1 DEF S
  <1>4. IsLoop(KeccakSteps(c, n), n)
    BY <1>3, Zenon DEF KeccakSteps, KeccakThen, Moved, Start
  <1>. QED BY <1>4 DEF Start

\* The turns of ascon_squeeze_common.
LEMMA AsconTurns ==
  ASSUME NEW c, NEW n \in Nat
  PROVE  /\ AsconSteps(c, n)[0] = [ctx |-> AsconPad(c), out |-> <<>>]
         /\ \A i \in 1..n :
              AsconSteps(c, n)[i] = AsconThen(AsconSteps(c, n)[i - 1])
  <1>. DEFINE Start == [ctx |-> AsconPad(c), out |-> <<>>]
              IsLoop(f, m) ==
                f = [i \in 0..m |-> IF i = 0 THEN Start ELSE AsconThen(f[i - 1])]
              S == {m \in Nat : \E f : IsLoop(f, m)}
  <1>. HIDE DEF Start
  <1>1. 0 \in S
    <2>1. IsLoop([i \in 0..0 |-> Start], 0)
      OBVIOUS
    <2>. QED BY <2>1
  <1>2. ASSUME NEW m \in Nat, m \in S PROVE m + 1 \in S
    <2>1. PICK f : IsLoop(f, m)
      BY <1>2
    <2>. DEFINE g == [i \in 0..(m + 1) |-> IF i <= m THEN f[i] ELSE AsconThen(f[m])]
    <2>. HIDE DEF IsLoop
    <2>2. \A i \in 0..(m + 1) : g[i] = IF i = 0 THEN Start ELSE AsconThen(g[i - 1])
      <3>1. \A i \in 0..m : f[i] = IF i = 0 THEN Start ELSE AsconThen(f[i - 1])
        BY <2>1 DEF IsLoop
      <3>. QED BY <3>1
    <2>3. IsLoop(g, m + 1)
      BY <2>2 DEF IsLoop
    <2>. QED BY <2>3
  <1>3. \E f : IsLoop(f, n)
    <2>. HIDE DEF S
    <2>1. n \in S
      BY <1>1, <1>2, SetInduction
    <2>. QED BY <2>1 DEF S
  <1>4. IsLoop(AsconSteps(c, n), n)
    BY <1>3, Zenon DEF AsconSteps, AsconThen, Moved, Start
  <1>. QED BY <1>4 DEF Start

\* A turn puts out the next byte of the message.
LEMMA KeccakPutsOut ==
  ASSUME Rate, NEW m \in Seq(Int), NEW k \in Nat, NEW o
  PROVE  KeccakThen([ctx |-> KeccakOut(m, k), out |-> o]) =
           [ctx |-> KeccakOut(m, k + 1), out |-> Append(o, KeccakByte(m, k + 1))]
  <1>. DEFINE ends == KeccakEnds(m)
  <1>1. PICK x : x = IF k = 0 THEN [past |-> HeldAll(m).past,
                                    cur |-> HeldAll(m).cur \union ends]
                     ELSE Ended(m, ends, (k - 1) \div R)
    OBVIOUS
  <1>2. KeccakOut(m, k) = Squeezing(x, Len(m), k % R)
    BY <1>1, Zenon DEF KeccakOut
  <1>3. PICK s : s = Ended(m, ends, k \div R)
    OBVIOUS
  <1>. HIDE DEF ends
  <1>4. (IF k % R = 0 THEN Permute(x) ELSE x) = s
    <2>1. CASE k = 0
      <3>1. 0 % R = 0 /\ 0 \div R = 0
        BY DEF Rate
      <3>2. Permute(x) = Ended(m, ends, 0)
        BY <1>1, <2>1, PermuteFilled, Zenon
      <3>. QED BY <1>3, <2>1, <3>1, <3>2, Zenon
    <2>2. CASE k # 0 /\ k % R = 0
      <3>1. (k - 1) \div R \in Nat
        BY <2>2 DEF Rate
      <3>2. ((k - 1) \div R) + 1 = k \div R
        BY <2>2, NextByte
      <3>3. Permute(x) = Ended(m, ends, ((k - 1) \div R) + 1)
        BY <1>1, <2>2, <3>1, PermuteEnded, Zenon
      <3>. QED BY <1>3, <2>2, <3>2, <3>3, Zenon
    <2>3. CASE k # 0 /\ k % R # 0
      <3>1. (k - 1) \div R = k \div R
        BY <2>3, NextByte
      <3>. QED BY <1>1, <1>3, <2>3, <3>1, Zenon
    <2>. QED BY <2>1, <2>2, <2>3, Zenon
  <1>5. PICK p, v : p = k % R /\ v = ((k % R) + 1) % R
    OBVIOUS
  <1>6. PICK d : d = Squeezing(x, Len(m), p)
    OBVIOUS
  <1>7. d.state = x /\ d.offset = p
    BY <1>6 DEF Squeezing
  <1>8. KeccakThen([ctx |-> d, out |-> o]) =
          [ctx |-> Moved(d, s, v), out |-> Append(o, ByteAt(s, p))]
    <2>1. PICK y : y = [ctx |-> d, out |-> o]
      OBVIOUS
    <2>2. y.ctx = d /\ y.out = o
      BY <2>1
    <2>. QED BY <1>4, <1>5, <1>7, <2>1, <2>2, Zenon DEF KeccakThen
  <1>9. Moved(Squeezing(x, Len(m), p), s, v) = Squeezing(s, Len(m), v)
    BY MovedContext
  <1>10. KeccakOut(m, k + 1) = Squeezing(s, Len(m), v)
    <2>1. PICK j : j = k + 1 /\ j # 0 /\ j - 1 = k
      OBVIOUS
    <2>2. j % R = v
      BY <1>5, <2>1, NextByte
    <2>3. KeccakOut(m, j) = Squeezing(Ended(m, ends, (j - 1) \div R), Len(m), j % R)
      BY <2>1, Zenon DEF KeccakOut, ends
    <2>. QED BY <1>3, <2>1, <2>2, <2>3, Zenon
  <1>11. ByteAt(s, p) = KeccakByte(m, k + 1)
    BY <1>3, <1>5, ByteOfEnded, Zenon DEF KeccakByte, KeccakEnds, ends
  <1>. QED BY <1>2, <1>5, <1>6, <1>8, <1>9, <1>10, <1>11, Zenon

\* A turn puts out the next byte of the message.
LEMMA AsconPutsOut ==
  ASSUME Rate, NEW m \in Seq(Int), NEW k \in Nat, NEW o
  PROVE  AsconThen([ctx |-> AsconOut(m, k), out |-> o]) =
           [ctx |-> AsconOut(m, k + 1), out |-> Append(o, AsconByte(m, k + 1))]
  <1>1. PICK s : s = Ended(m, AsconEnds(m), k \div R)
    OBVIOUS
  <1>2. PICK p, v : p = k % R /\ v = ((k % R) + 1) % R
    OBVIOUS
  <1>3. PICK d : d = Squeezing(s, Len(m), p)
    OBVIOUS
  <1>4. d.state = s /\ d.offset = p
    BY <1>3 DEF Squeezing
  <1>5. PICK t : t = IF v = 0 THEN Permute(s) ELSE s
    OBVIOUS
  <1>6. t = Ended(m, AsconEnds(m), (k + 1) \div R)
    <2>1. v = (k + 1) % R
      BY <1>2, NextByte
    <2>2. CASE v = 0
      <3>1. (k + 1) \div R = (k \div R) + 1 /\ k \div R \in Nat
        BY <2>1, <2>2, NextByte
      <3>2. Permute(s) = Ended(m, AsconEnds(m), (k \div R) + 1)
        BY <1>1, <3>1, PermuteEnded, Zenon
      <3>. QED BY <1>5, <2>2, <3>1, <3>2, Zenon
    <2>3. CASE v # 0
      <3>1. (k + 1) \div R = k \div R
        BY <2>1, <2>3, NextByte
      <3>. QED BY <1>1, <1>5, <2>3, <3>1, Zenon
    <2>. QED BY <2>2, <2>3
  <1>7. AsconThen([ctx |-> d, out |-> o]) =
          [ctx |-> Moved(d, t, v), out |-> Append(o, ByteAt(s, p))]
    <2>1. PICK y : y = [ctx |-> d, out |-> o]
      OBVIOUS
    <2>2. y.ctx = d /\ y.out = o
      BY <2>1
    <2>. QED BY <1>2, <1>4, <1>5, <2>1, <2>2, Zenon DEF AsconThen
  <1>8. Moved(Squeezing(s, Len(m), p), t, v) = Squeezing(t, Len(m), v)
    BY MovedContext
  <1>9. AsconOut(m, k + 1) = Squeezing(t, Len(m), v)
    <2>1. (k + 1) % R = v
      BY <1>2, NextByte
    <2>. QED BY <1>6, <2>1, Zenon DEF AsconOut
  <1>10. ByteAt(s, p) = AsconByte(m, k + 1)
    BY <1>1, <1>2, ByteOfEnded, Zenon DEF AsconByte, AsconEnds
  <1>11. AsconOut(m, k) = d
    BY <1>1, <1>2, <1>3, Zenon DEF AsconOut
  <1>. QED BY <1>3, <1>7, <1>8, <1>9, <1>10, <1>11, Zenon

\* The n bytes of the stream f after its first k.
Cut(f, k, n) == [j \in 1..n |-> f[k + j]]

IsStream(f, T) == f \in [Nat \ {0} -> T]

\* The bytes that come out for the message m.
KeccakStream(m) == [i \in Nat \ {0} |-> KeccakByte(m, i)]
AsconStream(m) == [i \in Nat \ {0} |-> AsconByte(m, i)]

\* A cut is a sequence of n bytes.
LEMMA CutIsSeq ==
  ASSUME NEW T, NEW f, IsStream(f, T), NEW k \in Nat, NEW n \in Nat
  PROVE  /\ Cut(f, k, n) \in [1..n -> T]
         /\ Cut(f, k, n) \in Seq(T) /\ Len(Cut(f, k, n)) = n
         /\ \A j \in 1..n : Cut(f, k, n)[j] = f[k + j]
  <1>1. \A j \in 1..n : f[k + j] \in T
    BY DEF IsStream
  <1>2. Cut(f, k, n) \in [1..n -> T]
    BY <1>1 DEF Cut
  <1>3. \A j \in 1..n : Cut(f, k, n)[j] = f[k + j]
    BY DEF Cut
  <1>. QED BY <1>2, <1>3, FunIsSeq

\* A cut with one byte more.
LEMMA CutGrows ==
  ASSUME NEW T, NEW f, IsStream(f, T), NEW k \in Nat, NEW n \in Nat
  PROVE  Cut(f, k, n + 1) = Append(Cut(f, k, n), f[k + n + 1])
  <1>1. PICK s, t : s = Cut(f, k, n) /\ t = Cut(f, k, n + 1)
    OBVIOUS
  <1>2. /\ s \in [1..n -> T] /\ \A j \in 1..n : s[j] = f[k + j]
        /\ t \in [1..(n + 1) -> T] /\ \A j \in 1..(n + 1) : t[j] = f[k + j]
    <2>1. PICK l \in Nat : l = n + 1
      OBVIOUS
    <2>2. Cut(f, k, n) \in [1..n -> T]
      BY CutIsSeq, Zenon
    <2>2a. \A j \in 1..n : Cut(f, k, n)[j] = f[k + j]
      BY CutIsSeq
    <2>3. Cut(f, k, l) \in [1..l -> T]
      BY CutIsSeq, Zenon
    <2>3a. \A j \in 1..l : Cut(f, k, l)[j] = f[k + j]
      BY CutIsSeq
    <2>. QED BY <1>1, <2>1, <2>2, <2>2a, <2>3, <2>3a, Zenon
  <1>3. \A j \in 1..n : t[j] = s[j]
    BY <1>1, <1>2
  <1>4. t = Append(s, t[n + 1])
    BY <1>2, <1>3, AppendIs, Zenon
  <1>5. t[n + 1] = f[k + n + 1]
    BY <1>2
  <1>. QED BY <1>1, <1>2, <1>4, <1>5

\* Cuts that follow each other make one cut.
LEMMA CutJoined ==
  ASSUME NEW T, NEW f, IsStream(f, T), NEW k \in Nat, NEW n \in Nat
  PROVE  Cut(f, 0, k) \o Cut(f, k, n) = Cut(f, 0, k + n)
  <1>1. PICK s, t, u, v :
          /\ s = Cut(f, 0, k) /\ t = Cut(f, k, n) /\ u = Cut(f, 0, k + n)
          /\ v = s \o t
    OBVIOUS
  <1>2. /\ s \in Seq(T) /\ Len(s) = k /\ \A j \in 1..k : s[j] = f[0 + j]
        /\ t \in Seq(T) /\ Len(t) = n /\ \A j \in 1..n : t[j] = f[k + j]
    <2>1. 0 \in Nat
      OBVIOUS
    <2>2. Cut(f, 0, k) \in Seq(T) /\ Len(Cut(f, 0, k)) = k
      BY <2>1, CutIsSeq
    <2>2a. \A j \in 1..k : Cut(f, 0, k)[j] = f[0 + j]
      BY <2>1, CutIsSeq
    <2>3. Cut(f, k, n) \in Seq(T) /\ Len(Cut(f, k, n)) = n
      BY CutIsSeq, ZenonT(40)
    <2>3a. \A j \in 1..n : Cut(f, k, n)[j] = f[k + j]
      BY CutIsSeq
    <2>. QED BY <1>1, <2>2, <2>2a, <2>3, <2>3a, Zenon
  <1>3. u \in Seq(T) /\ Len(u) = k + n /\ \A j \in 1..(k + n) : u[j] = f[0 + j]
    <2>1. PICK l \in Nat : l = k + n /\ 0 \in Nat
      OBVIOUS
    <2>2. Cut(f, 0, l) \in Seq(T) /\ Len(Cut(f, 0, l)) = l
      BY <2>1, CutIsSeq
    <2>2a. \A j \in 1..l : Cut(f, 0, l)[j] = f[0 + j]
      BY <2>1, CutIsSeq
    <2>. QED BY <1>1, <2>1, <2>2, <2>2a, Zenon
  <1>4. /\ v \in Seq(T) /\ Len(v) = k + n /\ \A j \in 1..k : v[j] = s[j]
        /\ \A j \in 1..(k + n) : j > k => v[j] = t[j - k]
    <2>1. \A x, y \in Seq(T) :
            /\ x \o y \in Seq(T) /\ Len(x \o y) = Len(x) + Len(y)
            /\ \A j \in 1..Len(x) : (x \o y)[j] = x[j]
            /\ \A j \in 1..(Len(x) + Len(y)) :
                 j > Len(x) => (x \o y)[j] = y[j - Len(x)]
      OBVIOUS
    <2>2. /\ v \in Seq(T) /\ Len(v) = Len(s) + Len(t)
          /\ \A j \in 1..Len(s) : v[j] = s[j]
          /\ \A j \in 1..(Len(s) + Len(t)) : j > Len(s) => v[j] = t[j - Len(s)]
      BY <1>1, <1>2, <2>1, ZenonT(40)
    <2>. QED BY <1>2, <2>2, Zenon
  <1>5. ASSUME NEW j \in 1..(k + n) PROVE v[j] = u[j]
    <2>1. CASE j <= k
      <3>1. j \in 1..k /\ 0 + j = j
        BY <2>1
      <3>. QED BY <1>2, <1>3, <1>4, <3>1
    <2>2. CASE j > k
      <3>1. PICK i \in 1..n : j - k = i /\ k + i = 0 + j
        <4>1. j - k \in 1..n /\ k + (j - k) = 0 + j
          BY <2>2
        <4>. QED BY <4>1, Zenon
      <3>2. v[j] = t[i] /\ t[i] = f[k + i] /\ u[j] = f[0 + j]
        BY <1>2, <1>3, <1>4, <2>2, <3>1, Zenon
      <3>. QED BY <3>1, <3>2, Zenon
    <2>. QED BY <2>1, <2>2
  <1>6. v = u
    BY <1>3, <1>4, <1>5, SeqSame
  <1>. QED BY <1>1, <1>6

\* The streams of Keccak and Ascon are such.
LEMMA StreamsAre ==
  ASSUME NEW m
  PROVE  /\ \E T : IsStream(KeccakStream(m), T)
         /\ \E T : IsStream(AsconStream(m), T)
         /\ \A i \in Nat \ {0} : /\ KeccakStream(m)[i] = KeccakByte(m, i)
                                 /\ AsconStream(m)[i] = AsconByte(m, i)
  <1>1. KeccakStream(m) \in [Nat \ {0} -> {KeccakByte(m, i) : i \in Nat \ {0}}]
    BY DEF KeccakStream
  <1>2. AsconStream(m) \in [Nat \ {0} -> {AsconByte(m, i) : i \in Nat \ {0}}]
    BY DEF AsconStream
  <1>3. \A i \in Nat \ {0} : /\ KeccakStream(m)[i] = KeccakByte(m, i)
                             /\ AsconStream(m)[i] = AsconByte(m, i)
    BY DEF KeccakStream, AsconStream
  <1>. QED BY <1>1, <1>2, <1>3 DEF IsStream

\* keccak_squeeze puts out the next n bytes of the message.
LEMMA KeccakSqueezes ==
  ASSUME Rate, NEW m \in Seq(Int), NEW k \in Nat, NEW c, NEW n \in Nat,
         KeccakPad(c) = KeccakOut(m, k)
  PROVE  KeccakSqueeze(c, n) =
           [ctx |-> KeccakOut(m, k + n), out |-> Cut(KeccakStream(m), k, n)]
  <1>. DEFINE f == KeccakStream(m)
              a == KeccakSteps(c, n)
              S == {i \in Nat : i <= n =>
                      a[i] = [ctx |-> KeccakOut(m, k + i), out |-> Cut(f, k, i)]}
  <1>1. /\ a[0] = [ctx |-> KeccakPad(c), out |-> <<>>]
        /\ \A i \in 1..n : a[i] = KeccakThen(a[i - 1])
    BY KeccakTurns
  <1>2. PICK T : IsStream(f, T)
    BY StreamsAre
  <1>. HIDE DEF a, f
  <1>3. 0 \in S
    <2>1. Cut(f, k, 0) = <<>>
      BY DEF Cut
    <2>2. k + 0 = k
      OBVIOUS
    <2>. QED BY <1>1, <2>1, <2>2
  <1>4. ASSUME NEW i \in Nat, i \in S PROVE i + 1 \in S
    <2>. SUFFICES ASSUME i + 1 <= n
                  PROVE  a[i + 1] = [ctx |-> KeccakOut(m, k + (i + 1)),
                                     out |-> Cut(f, k, i + 1)]
      OBVIOUS
    <2>1. PICK j \in Nat : j = k + i /\ k + (i + 1) = j + 1 /\ k + i + 1 = j + 1
      OBVIOUS
    <2>2. a[i] = [ctx |-> KeccakOut(m, j), out |-> Cut(f, k, i)]
      BY <1>4, <2>1
    <2>3. a[i + 1] = KeccakThen(a[i])
      <3>1. i + 1 \in 1..n /\ (i + 1) - 1 = i
        OBVIOUS
      <3>. QED BY <1>1, <3>1
    <2>4. KeccakThen([ctx |-> KeccakOut(m, j), out |-> Cut(f, k, i)]) =
            [ctx |-> KeccakOut(m, j + 1),
             out |-> Append(Cut(f, k, i), KeccakByte(m, j + 1))]
      BY KeccakPutsOut
    <2>5. Append(Cut(f, k, i), KeccakByte(m, j + 1)) = Cut(f, k, i + 1)
      <3>1. f[k + i + 1] = KeccakByte(m, j + 1)
        BY <2>1, StreamsAre DEF f
      <3>2. Cut(f, k, i + 1) = Append(Cut(f, k, i), f[k + i + 1])
        BY <1>2, CutGrows
      <3>. QED BY <3>1, <3>2, Zenon
    <2>. QED BY <2>1, <2>2, <2>3, <2>4, <2>5, Zenon
  <1>5. n \in S
    <2>. HIDE DEF S
    <2>. QED BY <1>3, <1>4, SetInduction
  <1>6. a[n] = [ctx |-> KeccakOut(m, k + n), out |-> Cut(f, k, n)]
    BY <1>5
  <1>. QED BY <1>6, Zenon DEF KeccakSqueeze, a, f

\* ascon_squeeze_common puts out the next n bytes of the message.
LEMMA AsconSqueezes ==
  ASSUME Rate, NEW m \in Seq(Int), NEW k \in Nat, NEW c, NEW n \in Nat,
         AsconPad(c) = AsconOut(m, k)
  PROVE  AsconSqueeze(c, n) =
           [ctx |-> AsconOut(m, k + n), out |-> Cut(AsconStream(m), k, n)]
  <1>. DEFINE f == AsconStream(m)
              a == AsconSteps(c, n)
              S == {i \in Nat : i <= n =>
                      a[i] = [ctx |-> AsconOut(m, k + i), out |-> Cut(f, k, i)]}
  <1>1. /\ a[0] = [ctx |-> AsconPad(c), out |-> <<>>]
        /\ \A i \in 1..n : a[i] = AsconThen(a[i - 1])
    BY AsconTurns
  <1>2. PICK T : IsStream(f, T)
    BY StreamsAre
  <1>. HIDE DEF a, f
  <1>3. 0 \in S
    <2>1. Cut(f, k, 0) = <<>>
      BY DEF Cut
    <2>2. k + 0 = k
      OBVIOUS
    <2>. QED BY <1>1, <2>1, <2>2
  <1>4. ASSUME NEW i \in Nat, i \in S PROVE i + 1 \in S
    <2>. SUFFICES ASSUME i + 1 <= n
                  PROVE  a[i + 1] = [ctx |-> AsconOut(m, k + (i + 1)),
                                     out |-> Cut(f, k, i + 1)]
      OBVIOUS
    <2>1. PICK j \in Nat : j = k + i /\ k + (i + 1) = j + 1 /\ k + i + 1 = j + 1
      OBVIOUS
    <2>2. a[i] = [ctx |-> AsconOut(m, j), out |-> Cut(f, k, i)]
      BY <1>4, <2>1
    <2>3. a[i + 1] = AsconThen(a[i])
      <3>1. i + 1 \in 1..n /\ (i + 1) - 1 = i
        OBVIOUS
      <3>. QED BY <1>1, <3>1
    <2>4. AsconThen([ctx |-> AsconOut(m, j), out |-> Cut(f, k, i)]) =
            [ctx |-> AsconOut(m, j + 1),
             out |-> Append(Cut(f, k, i), AsconByte(m, j + 1))]
      BY AsconPutsOut
    <2>5. Append(Cut(f, k, i), AsconByte(m, j + 1)) = Cut(f, k, i + 1)
      <3>1. f[k + i + 1] = AsconByte(m, j + 1)
        BY <2>1, StreamsAre DEF f
      <3>2. Cut(f, k, i + 1) = Append(Cut(f, k, i), f[k + i + 1])
        BY <1>2, CutGrows
      <3>. QED BY <3>1, <3>2, Zenon
    <2>. QED BY <2>1, <2>2, <2>3, <2>4, <2>5, Zenon
  <1>5. n \in S
    <2>. HIDE DEF S
    <2>. QED BY <1>3, <1>4, SetInduction
  <1>6. a[n] = [ctx |-> AsconOut(m, k + n), out |-> Cut(f, k, n)]
    BY <1>5
  <1>. QED BY <1>6, Zenon DEF AsconSqueeze, a, f

-----------------------------------------------------------------------------
(* SHA-2.                                                                  *)

Width == B \in Nat /\ B >= 1

\* Division of a length by the block size.
LEMMA BlockParts ==
  ASSUME Width, NEW n \in Nat
  PROVE  /\ n \div B \in Nat /\ n % B \in 0..(B - 1)
         /\ n = (n \div B) * B + (n % B)
  <1>. USE DEF Width
  <1>1. n \div B \in Nat
    OBVIOUS
  <1>2. n % B \in 0..(B - 1)
    OBVIOUS
  <1>3. n = (n \div B) * B + (n % B)
    OBVIOUS
  <1>. QED BY <1>1, <1>2, <1>3

\* A quotient and a remainder are the only ones.
LEMMA BlockPartsAre ==
  ASSUME Width, NEW n \in Nat, NEW k \in Nat, NEW p \in 0..(B - 1), n = k * B + p
  PROVE  n \div B = k /\ n % B = p
  BY DEF Width

\* Block b of k blocks lies within them.
LEMMA BlockStarts ==
  ASSUME Width, NEW k \in Nat, NEW b \in 1..k
  PROVE  (b - 1) * B \in Nat /\ b * B = (b - 1) * B + B /\ (b - 1) * B + B <= k * B
  BY DEF Width

BlocksOf(m, k) == [b \in 1..k |-> SubSeq(m, (b - 1) * B + 1, b * B)]

\* The B bytes of a message from d on.
LEMMA BlockIs ==
  ASSUME Width, NEW m \in Seq(Int), NEW d \in Nat, d + B <= Len(m)
  PROVE  /\ SubSeq(m, d + 1, d + B) \in Seq(Int)
         /\ Len(SubSeq(m, d + 1, d + B)) = B
         /\ \A i \in 1..B : SubSeq(m, d + 1, d + B)[i] = m[d + i]
  <1>1. d + 1 \in 1..(Len(m) + 1) /\ d + B \in d..Len(m)
    BY DEF Width
  <1>2. Len(SubSeq(m, d + 1, d + B)) = B /\ SubSeq(m, d + 1, d + B) \in Seq(Int)
    BY <1>1 DEF Width
  <1>3. ASSUME NEW i \in 1..B PROVE SubSeq(m, d + 1, d + B)[i] = m[d + i]
    BY <1>1 DEF Width
  <1>. QED BY <1>2, <1>3

\* Block s of a sequence at d, byte by byte.
IsBlock(s, m, d) ==
  s \in Seq(Int) /\ Len(s) = B /\ \A i \in 1..B : s[i] = m[d + i]

\* There is one block at d.
LEMMA SameBlock ==
  ASSUME NEW m, NEW d, NEW s, NEW t, IsBlock(s, m, d), IsBlock(t, m, d)
  PROVE  s = t
  <1>1. s \in Seq(Int) /\ t \in Seq(Int) /\ Len(s) = Len(t)
    BY DEF IsBlock
  <1>2. \A i \in 1..Len(s) : s[i] = t[i]
    BY DEF IsBlock
  <1>. QED BY <1>1, <1>2

\* The blocks of a message are blocks of it.
LEMMA BlockOf ==
  ASSUME Width, NEW m \in Seq(Int), NEW k \in Nat, k * B <= Len(m), NEW b \in 1..k
  PROVE  IsBlock(BlocksOf(m, k)[b], m, (b - 1) * B)
  <1>. DEFINE d == (b - 1) * B
              e == b * B
  <1>1. BlocksOf(m, k)[b] = SubSeq(m, d + 1, e)
    BY DEF BlocksOf
  <1>2. d \in Nat /\ e = d + B /\ d + B <= k * B
    BY BlockStarts
  <1>3. k * B \in Nat
    BY DEF Width
  <1>. HIDE DEF d, e
  <1>4. d + B <= Len(m)
    <2>. DEFINE f == k * B
    <2>1. f \in Nat /\ d + B <= f /\ f <= Len(m)
      BY <1>2, <1>3
    <2>. HIDE DEF f
    <2>. QED BY <1>2, <2>1 DEF Width
  <1>5. IsBlock(SubSeq(m, d + 1, d + B), m, d)
    BY <1>2, <1>4, BlockIs DEF IsBlock
  <1>. QED BY <1>1, <1>2, <1>5 DEF d

\* The blocks of a message are a sequence.
LEMMA BlocksAre ==
  ASSUME Width, NEW m \in Seq(Int), NEW k \in Nat, k * B <= Len(m)
  PROVE  /\ BlocksOf(m, k) \in [1..k -> Seq(Int)]
         /\ BlocksOf(m, k) \in Seq(Seq(Int)) /\ Len(BlocksOf(m, k)) = k
  <1>1. PICK h : h = BlocksOf(m, k) /\ h = [b \in 1..k |-> h[b]]
    BY DEF BlocksOf
  <1>2. \A b \in 1..k : h[b] \in Seq(Int)
    BY <1>1, BlockOf DEF IsBlock
  <1>3. h \in [1..k -> Seq(Int)]
    BY <1>1, <1>2
  <1>. QED BY <1>1, <1>3, FunIsSeq

\* A sequence of blocks is that of the message.
LEMMA BlocksAreThose ==
  ASSUME Width, NEW m \in Seq(Int), NEW k \in Nat, k * B <= Len(m),
         NEW h \in Seq(Seq(Int)), Len(h) = k,
         \A b \in 1..k : IsBlock(h[b], m, (b - 1) * B)
  PROVE  h = BlocksOf(m, k)
  <1>1. PICK g : g = BlocksOf(m, k)
    OBVIOUS
  <1>2. g \in Seq(Seq(Int)) /\ Len(g) = k
    BY <1>1, BlocksAre
  <1>3. \A b \in 1..k : h[b] = g[b]
    BY <1>1, BlockOf, SameBlock
  <1>4. h = g
    BY <1>2, <1>3, SeqSame
  <1>. QED BY <1>1, <1>4

\* The bytes of m from d on are at the start of the buffer.
IsTail(p, m, d) ==
  p \in [1..B -> Int] /\ \A i \in 1..B : d + i <= Len(m) => p[i] = m[d + i]

\* memcpy into the buffer, byte by byte.
LEMMA CopyIs ==
  ASSUME Width, NEW p \in [1..B -> Int], NEW at \in Nat, NEW in \in Seq(Int)
  PROVE  /\ Copy(p, at, in) \in [1..B -> Int]
         /\ \A i \in 1..B :
              /\ i <= at => Copy(p, at, in)[i] = p[i]
              /\ i > at /\ i <= at + Len(in) => Copy(p, at, in)[i] = in[i - at]
              /\ i > at + Len(in) => Copy(p, at, in)[i] = p[i]
  <1>1. PICK l \in Nat : l = Len(in)
    OBVIOUS
  <1>2. \A i \in 1..B :
          Copy(p, at, in)[i] = IF i \in (at + 1)..(at + l) THEN in[i - at] ELSE p[i]
    BY <1>1 DEF Copy
  <1>3. \A i \in 1..B : i \in (at + 1)..(at + l) => in[i - at] \in Int
    BY <1>1
  <1>4. Copy(p, at, in) = [i \in 1..B |-> Copy(p, at, in)[i]]
    BY DEF Copy
  <1>5. \A i \in 1..B : Copy(p, at, in)[i] \in Int
    BY <1>2, <1>3
  <1>. QED BY <1>1, <1>2, <1>4, <1>5

\* Transitivity, for products that stay opaque.
LEMMA AtMost ==
  ASSUME NEW x \in Int, NEW y \in Int, NEW z \in Int, x <= y, y <= z
  PROVE  x <= z
  OBVIOUS

IsJoin(u, x, y) ==
  /\ Len(u) = Len(x) + Len(y)
  /\ \A j \in 1..(Len(x) + Len(y)) :
       u[j] = IF j <= Len(x) THEN x[j] ELSE y[j - Len(x)]

\* A concatenation, element by element.
LEMMA CatElements ==
  ASSUME NEW T, NEW x \in Seq(T), NEW y \in Seq(T), NEW u, u = x \o y
  PROVE  u \in Seq(T) /\ IsJoin(u, x, y)
  BY DEF IsJoin

\* More bytes go behind those in the buffer.
LEMMA TailGrows ==
  ASSUME Width, NEW m, NEW in, NEW s, IsCat(s, m, in), NEW d \in Nat,
         NEW t \in 0..(B - 1), Len(m) = d + t, t + Len(in) <= B,
         NEW p, IsTail(p, m, d)
  PROVE  IsTail(Copy(p, t, in), s, d)
  <1>1. /\ in \in Seq(Int) /\ Len(in) \in Nat /\ Len(s) = d + t + Len(in)
        /\ \A i \in 1..(d + t) : s[i] = m[i]
        /\ \A i \in 1..Len(in) : s[d + t + i] = in[i]
    <2>1. /\ in \in Seq(Int) /\ Len(in) \in Nat /\ Len(s) = Len(m) + Len(in)
          /\ \A i \in 1..Len(m) : s[i] = m[i]
          /\ \A i \in 1..Len(in) : s[Len(m) + i] = in[i]
      BY SMTT(30) DEF IsCat
    <2>. QED BY <2>1, Zenon
  <1>2. p \in [1..B -> Int] /\ \A i \in 1..B : i <= t => p[i] = m[d + i]
    BY DEF IsTail
  <1>3. PICK c : c = Copy(p, t, in)
    OBVIOUS
  <1>4. t \in Nat
    BY DEF Width
  <1>5. /\ c \in [1..B -> Int]
        /\ \A i \in 1..B : /\ i <= t => c[i] = p[i]
                           /\ i > t /\ i <= t + Len(in) => c[i] = in[i - t]
    BY <1>1, <1>2, <1>3, <1>4, CopyIs
  <1>6. ASSUME NEW i \in 1..B, d + i <= Len(s) PROVE c[i] = s[d + i]
    <2>1. CASE i <= t
      <3>1. d + i \in 1..(d + t)
        BY <2>1, <1>4
      <3>. QED BY <1>1, <1>2, <1>5, <2>1, <3>1
    <2>2. CASE i > t
      <3>1. PICK j \in 1..Len(in) : j = i - t /\ d + t + j = d + i /\ i <= t + Len(in)
        <4>1. i - t \in 1..Len(in) /\ d + t + (i - t) = d + i /\ i <= t + Len(in)
          BY <1>1, <1>4, <1>6, <2>2
        <4>. QED BY <4>1, Zenon
      <3>2. c[i] = in[j] /\ s[d + t + j] = in[j]
        BY <1>1, <1>5, <2>2, <3>1
      <3>. QED BY <3>1, <3>2
    <2>. QED BY <1>4, <2>1, <2>2
  <1>. QED BY <1>3, <1>5, <1>6 DEF IsTail

\* A block of a message is one of a longer message.
LEMMA BlockStays ==
  ASSUME Width, NEW m, NEW in, NEW s, IsCat(s, m, in), NEW d \in Nat,
         d + B <= Len(m), NEW x, IsBlock(x, m, d)
  PROVE  IsBlock(x, s, d)
  <1>1. Len(m) \in Nat /\ \A i \in 1..Len(m) : s[i] = m[i]
    BY DEF IsCat
  <1>2. \A i \in 1..B : d + i \in 1..Len(m)
    BY <1>1 DEF Width
  <1>. QED BY <1>1, <1>2 DEF IsBlock

\* A block of the input is one of the longer message.
LEMMA BlockShifts ==
  ASSUME Width, NEW m, NEW in, NEW s, IsCat(s, m, in), NEW d \in Nat,
         d + B <= Len(in), NEW x, IsBlock(x, in, d), NEW e, e = Len(m) + d
  PROVE  IsBlock(x, s, e)
  <1>1. /\ Len(m) \in Nat /\ Len(in) \in Nat
        /\ \A i \in 1..Len(in) : s[Len(m) + i] = in[i]
    BY DEF IsCat
  <1>2. \A i \in 1..B : d + i \in 1..Len(in)
    BY <1>1 DEF Width
  <1>3. ASSUME NEW i \in 1..B PROVE x[i] = s[e + i]
    <2>1. s[Len(m) + (d + i)] = in[d + i]
      BY <1>1, <1>2
    <2>2. Len(m) + (d + i) = e + i
      BY <1>1
    <2>3. x[i] = in[d + i]
      BY DEF IsBlock
    <2>. QED BY <2>1, <2>2, <2>3, Zenon
  <1>. QED BY <1>3 DEF IsBlock

\* Whole blocks follow whole blocks.
LEMMA BlocksFollow ==
  ASSUME Width, NEW m, NEW in, NEW s, IsCat(s, m, in), NEW k \in Nat,
         Len(m) = k * B, NEW n \in Nat, n * B <= Len(in)
  PROVE  BlocksOf(m, k) \o BlocksOf(in, n) = BlocksOf(s, k + n)
  <1>1. /\ m \in Seq(Int) /\ in \in Seq(Int) /\ s \in Seq(Int)
        /\ Len(m) \in Nat /\ Len(in) \in Nat /\ Len(s) = Len(m) + Len(in)
    BY DEF IsCat
  <1>2. PICK g, h, u : g = BlocksOf(m, k) /\ h = BlocksOf(in, n) /\ u = g \o h
    OBVIOUS
  <1>3. /\ g \in Seq(Seq(Int)) /\ Len(g) = k
        /\ h \in Seq(Seq(Int)) /\ Len(h) = n
    <2>1. k * B <= Len(m)
      BY <1>1
    <2>. QED BY <1>1, <1>2, <2>1, BlocksAre
  <1>4. /\ u \in Seq(Seq(Int)) /\ Len(u) = k + n
        /\ \A b \in 1..(k + n) : u[b] = IF b <= k THEN g[b] ELSE h[b - k]
    <2>1. u \in Seq(Seq(Int)) /\ IsJoin(u, g, h)
      BY <1>2, <1>3, CatElements, Zenon
    <2>. QED BY <1>3, <2>1, Zenon DEF IsJoin
  <1>5. ASSUME NEW b \in 1..(k + n) PROVE IsBlock(u[b], s, (b - 1) * B)
    <2>1. CASE b <= k
      <3>1. b \in 1..k
        BY <2>1
      <3>2. PICK d \in Nat : d = (b - 1) * B /\ d + B <= Len(m)
        BY <3>1, BlockStarts
      <3>3. IsBlock(g[b], m, d)
        <4>1. k * B <= Len(m)
          BY <1>1
        <4>. QED BY <1>1, <1>2, <3>1, <3>2, <4>1, BlockOf
      <3>4. u[b] = g[b]
        BY <1>4, <2>1
      <3>5. IsBlock(g[b], s, d)
        BY <3>2, <3>3, BlockStays
      <3>. QED BY <3>2, <3>4, <3>5
    <2>2. CASE b > k
      <3>1. PICK j \in 1..n : j = b - k
        BY <2>2
      <3>2. PICK d \in Nat : d = (j - 1) * B /\ d + B <= n * B
        BY <3>1, BlockStarts
      <3>3. IsBlock(h[j], in, d)
        BY <1>1, <1>2, <3>1, <3>2, BlockOf
      <3>4. u[b] = h[j]
        BY <1>4, <2>2, <3>1
      <3>5. (b - 1) * B = Len(m) + d
        <4>1. b - 1 = k + (j - 1)
          BY <3>1
        <4>2. (k + (j - 1)) * B = k * B + (j - 1) * B
          BY DEF Width
        <4>. QED BY <3>2, <4>1, <4>2
      <3>6. d + B <= Len(in)
        <4>1. n * B \in Nat
          BY DEF Width
        <4>. DEFINE e == n * B
        <4>2. d + B <= e /\ e <= Len(in) /\ e \in Nat
          BY <3>2, <4>1
        <4>. HIDE DEF e
        <4>. QED BY <1>1, <4>2 DEF Width
      <3>7. PICK e : e = (b - 1) * B
        OBVIOUS
      <3>8. IsBlock(h[j], s, e)
        BY <3>3, <3>5, <3>6, <3>7, BlockShifts
      <3>. QED BY <3>4, <3>7, <3>8
    <2>. QED BY <2>1, <2>2
  <1>6. (k + n) * B <= Len(s)
    <2>1. (k + n) * B = k * B + n * B /\ k * B \in Nat /\ n * B \in Nat
      BY DEF Width
    <2>. QED BY <1>1, <2>1
  <1>7. k + n \in Nat
    OBVIOUS
  <1>8. u = BlocksOf(s, k + n)
    BY <1>1, <1>4, <1>5, <1>6, <1>7, BlocksAreThose
  <1>. QED BY <1>2, <1>8

\* The buffer that has been filled is the next block.
LEMMA BlockFilled ==
  ASSUME Width, NEW m, NEW in, NEW s, IsCat(s, m, in), NEW k \in Nat,
         NEW d, d = k * B, d <= Len(m), Len(s) = d + B, NEW f, IsTail(f, s, d)
  PROVE  BlocksOf(m, k) \o <<f>> = BlocksOf(s, k + 1)
  <1>1. /\ m \in Seq(Int) /\ s \in Seq(Int) /\ Len(m) \in Nat /\ Len(s) \in Nat
    BY DEF IsCat
  <1>2. d \in Nat /\ (k + 1) * B = d + B
    BY DEF Width
  <1>3. PICK g, u : g = BlocksOf(m, k) /\ u = g \o <<f>>
    OBVIOUS
  <1>4. g \in Seq(Seq(Int)) /\ Len(g) = k
    BY <1>1, <1>3, BlocksAre
  <1>5. IsBlock(f, s, d) /\ f \in Seq(Int)
    <2>1. f \in [1..B -> Int] /\ \A i \in 1..B : f[i] = s[d + i]
      BY <1>2 DEF IsTail, Width
    <2>2. f \in Seq(Int) /\ Len(f) = B
      BY <2>1, FunIsSeq DEF Width
    <2>. QED BY <2>1, <2>2 DEF IsBlock
  <1>6. /\ u \in Seq(Seq(Int)) /\ Len(u) = k + 1 /\ u[k + 1] = f
        /\ \A b \in 1..k : u[b] = g[b]
    <2>1. PICK T, y : T = Seq(Int) /\ y = f
      OBVIOUS
    <2>2. g \in Seq(T) /\ u = g \o <<y>> /\ y \in T
      BY <1>3, <1>4, <1>5, <2>1
    <2>3. /\ u \in Seq(T) /\ Len(u) = k + 1 /\ u[k + 1] = y
          /\ \A b \in 1..k : u[b] = g[b]
      <3>0. PICK z : z = <<y>>
        OBVIOUS
      <3>1. z \in Seq(T) /\ Len(z) = 1 /\ z[1] = y
        BY <2>2, <3>0
      <3>2. u \in Seq(T) /\ IsJoin(u, g, z)
        BY <2>2, <3>0, <3>1, CatElements, Zenon
      <3>3. Len(u) = k + 1 /\ \A b \in 1..(k + 1) : u[b] = IF b <= k THEN g[b] ELSE z[b - k]
        BY <1>4, <3>1, <3>2, Zenon DEF IsJoin
      <3>4. k + 1 \in 1..(k + 1) /\ ~ (k + 1 <= k) /\ (k + 1) - k = 1
        OBVIOUS
      <3>5. u[k + 1] = y
        BY <3>1, <3>3, <3>4, Zenon
      <3>6. \A b \in 1..k : b \in 1..(k + 1) /\ b <= k
        OBVIOUS
      <3>7. \A b \in 1..k : u[b] = g[b]
        BY <3>3, <3>6, Zenon
      <3>. QED BY <3>2, <3>3, <3>5, <3>7, Zenon
    <2>. QED BY <2>1, <2>3
  <1>7. ASSUME NEW b \in 1..(k + 1) PROVE IsBlock(u[b], s, (b - 1) * B)
    <2>1. CASE b = k + 1
      <3>1. b - 1 = k
        BY <2>1
      <3>. QED BY <1>5, <1>6, <2>1, <3>1
    <2>2. CASE b # k + 1
      <3>1. b \in 1..k
        BY <2>2
      <3>2. PICK e \in Nat : e = (b - 1) * B /\ e + B <= d
        BY <3>1, BlockStarts
      <3>3. IsBlock(g[b], m, e)
        BY <1>1, <1>3, <3>1, <3>2, BlockOf
      <3>4. e + B <= Len(m)
        <4>1. e + B \in Int
          BY <3>2 DEF Width
        <4>. QED BY <1>1, <1>2, <3>2, <4>1, AtMost
      <3>5. IsBlock(g[b], s, e)
        BY <3>3, <3>4, BlockStays
      <3>. QED BY <1>6, <3>1, <3>2, <3>5
    <2>. QED BY <2>1, <2>2
  <1>8. k + 1 \in Nat /\ (k + 1) * B <= Len(s)
    BY <1>1, <1>2 DEF Width
  <1>9. u = BlocksOf(s, k + 1)
    BY <1>1, <1>6, <1>7, <1>8, BlocksAreThose
  <1>. QED BY <1>3, <1>9

Sha2Ctx(h, p, l) == [H |-> h, partial |-> p, msg_len |-> l]

\* The context that has absorbed m: k blocks transformed, t bytes buffered.
IsSha2(c, m, k, t, p) ==
  /\ m \in Seq(Int) /\ Len(m) = k * B + t /\ IsTail(p, m, k * B)
  /\ c = Sha2Ctx(BlocksOf(m, k), p, Len(m))

Sha2Held(c, m) ==
  \E k \in Nat, t \in 0..(B - 1) : \E p : IsSha2(c, m, k, t, p)

\* What the update does with the bytes after the next block boundary.
Rest(h, p, rest, l) ==
  Sha2Ctx(h \o BlocksOf(rest, Len(rest) \div B),
          Copy(p, 0, SubSeq(rest, (Len(rest) \div B) * B + 1, Len(rest))), l)

\* A context after init has absorbed the empty message.
LEMMA Sha2Fresh ==
  ASSUME Width
  PROVE  Sha2Held(FreshSha2, <<>>)
  <1>1. PICK p : p = [i \in 1..B |-> Zero]
    OBVIOUS
  <1>2. IsTail(p, <<>>, 0 * B)
    <2>1. Len(<<>>) = 0 /\ 0 * B = 0
      BY DEF Width
    <2>2. p \in [1..B -> Int]
      BY <1>1 DEF Zero
    <2>. QED BY <2>1, <2>2 DEF IsTail
  <1>3. FreshSha2 = Sha2Ctx(BlocksOf(<<>>, 0), p, Len(<<>>))
    <2>1. BlocksOf(<<>>, 0) = <<>>
      BY DEF BlocksOf
    <2>. QED BY <1>1, <2>1 DEF FreshSha2, Sha2Ctx
  <1>4. <<>> \in Seq(Int) /\ Len(<<>>) = 0 * B + 0 /\ 0 \in Nat /\ 0 \in 0..(B - 1)
    BY DEF Width
  <1>5. IsSha2(FreshSha2, <<>>, 0, 0, p)
    BY <1>2, <1>3, <1>4, Zenon DEF IsSha2
  <1>. QED BY <1>4, <1>5 DEF Sha2Held

\* Input from a boundary on: full blocks are compressed, the rest is buffered.
LEMMA Sha2Rest ==
  ASSUME Width, NEW m, NEW rest, NEW s, IsCat(s, m, rest), NEW k \in Nat,
         Len(m) = k * B, NEW p \in [1..B -> Int]
  PROVE  Sha2Held(Rest(BlocksOf(m, k), p, rest, Len(s)), s)
  <1>1. /\ m \in Seq(Int) /\ rest \in Seq(Int) /\ s \in Seq(Int)
        /\ Len(m) \in Nat /\ Len(rest) \in Nat /\ Len(s) = Len(m) + Len(rest)
    BY DEF IsCat
  <1>2. PICK n \in Nat, t \in 0..(B - 1) : n = Len(rest) \div B /\ Len(rest) = n * B + t
    BY <1>1, BlockParts, Zenon
  <1>3. PICK d \in Nat, e \in Nat : d = k * B /\ e = n * B
    BY DEF Width
  <1>4. (k + n) * B = d + e /\ k + n \in Nat
    BY <1>3 DEF Width
  <1>5. PICK tail, mid : tail = SubSeq(rest, e + 1, Len(rest)) /\ mid = Upto(m, rest, e)
    OBVIOUS
  <1>6. e \in 0..Len(rest) /\ Len(rest) \in e..Len(rest) /\ Len(rest) - e = t /\ Len(m) = d
    BY <1>1, <1>2, <1>3 DEF Width
  <1>7. /\ IsCat(Upto(m, rest, Len(rest)), mid, tail) /\ Len(tail) = Len(rest) - e
        /\ Len(mid) = Len(m) + e
    <2>1. /\ IsCat(Upto(m, rest, Len(rest)), mid, tail)
          /\ Len(tail) = Len(rest) - e
      BY <1>1, <1>5, <1>6, UptoGrows, Zenon
    <2>2. Len(mid) = Len(m) + e
      BY <1>1, <1>5, <1>6, UptoGrows
    <2>. QED BY <2>1, <2>2
  <1>8. Upto(m, rest, Len(rest)) = s
    <2>1. s = m \o rest
      BY CatIs, Zenon
    <2>2. Upto(m, rest, Len(rest)) = m \o rest
      BY <1>1, UptoEnds, Zenon
    <2>. QED BY <2>1, <2>2, Zenon
  <1>9. IsTail(p, mid, d + e)
    <2>1. \A i \in 1..B : ~ ((d + e) + i <= Len(mid))
      BY <1>6, <1>7 DEF Width
    <2>. QED BY <2>1 DEF IsTail
  <1>10. IsTail(Copy(p, 0, tail), s, d + e)
    <2>1. /\ IsCat(s, mid, tail) /\ d + e \in Nat /\ 0 \in 0..(B - 1)
          /\ Len(mid) = (d + e) + 0 /\ 0 + Len(tail) <= B
      BY <1>6, <1>7, <1>8 DEF Width
    <2>. QED BY <1>9, <2>1, TailGrows
  <1>11. BlocksOf(m, k) \o BlocksOf(rest, n) = BlocksOf(s, k + n)
    <2>1. n * B <= Len(rest)
      BY <1>3, <1>6
    <2>. QED BY <2>1, BlocksFollow
  <1>12. Len(s) = (k + n) * B + t
    <2>1. Len(s) = (d + e) + t
      <3>1. Len(rest) = e + t
        BY <1>2, <1>3, Zenon
      <3>. QED BY <1>1, <1>3, <1>6, <3>1
    <2>. QED BY <1>4, <2>1, Zenon
  <1>13. PICK c, q : c = Rest(BlocksOf(m, k), p, rest, Len(s)) /\ q = Copy(p, 0, tail)
    OBVIOUS
  <1>14. c = Sha2Ctx(BlocksOf(s, k + n), q, Len(s))
    BY <1>2, <1>3, <1>5, <1>11, <1>13, Zenon DEF Rest
  <1>15. IsSha2(c, s, k + n, t, q)
    BY <1>1, <1>4, <1>10, <1>12, <1>13, <1>14, Zenon DEF IsSha2
  <1>. QED BY <1>4, <1>13, <1>15, Zenon DEF Sha2Held

\* lc_sha256_update: the context of a message becomes that of the longer one.
LEMMA Sha2Updates ==
  ASSUME Width, NEW m \in Seq(Int), NEW in \in Seq(Int), NEW c, Sha2Held(c, m)
  PROVE  Sha2Held(Sha2Update(c, in), m \o in)
  <1>0. PICK k \in Nat, t \in 0..(B - 1) : \E p : IsSha2(c, m, k, t, p)
    BY DEF Sha2Held
  <1>1. PICK p : IsSha2(c, m, k, t, p)
    BY <1>0, Zenon
  <1>2. PICK s : s = m \o in /\ IsCat(s, m, in)
    BY Joined
  <1>3. PICK h, l : h = BlocksOf(m, k) /\ l = Len(m)
    OBVIOUS
  <1>4. PICK d \in Nat : d = k * B
    BY DEF Width
  <1>5. /\ c = Sha2Ctx(h, p, l) /\ l = d + t /\ IsTail(p, m, d)
        /\ p \in [1..B -> Int]
    BY <1>1, <1>3, <1>4, Zenon DEF IsSha2, IsTail
  <1>5a. c.H = h /\ c.partial = p /\ c.msg_len = l
    BY <1>5 DEF Sha2Ctx
  <1>6. PICK n \in Nat : n = Len(in) /\ Len(s) = l + n
    <2>1. Len(in) \in Nat
      OBVIOUS
    <2>2. Len(s) = l + Len(in)
      BY <1>2, <1>3, Zenon DEF IsCat
    <2>. QED BY <2>1, <2>2, Zenon
  <1>7. l % B = t
    <2>1. l \in Nat /\ l = k * B + t
      BY <1>4, <1>5
    <2>. QED BY <2>1, BlockPartsAre
  <1>8. PICK todo \in 1..B : todo = B - t
    BY DEF Width
  <1>9. CASE t # 0 /\ n < todo
    <2>1. Sha2Update(c, in) = Sha2Ctx(h, Copy(p, t, in), Len(s))
      <3>1. l % B # 0 /\ Len(in) < B - (l % B)
        BY <1>6, <1>7, <1>8, <1>9, Zenon
      <3>2. Sha2Update(c, in) = Sha2Ctx(h, Copy(p, l % B, in), l + Len(in))
        BY <1>5a, <3>1, Zenon DEF Sha2Update, Sha2Ctx
      <3>. QED BY <1>6, <1>7, <3>2, Zenon
    <2>2. t + n \in 0..(B - 1) /\ t + n <= B
      BY <1>8, <1>9 DEF Width
    <2>3. IsTail(Copy(p, t, in), s, d)
      <3>1. Len(m) = d + t /\ t + Len(in) <= B
        BY <1>3, <1>5, <1>6, <2>2, Zenon
      <3>. QED BY <1>2, <1>5, <3>1, TailGrows
    <2>4. Len(s) = k * B + (t + n)
      <3>1. Len(s) = d + (t + n)
        BY <1>5, <1>6
      <3>. QED BY <1>4, <3>1, Zenon
    <2>5. h = BlocksOf(s, k)
      <3>1. k * B <= Len(m) /\ Len(m) \in Nat
        BY <1>3, <1>4, <1>5
      <3>2. /\ h \in Seq(Seq(Int)) /\ Len(h) = k
        BY <1>3, <3>1, BlocksAre
      <3>3. ASSUME NEW b \in 1..k PROVE IsBlock(h[b], s, (b - 1) * B)
        <4>1. PICK e \in Nat : e = (b - 1) * B /\ e + B <= d
          BY <1>4, BlockStarts
        <4>2. IsBlock(h[b], m, e)
          BY <1>3, <3>1, <4>1, BlockOf
        <4>3. e + B \in Int /\ d <= Len(m)
          BY <1>4, <3>1, <4>1 DEF Width
        <4>4. e + B <= Len(m)
          BY <1>4, <3>1, <4>1, <4>3, AtMost
        <4>5. IsBlock(h[b], s, e)
          BY <1>2, <4>2, <4>4, BlockStays
        <4>. QED BY <4>1, <4>5
      <3>4. s \in Seq(Int) /\ k * B <= Len(s)
        BY <1>2, <1>3, <1>4, <1>5, <1>6 DEF IsCat
      <3>. QED BY <3>2, <3>3, <3>4, BlocksAreThose
    <2>6. s \in Seq(Int)
      BY <1>2 DEF IsCat
    <2>7. PICK q, v : q = Copy(p, t, in) /\ v = t + n
      OBVIOUS
    <2>8. IsSha2(Sha2Ctx(h, q, Len(s)), s, k, v, q)
      BY <1>4, <2>3, <2>4, <2>5, <2>6, <2>7, Zenon DEF IsSha2
    <2>9. Sha2Held(Sha2Ctx(h, q, Len(s)), s)
      BY <2>2, <2>7, <2>8, Zenon DEF Sha2Held
    <2>. QED BY <1>2, <2>1, <2>7, <2>9, Zenon
  <1>10. CASE t = 0
    <2>1. Sha2Update(c, in) =
            Rest(h \o <<>>, p, SubSeq(in, 0 + 1, Len(in)), l + Len(in))
      <3>1. l % B = 0
        BY <1>7, <1>10, Zenon
      <3>. QED BY <1>5a, <3>1, Zenon DEF Sha2Update, Sha2Ctx, Rest, BlocksOf
    <2>2. SubSeq(in, 0 + 1, Len(in)) = in
      OBVIOUS
    <2>3. k * B <= Len(m)
      BY <1>3, <1>4, <1>5
    <2>4. h \in Seq(Seq(Int))
      BY <1>3, <2>3, BlocksAre
    <2>5. h \o <<>> = h
      BY <2>4
    <2>6. Len(m) = k * B
      BY <1>3, <1>4, <1>5, <1>10
    <2>7. Sha2Held(Rest(BlocksOf(m, k), p, in, Len(s)), s)
      BY <1>2, <1>5, <2>6, Sha2Rest
    <2>. QED BY <1>2, <1>3, <1>6, <2>1, <2>2, <2>5, <2>7, Zenon
  <1>11. CASE t # 0 /\ ~ (n < todo)
    <2>1. PICK first, rest, mid, f :
            /\ first = SubSeq(in, 1, todo) /\ rest = SubSeq(in, todo + 1, Len(in))
            /\ mid = Upto(m, in, todo) /\ f = Copy(p, t, first)
      OBVIOUS
    <2>2. Sha2Update(c, in) = Rest(h \o <<f>>, f, rest, Len(s))
      <3>1. l % B # 0 /\ ~ (Len(in) < B - (l % B))
        BY <1>6, <1>7, <1>8, <1>11, Zenon
      <3>2. f = Copy(p, l % B, SubSeq(in, 1, B - (l % B)))
            /\ rest = SubSeq(in, B - (l % B) + 1, Len(in))
        BY <1>7, <1>8, <2>1, Zenon
      <3>0. PICK g : g = <<f>>
        OBVIOUS
      <3>3. g[1] = f
        BY <3>0
      <3>4. Sha2Update(c, in) =
              Sha2Ctx(h \o g \o BlocksOf(rest, Len(rest) \div B),
                      Copy(g[1], 0, SubSeq(rest, (Len(rest) \div B) * B + 1, Len(rest))),
                      l + Len(in))
        BY <1>5a, <3>0, <3>1, <3>2, Zenon DEF Sha2Update, Sha2Ctx, BlocksOf
      <3>. QED BY <1>6, <3>0, <3>3, <3>4, Zenon DEF Rest
    <2>3. /\ IsCat(mid, m, first) /\ IsCat(s, mid, rest)
          /\ Len(mid) = l + todo /\ Len(first) = todo
      <3>1. todo \in 0..Len(in) /\ 0 \in 0..Len(in) /\ Len(in) \in todo..Len(in)
        BY <1>6, <1>11
      <3>2. /\ IsCat(Upto(m, in, todo), Upto(m, in, 0), SubSeq(in, 0 + 1, todo))
            /\ Len(Upto(m, in, todo)) = Len(m) + todo
        BY <3>1, UptoGrows, Zenon
      <3>3. Len(first) = todo
        BY <2>1, <3>1
      <3>4. IsCat(Upto(m, in, Len(in)), Upto(m, in, todo), SubSeq(in, todo + 1, Len(in)))
        BY <3>1, UptoGrows, Zenon
      <3>5. 0 + 1 = 1
        OBVIOUS
      <3>6. Upto(m, in, 0) = m /\ Upto(m, in, Len(in)) = s
        BY <1>2, UptoEnds, Zenon
      <3>. QED BY <1>3, <2>1, <3>2, <3>3, <3>4, <3>5, <3>6, Zenon
    <2>4. Len(mid) = d + B
      BY <1>5, <1>8, <2>3 DEF Width
    <2>5. IsTail(f, mid, d)
      <3>1. Len(m) = d + t /\ t + Len(first) <= B
        BY <1>3, <1>5, <1>8, <2>3 DEF Width
      <3>. QED BY <1>5, <2>1, <2>3, <3>1, TailGrows
    <2>6. h \o <<f>> = BlocksOf(mid, k + 1)
      <3>1. d <= Len(m)
        BY <1>3, <1>5
      <3>. QED BY <1>3, <1>4, <2>3, <2>4, <2>5, <3>1, BlockFilled, SMTT(30)
    <2>7. f \in [1..B -> Int]
      BY <2>5 DEF IsTail
    <2>8. Len(mid) = (k + 1) * B /\ k + 1 \in Nat
      <3>1. (k + 1) * B = k * B + B
        BY DEF Width
      <3>. QED BY <1>4, <2>4, <3>1
    <2>9. Sha2Held(Rest(BlocksOf(mid, k + 1), f, rest, Len(s)), s)
      BY <2>3, <2>7, <2>8, Sha2Rest
    <2>. QED BY <1>2, <2>2, <2>6, <2>9, Zenon
  <1>. QED BY <1>9, <1>10, <1>11, Zenon

Field == LengthBytes \in Nat /\ LengthBytes < B

\* Its bytes, those of the buffer with the mark and zeros from z on, and those
\* of the block that ends with the length.
IsPad(s, m, l, total) ==
  /\ s \in Seq(Int) /\ Len(s) = total
  /\ \A i \in 1..total :
       /\ i <= l => s[i] = m[i]
       /\ i = l + 1 => s[i] = Bit
       /\ i > l + 1 /\ i = total - LengthBytes + 1 => s[i] = LengthField(l)
       /\ i > l + 1 /\ i # total - LengthBytes + 1 => s[i] = Zero

IsMark(q, p, t, z) ==
  /\ q \in [1..B -> Int]
  /\ \A i \in 1..B : /\ i > z => q[i] = Zero
                     /\ i <= z /\ i <= t => q[i] = p[i]
                     /\ i <= z /\ i = t + 1 => q[i] = Bit

IsLast(x, q, l) ==
  /\ x \in [1..B -> Int]
  /\ \A i \in 1..B : /\ i = B - LengthBytes + 1 => x[i] = LengthField(l)
                     /\ i # B - LengthBytes + 1 => x[i] = q[i]

\* The padding of the standard, byte by byte.
LEMMA PadIs ==
  ASSUME Width, Field, NEW m \in Seq(Int), NEW l \in Nat, l = Len(m),
         NEW total \in Nat, l + 1 + LengthBytes <= total, NEW s, s = Sha2Padded(m, total)
  PROVE  IsPad(s, m, l, total)
  <1>1. ASSUME NEW i \in 1..total
        PROVE  s[i] = CASE i <= l -> m[i]
                        [] i = l + 1 -> Bit
                        [] i = total - LengthBytes + 1 -> LengthField(l)
                        [] OTHER -> Zero
    BY Zenon DEF Sha2Padded
  <1>2. ASSUME NEW i \in 1..total
        PROVE  /\ i <= l => s[i] = m[i]
               /\ i = l + 1 => s[i] = Bit
               /\ i > l + 1 /\ i = total - LengthBytes + 1 => s[i] = LengthField(l)
               /\ i > l + 1 /\ i # total - LengthBytes + 1 => s[i] = Zero
    BY <1>1, <1>2 DEF Field
  <1>3. s = [i \in 1..total |-> s[i]]
    <2>1. Sha2Padded(m, total) = [i \in 1..total |-> Sha2Padded(m, total)[i]]
      BY DEF Sha2Padded
    <2>. QED BY <2>1, Zenon
  <1>4. LengthField(l) \in Int /\ Bit \in Int /\ Zero \in Int
    BY DEF LengthField, Bit, Zero
  <1>5. ASSUME NEW i \in 1..total PROVE s[i] \in Int
    <2>1. CASE i <= l
      <3>1. i \in 1..Len(m)
        BY <2>1
      <3>. QED BY <1>2, <2>1, <3>1
    <2>2. CASE i = l + 1
      BY <1>2, <1>4, <2>2
    <2>3. CASE i > l + 1
      BY <1>2, <1>4, <2>3
    <2>. QED BY <2>1, <2>2, <2>3
  <1>6. s \in [1..total -> Int]
    BY <1>3, <1>5
  <1>7. s \in Seq(Int) /\ Len(s) = total
    BY <1>6, FunIsSeq
  <1>. QED BY <1>2, <1>7 DEF IsPad

\* A message is what a prefix and the rest of it make.
LEMMA PrefixCat ==
  ASSUME NEW m \in Seq(Int), NEW s \in Seq(Int), Len(m) <= Len(s),
         \A i \in 1..Len(m) : s[i] = m[i]
  PROVE  IsCat(s, m, SubSeq(s, Len(m) + 1, Len(s)))
  <1>1. PICK l \in Nat, n \in Nat : l = Len(m) /\ n = Len(s)
    OBVIOUS
  <1>2. PICK u : u = SubSeq(s, l + 1, n)
    OBVIOUS
  <1>3. u \in Seq(Int) /\ Len(u) = n - l /\ \A i \in 1..(n - l) : u[i] = s[l + i]
    BY <1>1, <1>2
  <1>4. IsCat(s, m, u)
    BY <1>1, <1>3 DEF IsCat
  <1>. QED BY <1>1, <1>2, <1>4

\* memset of the rest of the buffer, byte by byte.
LEMMA ZeroFromIs ==
  ASSUME NEW p \in [1..B -> Int], NEW at \in Nat
  PROVE  /\ ZeroFrom(p, at) \in [1..B -> Int]
         /\ \A i \in 1..B : ZeroFrom(p, at)[i] = IF i > at THEN Zero ELSE p[i]
  BY DEF ZeroFrom, Zero

\* The buffer with the mark after the message, and zeros.
LEMMA MarkIs ==
  ASSUME Width, NEW p \in [1..B -> Int], NEW t \in 0..(B - 1), NEW z \in Nat,
         NEW q, q = ZeroFrom(Copy(p, t + 1 - 1, <<Bit>>), z)
  PROVE  IsMark(q, p, t, z)
  <1>1. PICK v, w : v = <<Bit>> /\ w = Copy(p, t, v)
    OBVIOUS
  <1>2. v \in Seq(Int) /\ Len(v) = 1 /\ v[1] = Bit /\ t \in Nat
    BY <1>1 DEF Bit, Width
  <1>3. /\ w \in [1..B -> Int]
        /\ \A i \in 1..B : /\ i <= t => w[i] = p[i]
                           /\ i > t /\ i <= t + Len(v) => w[i] = v[i - t]
    BY <1>1, <1>2, CopyIs
  <1>4. t + 1 - 1 = t
    BY <1>2
  <1>5. q = ZeroFrom(w, z)
    BY <1>1, <1>4, Zenon
  <1>6. q \in [1..B -> Int] /\ \A i \in 1..B : q[i] = IF i > z THEN Zero ELSE w[i]
    <2>1. /\ ZeroFrom(w, z) \in [1..B -> Int]
          /\ \A i \in 1..B : ZeroFrom(w, z)[i] = IF i > z THEN Zero ELSE w[i]
      BY <1>3, ZeroFromIs
    <2>. QED BY <1>5, <2>1, Zenon
  <1>7. \A i \in 1..B : i = t + 1 => w[i] = Bit
    <2>. TAKE i \in 1..B
    <2>. HAVE i = t + 1
    <2>1. i > t /\ i <= t + 1 /\ i - t = 1
      BY <1>2
    <2>. QED BY <1>2, <1>3, <2>1
  <1>. QED BY <1>2, <1>3, <1>6, <1>7 DEF IsMark

\* The length at the end of the last block.
LEMMA LastIs ==
  ASSUME Width, Field, NEW q \in [1..B -> Int], NEW l \in Nat,
         NEW x, x = Copy(q, B - LengthBytes, <<LengthField(l)>>)
  PROVE  IsLast(x, q, l)
  <1>1. PICK v, at : v = <<LengthField(l)>> /\ at = B - LengthBytes
    OBVIOUS
  <1>2. v \in Seq(Int) /\ Len(v) = 1 /\ v[1] = LengthField(l) /\ at \in Nat
    BY <1>1 DEF LengthField, Width, Field
  <1>3. /\ x \in [1..B -> Int]
        /\ \A i \in 1..B : /\ i <= at => x[i] = q[i]
                           /\ i > at /\ i <= at + Len(v) => x[i] = v[i - at]
                           /\ i > at + Len(v) => x[i] = q[i]
    <2>1. x = Copy(q, at, v)
      BY <1>1, Zenon
    <2>2. /\ Copy(q, at, v) \in [1..B -> Int]
          /\ \A i \in 1..B :
               /\ i <= at => Copy(q, at, v)[i] = q[i]
               /\ i > at /\ i <= at + Len(v) => Copy(q, at, v)[i] = v[i - at]
               /\ i > at + Len(v) => Copy(q, at, v)[i] = q[i]
      BY <1>2, CopyIs
    <2>. QED BY <2>1, <2>2, Zenon
  <1>4. ASSUME NEW i \in 1..B, i = at + 1 PROVE x[i] = LengthField(l)
    <2>1. i > at /\ i <= at + 1 /\ i - at = 1
      BY <1>2, <1>4
    <2>. QED BY <1>2, <1>3, <2>1
  <1>5. ASSUME NEW i \in 1..B, i # at + 1 PROVE x[i] = q[i]
    BY <1>2, <1>3, <1>5
  <1>. QED BY <1>1, <1>3, <1>4, <1>5 DEF IsLast

\* Both ways to end: the length fits into the block of the mark, or needs one
\* more.
LEMMA LastTail ==
  ASSUME Width, Field, NEW m, NEW d \in Nat, NEW t \in 0..(B - 1), NEW l,
         l = d + t, t + 1 <= B - LengthBytes, NEW total, total = d + B,
         NEW s, IsPad(s, m, l, total), NEW p, IsTail(p, m, d), l = Len(m),
         NEW q, IsMark(q, p, t, t + 1), NEW x, IsLast(x, q, l)
  PROVE  IsTail(x, s, d)
  <1>1. t \in Nat /\ l \in Nat /\ total \in Nat
    BY DEF Width
  <1>2. ASSUME NEW i \in 1..B PROVE x[i] = s[d + i]
    <2>1. d + i \in 1..total
      BY DEF Width
    <2>2. PICK j \in 1..total : j = d + i
      BY <2>1
    <2>3. CASE i <= t
      <3>1. i <= t + 1 /\ i # B - LengthBytes + 1 /\ j <= l
        BY <1>1, <2>2, <2>3 DEF Width, Field
      <3>2. x[i] = p[i]
        BY <2>3, <3>1, Zenon DEF IsMark, IsLast
      <3>3. s[j] = m[j]
        BY <3>1, Zenon DEF IsPad
      <3>4. d + i <= Len(m)
        BY <2>2, <3>1
      <3>5. p[i] = m[d + i]
        BY <3>4, Zenon DEF IsTail
      <3>. QED BY <2>2, <3>2, <3>3, <3>5, Zenon
    <2>4. CASE i = t + 1
      <3>1. i <= t + 1 /\ i # B - LengthBytes + 1 /\ j = l + 1
        BY <1>1, <2>2, <2>4 DEF Width, Field
      <3>2. x[i] = Bit
        BY <2>4, <3>1, Zenon DEF IsMark, IsLast
      <3>3. s[j] = Bit
        BY <3>1, Zenon DEF IsPad
      <3>. QED BY <2>2, <3>2, <3>3, Zenon
    <2>5. CASE i > t + 1 /\ i = B - LengthBytes + 1
      <3>1. j > l + 1 /\ j = total - LengthBytes + 1
        BY <1>1, <2>2, <2>5 DEF Width, Field
      <3>2. s[j] = LengthField(l)
        BY <3>1, Zenon DEF IsPad
      <3>3. x[i] = LengthField(l)
        BY <2>5, Zenon DEF IsLast
      <3>. QED BY <2>2, <3>2, <3>3, Zenon
    <2>6. CASE i > t + 1 /\ i # B - LengthBytes + 1
      <3>1. j > l + 1 /\ j # total - LengthBytes + 1
        BY <1>1, <2>2, <2>6 DEF Width, Field
      <3>2. s[j] = Zero
        BY <3>1, Zenon DEF IsPad
      <3>3. x[i] = Zero
        BY <2>6, Zenon DEF IsMark, IsLast
      <3>. QED BY <2>2, <3>2, <3>3, Zenon
    <2>. QED BY <1>1, <2>3, <2>4, <2>5, <2>6
  <1>. QED BY <1>2 DEF IsTail, IsLast

\* If the length does not fit, the block of the mark is the last but one.
LEMMA MarkTail ==
  ASSUME Width, Field, NEW m, NEW d \in Nat, NEW t \in 0..(B - 1), NEW l,
         l = d + t, NEW total, total = d + B + B,
         NEW s, IsPad(s, m, l, total), NEW p, IsTail(p, m, d), l = Len(m),
         NEW q, IsMark(q, p, t, t + 1), NEW mid \in Seq(Int), NEW e, e = d + B,
         Len(mid) = e, \A i \in 1..e : mid[i] = s[i]
  PROVE  IsTail(q, mid, d)
  <1>1. t \in Nat /\ l \in Nat /\ total \in Nat
    BY DEF Width
  <1>2. ASSUME NEW i \in 1..B PROVE q[i] = mid[d + i]
    <2>1. d + i \in 1..total /\ d + i \in 1..e
      BY DEF Width
    <2>2. PICK j \in 1..total : j = d + i
      BY <2>1
    <2>2a. mid[j] = s[j]
      BY <2>1, <2>2, Zenon
    <2>3. CASE i <= t
      <3>1. i <= t + 1 /\ j <= l
        BY <1>1, <2>2, <2>3 DEF Width, Field
      <3>2. q[i] = p[i]
        BY <2>3, <3>1, Zenon DEF IsMark
      <3>3. s[j] = m[j]
        BY <3>1, Zenon DEF IsPad
      <3>4. d + i <= Len(m)
        BY <2>2, <3>1
      <3>5. p[i] = m[d + i]
        BY <3>4, Zenon DEF IsTail
      <3>. QED BY <2>2, <2>2a, <3>2, <3>3, <3>5, Zenon
    <2>4. CASE i = t + 1
      <3>1. i <= t + 1 /\ j = l + 1
        BY <1>1, <2>2, <2>4 DEF Width, Field
      <3>2. q[i] = Bit
        BY <2>4, <3>1, Zenon DEF IsMark
      <3>3. s[j] = Bit
        BY <3>1, Zenon DEF IsPad
      <3>. QED BY <2>2, <2>2a, <3>2, <3>3, Zenon
    <2>5. CASE i > t + 1
      <3>1. j > l + 1 /\ j # total - LengthBytes + 1
        BY <1>1, <2>2, <2>5 DEF Width, Field
      <3>2. s[j] = Zero
        BY <3>1, Zenon DEF IsPad
      <3>3. q[i] = Zero
        BY <2>5, Zenon DEF IsMark
      <3>. QED BY <2>2, <2>2a, <3>2, <3>3, Zenon
    <2>. QED BY <1>1, <2>3, <2>4, <2>5
  <1>. QED BY <1>2 DEF IsTail, IsMark

\* The block of zeros and the length is then the last one.
LEMMA SecondTail ==
  ASSUME Width, Field, NEW m, NEW d \in Nat, NEW t \in 0..(B - 1), NEW l,
         l = d + t, NEW total, total = d + B + B, NEW e, e = d + B,
         NEW s, IsPad(s, m, l, total), NEW p,
         NEW q, IsMark(q, p, t, 0), NEW x, IsLast(x, q, l)
  PROVE  IsTail(x, s, e)
  <1>1. t \in Nat /\ l \in Nat /\ total \in Nat /\ e \in Nat
    BY DEF Width
  <1>2. ASSUME NEW i \in 1..B PROVE x[i] = s[e + i]
    <2>1. e + i \in 1..total
      BY <1>1 DEF Width
    <2>2. PICK j \in 1..total : j = e + i
      BY <2>1
    <2>3. j > l + 1 /\ i > 0
      BY <1>1, <2>2 DEF Width
    <2>4. CASE i = B - LengthBytes + 1
      <3>1. j = total - LengthBytes + 1
        BY <1>1, <2>2, <2>4 DEF Width, Field
      <3>2. s[j] = LengthField(l)
        BY <2>3, <3>1, Zenon DEF IsPad
      <3>3. x[i] = LengthField(l)
        BY <2>4, Zenon DEF IsLast
      <3>. QED BY <2>2, <3>2, <3>3, Zenon
    <2>5. CASE i # B - LengthBytes + 1
      <3>1. j # total - LengthBytes + 1
        BY <1>1, <2>2, <2>5 DEF Width, Field
      <3>2. s[j] = Zero
        BY <2>3, <3>1, Zenon DEF IsPad
      <3>3. x[i] = Zero
        BY <2>3, <2>5, Zenon DEF IsMark, IsLast
      <3>. QED BY <2>2, <3>2, <3>3, Zenon
    <2>. QED BY <2>4, <2>5
  <1>. QED BY <1>2 DEF IsTail, IsLast

\* What is padded begins with the message.
LEMMA PadBegins ==
  ASSUME NEW m \in Seq(Int), NEW l \in Nat, l = Len(m), NEW total \in Nat,
         NEW s, IsPad(s, m, l, total), NEW mid \in Seq(Int), l <= Len(mid),
         Len(mid) <= total, \A i \in 1..Len(mid) : mid[i] = s[i]
  PROVE  \E u : IsCat(mid, m, u)
  <1>1. \A i \in 1..l : i \in 1..total /\ i \in 1..Len(mid) /\ i <= l
    OBVIOUS
  <1>2. \A i \in 1..l : mid[i] = m[i]
    BY <1>1 DEF IsPad
  <1>. QED BY <1>2, PrefixCat

\* The number of blocks in both cases.
LEMMA PadSizes ==
  ASSUME Width, Field, NEW k \in Nat, NEW t \in 0..(B - 1), NEW l \in Nat,
         NEW d \in Nat, d = k * B, l = d + t
  PROVE  /\ (k + 1) * B = d + B /\ (k + 2) * B = d + B + B
         /\ ~ (t + 1 > B - LengthBytes) =>
              (l + 1 + LengthBytes + B - 1) \div B = k + 1
         /\ t + 1 > B - LengthBytes =>
              (l + 1 + LengthBytes + B - 1) \div B = k + 2
  <1>1. (k + 1) * B = d + B /\ (k + 2) * B = d + B + B
    BY DEF Width
  <1>2. PICK n \in Nat : n = l + 1 + LengthBytes + B - 1 /\ n = d + t + LengthBytes + B
    BY DEF Width, Field
  <1>3. CASE ~ (t + 1 > B - LengthBytes)
    <2>1. t + LengthBytes \in 0..(B - 1) /\ n = (d + B) + (t + LengthBytes)
      BY <1>2, <1>3 DEF Width, Field
    <2>2. n = (k + 1) * B + (t + LengthBytes) /\ k + 1 \in Nat
      BY <1>1, <2>1
    <2>3. n \div B = k + 1
      BY <2>1, <2>2, BlockPartsAre
    <2>. QED BY <1>1, <1>2, <1>3, <2>3
  <1>4. CASE t + 1 > B - LengthBytes
    <2>1. /\ t + LengthBytes - B \in 0..(B - 1)
          /\ n = (d + B + B) + (t + LengthBytes - B)
      BY <1>2, <1>4 DEF Width, Field
    <2>2. n = (k + 2) * B + (t + LengthBytes - B) /\ k + 2 \in Nat
      BY <1>1, <2>1
    <2>3. n \div B = k + 2
      BY <2>1, <2>2, BlockPartsAre
    <2>. QED BY <1>1, <1>2, <1>4, <2>3
  <1>. QED BY <1>1, <1>3, <1>4

\* lc_sha256_final puts out the digest of the message.
LEMMA Sha2Finals ==
  ASSUME Width, Field, NEW m \in Seq(Int), NEW c, Sha2Held(c, m)
  PROVE  Sha2Final(c).out = <<Sha2Digest(m)>>
  <1>0. PICK k \in Nat, t \in 0..(B - 1) : \E p : IsSha2(c, m, k, t, p)
    BY DEF Sha2Held
  <1>1. PICK p : IsSha2(c, m, k, t, p)
    BY <1>0, Zenon
  <1>2. PICK h, l : h = BlocksOf(m, k) /\ l = Len(m) /\ l \in Nat
    OBVIOUS
  <1>3. PICK d \in Nat : d = k * B
    BY DEF Width
  <1>4. /\ c = Sha2Ctx(h, p, l) /\ l = d + t /\ IsTail(p, m, d)
        /\ p \in [1..B -> Int]
    BY <1>1, <1>2, <1>3, Zenon DEF IsSha2, IsTail
  <1>5. c.H = h /\ c.partial = p /\ c.msg_len = l
    BY <1>4 DEF Sha2Ctx
  <1>6. l % B = t
    <2>1. l = k * B + t
      BY <1>3, <1>4
    <2>. QED BY <1>2, <2>1, BlockPartsAre
  <1>7. /\ (k + 1) * B = d + B /\ (k + 2) * B = d + B + B
        /\ ~ (t + 1 > B - LengthBytes) =>
             (l + 1 + LengthBytes + B - 1) \div B = k + 1
        /\ t + 1 > B - LengthBytes =>
             (l + 1 + LengthBytes + B - 1) \div B = k + 2
    BY <1>2, <1>3, <1>4, PadSizes, ZenonT(40)
  <1>8. \A n : (l + 1 + LengthBytes + B - 1) \div B = n
               => Sha2Digest(m) = BlocksOf(Sha2Padded(m, n * B), n)
    BY <1>2, Zenon DEF Sha2Digest, BlocksOf
  <1>10. t \in Nat /\ t + 1 \in Nat /\ 0 \in Nat /\ d <= Len(m) /\ l + 1 + LengthBytes \in Nat
    BY <1>2, <1>4 DEF Width, Field
  <1>11. PICK v : v = Copy(p, t + 1 - 1, <<Bit>>)
    OBVIOUS
  <1>12. CASE ~ (t + 1 > B - LengthBytes)
    <2>1. PICK q, x, s :
            /\ q = ZeroFrom(v, t + 1)
            /\ x = Copy(q, B - LengthBytes, <<LengthField(l)>>) /\ s = Sha2Padded(m, d + B)
      OBVIOUS
    <2>2. Sha2Final(c).out = <<h \o <<>> \o <<x>>>>
      <3>1. PICK o : o = (c.msg_len % B) + 1
        OBVIOUS
      <3>2. v = Copy(c.partial, o - 1, <<Bit>>) /\ q = ZeroFrom(v, o)
            /\ ~ (o > B - LengthBytes)
        <4>1. o = t + 1
          BY <1>5, <1>6, <3>1, Zenon
        <4>2. v = Copy(c.partial, o - 1, <<Bit>>)
          BY <1>5, <1>11, <4>1
        <4>3. q = ZeroFrom(v, o)
          BY <2>1, <4>1, Zenon
        <4>4. ~ (o > B - LengthBytes)
          BY <1>12, <4>1, Zenon
        <4>. QED BY <4>2, <4>3, <4>4
      <3>3. PICK y, z : /\ y = <<h \o <<>> \o <<x>>>>
                        /\ z = [H |-> <<>>, partial |-> [i \in 1..B |-> Zero],
                                msg_len |-> c.msg_len * 8]
        OBVIOUS
      <3>4. x = Copy(q, B - LengthBytes, <<LengthField(c.msg_len)>>)
        BY <1>5, <2>1, Zenon
      <3>5. Sha2Final(c) = [ctx |-> z, out |-> y]
        BY <1>5, <3>1, <3>2, <3>3, <3>4, Zenon DEF Sha2Final
      <3>. QED BY <3>3, <3>5
    <2>3. Sha2Digest(m) = BlocksOf(s, k + 1)
      <3>. QED BY <1>7, <1>8, <1>12, <2>1, Zenon
    <2>4. PICK total \in Nat : total = d + B
      BY DEF Width
    <2>5. IsPad(s, m, l, total)
      <3>1. l + 1 + LengthBytes <= total
        BY <1>4, <1>10, <1>12, <2>4 DEF Width, Field
      <3>2. s = Sha2Padded(m, total)
        BY <2>1, <2>4, Zenon
      <3>. QED BY <1>2, <3>1, <3>2, PadIs, Zenon
    <2>6. IsMark(q, p, t, t + 1) /\ IsLast(x, q, l)
      <3>1. IsMark(q, p, t, t + 1)
        BY <1>4, <1>10, <1>11, <2>1, MarkIs, Zenon
      <3>2. q \in [1..B -> Int]
        BY <3>1 DEF IsMark
      <3>. QED BY <1>2, <2>1, <3>1, <3>2, LastIs, Zenon
    <2>7. IsTail(x, s, d)
      <3>1. t + 1 <= B - LengthBytes
        BY <1>10, <1>12 DEF Width, Field
      <3>. QED BY <1>2, <1>4, <2>4, <2>5, <2>6, <3>1, LastTail, Zenon
    <2>8. s \in Seq(Int) /\ Len(s) = total
      BY <2>5 DEF IsPad
    <2>9. PICK u : IsCat(s, m, u)
      <3>1. l <= Len(s) /\ Len(s) <= total /\ \A i \in 1..Len(s) : s[i] = s[i]
        BY <1>4, <2>4, <2>8 DEF Width
      <3>. QED BY <1>2, <2>5, <2>8, <3>1, PadBegins
    <2>10. h \o <<x>> = BlocksOf(s, k + 1)
      BY <1>2, <1>3, <1>10, <2>4, <2>7, <2>8, <2>9, BlockFilled
    <2>11. h \o <<>> = h
      <3>1. k * B <= Len(m)
        BY <1>3, <1>10, Zenon
      <3>2. h \in Seq(Seq(Int))
        BY <1>2, <3>1, BlocksAre
      <3>. QED BY <3>2
    <2>. QED BY <2>2, <2>3, <2>10, <2>11, Zenon
  <1>13. CASE t + 1 > B - LengthBytes
    <2>1. PICK q, z, x, s :
            /\ q = ZeroFrom(v, t + 1) /\ z = ZeroFrom(v, 0)
            /\ x = Copy(z, B - LengthBytes, <<LengthField(l)>>)
            /\ s = Sha2Padded(m, d + B + B)
      OBVIOUS
    <2>2. Sha2Final(c).out = <<h \o <<q>> \o <<x>>>>
      <3>1. PICK o : o = (c.msg_len % B) + 1
        OBVIOUS
      <3>2. v = Copy(c.partial, o - 1, <<Bit>>) /\ q = ZeroFrom(v, o)
            /\ o > B - LengthBytes
        <4>1. o = t + 1
          BY <1>5, <1>6, <3>1, Zenon
        <4>2. v = Copy(c.partial, o - 1, <<Bit>>)
          BY <1>5, <1>11, <4>1
        <4>3. q = ZeroFrom(v, o)
          BY <2>1, <4>1, Zenon
        <4>4. o > B - LengthBytes
          BY <1>13, <4>1, Zenon
        <4>. QED BY <4>2, <4>3, <4>4
      <3>3. PICK y, w : /\ y = <<h \o <<q>> \o <<x>>>>
                        /\ w = [H |-> <<>>, partial |-> [i \in 1..B |-> Zero],
                                msg_len |-> c.msg_len * 8]
        OBVIOUS
      <3>4. x = Copy(z, B - LengthBytes, <<LengthField(c.msg_len)>>)
        BY <1>5, <2>1, Zenon
      <3>5. Sha2Final(c) = [ctx |-> w, out |-> y]
        BY <1>5, <2>1, <3>1, <3>2, <3>3, <3>4, Zenon DEF Sha2Final
      <3>. QED BY <3>3, <3>5
    <2>3. Sha2Digest(m) = BlocksOf(s, k + 2)
      <3>. QED BY <1>7, <1>8, <1>13, <2>1, Zenon
    <2>4. PICK total \in Nat, e \in Nat : total = d + B + B /\ e = d + B
      BY DEF Width
    <2>5. IsPad(s, m, l, total)
      <3>1. l + 1 + LengthBytes <= total
        BY <1>4, <1>10, <2>4 DEF Width, Field
      <3>2. s = Sha2Padded(m, total)
        BY <2>1, <2>4, Zenon
      <3>. QED BY <1>2, <3>1, <3>2, PadIs, Zenon
    <2>6. IsMark(q, p, t, t + 1) /\ IsMark(z, p, t, 0) /\ IsLast(x, z, l)
      <3>1. IsMark(q, p, t, t + 1) /\ IsMark(z, p, t, 0)
        BY <1>4, <1>10, <1>11, <2>1, MarkIs, Zenon
      <3>2. z \in [1..B -> Int]
        BY <3>1 DEF IsMark
      <3>. QED BY <1>2, <2>1, <3>1, <3>2, LastIs, Zenon
    <2>7. s \in Seq(Int) /\ Len(s) = total
      BY <2>5 DEF IsPad
    <2>8. PICK mid : mid = SubSeq(s, 1, e)
      OBVIOUS
    <2>9. /\ mid \in Seq(Int) /\ Len(mid) = e /\ e <= total
          /\ \A i \in 1..e : mid[i] = s[i]
      <3>1. e \in 0..Len(s) /\ e <= total
        BY <2>4, <2>7 DEF Width
      <3>. QED BY <2>7, <2>8, <3>1
    <2>10. IsTail(q, mid, d)
      BY <1>2, <1>4, <2>4, <2>5, <2>6, <2>9, MarkTail, ZenonT(40)
    <2>11. IsTail(x, s, e)
      BY <1>4, <2>4, <2>5, <2>6, SecondTail
    <2>12. PICK u : IsCat(mid, m, u)
      <3>1. l <= Len(mid) /\ Len(mid) <= total
        BY <1>4, <2>4, <2>9 DEF Width
      <3>2. \A i \in 1..Len(mid) : mid[i] = s[i]
        BY <2>9
      <3>. QED BY <1>2, <2>5, <2>9, <3>1, <3>2, PadBegins
    <2>13. PICK w : IsCat(s, mid, w)
      <3>1. Len(mid) <= Len(s) /\ \A i \in 1..Len(mid) : s[i] = mid[i]
        BY <2>7, <2>9
      <3>. QED BY <2>7, <2>9, <3>1, PrefixCat
    <2>14. h \o <<q>> = BlocksOf(mid, k + 1)
      BY <1>2, <1>3, <1>10, <2>4, <2>9, <2>10, <2>12, BlockFilled
    <2>15. BlocksOf(mid, k + 1) \o <<x>> = BlocksOf(s, k + 2)
      <3>1. PICK n \in Nat : n = k + 1 /\ n + 1 = k + 2
        OBVIOUS
      <3>2. e = n * B
        BY <1>7, <2>4, <3>1, Zenon
      <3>3. Len(s) = e + B /\ e <= Len(mid)
        BY <2>4, <2>7, <2>9 DEF Width
      <3>4. BlocksOf(mid, n) \o <<x>> = BlocksOf(s, n + 1)
        BY <2>11, <2>13, <3>2, <3>3, BlockFilled
      <3>. QED BY <3>1, <3>4, Zenon
    <2>. QED BY <2>2, <2>3, <2>14, <2>15, Zenon
  <1>. QED BY <1>12, <1>13, Zenon

-----------------------------------------------------------------------------
(* The output so far is that of the message, and the context will go on    *)
(* with it.                                                                *)

KeccakDone(c, m, o) ==
  \E k \in Nat : KeccakPad(c) = KeccakOut(m, k) /\ o = Cut(KeccakStream(m), 0, k)
AsconDone(c, m, o) ==
  \E k \in Nat : AsconPad(c) = AsconOut(m, k) /\ o = Cut(AsconStream(m), 0, k)

\* A context that has absorbed a message has put out nothing of it.
LEMMA DoneStarts ==
  ASSUME Rate, NEW m \in Seq(Int)
  PROVE  KeccakDone(Absorbed(m), m, <<>>) /\ AsconDone(Absorbed(m), m, <<>>)
  <1>1. \A f : Cut(f, 0, 0) = <<>>
    BY DEF Cut
  <1>2. KeccakPad(Absorbed(m)) = KeccakOut(m, 0) /\ AsconPad(Absorbed(m)) = AsconOut(m, 0)
    BY KeccakPadded, AsconPadded, Zenon
  <1>3. 0 \in Nat
    OBVIOUS
  <1>. QED BY <1>1, <1>2, <1>3, Zenon DEF KeccakDone, AsconDone

\* A request puts out what follows.
LEMMA KeccakGoesOn ==
  ASSUME Rate, NEW m \in Seq(Int), NEW c, NEW o, NEW n \in Nat, KeccakDone(c, m, o)
  PROVE  /\ KeccakDone(KeccakSqueeze(c, n).ctx, m, o \o KeccakSqueeze(c, n).out)
         /\ n # 0 => o \o KeccakSqueeze(c, n).out # <<>>
  <1>1. PICK k \in Nat : KeccakPad(c) = KeccakOut(m, k) /\ o = Cut(KeccakStream(m), 0, k)
    BY DEF KeccakDone
  <1>2. PICK j \in Nat : j = k + n
    OBVIOUS
  <1>3. PICK T : IsStream(KeccakStream(m), T)
    BY StreamsAre, Zenon
  <1>4. PICK d, q : d = KeccakOut(m, j) /\ q = Cut(KeccakStream(m), k, n)
    OBVIOUS
  <1>5. KeccakSqueeze(c, n) = [ctx |-> d, out |-> q]
    BY <1>1, <1>2, <1>4, KeccakSqueezes, Zenon
  <1>6. KeccakSqueeze(c, n).ctx = d /\ KeccakSqueeze(c, n).out = q
    BY <1>5
  <1>7. o \o q = Cut(KeccakStream(m), 0, j)
    BY <1>1, <1>2, <1>3, <1>4, CutJoined, ZenonT(40)
  <1>8. KeccakPad(d) = KeccakOut(m, j)
    BY <1>4, KeccakPadded, Zenon
  <1>9. KeccakDone(d, m, o \o q)
    BY <1>7, <1>8, Zenon DEF KeccakDone
  <1>10. ASSUME n # 0 PROVE o \o q # <<>>
    <2>1. Len(Cut(KeccakStream(m), 0, j)) = j /\ j # 0
      <3>1. 0 \in Nat /\ j # 0
        BY <1>2, <1>10
      <3>. QED BY <1>3, <3>1, CutIsSeq
    <2>2. Len(<<>>) = 0
      OBVIOUS
    <2>. QED BY <1>7, <2>1, <2>2, Zenon
  <1>. QED BY <1>6, <1>9, <1>10, Zenon

\* All that was put out is of the message.
LEMMA KeccakIsRight ==
  ASSUME Rate, NEW m \in Seq(Int), NEW c, NEW o, KeccakDone(c, m, o)
  PROVE  \A i \in 1..Len(o) : o[i] = KeccakByte(m, i)
  <1>1. PICK k \in Nat : o = Cut(KeccakStream(m), 0, k)
    BY DEF KeccakDone
  <1>2. PICK T : IsStream(KeccakStream(m), T)
    BY StreamsAre, Zenon
  <1>3. Len(o) = k
    <2>1. 0 \in Nat
      OBVIOUS
    <2>. QED BY <1>1, <1>2, <2>1, CutIsSeq
  <1>4. ASSUME NEW i \in 1..k PROVE o[i] = KeccakByte(m, i)
    <2>1. o[i] = KeccakStream(m)[0 + i]
      BY <1>1, Zenon DEF Cut
    <2>2. i \in Nat \ {0} /\ 0 + i = i
      OBVIOUS
    <2>3. KeccakStream(m)[i] = KeccakByte(m, i)
      BY <2>2, StreamsAre, Zenon
    <2>. QED BY <2>1, <2>2, <2>3, Zenon
  <1>. QED BY <1>3, <1>4

\* A request puts out what follows.
LEMMA AsconGoesOn ==
  ASSUME Rate, NEW m \in Seq(Int), NEW c, NEW o, NEW n \in Nat, AsconDone(c, m, o)
  PROVE  /\ AsconDone(AsconSqueeze(c, n).ctx, m, o \o AsconSqueeze(c, n).out)
         /\ n # 0 => o \o AsconSqueeze(c, n).out # <<>>
  <1>1. PICK k \in Nat : AsconPad(c) = AsconOut(m, k) /\ o = Cut(AsconStream(m), 0, k)
    BY DEF AsconDone
  <1>2. PICK j \in Nat : j = k + n
    OBVIOUS
  <1>3. PICK T : IsStream(AsconStream(m), T)
    BY StreamsAre, Zenon
  <1>4. PICK d, q : d = AsconOut(m, j) /\ q = Cut(AsconStream(m), k, n)
    OBVIOUS
  <1>5. AsconSqueeze(c, n) = [ctx |-> d, out |-> q]
    BY <1>1, <1>2, <1>4, AsconSqueezes, Zenon
  <1>6. AsconSqueeze(c, n).ctx = d /\ AsconSqueeze(c, n).out = q
    BY <1>5
  <1>7. o \o q = Cut(AsconStream(m), 0, j)
    BY <1>1, <1>2, <1>3, <1>4, CutJoined, ZenonT(40)
  <1>8. AsconPad(d) = AsconOut(m, j)
    BY <1>4, AsconPadded, Zenon
  <1>9. AsconDone(d, m, o \o q)
    BY <1>7, <1>8, Zenon DEF AsconDone
  <1>10. ASSUME n # 0 PROVE o \o q # <<>>
    <2>1. Len(Cut(AsconStream(m), 0, j)) = j /\ j # 0
      <3>1. 0 \in Nat /\ j # 0
        BY <1>2, <1>10
      <3>. QED BY <1>3, <3>1, CutIsSeq
    <2>2. Len(<<>>) = 0
      OBVIOUS
    <2>. QED BY <1>7, <2>1, <2>2, Zenon
  <1>. QED BY <1>6, <1>9, <1>10, Zenon

\* All that was put out is of the message.
LEMMA AsconIsRight ==
  ASSUME Rate, NEW m \in Seq(Int), NEW c, NEW o, AsconDone(c, m, o)
  PROVE  \A i \in 1..Len(o) : o[i] = AsconByte(m, i)
  <1>1. PICK k \in Nat : o = Cut(AsconStream(m), 0, k)
    BY DEF AsconDone
  <1>2. PICK T : IsStream(AsconStream(m), T)
    BY StreamsAre, Zenon
  <1>3. Len(o) = k
    <2>1. 0 \in Nat
      OBVIOUS
    <2>. QED BY <1>1, <1>2, <2>1, CutIsSeq
  <1>4. ASSUME NEW i \in 1..k PROVE o[i] = AsconByte(m, i)
    <2>1. o[i] = AsconStream(m)[0 + i]
      BY <1>1, Zenon DEF Cut
    <2>2. i \in Nat \ {0} /\ 0 + i = i
      OBVIOUS
    <2>3. AsconStream(m)[i] = AsconByte(m, i)
      BY <2>2, StreamsAre, Zenon
    <2>. QED BY <2>1, <2>2, <2>3, Zenon
  <1>. QED BY <1>3, <1>4

-----------------------------------------------------------------------------
(* HashStream.                                                             *)

\* The context and the output belong to the message, as far as the algorithm
\* keeps that: for Ascon not after an update that fills a partial block.
HashInv ==
  /\ hash \in {"keccak", "ascon", "sha2"} /\ message \in Seq(Int)
  /\ cuts \in BOOLEAN
  /\ hash = "keccak" =>
       /\ KeccakDone(ctx, message, digest)
       /\ digest = <<>> => ctx = Absorbed(message)
  /\ hash = "ascon" /\ ~ cuts =>
       /\ AsconDone(ctx, message, digest)
       /\ digest = <<>> => ctx = Absorbed(message)
  /\ hash = "sha2" =>
       /\ digest = <<>> => Sha2Held(ctx, message)
       /\ digest # <<>> => digest = <<Sha2Digest(message)>>

\* The assumptions on the constants.
LEMMA HashConstants ==
  /\ Rate /\ Width /\ Field
  /\ Hashes \subseteq {"keccak", "ascon", "sha2"}
  /\ Pieces \subseteq Nat /\ Digests \subseteq Nat \ {0}
  BY HashAssumption DEF RateAssumption, Rate, Width, Field

\* lc_hash_init, for each algorithm.
LEMMA FreshBelongs ==
  /\ Fresh("keccak") = Absorbed(<<>>) /\ Fresh("ascon") = Absorbed(<<>>)
  /\ KeccakDone(Absorbed(<<>>), <<>>, <<>>) /\ AsconDone(Absorbed(<<>>), <<>>, <<>>)
  /\ Sha2Held(Fresh("sha2"), <<>>)
  <1>1. <<>> \in Seq(Int)
    OBVIOUS
  <1>2. KeccakDone(Absorbed(<<>>), <<>>, <<>>) /\ AsconDone(Absorbed(<<>>), <<>>, <<>>)
    BY <1>1, HashConstants, DoneStarts, Zenon
  <1>3. FreshContext = Absorbed(<<>>) /\ Sha2Held(FreshSha2, <<>>)
    BY HashConstants, FreshIsAbsorbed, Sha2Fresh, Zenon
  <1>4. /\ Fresh("keccak") = FreshContext /\ Fresh("ascon") = FreshContext
        /\ Fresh("sha2") = FreshSha2
    BY DEF Fresh
  <1>. QED BY <1>2, <1>3, <1>4, Zenon

\* lc_hash_update keeps the invariant.
LEMMA HashUpdates ==
  ASSUME HashInv, NEW n \in Pieces, HashUpdate(n)
  PROVE  HashInv'
  <1>1. PICK in : in = [i \in 1..n |-> Len(message) + i]
    OBVIOUS
  <1>2. n \in Nat
    BY HashConstants
  <1>3. in \in Seq(Int) /\ Len(in) = n
    <2>1. message \in Seq(Int)
      BY DEF HashInv
    <2>2. Len(message) \in Nat
      BY <2>1
    <2>3. in \in [1..n -> Int]
      BY <1>1, <2>2
    <2>. QED BY <1>2, <2>3, FunIsSeq
  <1>4. /\ digest = <<>> /\ digest' = <<>> /\ hash' = hash
        /\ message' = message \o in /\ ctx' = Updated(hash, ctx, in)
    BY <1>1, Zenon DEF HashUpdate
  <1>5. message \in Seq(Int) /\ message \o in \in Seq(Int)
        /\ hash \in {"keccak", "ascon", "sha2"} /\ cuts \in BOOLEAN
    BY <1>3, Joined DEF HashInv
  <1>6. cuts' \in BOOLEAN
    BY <1>5 DEF HashUpdate
  <1>7. CASE hash = "keccak"
    <2>1. ctx' = KeccakAbsorb(Absorbed(message), in)
      BY <1>4, <1>7 DEF HashInv, Updated
    <2>2. ctx' = Absorbed(message \o in)
      BY <1>3, <1>5, <2>1, HashConstants, KeccakAbsorbs, Zenon
    <2>3. KeccakDone(Absorbed(message \o in), message \o in, <<>>)
      BY <1>5, HashConstants, DoneStarts, Zenon
    <2>4. hash' = "keccak" /\ "keccak" # "ascon" /\ "keccak" # "sha2"
      BY <1>4, <1>7
    <2>. QED BY <1>4, <1>5, <1>6, <2>2, <2>3, <2>4, Zenon DEF HashInv
  <1>8. CASE hash = "ascon"
    <2>1. CASE cuts'
      <3>1. hash' = "ascon" /\ "ascon" # "keccak" /\ "ascon" # "sha2"
        BY <1>4, <1>8
      <3>. QED BY <1>4, <1>5, <1>6, <2>1, <3>1, Zenon DEF HashInv
    <2>2. CASE ~ cuts'
      <3>1. /\ ~ cuts
            /\ ~ (Len(message) % R # 0 /\ (Len(message) + n) % R = 0)
        BY <1>8, <2>2 DEF HashUpdate
      <3>2. ctx' = AsconAbsorb(Absorbed(message), in)
        BY <1>4, <1>8, <3>1 DEF HashInv, Updated
      <3>3. ctx' = Absorbed(message \o in)
        BY <1>3, <1>5, <3>1, <3>2, HashConstants, AsconAbsorbs, Zenon
      <3>4. AsconDone(Absorbed(message \o in), message \o in, <<>>)
        BY <1>5, HashConstants, DoneStarts, Zenon
      <3>5. hash' = "ascon" /\ "ascon" # "keccak" /\ "ascon" # "sha2"
        BY <1>4, <1>8
      <3>. QED BY <1>4, <1>5, <1>6, <3>3, <3>4, <3>5, Zenon DEF HashInv
    <2>. QED BY <2>1, <2>2
  <1>9. CASE hash = "sha2"
    <2>1. ctx' = Sha2Update(ctx, in) /\ Sha2Held(ctx, message)
      BY <1>4, <1>9 DEF HashInv, Updated
    <2>2. Sha2Held(ctx', message \o in)
      BY <1>3, <1>5, <2>1, HashConstants, Sha2Updates, Zenon
    <2>3. hash' = "sha2" /\ "sha2" # "ascon" /\ "keccak" # "sha2"
      BY <1>4, <1>9
    <2>. QED BY <1>4, <1>5, <1>6, <2>2, <2>3, Zenon DEF HashInv
  <1>. QED BY <1>5, <1>7, <1>8, <1>9

\* lc_hash_final keeps the invariant.
LEMMA HashFinals ==
  ASSUME HashInv, NEW n \in Digests, HashFinal(n)
  PROVE  HashInv'
  <1>1. n \in Nat
    BY HashConstants
  <1>2. /\ hash \in {"keccak", "ascon", "sha2"} /\ message \in Seq(Int)
        /\ cuts \in BOOLEAN /\ hash' = hash /\ message' = message /\ cuts' = cuts
    BY DEF HashInv, HashFinal
  <1>3. /\ ctx' = Final(hash, ctx, n).ctx /\ digest' = digest \o Final(hash, ctx, n).out
        /\ hash = "sha2" => digest = <<>>
    BY Zenon DEF HashFinal
  <1>4. CASE hash = "keccak"
    <2>1. Final(hash, ctx, n) = KeccakSqueeze(ctx, n)
      BY <1>4 DEF Final
    <2>2. KeccakDone(ctx, message, digest)
      BY <1>4 DEF HashInv
    <2>3. PICK r : r = KeccakSqueeze(ctx, n)
      OBVIOUS
    <2>4. KeccakDone(r.ctx, message, digest \o r.out) /\ digest \o r.out # <<>>
      BY <1>1, <1>2, <2>2, <2>3, HashConstants, KeccakGoesOn, Zenon
    <2>5. ctx' = r.ctx /\ digest' = digest \o r.out
      BY <1>3, <2>1, <2>3, Zenon
    <2>6. KeccakDone(ctx', message', digest') /\ digest' # <<>>
      BY <1>2, <2>4, <2>5, Zenon
    <2>7. /\ hash' = "keccak" /\ "keccak" # "ascon" /\ "keccak" # "sha2"
          /\ "ascon" # "sha2"
      BY <1>2, <1>4
    <2>. QED BY <1>2, <2>6, <2>7, Zenon DEF HashInv
  <1>5. CASE hash = "ascon" /\ ~ cuts
    <2>1. Final(hash, ctx, n) = AsconSqueeze(ctx, n)
      BY <1>5 DEF Final
    <2>2. AsconDone(ctx, message, digest)
      BY <1>5 DEF HashInv
    <2>3. PICK r : r = AsconSqueeze(ctx, n)
      OBVIOUS
    <2>4. AsconDone(r.ctx, message, digest \o r.out) /\ digest \o r.out # <<>>
      BY <1>1, <1>2, <2>2, <2>3, HashConstants, AsconGoesOn, Zenon
    <2>5. ctx' = r.ctx /\ digest' = digest \o r.out
      BY <1>3, <2>1, <2>3, Zenon
    <2>6. AsconDone(ctx', message', digest') /\ digest' # <<>>
      BY <1>2, <2>4, <2>5, Zenon
    <2>7. /\ hash' = "ascon" /\ "keccak" # "ascon" /\ "keccak" # "sha2"
          /\ "ascon" # "sha2"
      BY <1>2, <1>5
    <2>. QED BY <1>2, <2>6, <2>7, Zenon DEF HashInv
  <1>6. CASE hash = "ascon" /\ cuts
    <2>1. hash' = "ascon" /\ cuts' /\ "keccak" # "ascon" /\ "ascon" # "sha2"
      BY <1>2, <1>6
    <2>. QED BY <1>2, <2>1, Zenon DEF HashInv
  <1>7. CASE hash = "sha2"
    <2>1. digest = <<>> /\ Final(hash, ctx, n) = Sha2Final(ctx)
      BY <1>3, <1>7 DEF Final
    <2>2. Sha2Held(ctx, message)
      BY <1>7, <2>1 DEF HashInv
    <2>3. Sha2Final(ctx).out = <<Sha2Digest(message)>>
      BY <1>2, <2>2, HashConstants, Sha2Finals, Zenon
    <2>4. PICK x : x = Sha2Digest(message)
      OBVIOUS
    <2>5. digest' = <<>> \o <<x>>
      BY <1>3, <2>1, <2>3, <2>4, Zenon
    <2>6. digest' = <<x>> /\ digest' # <<>>
      BY <2>5
    <2>7. digest' = <<Sha2Digest(message')>>
      BY <1>2, <2>4, <2>6, Zenon
    <2>8. hash' = "sha2" /\ "keccak" # "sha2" /\ "ascon" # "sha2"
      BY <1>2, <1>7
    <2>. QED BY <1>2, <2>6, <2>7, <2>8, Zenon DEF HashInv
  <1>. QED BY <1>2, <1>4, <1>5, <1>6, <1>7, Zenon

\* Whatever was done before with the context, it belongs to the message given
\* since the last init (hash.c, sha3_c.c, ascon_hash.h, sha256.c).
THEOREM HashInvHolds == HashSpec => []HashInv
  <1>1. HashInit => HashInv
    <2>. SUFFICES ASSUME HashInit PROVE HashInv
      OBVIOUS
    <2>1. /\ hash \in {"keccak", "ascon", "sha2"} /\ ctx = Fresh(hash)
          /\ message = <<>> /\ digest = <<>> /\ cuts = FALSE
      BY HashConstants DEF HashInit
    <2>2. <<>> \in Seq(Int) /\ FALSE \in BOOLEAN
      OBVIOUS
    <2>. QED BY <2>1, <2>2, FreshBelongs, Zenon DEF HashInv
  <1>2. HashInv /\ [HashNext]_hashVars => HashInv'
    <2>. SUFFICES ASSUME HashInv, [HashNext]_hashVars PROVE HashInv'
      OBVIOUS
    <2>1. CASE ReInit
      <3>1. /\ hash' \in {"keccak", "ascon", "sha2"} /\ ctx' = Fresh(hash')
            /\ message' = <<>> /\ digest' = <<>> /\ cuts' = FALSE
        BY <2>1 DEF ReInit, HashInv
      <3>2. <<>> \in Seq(Int) /\ FALSE \in BOOLEAN
        OBVIOUS
      <3>. QED BY <3>1, <3>2, FreshBelongs, Zenon DEF HashInv
    <2>2. ASSUME NEW n \in Pieces, HashUpdate(n) PROVE HashInv'
      BY <2>2, HashUpdates, Zenon
    <2>3. ASSUME NEW n \in Digests, HashFinal(n) PROVE HashInv'
      BY <2>3, HashFinals, Zenon
    <2>4. CASE UNCHANGED hashVars
      BY <2>4, Zenon DEF HashInv, hashVars
    <2>. QED BY <2>1, <2>2, <2>3, <2>4, Zenon DEF HashNext
  <1>. QED BY <1>1, <1>2, PTL DEF HashSpec

\* The digest is that of the message, for Keccak, Ascon and SHA-2, for every
\* rate and block size, however the message is cut into updates and the output
\* into squeezes, and whatever the context was used for before (for Ascon: if
\* no update fills a partial block exactly).
THEOREM DigestIsOfMessage == HashSpec => []DigestOfMessage
  <1>1. HashInv => DigestOfMessage
    <2>. SUFFICES ASSUME HashInv, ~ (hash = "ascon" /\ cuts), NEW i \in 1..Len(digest)
                  PROVE  digest[i] = Expected(i)
      BY DEF DigestOfMessage
    <2>1. hash \in {"keccak", "ascon", "sha2"} /\ message \in Seq(Int)
      BY DEF HashInv
    <2>2. CASE hash = "keccak"
      <3>1. KeccakDone(ctx, message, digest)
        BY <2>2 DEF HashInv
      <3>2. digest[i] = KeccakByte(message, i)
        BY <2>1, <3>1, HashConstants, KeccakIsRight, Zenon
      <3>. QED BY <2>2, <3>2 DEF Expected
    <2>3. CASE hash = "ascon"
      <3>1. AsconDone(ctx, message, digest)
        BY <2>3 DEF HashInv
      <3>2. digest[i] = AsconByte(message, i)
        BY <2>1, <3>1, HashConstants, AsconIsRight, Zenon
      <3>. QED BY <2>3, <3>2 DEF Expected
    <2>4. CASE hash = "sha2"
      <3>1. digest # <<>>
        OBVIOUS
      <3>2. PICK x : x = Sha2Digest(message)
        OBVIOUS
      <3>3. digest = <<x>>
        BY <2>4, <3>1, <3>2, Zenon DEF HashInv
      <3>4. digest[i] = x
        BY <3>3
      <3>. QED BY <2>4, <3>2, <3>4 DEF Expected
    <2>. QED BY <2>1, <2>2, <2>3, <2>4
  <1>. QED BY <1>1, HashInvHolds, PTL

-----------------------------------------------------------------------------
(* Kmac.                                                                   *)

\* What the context has absorbed, before output and with the length.
Given == Prefix(key) \o fed
MacInput == Prefix(key) \o fed \o RightEncode(form)

KmacInv ==
  /\ purpose \in {"mac", "rng"} /\ keyed \in BOOLEAN /\ turned \in BOOLEAN
  /\ final_called \in BOOLEAN /\ key \in Nat /\ fed \in Seq(Int)
  /\ keyed => shadow = <<>> \/ shadow = <<Keyed(key)>>
  /\ form = NoOutput =>
       /\ ~ final_called /\ drawn = <<>>
       /\ keyed => hash_ctx = Absorbed(Given)
  /\ form # NoOutput =>
       /\ form \in Nat /\ (form = 0 => final_called)
       /\ purpose = "rng" => form = 0
       /\ keyed /\ ~ turned => KeccakDone(hash_ctx, MacInput, drawn)

\* The assumptions on the constants.
LEMMA KmacConstants ==
  /\ Rate
  /\ Keys \subseteq Nat \ {0} /\ Inputs \subseteq Nat /\ Macs \subseteq Nat
  /\ MinMac \in Nat \ {0}
  BY KmacAssumption DEF RateAssumption, Rate

\* What KMAC absorbs are sequences of bytes.
LEMMA KmacPieces ==
  /\ \A k \in Nat : Prefix(k) \in Seq(Int)
  /\ \A n \in Nat : RightEncode(n) \in Seq(Int) /\ n # NoOutput
  /\ \A s \in Seq(Int), n \in Nat : [i \in 1..n |-> Len(s) + i] \in Seq(Int)
  /\ \A s \in Seq(Int) : s \o [i \in 1..0 |-> Len(s) + i] = s
  /\ \A s, t, u \in Seq(Int) : (s \o t) \o u = s \o (t \o u)
  /\ \A s \in Seq(Int) : s \o <<>> = s /\ <<>> \o s = s
  /\ \A s, t \in Seq(Int) : s \o t \in Seq(Int)
  <1>1. ASSUME NEW k \in Nat PROVE Prefix(k) \in Seq(Int)
    <2>1. PICK f, g : /\ f = [i \in 1..R |-> -100 - i]
                      /\ g = [i \in 1..R |-> -1000 * k - i]
      OBVIOUS
    <2>2. f \in [1..R -> Int] /\ g \in [1..R -> Int] /\ R \in Nat
      BY <2>1, KmacConstants DEF Rate
    <2>3. f \in Seq(Int) /\ g \in Seq(Int)
      BY <2>2, FunIsSeq
    <2>4. f \o g \in Seq(Int)
      BY <2>3
    <2>. QED BY <2>1, <2>4, Zenon DEF Prefix
  <1>2. \A n \in Nat : RightEncode(n) \in Seq(Int) /\ n # NoOutput
    BY DEF RightEncode, NoOutput
  <1>3. ASSUME NEW s \in Seq(Int), NEW n \in Nat
        PROVE  [i \in 1..n |-> Len(s) + i] \in Seq(Int)
    <2>1. [i \in 1..n |-> Len(s) + i] \in [1..n -> Int]
      OBVIOUS
    <2>. QED BY <2>1, FunIsSeq
  <1>4. ASSUME NEW s \in Seq(Int) PROVE s \o [i \in 1..0 |-> Len(s) + i] = s
    <2>1. [i \in 1..0 |-> Len(s) + i] = <<>>
      OBVIOUS
    <2>2. s \o <<>> = s
      OBVIOUS
    <2>. QED BY <2>1, <2>2, Zenon
  <1>5. \A s, t, u \in Seq(Int) : (s \o t) \o u = s \o (t \o u)
    OBVIOUS
  <1>6. \A s \in Seq(Int) : s \o <<>> = s /\ <<>> \o s = s
    OBVIOUS
  <1>7. \A s, t \in Seq(Int) : s \o t \in Seq(Int)
    OBVIOUS
  <1>. QED BY <1>1, <1>2, <1>3, <1>4, <1>5, <1>6, <1>7, Zenon

\* The keyed state is that of the key alone.
LEMMA KeyedIs ==
  ASSUME NEW k \in Nat
  PROVE  Keyed(k) = Absorbed(Prefix(k)) /\ Prefix(k) \o <<>> = Prefix(k)
  <1>1. Prefix(k) \in Seq(Int)
    BY KmacPieces, Zenon
  <1>5. <<>> \in Seq(Int)
    OBVIOUS
  <1>2. FreshContext = Absorbed(<<>>)
    BY KmacConstants, FreshIsAbsorbed, Zenon
  <1>3. KeccakAbsorb(Absorbed(<<>>), Prefix(k)) = Absorbed(<<>> \o Prefix(k))
    BY <1>1, <1>5, KmacConstants, KeccakAbsorbs, Zenon
  <1>4. <<>> \o Prefix(k) = Prefix(k) /\ Prefix(k) \o <<>> = Prefix(k)
    BY <1>1, KmacPieces, Zenon
  <1>. QED BY <1>2, <1>3, <1>4, Zenon DEF Keyed

\* The context takes more bytes, and then the length.
LEMMA FedMore ==
  ASSUME KmacInv, NEW n \in Nat
  PROVE  /\ fed \o NewBytes(n) \in Seq(Int) /\ fed \o NewBytes(0) = fed
         /\ KeccakAbsorb(Absorbed(Given), NewBytes(n)) =
              Absorbed(Prefix(key) \o (fed \o NewBytes(n)))
  <1>1. Prefix(key) \in Seq(Int) /\ fed \in Seq(Int)
    BY KmacPieces, Zenon DEF KmacInv
  <1>2. NewBytes(n) \in Seq(Int)
    BY <1>1, KmacPieces, Zenon DEF NewBytes
  <1>3. fed \o NewBytes(0) = fed
    BY <1>1, KmacPieces, Zenon DEF NewBytes
  <1>4. fed \o NewBytes(n) \in Seq(Int) /\ Prefix(key) \o fed \in Seq(Int)
    BY <1>1, <1>2, KmacPieces, Zenon
  <1>5. KeccakAbsorb(Absorbed(Prefix(key) \o fed), NewBytes(n)) =
          Absorbed((Prefix(key) \o fed) \o NewBytes(n))
    BY <1>2, <1>4, KmacConstants, KeccakAbsorbs, Zenon
  <1>6. (Prefix(key) \o fed) \o NewBytes(n) = Prefix(key) \o (fed \o NewBytes(n))
    <2>1. PICK a, b, c : a = Prefix(key) /\ b = fed /\ c = NewBytes(n)
      OBVIOUS
    <2>2. a \in Seq(Int) /\ b \in Seq(Int) /\ c \in Seq(Int)
      BY <2>1, <1>1, <1>2, Zenon
    <2>3. (a \o b) \o c = a \o (b \o c)
      BY <2>2
    <2>. QED BY <2>1, <2>3, Zenon
  <1>. QED BY <1>3, <1>4, <1>5, <1>6, Zenon DEF Given

\* After the length the context puts out the MAC.
LEMMA LengthAdded ==
  ASSUME NEW k \in Nat, NEW f \in Seq(Int), NEW n \in Nat
  PROVE  /\ Prefix(k) \o f \o RightEncode(n) \in Seq(Int)
         /\ KeccakDone(KeccakAbsorb(Absorbed(Prefix(k) \o f), RightEncode(n)),
                       Prefix(k) \o f \o RightEncode(n), <<>>)
  <1>1. Prefix(k) \in Seq(Int) /\ RightEncode(n) \in Seq(Int)
    BY KmacPieces, Zenon
  <1>2. Prefix(k) \o f \in Seq(Int)
    BY <1>1, KmacPieces, Zenon
  <1>3. Prefix(k) \o f \o RightEncode(n) \in Seq(Int)
    BY <1>1, <1>2, KmacPieces, Zenon
  <1>4. KeccakAbsorb(Absorbed(Prefix(k) \o f), RightEncode(n)) =
          Absorbed(Prefix(k) \o f \o RightEncode(n))
    BY <1>1, <1>2, KmacConstants, KeccakAbsorbs, Zenon
  <1>5. KeccakDone(Absorbed(Prefix(k) \o f \o RightEncode(n)),
                   Prefix(k) \o f \o RightEncode(n), <<>>)
    BY <1>3, KmacConstants, DoneStarts, Zenon
  <1>. QED BY <1>3, <1>4, <1>5, Zenon

\* Each further request puts out what follows.
LEMMA DrawnOn ==
  ASSUME NEW m \in Seq(Int), NEW c, KeccakDone(c, m, drawn), NEW n \in Nat,
         Drawn(c, n)
  PROVE  KeccakDone(hash_ctx', m, drawn')
  <1>1. PICK r : r = KeccakSqueeze(c, n)
    OBVIOUS
  <1>2. KeccakDone(r.ctx, m, drawn \o r.out)
    BY <1>1, KmacConstants, KeccakGoesOn, Zenon
  <1>3. hash_ctx' = r.ctx /\ drawn' = drawn \o r.out
    BY <1>1, Zenon DEF Drawn
  <1>. QED BY <1>2, <1>3, Zenon

\* One lemma per action.
LEMMA InitKeeps ==
  ASSUME KmacInv, NEW k \in Keys, KmacInit(k)
  PROVE  KmacInv'
  <1>1. k \in Nat
    BY KmacConstants
  <1>2. hash_ctx' = Absorbed(Prefix(k) \o <<>>)
    BY <1>1, KeyedIs, Zenon DEF KmacInit
  <1>3. key' = k /\ fed' = <<>>
    BY DEF KmacInit, Restart
  <1>4. hash_ctx' = Absorbed(Given')
    BY <1>2, <1>3, Zenon DEF Given
  <1>5. shadow' = <<>> \/ shadow' = <<Keyed(key')>>
    BY <1>3, Zenon DEF KmacInit
  <1>. HIDE DEF Keyed, Absorbed, Given, KeccakDone, MacInput
  <1>6. fed' \in Seq(Int)
    BY <1>3
  <1>. QED
    BY <1>1, <1>3, <1>4, <1>5, <1>6 DEF KmacInv, KmacInit, Restart

\* The shadow gives the keyed state back.
LEMMA ReinitKeeps ==
  ASSUME KmacInv, KmacReinit
  PROVE  KmacInv'
  <1>1. /\ key \in Nat /\ key' = key /\ fed' = <<>> /\ shadow' = shadow
        /\ keyed' = keyed
    BY DEF KmacInv, KmacReinit, Restart
  <1>2. ASSUME keyed PROVE hash_ctx' = Absorbed(Given')
    <2>1. shadow = <<Keyed(key)>> /\ hash_ctx' = shadow[1]
      BY <1>2, Zenon DEF KmacInv, KmacReinit
    <2>2. PICK x : x = Keyed(key)
      OBVIOUS
    <2>3. shadow = <<x>>
      BY <2>1, <2>2, Zenon
    <2>4. shadow[1] = x
      BY <2>3
    <2>5. hash_ctx' = Absorbed(Prefix(key) \o <<>>)
      BY <1>1, <2>1, <2>2, <2>4, KeyedIs, Zenon
    <2>. QED BY <1>1, <2>5, Zenon DEF Given
  <1>3. keyed' => shadow' = <<>> \/ shadow' = <<Keyed(key')>>
    BY <1>1, Zenon DEF KmacInv
  <1>4. fed' \in Seq(Int)
    BY <1>1
  <1>5. /\ form' = NoOutput /\ drawn' = <<>> /\ ~ final_called' /\ turned' = FALSE
        /\ final_called' \in BOOLEAN /\ purpose' = purpose
    BY DEF KmacReinit, Restart
  <1>. QED
    BY <1>1, <1>2, <1>3, <1>4, <1>5, Zenon DEF KmacInv

\* A zeroized context needs a new key.
LEMMA ZeroKeeps ==
  ASSUME KmacInv, KmacZero
  PROVE  KmacInv'
  <1>1. fed' \in Seq(Int) /\ key' \in Nat
    BY DEF KmacZero, Restart
  <1>. QED BY <1>1 DEF KmacInv, KmacZero, Restart

\* Updates, and seeds of the generator.
LEMMA FeedKeeps ==
  ASSUME KmacInv, keyed, NEW n \in Inputs, Feed(n),
         UNCHANGED <<purpose, shadow, final_called, keyed, key, form, drawn>>
  PROVE  KmacInv'
  <1>1. n \in Nat
    BY KmacConstants
  <1>2. fed' = fed \o NewBytes(n) /\ hash_ctx' = KeccakAbsorb(hash_ctx, NewBytes(n))
    BY Zenon DEF Feed
  <1>3. fed' \in Seq(Int)
    BY <1>1, <1>2, FedMore, Zenon
  <1>4. ASSUME form = NoOutput
        PROVE  hash_ctx' = Absorbed(Given')
    <2>1. hash_ctx = Absorbed(Given)
      BY <1>4, Zenon DEF KmacInv
    <2>2. hash_ctx' = Absorbed(Prefix(key) \o fed')
      BY <1>1, <1>2, <2>1, FedMore, Zenon
    <2>. QED BY <2>2, Zenon DEF Given
  <1>5. form # NoOutput => turned'
    BY Zenon DEF Feed
  <1>6. turned' \in BOOLEAN
    BY DEF Feed, KmacInv
  <1>7. keyed' => shadow' = <<>> \/ shadow' = <<Keyed(key')>>
    BY Zenon DEF KmacInv
  <1>. QED
    BY <1>3, <1>4, <1>5, <1>6, <1>7 DEF KmacInv

\* The MAC.
LEMMA FinalKeeps ==
  ASSUME KmacInv, NEW n \in Macs, KmacFinal(n)
  PROVE  KmacInv'
  <1>1. n \in Nat /\ n # 0 /\ n # NoOutput
    BY KmacConstants DEF KmacFinal, NoOutput
  <1>2. PICK c : c = KeccakAbsorb(hash_ctx, RightEncode(n))
    OBVIOUS
  <1>3. PICK m : m = Prefix(key) \o fed \o RightEncode(n)
    OBVIOUS
  <1>4. key \in Nat /\ fed \in Seq(Int)
    BY Zenon DEF KmacInv
  <1>5. hash_ctx = Absorbed(Prefix(key) \o fed) /\ drawn = <<>>
    BY Zenon DEF KmacInv, KmacFinal, Given
  <1>6. m \in Seq(Int) /\ KeccakDone(c, m, drawn)
    BY <1>1, <1>2, <1>3, <1>4, <1>5, LengthAdded, Zenon
  <1>7. Drawn(c, n)
    BY <1>2, Zenon DEF KmacFinal
  <1>8. KeccakDone(hash_ctx', m, drawn')
    BY <1>1, <1>6, <1>7, DrawnOn, Zenon
  <1>9. form' = n /\ key' = key /\ fed' = fed
    BY DEF KmacFinal
  <1>10. m = MacInput'
    BY <1>3, <1>9, Zenon DEF MacInput
  <1>11. KeccakDone(hash_ctx', MacInput', drawn')
    BY <1>8, <1>10, Zenon
  <1>12. keyed' => shadow' = <<>> \/ shadow' = <<Keyed(key')>>
    BY Zenon DEF KmacInv, KmacFinal
  <1>. QED
    BY <1>1, <1>9, <1>11, <1>12 DEF KmacInv, KmacFinal

\* The XOF output, begun or continued.
LEMMA FinalXofKeeps ==
  ASSUME KmacInv, NEW n \in Macs, KmacFinalXof(n)
  PROVE  KmacInv'
  <1>1. n \in Nat /\ 0 \in Nat
    BY KmacConstants
  <1>2. PICK c : c = IF final_called THEN hash_ctx
                     ELSE KeccakAbsorb(hash_ctx, RightEncode(0))
    OBVIOUS
  <1>3. PICK m : m = Prefix(key) \o fed \o RightEncode(0)
    OBVIOUS
  <1>4. key \in Nat /\ fed \in Seq(Int)
    BY Zenon DEF KmacInv
  <1>5. m \in Seq(Int)
    BY <1>1, <1>3, <1>4, LengthAdded, Zenon
  <1>6. ~ turned => KeccakDone(c, m, drawn)
    <2>1. CASE form = NoOutput
      <3>1. hash_ctx = Absorbed(Prefix(key) \o fed) /\ drawn = <<>> /\ ~ final_called
        BY <2>1, Zenon DEF KmacInv, KmacFinalXof, Given
      <3>. QED BY <1>1, <1>2, <1>3, <1>4, <3>1, LengthAdded, Zenon
    <2>2. CASE form = 0
      <3>1. final_called /\ (~ turned => KeccakDone(hash_ctx, MacInput, drawn))
        BY <1>1, <2>2, KmacPieces, Zenon DEF KmacInv, KmacFinalXof
      <3>2. MacInput = m /\ c = hash_ctx
        BY <1>2, <1>3, <2>2, <3>1, Zenon DEF MacInput
      <3>. QED BY <3>1, <3>2, Zenon
    <2>. QED BY <2>1, <2>2, Zenon DEF KmacFinalXof
  <1>7. Drawn(c, n)
    BY <1>2, Zenon DEF KmacFinalXof, FinalXof
  <1>8. ~ turned => KeccakDone(hash_ctx', m, drawn')
    BY <1>1, <1>5, <1>6, <1>7, DrawnOn, Zenon
  <1>9. form' = 0 /\ key' = key /\ fed' = fed /\ turned' = turned /\ final_called'
    BY DEF KmacFinalXof, FinalXof
  <1>10. m = MacInput'
    BY <1>3, <1>9, Zenon DEF MacInput
  <1>11. ~ turned' => KeccakDone(hash_ctx', MacInput', drawn')
    BY <1>8, <1>9, <1>10, Zenon
  <1>12. keyed' => shadow' = <<>> \/ shadow' = <<Keyed(key')>>
    BY Zenon DEF KmacInv, KmacFinalXof
  <1>13. final_called' \in BOOLEAN /\ 0 # NoOutput
    BY DEF KmacFinalXof, FinalXof, NoOutput
  <1>. QED
    BY <1>9, <1>11, <1>12, <1>13 DEF KmacInv, KmacFinalXof

\* The generator, with and without additional input.
LEMMA GenerateKeeps ==
  ASSUME KmacInv, NEW n \in Inputs, NEW out \in Macs, RngGenerate(n, out)
  PROVE  KmacInv'
  <1>1. n \in Nat /\ out \in Nat /\ 0 \in Nat
    BY KmacConstants
  <1>2. PICK x : x = IF n = 0 THEN hash_ctx ELSE KeccakAbsorb(hash_ctx, NewBytes(n))
    OBVIOUS
  <1>3. PICK c : c = IF final_called THEN x ELSE KeccakAbsorb(x, RightEncode(0))
    OBVIOUS
  <1>4. PICK f : f = fed \o NewBytes(n)
    OBVIOUS
  <1>5. PICK m : m = Prefix(key) \o f \o RightEncode(0)
    OBVIOUS
  <1>6. key \in Nat /\ f \in Seq(Int) /\ (n = 0 => f = fed)
    <2>1. fed \o NewBytes(n) \in Seq(Int) /\ fed \o NewBytes(0) = fed
      BY <1>1, FedMore, Zenon
    <2>. QED BY <1>4, <2>1, Zenon DEF KmacInv
  <1>7. m \in Seq(Int)
    BY <1>1, <1>5, <1>6, LengthAdded, Zenon
  <1>8. fed' = f /\ key' = key /\ form' = 0 /\ final_called'
    BY <1>4, Zenon DEF RngGenerate, FinalXof
  <1>9. turned' = (turned \/ (n > 0 /\ form # NoOutput))
    BY Zenon DEF RngGenerate
  <1>10. ASSUME keyed PROVE ~ turned' => KeccakDone(c, m, drawn)
    <2>1. CASE form = NoOutput
      <3>1. hash_ctx = Absorbed(Given) /\ drawn = <<>> /\ ~ final_called
        BY <1>10, <2>1, Zenon DEF KmacInv
      <3>2. x = Absorbed(Prefix(key) \o f)
        <4>1. CASE n = 0
          BY <1>2, <1>6, <3>1, <4>1, Zenon DEF Given
        <4>2. CASE n # 0
          <5>1. KeccakAbsorb(Absorbed(Given), NewBytes(n)) =
                  Absorbed(Prefix(key) \o (fed \o NewBytes(n)))
            BY <1>1, FedMore, Zenon
          <5>. QED BY <1>2, <1>4, <3>1, <4>2, <5>1, Zenon
        <4>. QED BY <4>1, <4>2, Zenon
      <3>. QED BY <1>1, <1>3, <1>5, <1>6, <3>1, <3>2, LengthAdded, Zenon
    <2>2. CASE form # NoOutput /\ n = 0
      <3>1. form = 0 /\ final_called /\ (~ turned => KeccakDone(hash_ctx, MacInput, drawn))
        BY <1>10, <2>2, Zenon DEF KmacInv, RngGenerate
      <3>2. m = MacInput /\ c = hash_ctx
        BY <1>2, <1>3, <1>5, <1>6, <2>2, <3>1, Zenon DEF MacInput
      <3>. QED BY <1>9, <3>1, <3>2, Zenon
    <2>3. CASE form # NoOutput /\ n # 0
      <3>1. n > 0
        BY <1>1, <2>3
      <3>. QED BY <1>9, <2>3, <3>1, Zenon
    <2>. QED BY <2>1, <2>2, <2>3, Zenon
  <1>11. Drawn(c, out)
    BY <1>2, <1>3, Zenon DEF RngGenerate, FinalXof
  <1>12. keyed /\ ~ turned' => KeccakDone(hash_ctx', m, drawn')
    BY <1>1, <1>7, <1>10, <1>11, DrawnOn, Zenon
  <1>13. m = MacInput'
    BY <1>5, <1>8, Zenon DEF MacInput
  <1>14. keyed /\ ~ turned' => KeccakDone(hash_ctx', MacInput', drawn')
    BY <1>12, <1>13, Zenon
  <1>15. keyed' => shadow' = <<>> \/ shadow' = <<Keyed(key')>>
    BY Zenon DEF KmacInv, RngGenerate
  <1>16. final_called' \in BOOLEAN /\ 0 # NoOutput /\ turned' \in BOOLEAN
    BY <1>9 DEF RngGenerate, FinalXof, NoOutput, KmacInv
  <1>17. fed' \in Seq(Int)
    BY <1>6, <1>8, Zenon
  <1>. QED
    BY <1>8, <1>14, <1>15, <1>16, <1>17 DEF KmacInv, RngGenerate

\* The invariant of the KMAC context (lc_kmac_init, lc_kmac_update,
\* lc_kmac_final, lc_kmac_final_xof, lc_kmac_reinit and lc_kmac_zero, and the
\* RNG on top): the hash state is the one that what was fed, and then the
\* length, lead to, and the shadow is the keyed state.
THEOREM KmacInvHolds == KmacSpec => []KmacInv
  <1>1. KmacInitial => KmacInv
    <2>. SUFFICES ASSUME KmacInitial PROVE KmacInv
      OBVIOUS
    <2>1. fed \in Seq(Int)
      BY DEF KmacInitial
    <2>. QED BY <2>1 DEF KmacInitial, KmacInv
  <1>2. ASSUME KmacInv, [KmacNext]_kmacVars PROVE KmacInv'
    <2>1. ASSUME NEW k \in Keys, KmacInit(k) PROVE KmacInv'
      BY <1>2, <2>1, InitKeeps, Zenon
    <2>2. CASE KmacReinit
      BY <1>2, <2>2, ReinitKeeps, Zenon
    <2>3. CASE KmacZero
      BY <1>2, <2>3, ZeroKeeps, Zenon
    <2>4. ASSUME NEW n \in Inputs, KmacUpdate(n) PROVE KmacInv'
      <3>1. /\ keyed /\ Feed(n)
            /\ UNCHANGED <<purpose, shadow, final_called, keyed, key, form, drawn>>
        BY <2>4, Zenon DEF KmacUpdate
      <3>. QED BY <1>2, <3>1, FeedKeeps, Zenon
    <2>5. ASSUME NEW n \in Inputs, RngReseed(n) PROVE KmacInv'
      <3>1. /\ keyed /\ Feed(n)
            /\ UNCHANGED <<purpose, shadow, final_called, keyed, key, form, drawn>>
        BY <2>5, Zenon DEF RngReseed
      <3>. QED BY <1>2, <3>1, FeedKeeps, Zenon
    <2>6. ASSUME NEW n \in Macs, KmacFinal(n) PROVE KmacInv'
      BY <1>2, <2>6, FinalKeeps, Zenon
    <2>7. ASSUME NEW n \in Macs, KmacFinalXof(n) PROVE KmacInv'
      BY <1>2, <2>7, FinalXofKeeps, Zenon
    <2>8. ASSUME NEW n \in Inputs, NEW out \in Macs, RngGenerate(n, out)
          PROVE  KmacInv'
      BY <1>2, <2>8, GenerateKeeps, Zenon
    <2>9. CASE UNCHANGED kmacVars
      BY <1>2, <2>9, Zenon DEF KmacInv, kmacVars, Given, MacInput
    <2>. QED
      BY <1>2, <2>1, <2>2, <2>3, <2>4, <2>5, <2>6, <2>7, <2>8, <2>9, Zenon
      DEF KmacNext
  <1>. QED BY <1>1, <1>2, PTL DEF KmacSpec

\* SP 800-185: for every rate, key and message, the MAC that lc_kmac_final and
\* lc_kmac_final_xof hand out, and what lc_kmac_rng_generate draws, are those
\* of KMAC, however the message and the output were cut into pieces and
\* whatever was done before with the context.
THEOREM MacIsOfMessage == KmacSpec => []MacOfMessage
  <1>1. ASSUME KmacInv PROVE MacOfMessage
    <2>. SUFFICES ASSUME keyed, form # NoOutput, ~ turned, NEW i \in 1..Len(drawn)
                  PROVE  drawn[i] =
                           KeccakByte(Prefix(key) \o fed \o RightEncode(form), i)
      BY Zenon DEF MacOfMessage
    <2>1. form \in Nat /\ key \in Nat /\ fed \in Seq(Int)
      BY <1>1, Zenon DEF KmacInv
    <2>2. MacInput \in Seq(Int)
      BY <2>1, LengthAdded, Zenon DEF MacInput
    <2>3. KeccakDone(hash_ctx, MacInput, drawn)
      BY <1>1, Zenon DEF KmacInv
    <2>4. \A j \in 1..Len(drawn) : drawn[j] = KeccakByte(MacInput, j)
      BY <2>2, <2>3, KmacConstants, KeccakIsRight
    <2>. QED BY <2>4, Zenon DEF MacInput
  <1>. QED BY <1>1, KmacInvHolds, PTL
=============================================================================
